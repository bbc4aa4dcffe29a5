---------------------------- MODULE SyncRunProofs ----------------------------
(***************************************************************************)
(* What the plans of the row phases and the run over several tables        *)
(* promise, for every set of tables, foreign keys, keys and rows.          *)
(***************************************************************************)
EXTENDS SyncRun, FiniteSetTheorems, TLAPS

-----------------------------------------------------------------------------
(* Loops *)

(* A non-empty set of naturals has a least element. *)
LEMMA LeastNatural ==
  ASSUME NEW S \in SUBSET Nat, S # {}
  PROVE  \E m \in S : \A j \in S : m <= j
<1>1. PICK m \in S : \A y \in S : ~ (<<y, m>> \in OpToRel(<, Nat))
  <2>1. IsWellFoundedOn(OpToRel(<, Nat), Nat)
    BY NatLessThanWellFounded
  <2> HIDE DEF OpToRel
  <2>2. QED
    BY <2>1, WFMin
<1>2. \A j \in S : ~ (j < m)
  BY <1>1, Zenon DEF OpToRel
<1>3. QED
  BY <1>2

(* What holds of 0 and of the successor of each number it holds of. *)
LEMMA Induction ==
  ASSUME NEW S \in SUBSET Nat, 0 \in S, \A n \in S : n + 1 \in S
  PROVE  \A n \in Nat : n \in S
<1> SUFFICES ASSUME NEW n \in Nat, n \notin S
             PROVE  FALSE
  OBVIOUS
<1> DEFINE T == Nat \ S
<1>1. PICK m \in T : \A j \in T : m <= j
  <2>1. T \in SUBSET Nat /\ T # {}
    OBVIOUS
  <2>2. QED
    BY <2>1, LeastNatural, Zenon
<1>2. m # 0 /\ m - 1 \in Nat /\ m - 1 \notin T
  BY <1>1
<1>3. m - 1 \in S
  BY <1>2
<1>4. m - 1 + 1 = m
  BY <1>1
<1>5. QED
  BY <1>3, <1>4

Chain(turn, start, f, n) ==
  /\ f[0] = start
  /\ \A i \in 0 .. n - 1 : f[i + 1] = turn[f[i]]

(* The values of a loop after some turns are determined by its start. *)
LEMMA ChainsAgree ==
  ASSUME NEW turn, NEW start, NEW f, NEW g, NEW n \in Nat, NEW m \in Nat, n <= m,
         Chain(turn, start, f, n), Chain(turn, start, g, m)
  PROVE  f[n] = g[n]
<1> DEFINE S == {i \in Nat : i <= n => f[i] = g[i]}
<1>1. 0 \in S
  BY DEF Chain
<1>2. ASSUME NEW i \in S
      PROVE  i + 1 \in S
  <2> SUFFICES ASSUME i + 1 <= n
               PROVE  f[i + 1] = g[i + 1]
    OBVIOUS
  <2>1. i \in 0 .. n - 1 /\ i \in 0 .. m - 1 /\ f[i] = g[i]
    OBVIOUS
  <2>2. QED
    BY <2>1 DEF Chain
<1>3. n \in S
  BY <1>1, <1>2, Induction, Zenon
<1>4. QED
  BY <1>3

LEMMA ChainExists ==
  ASSUME NEW S, NEW turn \in [S -> S], NEW start \in S
  PROVE  \A n \in Nat : \E f \in [0 .. n -> S] : Chain(turn, start, f, n)
<1> DEFINE T == {n \in Nat : \E f \in [0 .. n -> S] : Chain(turn, start, f, n)}
<1>1. 0 \in T
  <2> DEFINE f == [i \in 0 .. 0 |-> start]
  <2>1. f \in [0 .. 0 -> S] /\ Chain(turn, start, f, 0)
    BY DEF Chain
  <2>2. QED
    BY <2>1
<1>2. ASSUME NEW n \in T
      PROVE  n + 1 \in T
  <2>1. PICK f \in [0 .. n -> S] : Chain(turn, start, f, n)
    OBVIOUS
  <2> DEFINE g == [i \in 0 .. n + 1 |-> IF i = n + 1 THEN turn[f[n]] ELSE f[i]]
  <2>2. g \in [0 .. n + 1 -> S]
    OBVIOUS
  <2>3. g[0] = start
    BY <2>1 DEF Chain
  <2>4. ASSUME NEW i \in 0 .. n + 1 - 1
        PROVE  g[i + 1] = turn[g[i]]
    <3>1. CASE i = n
      BY <3>1
    <3>2. CASE i # n
      <4>1. i \in 0 .. n - 1 /\ i + 1 \in 0 .. n + 1 /\ i + 1 # n + 1 /\ i # n + 1
        BY <3>2
      <4>2. g[i] = f[i] /\ g[i + 1] = f[i + 1]
        BY <4>1
      <4>3. QED
        BY <4>1, <4>2, <2>1 DEF Chain
    <3>3. QED
      BY <3>1, <3>2
  <2> HIDE DEF g
  <2>5. Chain(turn, start, g, n + 1)
    BY <2>3, <2>4 DEF Chain
  <2>6. QED
    BY <2>2, <2>5
<1>3. \A n \in Nat : n \in T
  BY <1>1, <1>2, Induction, Zenon
<1>4. QED
  BY <1>3

(* Repeat holds the start before the first turn and what each turn makes   *)
(* of it afterwards.                                                       *)
LEMMA RepeatTurns ==
  ASSUME NEW S, NEW turn \in [S -> S], NEW start \in S
  PROVE  /\ Repeat(turn, start) \in [Nat -> S]
         /\ Repeat(turn, start)[0] = start
         /\ \A n \in Nat : Repeat(turn, start)[n + 1] = turn[Repeat(turn, start)[n]]
<1> DEFINE Pick(n) == CHOOSE f \in [0 .. n -> S] : Chain(turn, start, f, n)
           F == [n \in Nat |-> Pick(n)[n]]
           H == Repeat(turn, start)
<1>1. \A n \in Nat : Pick(n) \in [0 .. n -> S] /\ Chain(turn, start, Pick(n), n)
  BY ChainExists
<1> HIDE DEF Pick
<1>2. F[0] = start
  BY <1>1 DEF Chain
<1>3. ASSUME NEW n \in Nat
      PROVE  F[n + 1] = turn[F[n]]
  <2>1. Pick(n)[n] = Pick(n + 1)[n]
    BY <1>1, ChainsAgree
  <2>2. n \in 0 .. (n + 1) - 1
    OBVIOUS
  <2>3. Pick(n + 1)[n + 1] = turn[Pick(n + 1)[n]]
    BY <1>1, <2>2 DEF Chain
  <2>4. QED
    BY <2>1, <2>3
<1>4. \A n \in Nat : F[n] = IF n = 0 THEN start ELSE turn[F[n - 1]]
  <2> SUFFICES ASSUME NEW n \in Nat, n # 0
               PROVE  F[n] = turn[F[n - 1]]
    BY <1>2
  <2>1. n - 1 \in Nat /\ n - 1 + 1 = n
    OBVIOUS
  <2> HIDE DEF F
  <2>2. QED
    BY <2>1, <1>3
<1>5. F = [n \in Nat |-> IF n = 0 THEN start ELSE turn[F[n - 1]]]
  BY <1>4
<1>6. \E held : held = [n \in Nat |-> IF n = 0 THEN start ELSE turn[held[n - 1]]]
  BY <1>5, Zenon
<1>7. H = [n \in Nat |-> IF n = 0 THEN start ELSE turn[H[n - 1]]]
  BY <1>6, Zenon DEF Repeat
<1> HIDE DEF H
<1>8. H[0] = start
  BY <1>7
<1>9. ASSUME NEW n \in Nat
      PROVE  H[n + 1] = turn[H[n]]
  <2>1. n + 1 \in Nat /\ n + 1 # 0 /\ n + 1 - 1 = n
    OBVIOUS
  <2>2. H[n + 1] = IF n + 1 = 0 THEN start ELSE turn[H[n + 1 - 1]]
    BY <1>7, <2>1
  <2>3. QED
    BY <2>1, <2>2
<1>10. \A n \in Nat : H[n] \in S
  <2> DEFINE T == {n \in Nat : H[n] \in S}
  <2>1. 0 \in T
    BY <1>8
  <2>2. \A n \in T : n + 1 \in T
    BY <1>9
  <2>3. \A n \in Nat : n \in T
    BY <2>1, <2>2, Induction, Zenon
  <2>4. QED
    BY <2>3
<1>11. DOMAIN H = Nat
  BY <1>7
<1>12. H \in [Nat -> S]
  <2>1. H = [n \in Nat |-> H[n]]
    BY <1>7
  <2>2. QED
    BY <2>1, <1>10
<1>13. QED
  BY <1>8, <1>9, <1>12 DEF H

-----------------------------------------------------------------------------
(* Plans *)

(* What schedule_batches has scheduled after each of its turns. *)
LEMMA ScheduledTurns ==
  ASSUME NEW before, NEW selected, NEW parallelism
  PROVE  LET done == Scheduled(before, selected, parallelism)
         IN /\ done \in [Nat -> SUBSET selected]
            /\ done[0] = {}
            /\ \A n \in Nat :
                 done[n + 1] = done[n] \cup FirstN(ReadyTables(before, done[n], selected), parallelism)
<1> DEFINE turn == [done \in SUBSET selected |->
                      done \cup FirstN(ReadyTables(before, done, selected), parallelism)]
<1>1. turn \in [SUBSET selected -> SUBSET selected]
  BY DEF FirstN, ReadyTables
<1>2. \A d \in SUBSET selected :
        turn[d] = d \cup FirstN(ReadyTables(before, d, selected), parallelism)
  OBVIOUS
<1>3. Scheduled(before, selected, parallelism) = Repeat(turn, {})
  BY DEF Scheduled
<1>4. {} \in SUBSET selected
  OBVIOUS
<1> HIDE DEF turn
<1>5. /\ Repeat(turn, {}) \in [Nat -> SUBSET selected]
      /\ Repeat(turn, {})[0] = {}
      /\ \A n \in Nat : Repeat(turn, {})[n + 1] = turn[Repeat(turn, {})[n]]
  BY <1>1, <1>4, RepeatTurns
<1>6. QED
  BY <1>2, <1>3, <1>5

LEMMA ScheduledGrows ==
  ASSUME NEW before, NEW selected, NEW parallelism, NEW i \in Nat, NEW j \in Nat, i <= j
  PROVE  Scheduled(before, selected, parallelism)[i] \subseteq Scheduled(before, selected, parallelism)[j]
<1> PICK done : done = Scheduled(before, selected, parallelism)
  OBVIOUS
<1>1. \A n \in Nat : done[n] \subseteq done[n + 1]
  BY ScheduledTurns
<1> DEFINE S == {n \in Nat : i <= n => done[i] \subseteq done[n]}
<1>2. 0 \in S
  OBVIOUS
<1>3. ASSUME NEW n \in S
      PROVE  n + 1 \in S
  <2>1. CASE i = n + 1
    BY <2>1
  <2>2. CASE i # n + 1
    <3>1. i <= n + 1 => i <= n
      BY <2>2
    <3>2. QED
      BY <3>1, <1>1
  <2>3. QED
    BY <2>1, <2>2
<1>4. j \in S
  BY <1>2, <1>3, Induction, Zenon
<1>5. QED
  BY <1>4

(* The first tables of a non-empty set are some. *)
LEMMA FirstOfSome ==
  ASSUME NEW set \in SUBSET Nat, set # {}, NEW n \in Nat \ {0}
  PROVE  FirstN(set, n) # {}
<1>1. PICK m \in set : \A j \in set : m <= j
  BY LeastNatural
<1>2. {y \in set : y < m} = {}
  <2>1. \A y \in set : m \in Nat /\ y \in Nat /\ m <= y
    BY <1>1
  <2>2. \A y \in set : ~ (y < m)
    BY <2>1
  <2>3. QED
    BY <2>2, Zenon
<1>3. Cardinality({y \in set : y < m}) = 0
  BY <1>2, FS_EmptySet
<1>4. QED
  BY <1>1, <1>3 DEF FirstN

(* The tables are numbered so that what comes before has a smaller number. *)
Numbered(before, selected) ==
  \E rank \in [selected -> Nat] : \A e \in before :
    e[1] \in selected /\ e[2] \in selected => rank[e[1]] < rank[e[2]]

(* Without a cycle some table is ready as long as one is left. *)
LEMMA SomeTableIsReady ==
  ASSUME NEW selected \in SUBSET Nat, NEW before,
         \A e \in before : e[1] \in selected /\ e[2] \in selected,
         Numbered(before, selected), NEW done \in SUBSET selected, done # selected
  PROVE  ReadyTables(before, done, selected) # {}
<1>1. PICK rank \in [selected -> Nat] : \A e \in before :
             e[1] \in selected /\ e[2] \in selected => rank[e[1]] < rank[e[2]]
  BY DEF Numbered
<1> DEFINE S == {rank[t] : t \in selected \ done}
<1>2. PICK m \in S : \A j \in S : m <= j
  <2>1. S \in SUBSET Nat /\ S # {}
    BY Zenon
  <2>2. QED
    BY <2>1, LeastNatural, Zenon
<1>3. PICK t \in selected \ done : rank[t] = m
  OBVIOUS
<1>4. ASSUME NEW e \in before, e[2] = t
      PROVE  e[1] \in done
  <2>1. e[1] \in selected /\ rank[e[1]] < m
    BY <1>1, <1>3, <1>4
  <2>2. CASE e[1] \notin done
    <3>1. rank[e[1]] \in S
      BY <2>1, <2>2, Zenon
    <3>2. m <= rank[e[1]]
      BY <3>1, <1>2
    <3>3. m \in Nat /\ rank[e[1]] \in Nat
      BY <1>2, <2>1, Zenon
    <3>4. QED
      BY <2>1, <3>2, <3>3
  <2>3. QED
    BY <2>2
<1>5. t \in ReadyTables(before, done, selected)
  BY <1>4 DEF ReadyTables
<1>6. QED
  BY <1>5

LEMMA ScheduledProgress ==
  ASSUME NEW selected \in SUBSET Nat, NEW before,
         \A e \in before : e[1] \in selected /\ e[2] \in selected,
         Numbered(before, selected), NEW parallelism \in Nat \ {0}, NEW n \in Nat,
         Scheduled(before, selected, parallelism)[n] # selected
  PROVE  Scheduled(before, selected, parallelism)[n + 1] # Scheduled(before, selected, parallelism)[n]
<1> PICK done : done = Scheduled(before, selected, parallelism)
  OBVIOUS
<1> DEFINE ready == ReadyTables(before, done[n], selected)
<1>1. done[n] \in SUBSET selected /\ done[n + 1] = done[n] \cup FirstN(ready, parallelism)
  BY ScheduledTurns
<1>2. ready # {} /\ ready \in SUBSET Nat
  <2>1. ready # {}
    BY <1>1, SomeTableIsReady, Zenon
  <2>2. QED
    BY <2>1, Zenon DEF ReadyTables
<1>3. PICK t : t \in FirstN(ready, parallelism)
  BY <1>2, FirstOfSome
<1>4. t \notin done[n]
  BY <1>3 DEF FirstN, ReadyTables
<1>5. QED
  BY <1>1, <1>3, <1>4

(* Without a cycle every table is scheduled after as many turns as there   *)
(* are tables.                                                             *)
LEMMA AllScheduled ==
  ASSUME NEW selected \in SUBSET Nat, IsFiniteSet(selected), NEW before,
         \A e \in before : e[1] \in selected /\ e[2] \in selected,
         Numbered(before, selected), NEW parallelism \in Nat \ {0}
  PROVE  Scheduled(before, selected, parallelism)[Cardinality(selected)] = selected
<1> PICK done : done = Scheduled(before, selected, parallelism)
  OBVIOUS
<1>1. \A n \in Nat : done[n] \in SUBSET selected
  BY ScheduledTurns
<1>2. \A n \in Nat : /\ IsFiniteSet(done[n]) /\ Cardinality(done[n]) \in Nat
                     /\ Cardinality(done[n]) <= Cardinality(selected)
                     /\ Cardinality(done[n]) = Cardinality(selected) => done[n] = selected
  BY <1>1, FS_Subset, FS_CardinalityType
<1> DEFINE S == {n \in Nat : done[n] = selected \/ n <= Cardinality(done[n])}
<1>3. 0 \in S
  BY <1>2
<1>4. ASSUME NEW n \in S
      PROVE  n + 1 \in S
  <2>1. done[n] \subseteq done[n + 1]
    BY ScheduledGrows
  <2>2. CASE done[n] = selected
    <3>1. n + 1 \in Nat /\ done[n + 1] \in SUBSET selected
      BY <1>1
    <3>2. done[n + 1] = selected
      BY <2>1, <2>2, <3>1, Zenon
    <3>3. QED
      BY <3>1, <3>2
  <2>3. CASE done[n] # selected
    <3>1. done[n + 1] # done[n]
      BY <2>3, ScheduledProgress
    <3>2. n + 1 \in Nat /\ IsFiniteSet(done[n + 1])
      BY <1>2
    <3>3. Cardinality(done[n]) <= Cardinality(done[n + 1])
          /\ (Cardinality(done[n + 1]) = Cardinality(done[n]) => done[n + 1] = done[n])
      BY <2>1, <3>2, FS_Subset
    <3>4. n <= Cardinality(done[n])
      BY <2>3
    <3>5. Cardinality(done[n]) \in Nat /\ Cardinality(done[n + 1]) \in Nat
      BY <1>2, <3>2
    <3>6. n + 1 <= Cardinality(done[n + 1])
      BY <3>1, <3>3, <3>4, <3>5
    <3>7. QED
      BY <3>2, <3>6
  <2>4. QED
    BY <2>2, <2>3
<1>5. \A n \in Nat : n \in S
  BY <1>3, <1>4, Induction, Zenon
<1>6. Cardinality(selected) \in Nat
  BY FS_CardinalityType
<1>7. QED
  BY <1>2, <1>5, <1>6

(* A batch is what one turn has added. *)
LEMMA BatchOfTurn ==
  ASSUME NEW before, NEW selected, NEW parallelism,
         NEW done, done = Scheduled(before, selected, parallelism),
         NEW batches, batches = schedule_batches(before, selected, parallelism)
  PROVE  /\ \A m : m \in DOMAIN batches <=> m \in 1 .. Cardinality(selected) /\ done[m] # done[m - 1]
         /\ \A n \in DOMAIN batches : batches[n] = done[n] \ done[n - 1]
         /\ batches = [n \in DOMAIN batches |-> batches[n]]
BY DEF schedule_batches

(* A table is in a later batch than every table that comes before it. *)
LEMMA BatchesInOrder ==
  ASSUME NEW before, NEW selected, IsFiniteSet(selected), NEW parallelism, NEW e \in before,
         NEW i \in DOMAIN schedule_batches(before, selected, parallelism),
         NEW j \in DOMAIN schedule_batches(before, selected, parallelism),
         e[2] \in schedule_batches(before, selected, parallelism)[i],
         e[1] \in schedule_batches(before, selected, parallelism)[j]
  PROVE  j < i
<1> PICK done : done = Scheduled(before, selected, parallelism)
  OBVIOUS
<1> PICK batches : batches = schedule_batches(before, selected, parallelism)
  OBVIOUS
<1>1. /\ i \in 1 .. Cardinality(selected) /\ j \in 1 .. Cardinality(selected)
      /\ e[2] \in done[i] \ done[i - 1] /\ e[1] \in done[j] \ done[j - 1]
  BY BatchOfTurn
<1>2. Cardinality(selected) \in Nat
  BY FS_CardinalityType
<1>3. i - 1 \in Nat /\ j - 1 \in Nat /\ i - 1 + 1 = i
  BY <1>1, <1>2
<1>4. done[i] = done[i - 1] \cup FirstN(ReadyTables(before, done[i - 1], selected), parallelism)
  BY <1>3, ScheduledTurns
<1>5. e[2] \in ReadyTables(before, done[i - 1], selected)
  BY <1>1, <1>4 DEF FirstN
<1>6. e[1] \in done[i - 1]
  BY <1>5 DEF ReadyTables
<1>7. ~ (i - 1 <= j - 1)
  <2> SUFFICES ASSUME i - 1 <= j - 1
               PROVE  FALSE
    OBVIOUS
  <2>1. done[i - 1] \subseteq done[j - 1]
    BY <1>3, ScheduledGrows
  <2>2. QED
    BY <2>1, <1>1, <1>6
<1>8. QED
  BY <1>1, <1>2, <1>7

(* Without a cycle the batches are a sequence that has every table. *)
LEMMA BatchesAreComplete ==
  ASSUME NEW selected \in SUBSET Nat, IsFiniteSet(selected), NEW before,
         \A e \in before : e[1] \in selected /\ e[2] \in selected,
         Numbered(before, selected), NEW parallelism \in Nat \ {0}
  PROVE  /\ schedule_batches(before, selected, parallelism) \in Seq(SUBSET selected)
         /\ Planned(schedule_batches(before, selected, parallelism)) = selected
<1> PICK done : done = Scheduled(before, selected, parallelism)
  OBVIOUS
<1> PICK batches : batches = schedule_batches(before, selected, parallelism)
  OBVIOUS
<1> PICK c : c = Cardinality(selected)
  OBVIOUS
<1>1. c \in Nat
  BY FS_CardinalityType
<1>2. /\ \A m : m \in DOMAIN batches <=> m \in 1 .. c /\ done[m] # done[m - 1]
      /\ \A n \in DOMAIN batches : batches[n] = done[n] \ done[n - 1]
      /\ batches = [n \in DOMAIN batches |-> batches[n]]
  BY BatchOfTurn
<1>3. done[c] = selected
  BY AllScheduled
<1>4. \A n \in Nat : done[n] \in SUBSET selected
  BY ScheduledTurns
<1> DEFINE S == {n \in Nat : done[n] = selected}
<1>5. PICK last \in S : \A j \in S : last <= j
  <2>1. S \in SUBSET Nat /\ S # {}
    BY <1>1, <1>3
  <2>2. QED
    BY <2>1, LeastNatural, Zenon
<1>6. last \in Nat /\ last <= c /\ done[last] = selected
  BY <1>1, <1>3, <1>5
<1>7. ASSUME NEW m \in 1 .. c, m <= last
      PROVE  done[m] # done[m - 1]
  <2>1. m - 1 \in Nat /\ ~ (last <= m - 1) /\ m - 1 + 1 = m
    BY <1>1, <1>6, <1>7
  <2>2. done[m - 1] # selected
    BY <2>1, <1>5
  <2>3. QED
    BY <2>1, <2>2, ScheduledProgress, Zenon
<1>8. ASSUME NEW m \in 1 .. c, ~ (m <= last)
      PROVE  done[m] = done[m - 1]
  <2>1. m \in Nat /\ m - 1 \in Nat /\ last <= m - 1 /\ last <= m
    BY <1>1, <1>6, <1>8
  <2>2. selected \subseteq done[m] /\ selected \subseteq done[m - 1]
    BY <2>1, <1>6, ScheduledGrows
  <2>3. QED
    BY <2>1, <2>2, <1>4, Zenon
<1>9. DOMAIN batches = 1 .. last
  <2>1. \A m : m \in 1 .. last <=> m \in 1 .. c /\ m <= last
    BY <1>1, <1>6
  <2>2. \A m : m \in DOMAIN batches <=> m \in 1 .. last
    BY <2>1, <1>2, <1>7, <1>8
  <2>3. QED
    BY <2>2, Zenon
<1>10. batches \in [1 .. last -> SUBSET selected]
  <2>1. batches = [n \in DOMAIN batches |-> batches[n]]
    BY <1>2
  <2>2. \A n \in 1 .. last : batches[n] \in SUBSET selected
    <3>1. \A n \in 1 .. last : n \in Nat
      BY <1>6
    <3>2. QED
      BY <3>1, <1>2, <1>4, <1>9
  <2>3. QED
    BY <2>1, <2>2, <1>9
<1>11. batches \in Seq(SUBSET selected)
  BY <1>6, <1>10
<1>12. ASSUME NEW t \in selected
       PROVE  \E n \in DOMAIN batches : t \in batches[n]
  <2> DEFINE T == {n \in Nat : t \in done[n]}
  <2>1. PICK n \in T : \A j \in T : n <= j
    <3>1. T \in SUBSET Nat /\ T # {}
      BY <1>6
    <3>2. QED
      BY <3>1, LeastNatural, Zenon
  <2>2. n # 0
    BY <2>1, ScheduledTurns
  <2>3. last \in T
    BY <1>6
  <2>4. n \in 1 .. last /\ n - 1 \in Nat /\ ~ (n <= n - 1)
    BY <2>1, <2>2, <2>3, <1>6
  <2>5. t \notin done[n - 1]
    BY <2>1, <2>4
  <2>6. t \in done[n]
    BY <2>1
  <2>7. QED
    BY <2>4, <2>5, <2>6, <1>2, <1>9
<1>13. Planned(batches) = selected
  <2>1. \A n \in DOMAIN batches : batches[n] \subseteq selected
    BY <1>9, <1>10
  <2>2. Planned(batches) \subseteq selected
    BY <2>1 DEF Planned
  <2>3. selected \subseteq Planned(batches)
    BY <1>12, Zenon DEF Planned
  <2>4. QED
    BY <2>2, <2>3, Zenon
<1>14. QED
  BY <1>11, <1>13

-----------------------------------------------------------------------------

(* The foreign keys among the selected tables have no cycle: the tables    *)
(* can be numbered so that a parent has a smaller number than its child.   *)
Acyclic(keys, selected) ==
  \E top \in Nat : \E rank \in [selected -> 0 .. top] :
    \A k \in SelectedKeys(keys, selected) : rank[k[2]] < rank[k[1]]

(* The batches hold every table, and one that comes first in an earlier    *)
(* batch.                                                                  *)
IsPlan(batches, keys, selected, direction) ==
  /\ batches \in Seq(SUBSET selected)
  /\ \A t \in selected : \E i \in 1 .. Len(batches) : t \in batches[i]
  /\ \A k \in SelectedKeys(keys, selected) : \A i, j \in 1 .. Len(batches) :
       k[1] \in batches[i] /\ k[2] \in batches[j] =>
         IF direction = "parent_first" THEN j < i ELSE i < j

LEMMA BeforeIsNumbered ==
  ASSUME NEW selected, NEW keys, Acyclic(keys, selected),
         NEW direction \in {"parent_first", "child_first"}
  PROVE  Numbered(Before(keys, selected, direction), selected)
<1>1. PICK top \in Nat : \E rank \in [selected -> 0 .. top] :
             \A k \in SelectedKeys(keys, selected) : rank[k[2]] < rank[k[1]]
  BY DEF Acyclic
<1>2. PICK rank \in [selected -> 0 .. top] :
             \A k \in SelectedKeys(keys, selected) : rank[k[2]] < rank[k[1]]
  BY <1>1
<1>3. CASE direction = "parent_first"
  <2>1. \A e \in Before(keys, selected, direction) : rank[e[1]] < rank[e[2]]
    BY <1>2, <1>3 DEF Before
  <2>2. rank \in [selected -> Nat]
    OBVIOUS
  <2>3. QED
    BY <2>1, <2>2 DEF Numbered
<1>4. CASE direction = "child_first"
  <2> DEFINE back == [t \in selected |-> top - rank[t]]
  <2>1. back \in [selected -> Nat]
    OBVIOUS
  <2>2. ASSUME NEW e \in Before(keys, selected, direction), e[1] \in selected, e[2] \in selected
        PROVE  back[e[1]] < back[e[2]]
    <3>1. rank[e[2]] < rank[e[1]]
      BY <1>2, <1>4 DEF Before
    <3>2. rank[e[1]] \in 0 .. top /\ rank[e[2]] \in 0 .. top
      BY <2>2
    <3>3. QED
      BY <2>2, <3>1, <3>2
  <2> HIDE DEF back
  <2>3. QED
    BY <2>1, <2>2 DEF Numbered
<1>5. QED
  BY <1>3, <1>4

LEMMA BeforeIsSelected ==
  ASSUME NEW selected, NEW keys, NEW direction,
         NEW e \in Before(keys, selected, direction)
  PROVE  e[1] \in selected /\ e[2] \in selected
BY DEF Before, SelectedKeys

(* Rows are planned wherever they can be: over foreign keys without a      *)
(* cycle plan_dependency_batches succeeds in both directions, and its      *)
(* batches put parents before children, or children before parents,        *)
(* whatever the parallelism.                                               *)
THEOREM AcyclicTablesArePlanned ==
  ASSUME NEW selected \in SUBSET Nat, IsFiniteSet(selected), NEW keys, Acyclic(keys, selected),
         NEW direction \in {"parent_first", "child_first"}, NEW parallelism \in Nat \ {0}
  PROVE  LET result == plan_dependency_batches(selected, keys, direction, parallelism)
         IN result.ok /\ IsPlan(result.batches, keys, selected, direction)
<1> PICK before : before = Before(keys, selected, direction)
  OBVIOUS
<1> PICK batches : batches = schedule_batches(before, selected, parallelism)
  OBVIOUS
<1>1. \A e \in before : e[1] \in selected /\ e[2] \in selected
  BY BeforeIsSelected
<1>2. Numbered(before, selected)
  BY BeforeIsNumbered
<1>3. batches \in Seq(SUBSET selected) /\ Planned(batches) = selected
  BY <1>1, <1>2, BatchesAreComplete
<1>4. DOMAIN batches = 1 .. Len(batches)
  BY <1>3
<1>5. \A k \in SelectedKeys(keys, selected) : k[1] # k[2]
  <2>1. PICK top \in Nat : \E rank \in [selected -> 0 .. top] :
               \A k \in SelectedKeys(keys, selected) : rank[k[2]] < rank[k[1]]
    BY DEF Acyclic
  <2>2. PICK rank \in [selected -> 0 .. top] :
               \A k \in SelectedKeys(keys, selected) : rank[k[2]] < rank[k[1]]
    BY <2>1
  <2>3. \A k \in SelectedKeys(keys, selected) : rank[k[1]] \in 0 .. top /\ rank[k[2]] \in 0 .. top
    BY Zenon DEF SelectedKeys
  <2>4. QED
    BY <2>2, <2>3
<1>6. plan_dependency_batches(selected, keys, direction, parallelism)
        = [ok |-> TRUE, batches |-> batches]
  BY <1>3, <1>5 DEF plan_dependency_batches
<1>7. ASSUME NEW k \in SelectedKeys(keys, selected),
             NEW i \in 1 .. Len(batches), NEW j \in 1 .. Len(batches),
             k[1] \in batches[i], k[2] \in batches[j]
      PROVE  IF direction = "parent_first" THEN j < i ELSE i < j
  <2>1. CASE direction = "parent_first"
    <3>1. <<k[2], k[1]>> \in before
      BY <2>1 DEF Before
    <3>2. j < i
      BY <3>1, <1>4, <1>7, BatchesInOrder
    <3>3. QED
      BY <2>1, <3>2
  <2>2. CASE direction # "parent_first"
    <3>1. <<k[1], k[2]>> \in before
      BY <2>2 DEF Before
    <3>2. i < j
      BY <3>1, <1>4, <1>7, BatchesInOrder
    <3>3. QED
      BY <2>2, <3>2
  <2>3. QED
    BY <2>1, <2>2
<1>8. \A t \in selected : \E i \in 1 .. Len(batches) : t \in batches[i]
  BY <1>3, <1>4 DEF Planned
<1>9. IsPlan(batches, keys, selected, direction)
  BY <1>3, <1>7, <1>8 DEF IsPlan
<1>10. QED
  BY <1>6, <1>9

(* A selection that plan_dependency_batches accepts has no cycle: the      *)
(* number of its batch is the number of a table.                           *)
THEOREM PlannedTablesAreAcyclic ==
  ASSUME NEW selected \in SUBSET Nat, IsFiniteSet(selected), NEW keys, NEW parallelism,
         plan_dependency_batches(selected, keys, "parent_first", parallelism).ok
  PROVE  Acyclic(keys, selected)
<1> PICK before : before = Before(keys, selected, "parent_first")
  OBVIOUS
<1> PICK batches : batches = schedule_batches(before, selected, parallelism)
  OBVIOUS
<1>1. Planned(batches) = selected
  BY DEF plan_dependency_batches
<1>2. Cardinality(selected) \in Nat /\ \A i \in DOMAIN batches : i \in 0 .. Cardinality(selected)
  <2>1. Cardinality(selected) \in Nat
    BY FS_CardinalityType
  <2>2. \A i \in DOMAIN batches : i \in 1 .. Cardinality(selected)
    BY BatchOfTurn
  <2>3. QED
    BY <2>1, <2>2
<1> DEFINE BatchOf(t) == CHOOSE i \in DOMAIN batches : t \in batches[i]
           rank == [t \in selected |-> BatchOf(t)]
<1>3. \A t \in selected : BatchOf(t) \in DOMAIN batches /\ t \in batches[BatchOf(t)]
  <2>1. \A t \in selected : \E i \in DOMAIN batches : t \in batches[i]
    BY <1>1, Zenon DEF Planned
  <2>2. QED
    BY <2>1, Zenon
<1> HIDE DEF BatchOf
<1>4. rank \in [selected -> 0 .. Cardinality(selected)]
  BY <1>2, <1>3
<1>5. ASSUME NEW k \in SelectedKeys(keys, selected)
      PROVE  rank[k[2]] < rank[k[1]]
  <2>1. k[1] \in selected /\ k[2] \in selected
    BY DEF SelectedKeys
  <2>2. <<k[2], k[1]>> \in before
    BY DEF Before
  <2>3. BatchOf(k[2]) < BatchOf(k[1])
    BY <2>1, <2>2, <1>3, BatchesInOrder, Zenon
  <2>4. QED
    BY <2>1, <2>3
<1> HIDE DEF rank
<1>6. QED
  BY <1>2, <1>4, <1>5 DEF Acyclic

(* A part of an acyclic selection is acyclic: what an earlier attempt has  *)
(* completed can be left out of the plans.                                 *)
LEMMA PartIsAcyclic ==
  ASSUME NEW selected, NEW keys, Acyclic(keys, selected), NEW part \in SUBSET selected
  PROVE  Acyclic(keys, part)
<1>1. PICK top \in Nat : \E rank \in [selected -> 0 .. top] :
             \A k \in SelectedKeys(keys, selected) : rank[k[2]] < rank[k[1]]
  BY DEF Acyclic
<1>2. PICK rank \in [selected -> 0 .. top] :
             \A k \in SelectedKeys(keys, selected) : rank[k[2]] < rank[k[1]]
  BY <1>1
<1> DEFINE own == [t \in part |-> rank[t]]
<1>3. own \in [part -> 0 .. top]
  OBVIOUS
<1>4. \A k \in SelectedKeys(keys, part) : own[k[2]] < own[k[1]]
  BY <1>2 DEF SelectedKeys
<1> HIDE DEF own
<1>5. QED
  BY <1>3, <1>4 DEF Acyclic

-----------------------------------------------------------------------------
(* The run *)

Sides ==
  {side \in [Tables -> UNION {TableRows(t) : t \in Tables}] : \A t \in Tables : side[t] \in TableRows(t)}

TypeInv ==
  /\ source \in Sides /\ target \in Sides /\ window \in Sides
  /\ stageStatus \in [Stages -> [Tables -> {"none", "running", "complete", "error"}]]
  /\ phaseDone \subseteq {Phases[i] : i \in 1 .. 3} \X Tables
  /\ rowsDone \subseteq Tables
  /\ pc \in {"idle", "prereq", "prereq_action", "prereq_save", "load", "rows", "save_rows",
             "final", "final_action", "final_save", "done"}
  /\ worker \in [Tables -> {"idle", "locked", "committed", "joined", "refused", "failed"}]

(* Prerequisites stay complete, and the final stage is begun only after    *)
(* the rows stage of every table.                                          *)
StageInv ==
  /\ pc \in {"load", "rows", "save_rows", "final", "final_action", "final_save", "done"}
       => Incomplete("prerequisite_schema") = {}
  /\ pc \in {"final", "final_action", "final_save", "done"} => rowsDone = Tables
  /\ (\E t \in Tables : stageStatus["final_constraints"][t] # "none")
       => rowsDone = Tables /\ Incomplete("prerequisite_schema") = {}

(* A table's rows stage is complete only with its three phases. *)
RowsInv ==
  /\ \A t \in rowsDone, i \in 1 .. 3 : <<Phases[i], t>> \in phaseDone
  /\ pc = "save_rows" =>
       /\ \A t \in pending, i \in 1 .. 3 : <<Phases[i], t>> \in phaseDone
       /\ pending \cup rowsDone = Tables

(* Where the coordinator is in the plans of the pending tables: what comes *)
(* before its batch is complete, and its workers are those of the batch.   *)
BatchInv ==
  /\ pc # "rows" => worker = AllIdle
  /\ pc = "rows" =>
       /\ pending = Tables \ rowsDone /\ pending # {}
       /\ \A i \in 1 .. 3 : IsPlan(plan[i], ForeignKeys, pending, DirectionOf(Phases[i]))
       /\ at \in (1 .. 3) \X Nat /\ at[2] \in 1 .. Len(plan[at[1]])
       /\ \A i \in 1 .. at[1] - 1, t \in pending : <<Phases[i], t>> \in phaseDone
       /\ \A j \in 1 .. at[2] - 1 : \A t \in plan[at[1]][j] : <<Phase, t>> \in phaseDone
       /\ \A t \in Tables : worker[t] # "idle" => t \in Batch
       /\ \A t \in Tables : worker[t] = "joined" => <<Phase, t>> \in phaseDone

(* What a worker holds of a row that the source left alone is the row. *)
WindowInv ==
  \A t \in Tables : worker[t] = "locked" =>
    \A k \in KeysOf[t] : <<t, k>> \notin touched => window[t][k] = source[t][k]

(* The phase is complete for the table, or its worker has committed it. *)
Reached(i, t) == <<Phases[i], t>> \in phaseDone \/ (worker[t] = "committed" /\ at[1] = i)

(* What each phase has done to a row that the source left alone. *)
ReachedInv ==
  \A t \in Tables : \A k \in KeysOf[t] : <<t, k>> \notin touched =>
    /\ Reached(1, t) /\ source[t][k] # NoRow => target[t][k] # NoRow
    /\ Reached(2, t) /\ source[t][k] # NoRow /\ target[t][k] # NoRow => target[t][k] = source[t][k]
    /\ Reached(3, t) /\ target[t][k] # NoRow => source[t][k] # NoRow

(* Foreign keys hold on the source, and on a target that enforces them     *)
(* while the source is quiet.                                              *)
ForeignKeyInv ==
  /\ Consistent(source)
  /\ touched = {} /\ constrained => Consistent(target)

RunInv ==
  /\ TypeInv /\ StageInv /\ RowsInv /\ BatchInv /\ PhasesInOrder
  /\ WindowInv /\ ReachedInv /\ ForeignKeyInv /\ QuietRunIsNeverRefused

-----------------------------------------------------------------------------
(* Rows that a phase writes *)

LEMMA KeyTables ==
  ASSUME NEW k \in ForeignKeys
  PROVE  k[1] \in Tables /\ k[2] \in Tables
BY SyncRunAssumption

LEMMA ParentTables ==
  ASSUME NEW t \in Tables, NEW p \in Parents(t)
  PROVE  p \in Tables /\ \E k \in ForeignKeys : k[1] = t /\ k[2] = p
<1>1. PICK k \in ForeignKeys : k[1] = t /\ k[2] = p
  BY DEF Parents
<1>2. QED
  BY <1>1, KeyTables

LEMMA SideIntro ==
  ASSUME NEW side, side = [t \in Tables |-> side[t]],
         \A t \in Tables : side[t] \in TableRows(t)
  PROVE  side \in Sides
<1>1. \A t \in Tables : side[t] \in UNION {TableRows(u) : u \in Tables}
  BY Zenon
<1>2. side \in [Tables -> UNION {TableRows(t) : t \in Tables}]
  BY <1>1
<1>3. QED
  BY <1>2 DEF Sides

LEMMA SideElim ==
  ASSUME NEW side \in Sides
  PROVE  /\ side = [t \in Tables |-> side[t]]
         /\ \A t \in Tables : /\ side[t] \in TableRows(t)
                              /\ \A k \in KeysOf[t] : side[t][k] \in Row(t) \cup {NoRow}
<1>1. side \in [Tables -> UNION {TableRows(t) : t \in Tables}] /\ \A t \in Tables : side[t] \in TableRows(t)
  BY DEF Sides
<1>2. \A t \in Tables : \A k \in KeysOf[t] : side[t][k] \in Row(t) \cup {NoRow}
  BY <1>1 DEF TableRows
<1>3. QED
  BY <1>1, <1>2

(* What an INSERT, UPDATE or DELETE of some keys of one table leaves. *)
LEMMA WriteRows ==
  ASSUME NEW side \in Sides, NEW t \in Tables, NEW keys, NEW rows \in TableRows(t)
  PROVE  /\ Write(side, t, keys, rows) \in Sides
         /\ \A u \in Tables \ {t} : Write(side, t, keys, rows)[u] = side[u]
         /\ \A k \in KeysOf[t] :
              Write(side, t, keys, rows)[t][k] = IF k \in keys THEN rows[k] ELSE side[t][k]
<1> DEFINE mine == [k \in KeysOf[t] |-> IF k \in keys THEN rows[k] ELSE side[t][k]]
           new == [side EXCEPT ![t] = mine]
<1>1. side = [u \in Tables |-> side[u]] /\ \A u \in Tables : side[u] \in TableRows(u)
  BY SideElim
<1>2. mine \in TableRows(t)
  BY <1>1 DEF TableRows
<1>3. Write(side, t, keys, rows) = new
  BY DEF Write
<1> HIDE DEF mine
<1>4. /\ new = [u \in Tables |-> new[u]] /\ new[t] = mine
      /\ \A u \in Tables \ {t} : new[u] = side[u]
  BY <1>1
<1> HIDE DEF new
<1>5. new \in Sides
  <2>1. \A u \in Tables : new[u] \in TableRows(u)
    BY <1>1, <1>2, <1>4
  <2>2. QED
    BY <2>1, <1>4, SideIntro
<1>6. \A k \in KeysOf[t] : mine[k] = IF k \in keys THEN rows[k] ELSE side[t][k]
  BY DEF mine
<1>7. QED
  BY <1>3, <1>4, <1>5, <1>6

LEMMA AncestorRows ==
  ASSUME NEW side \in Sides, source \in Sides, NEW missing
  PROVE  /\ WithAncestors(side, missing) \in Sides
         /\ \A t \in Tables : \A k \in KeysOf[t] :
              WithAncestors(side, missing)[t][k] =
                IF <<t, k>> \in missing THEN source[t][k] ELSE side[t][k]
<1> DEFINE new == WithAncestors(side, missing)
<1>1. \A t \in Tables : side[t] \in TableRows(t) /\ source[t] \in TableRows(t)
  BY SideElim
<1>2. /\ new = [t \in Tables |-> new[t]]
      /\ \A t \in Tables :
           new[t] = [k \in KeysOf[t] |-> IF <<t, k>> \in missing THEN source[t][k] ELSE side[t][k]]
  BY DEF WithAncestors
<1> HIDE DEF new
<1>3. \A t \in Tables : new[t] \in TableRows(t)
  BY <1>1, <1>2, Zenon DEF TableRows
<1>4. new \in Sides
  BY <1>2, <1>3, SideIntro
<1>5. \A t \in Tables : \A k \in KeysOf[t] :
        new[t][k] = IF <<t, k>> \in missing THEN source[t][k] ELSE side[t][k]
  BY <1>2
<1>6. QED
  BY <1>4, <1>5 DEF new

(* A phase leaves every row as it was, or as the source has it now, or, in *)
(* its own table, as the worker read it.                                   *)
Explained(new, t) ==
  /\ new \in Sides
  /\ \A u \in Tables : \A k \in KeysOf[u] :
       new[u][k] = target[u][k] \/ new[u][k] = source[u][k] \/ (u = t /\ new[u][k] = window[u][k])

LEMMA WritesAreExplained ==
  ASSUME TypeInv, NEW t \in Tables, NEW side, Explained(side, t), NEW keys
  PROVE  Explained(Write(side, t, keys, window[t]), t)
<1>1. side \in Sides /\ window[t] \in TableRows(t)
  BY SideElim DEF Explained, TypeInv
<1> PICK new : new = Write(side, t, keys, window[t])
  OBVIOUS
<1>2. /\ new \in Sides /\ \A u \in Tables \ {t} : new[u] = side[u]
      /\ \A k \in KeysOf[t] : new[t][k] = IF k \in keys THEN window[t][k] ELSE side[t][k]
  BY <1>1, WriteRows
<1>3. QED
  BY <1>2 DEF Explained

LEMMA PhaseIsExplained ==
  ASSUME TypeInv, NEW t \in Tables, at[1] \in 1 .. 3
  PROVE  Explained(PhaseResult(t).target, t)
<1>1. target \in Sides /\ source \in Sides
  BY DEF TypeInv
<1>2. Explained(target, t)
  BY <1>1 DEF Explained
<1>3. ASSUME NEW missing
      PROVE  Explained(WithAncestors(target, missing), t)
  <2> PICK new : new = WithAncestors(target, missing)
    OBVIOUS
  <2>1. /\ new \in Sides
        /\ \A u \in Tables : \A k \in KeysOf[u] :
             new[u][k] = IF <<u, k>> \in missing THEN source[u][k] ELSE target[u][k]
    BY <1>1, AncestorRows
  <2>2. QED
    BY <2>1, Zenon DEF Explained
<1>4. Explained(InsertMissing(t).target, t)
  BY <1>3, WritesAreExplained DEF InsertMissing
<1>5. Explained(UpdateDivergent(t).target, t)
  BY <1>2, WritesAreExplained DEF UpdateDivergent
<1>6. Explained(DeleteExtras(t).target, t)
  BY <1>2, WritesAreExplained DEF DeleteExtras
<1>7. PhaseResult(t) \in {InsertMissing(t), UpdateDivergent(t), DeleteExtras(t)}
  <2>1. CASE at[1] = 1
    BY <2>1 DEF PhaseResult, Phase, Phases
  <2>2. CASE at[1] = 2
    BY <2>2 DEF PhaseResult, Phase, Phases
  <2>3. CASE at[1] = 3
    BY <2>3 DEF PhaseResult, Phase, Phases
  <2>4. QED
    BY <2>1, <2>2, <2>3
<1>8. QED
  BY <1>4, <1>5, <1>6, <1>7

-----------------------------------------------------------------------------
(* Steps *)

LEMMA RunStart == Init => RunInv
<1> SUFFICES ASSUME Init
             PROVE  RunInv
  OBVIOUS
<1>1. source \in Sides /\ target \in Sides
  BY DEF Init, Sides
<1>2. window \in Sides
  <2>1. window = [t \in Tables |-> window[t]] /\ \A t \in Tables : window[t] = [k \in KeysOf[t] |-> NoRow]
    BY DEF Init, NoWindow
  <2>2. \A t \in Tables : window[t] \in TableRows(t)
    BY <2>1 DEF TableRows
  <2>3. QED
    BY <2>1, <2>2, SideIntro
<1>3. worker = AllIdle /\ \A t \in Tables : worker[t] = "idle"
  BY DEF Init, AllIdle
<1>4. /\ stageStatus \in [Stages -> [Tables -> {"none", "running", "complete", "error"}]]
      /\ \A t \in Tables : stageStatus["final_constraints"][t] = "none"
  BY DEF Init, Stages
<1>5. TypeInv
  BY <1>1, <1>2, <1>3, <1>4 DEF Init, TypeInv, AllIdle
<1>6. StageInv
  BY <1>4 DEF Init, StageInv
<1>7. RowsInv /\ PhasesInOrder
  BY DEF Init, RowsInv, PhasesInOrder
<1>8. BatchInv
  BY <1>3 DEF Init, BatchInv
<1>9. WindowInv /\ ReachedInv
  BY <1>3 DEF Init, WindowInv, ReachedInv, Reached
<1>10. ForeignKeyInv
  BY DEF Init, ForeignKeyInv
<1>11. QuietRunIsNeverRefused
  BY <1>3, <1>4 DEF QuietRunIsNeverRefused
<1>12. QED
  BY <1>5, <1>6, <1>7, <1>8, <1>9, <1>10, <1>11 DEF RunInv

(* A worker that is not idle belongs to the batch at hand. *)
LEMMA WorkerOfBatch ==
  ASSUME TypeInv, BatchInv, NEW t \in Tables, worker[t] # "idle"
  PROVE  /\ pc = "rows" /\ at[1] \in 1 .. 3 /\ t \in Batch /\ t \in pending
         /\ pending = Tables \ rowsDone
<1>1. pc = "rows"
  BY DEF BatchInv, AllIdle
<1>2. /\ at[1] \in 1 .. 3 /\ at[2] \in 1 .. Len(plan[at[1]]) /\ t \in plan[at[1]][at[2]]
      /\ IsPlan(plan[at[1]], ForeignKeys, pending, DirectionOf(Phases[at[1]]))
      /\ pending = Tables \ rowsDone
  BY <1>1 DEF BatchInv, Batch, Batches
<1>3. plan[at[1]][at[2]] \subseteq pending
  <2>1. plan[at[1]] \in Seq(SUBSET pending)
    BY <1>2 DEF IsPlan
  <2>2. QED
    BY <2>1, <1>2
<1>4. QED
  BY <1>1, <1>2, <1>3 DEF Batch, Batches

LEMMA FirstTable ==
  ASSUME NEW tables \in SUBSET Tables, tables # {}
  PROVE  First(tables) \in tables
<1>1. \E t \in tables : \A u \in tables : t <= u
  BY SyncRunAssumption, LeastNatural
<1>2. QED
  BY <1>1, Zenon DEF First

LEMMA TypeStep ==
  ASSUME TypeInv, RowsInv, BatchInv, Next
  PROVE  TypeInv'
<1> USE DEF TypeInv
<1>1. CASE StartRun
  BY <1>1 DEF StartRun, sides, saved
<1>2. CASE BeginStage
  <2>1. stageStatus' \in [Stages -> [Tables -> {"none", "running", "complete", "error"}]]
    BY <1>2 DEF BeginStage, Stages, StageOf, InStage
  <2>2. QED
    BY <1>2, <2>1 DEF BeginStage, sides
<1>3. CASE RunStageAction
  <2>1. stageStatus' \in [Stages -> [Tables -> {"none", "running", "complete", "error"}]]
    BY <1>3 DEF RunStageAction, Stages
  <2>2. QED
    BY <1>3, <2>1 DEF RunStageAction
<1>4. CASE SaveStage
  <2>1. stageStatus' \in [Stages -> [Tables -> {"none", "running", "complete", "error"}]]
    BY <1>4 DEF SaveStage, Stages
  <2>2. QED
    BY <1>4, <2>1 DEF SaveStage, sides
<1>5. CASE LoadRowWork
  BY <1>5 DEF LoadRowWork, sides, saved
<1>6. CASE JoinBatch \/ Crash
  <2>1. worker' = AllIdle /\ window' = NoWindow
    BY <1>6 DEF JoinBatch, Crash
  <2>2. window' \in Sides
    <3>1. /\ window' = [t \in Tables |-> window'[t]]
          /\ \A t \in Tables : window'[t] = [k \in KeysOf[t] |-> NoRow]
      BY <2>1 DEF NoWindow
    <3>2. \A t \in Tables : window'[t] \in TableRows(t)
      BY <3>1 DEF TableRows
    <3>3. QED
      BY <3>1, <3>2, SideIntro
  <2>3. worker' \in [Tables -> {"idle", "locked", "committed", "joined", "refused", "failed"}]
    BY <2>1 DEF AllIdle
  <2>4. UNCHANGED <<source, target, stageStatus, phaseDone, rowsDone>>
    BY <1>6 DEF JoinBatch, Crash, sides, saved
  <2>5. pc' \in {"idle", "rows", "save_rows"}
    BY <1>6 DEF JoinBatch, Crash
  <2>6. Sides' = Sides /\ Stages' = Stages /\ Phases' = Phases
    BY DEF Sides, Stages, Phases, TableRows, Row, Parents
  <2>7. QED
    BY <2>2, <2>3, <2>4, <2>5
<1>7. CASE SaveRows
  <2>1. rowsDone' \subseteq Tables
    <3>1. pending \subseteq Tables
      BY <1>7 DEF SaveRows, RowsInv
    <3>2. ~ (pending \subseteq rowsDone) => First(pending \ rowsDone) \in pending \ rowsDone
      BY <3>1, FirstTable
    <3>3. QED
      BY <1>7, <3>1, <3>2 DEF SaveRows
  <2>2. QED
    BY <1>7, <2>1 DEF SaveRows, sides
<1>8. ASSUME NEW t \in Tables, SkipPhase(t) \/ StatementRefused(t) \/ WorkerFails(t)
      PROVE  TypeInv'
  BY <1>8 DEF SkipPhase, StatementRefused, WorkerFails, sides, saved
<1>9. ASSUME NEW t \in Tables, LockAndRead(t)
      PROVE  TypeInv'
  <2>1. window' = [window EXCEPT ![t] = source[t]]
    BY <1>9 DEF LockAndRead
  <2>2. window' \in Sides
    <3>1. /\ window = [u \in Tables |-> window[u]]
          /\ \A u \in Tables : window[u] \in TableRows(u) /\ source[u] \in TableRows(u)
      BY SideElim
    <3>2. window' = [u \in Tables |-> window'[u]] /\ \A u \in Tables : window'[u] \in TableRows(u)
      BY <2>1, <3>1
    <3>3. QED
      BY <3>2, SideIntro
  <2>3. QED
    BY <1>9, <2>2 DEF LockAndRead, sides, saved
<1>10. ASSUME NEW t \in Tables, ApplyAndCommit(t)
       PROVE  TypeInv'
  <2>1. target' \in Sides
    <3>1. worker[t] # "idle" /\ target' = PhaseResult(t).target
      BY <1>10 DEF ApplyAndCommit
    <3>2. at[1] \in 1 .. 3
      BY <3>1, WorkerOfBatch
    <3>3. Explained(PhaseResult(t).target, t)
      BY <3>2, PhaseIsExplained
    <3>4. QED
      BY <3>1, <3>3 DEF Explained
  <2>2. QED
    BY <1>10, <2>1 DEF ApplyAndCommit, saved
<1>11. ASSUME NEW t \in Tables, SavePhase(t)
       PROVE  TypeInv'
  <2>1. worker[t] # "idle"
    BY <1>11 DEF SavePhase
  <2>2. at[1] \in 1 .. 3
    BY <2>1, WorkerOfBatch
  <2>3. phaseDone' \subseteq {Phases[i] : i \in 1 .. 3} \X Tables
    BY <1>11, <2>2 DEF SavePhase, Phase
  <2>4. QED
    BY <1>11, <2>3 DEF SavePhase, sides
<1>12. CASE SourceWrite
  <2>1. PICK t \in Tables : \E k \in KeysOf[t], v \in Row(t) \cup {NoRow} :
               source' = [source EXCEPT ![t][k] = v]
    BY <1>12, Zenon DEF SourceWrite
  <2>2. /\ source = [u \in Tables |-> source[u]]
        /\ \A u \in Tables : source[u] \in TableRows(u)
    BY SideElim
  <2>3. source' = [u \in Tables |-> source'[u]] /\ \A u \in Tables : source'[u] \in TableRows(u)
    <3>1. PICK k \in KeysOf[t], v \in Row(t) \cup {NoRow} : source' = [source EXCEPT ![t][k] = v]
      BY <2>1, Zenon
    <3>2. [source[t] EXCEPT ![k] = v] \in TableRows(t)
      BY <2>2, <3>1 DEF TableRows
    <3>3. QED
      BY <2>2, <3>1, <3>2, Zenon
  <2>4. source' \in Sides
    BY <2>3, SideIntro
  <2>5. QED
    BY <1>12, <2>4 DEF SourceWrite, saved, control
<1>13. CASE UNCHANGED vars
  BY <1>13 DEF vars, sides, saved, control
<1>14. QED
  BY <1>1, <1>2, <1>3, <1>4, <1>5, <1>6, <1>7, <1>8, <1>9, <1>10, <1>11, <1>12, <1>13
  DEF Next, RunStep, WorkerStep

LEMMA StageStep ==
  ASSUME TypeInv, StageInv, RowsInv, BatchInv, Next
  PROVE  StageInv'
<1> USE DEF StageInv, Incomplete
<1>1. CASE StartRun
  BY <1>1 DEF StartRun, saved
<1>2. CASE BeginStage
  <2>1. CASE pc = "prereq"
    <3>1. \A t \in Tables : stageStatus'["final_constraints"][t] = stageStatus["final_constraints"][t]
      BY <1>2, <2>1 DEF BeginStage, StageOf, TypeInv, Stages
    <3>2. CASE Incomplete("prerequisite_schema") = {}
      BY <1>2, <2>1, <3>2 DEF BeginStage, StageOf
    <3>3. CASE Incomplete("prerequisite_schema") # {}
      <4>1. \A t \in Tables : stageStatus["final_constraints"][t] = "none"
        BY <3>3
      <4>2. pc' = "prereq_action" /\ UNCHANGED rowsDone
        BY <1>2, <2>1, <3>3 DEF BeginStage, StageOf
      <4>3. QED
        BY <3>1, <4>1, <4>2
    <3>4. QED
      BY <3>2, <3>3
  <2>2. CASE pc = "final"
    <3>1. \A t \in Tables : stageStatus'["prerequisite_schema"][t] = stageStatus["prerequisite_schema"][t]
      BY <1>2, <2>2 DEF BeginStage, StageOf, TypeInv, Stages
    <3>2. UNCHANGED rowsDone /\ rowsDone = Tables
      BY <1>2, <2>2 DEF BeginStage
    <3>3. QED
      BY <2>2, <3>1, <3>2
  <2>3. QED
    BY <1>2, <2>1, <2>2 DEF BeginStage, InStage, StageOf
<1>3. CASE RunStageAction
  <2>1. CASE pc = "prereq_action"
    BY <1>3, <2>1 DEF RunStageAction
  <2>2. CASE pc = "final_action"
    <3>1. \A t \in Tables : stageStatus'["prerequisite_schema"][t] = stageStatus["prerequisite_schema"][t]
      BY <1>3, <2>2 DEF RunStageAction, TypeInv, Stages
    <3>2. UNCHANGED rowsDone /\ rowsDone = Tables
      BY <1>3, <2>2 DEF RunStageAction
    <3>3. QED
      BY <2>2, <3>1, <3>2
  <2>3. QED
    BY <1>3, <2>1, <2>2 DEF RunStageAction
<1>4. CASE SaveStage
  <2>1. CASE pc = "prereq_save"
    <3>1. \A t \in Tables : stageStatus'["final_constraints"][t] = stageStatus["final_constraints"][t]
      BY <1>4, <2>1 DEF SaveStage, TypeInv, Stages
    <3>2. CASE Incomplete("prerequisite_schema") = {}
      BY <1>4, <2>1, <3>2 DEF SaveStage
    <3>3. CASE Incomplete("prerequisite_schema") # {}
      <4>1. \A t \in Tables : stageStatus["final_constraints"][t] = "none"
        BY <3>3
      <4>2. pc' = "prereq_save" /\ UNCHANGED rowsDone
        BY <1>4, <2>1, <3>3 DEF SaveStage
      <4>3. QED
        BY <3>1, <4>1, <4>2
    <3>4. QED
      BY <3>2, <3>3
  <2>2. CASE pc = "final_save"
    <3>1. \A t \in Tables : stageStatus'["prerequisite_schema"][t] = stageStatus["prerequisite_schema"][t]
      BY <1>4, <2>2 DEF SaveStage, TypeInv, Stages
    <3>2. UNCHANGED rowsDone /\ rowsDone = Tables
      BY <1>4, <2>2 DEF SaveStage
    <3>3. QED
      BY <2>2, <3>1, <3>2
  <2>3. QED
    BY <1>4, <2>1, <2>2 DEF SaveStage
<1>5. CASE LoadRowWork
  BY <1>5 DEF LoadRowWork, saved
<1>6. CASE JoinBatch
  BY <1>6 DEF JoinBatch, saved
<1>7. CASE SaveRows
  <2>1. UNCHANGED stageStatus /\ pc = "save_rows" /\ pc' \in {"save_rows", "final"}
    BY <1>7 DEF SaveRows
  <2>2. pending \cup rowsDone = Tables
    BY <2>1 DEF RowsInv
  <2>3. pc' = "final" => rowsDone' = Tables
    BY <1>7, <2>2 DEF SaveRows
  <2>4. rowsDone = Tables => rowsDone' = Tables
    <3>1. rowsDone = Tables => pending \subseteq rowsDone
      BY <2>2
    <3>2. QED
      BY <1>7, <3>1 DEF SaveRows
  <2>5. QED
    BY <2>1, <2>3, <2>4
<1>8. CASE Crash
  BY <1>8 DEF Crash, saved
<1>9. ASSUME NEW t \in Tables, WorkerStep(t) \/ WorkerFails(t)
      PROVE  StageInv'
  <2>1. UNCHANGED <<pc, stageStatus, rowsDone>>
    BY <1>9 DEF WorkerStep, SkipPhase, LockAndRead, ApplyAndCommit, StatementRefused, SavePhase,
                WorkerFails, saved
  <2>2. QED
    BY <2>1
<1>10. CASE SourceWrite
  BY <1>10 DEF SourceWrite, saved, control
<1>11. CASE UNCHANGED vars
  BY <1>11 DEF vars, saved, control
<1>12. QED
  BY <1>1, <1>2, <1>3, <1>4, <1>5, <1>6, <1>7, <1>8, <1>9, <1>10, <1>11 DEF Next, RunStep

(* After the last batch of the last phase every pending table has its      *)
(* three phases.                                                           *)
LEMMA BatchesDone ==
  ASSUME TypeInv, BatchInv, pc = "rows", at[2] = Len(Batches),
         \A t \in Batch : worker[t] = "joined"
  PROVE  \A i \in 1 .. at[1], t \in pending : <<Phases[i], t>> \in phaseDone
<1> SUFFICES ASSUME NEW i \in 1 .. at[1], NEW t \in pending
             PROVE  <<Phases[i], t>> \in phaseDone
  OBVIOUS
<1>1. /\ at[1] \in 1 .. 3 /\ pending \subseteq Tables
      /\ IsPlan(plan[at[1]], ForeignKeys, pending, DirectionOf(Phases[at[1]]))
      /\ at[2] \in 1 .. Len(plan[at[1]])
  BY DEF BatchInv
<1>2. CASE i # at[1]
  <2>1. i \in 1 .. at[1] - 1
    BY <1>1, <1>2
  <2>2. QED
    BY <2>1 DEF BatchInv
<1>3. CASE i = at[1]
  <2>1. PICK j \in 1 .. Len(plan[i]) : t \in plan[i][j]
    BY <1>1, <1>3 DEF IsPlan
  <2>2. CASE j = at[2]
    BY <2>1, <2>2, <1>1, <1>3 DEF BatchInv, Batch, Batches, Phase
  <2>3. CASE j # at[2]
    <3>1. plan[i] \in Seq(SUBSET pending)
      BY <1>1, <1>3 DEF IsPlan
    <3>2. Len(plan[i]) \in Nat
      BY <3>1
    <3>3. j \in 1 .. at[2] - 1
      BY <2>1, <2>3, <1>1, <1>3, <3>2 DEF Batches
    <3>4. QED
      BY <2>1, <3>3, <1>3 DEF BatchInv, Phase
  <2>4. QED
    BY <2>2, <2>3
<1>4. QED
  BY <1>2, <1>3

LEMMA RowsStep ==
  ASSUME TypeInv, StageInv, RowsInv, BatchInv, Next
  PROVE  RowsInv'
<1> USE DEF RowsInv
<1>1. CASE StartRun \/ BeginStage \/ RunStageAction \/ SaveStage
  <2>1. UNCHANGED <<phaseDone, rowsDone>> /\ pc' # "save_rows"
    BY <1>1 DEF StartRun, BeginStage, InStage, StageOf, RunStageAction, SaveStage, saved
  <2>2. QED
    BY <2>1 DEF Phases
<1>2. CASE LoadRowWork \/ Crash
  <2>1. UNCHANGED <<phaseDone, rowsDone>> /\ pc' # "save_rows"
    BY <1>2 DEF LoadRowWork, Crash, saved
  <2>2. QED
    BY <2>1 DEF Phases
<1>3. CASE JoinBatch
  <2>1. UNCHANGED <<phaseDone, rowsDone, pending>> /\ pc = "rows"
    BY <1>3 DEF JoinBatch, saved
  <2>2. ASSUME pc' = "save_rows"
        PROVE  /\ \A t \in pending, i \in 1 .. 3 : <<Phases[i], t>> \in phaseDone
               /\ pending \cup rowsDone = Tables
    <3>1. at = <<3, Len(Batches)>> /\ \A t \in Batch : worker[t] = "joined"
      BY <1>3, <2>1, <2>2 DEF JoinBatch
    <3>2. at[1] = 3 /\ at[2] = Len(Batches)
      BY <3>1
    <3>3. \A i \in 1 .. 3, t \in pending : <<Phases[i], t>> \in phaseDone
      BY <2>1, <3>1, <3>2, BatchesDone
    <3>4. pending \cup rowsDone = Tables
      BY <2>1 DEF BatchInv, TypeInv
    <3>5. QED
      BY <3>3, <3>4
  <2>3. QED
    BY <2>1, <2>2 DEF Phases
<1>4. CASE SaveRows
  <2>1. /\ UNCHANGED <<phaseDone, pending>> /\ pc = "save_rows"
        /\ pending \cup rowsDone = Tables
        /\ \A t \in pending, i \in 1 .. 3 : <<Phases[i], t>> \in phaseDone
    BY <1>4 DEF SaveRows
  <2>2. rowsDone \subseteq rowsDone' /\ rowsDone' \subseteq rowsDone \cup pending
    <3>1. ~ (pending \subseteq rowsDone) => First(pending \ rowsDone) \in pending \ rowsDone
      BY <2>1, FirstTable
    <3>2. QED
      BY <1>4, <3>1 DEF SaveRows
  <2>3. QED
    BY <2>1, <2>2 DEF Phases
<1>5. ASSUME NEW t \in Tables, WorkerStep(t) \/ WorkerFails(t)
      PROVE  RowsInv'
  <2>1. UNCHANGED <<pc, rowsDone, pending>> /\ phaseDone \subseteq phaseDone'
    BY <1>5 DEF WorkerStep, SkipPhase, LockAndRead, ApplyAndCommit, StatementRefused, SavePhase,
                WorkerFails, saved
  <2>2. QED
    BY <2>1 DEF Phases
<1>6. CASE SourceWrite
  BY <1>6 DEF SourceWrite, saved, control, Phases
<1>7. CASE UNCHANGED vars
  BY <1>7 DEF vars, saved, control, Phases
<1>8. QED
  BY <1>1, <1>2, <1>3, <1>4, <1>5, <1>6, <1>7 DEF Next, RunStep

(* The plans that LoadRowWork makes for what is left. *)
LEMMA PlansOfPending ==
  ASSUME NEW tables \in SUBSET Tables, NEW i \in 1 .. 3
  PROVE  IsPlan(plan_dependency_batches(tables, ForeignKeys, DirectionOf(Phases[i]), Parallelism).batches,
                ForeignKeys, tables, DirectionOf(Phases[i]))
<1>1. DirectionOf(Phases[i]) \in {"parent_first", "child_first"}
  BY DEF DirectionOf
<1>2. Acyclic(ForeignKeys, Tables)
  BY SyncRunAssumption, PlannedTablesAreAcyclic
<1>3. Acyclic(ForeignKeys, tables)
  BY <1>2, PartIsAcyclic
<1>4. tables \in SUBSET Nat /\ IsFiniteSet(tables) /\ Parallelism \in Nat \ {0}
  BY SyncRunAssumption, FS_Subset, Zenon
<1>5. QED
  BY <1>1, <1>3, <1>4, AcyclicTablesArePlanned

LEMMA PlanHasBatch ==
  ASSUME NEW batches, NEW tables, tables # {}, NEW direction,
         IsPlan(batches, ForeignKeys, tables, direction)
  PROVE  1 \in 1 .. Len(batches)
<1>1. batches \in Seq(SUBSET tables) /\ \E i \in 1 .. Len(batches) : TRUE
  BY DEF IsPlan
<1>2. QED
  BY <1>1

LEMMA BatchStep ==
  ASSUME TypeInv, StageInv, RowsInv, BatchInv, Next
  PROVE  BatchInv'
<1>1. CASE StartRun \/ BeginStage \/ RunStageAction \/ SaveStage \/ SaveRows
  <2>1. pc # "rows" /\ pc' # "rows" /\ worker' = worker
    BY <1>1 DEF StartRun, BeginStage, InStage, StageOf, RunStageAction, SaveStage, SaveRows, saved
  <2>2. QED
    BY <2>1 DEF BatchInv, AllIdle
<1>2. CASE Crash
  BY <1>2 DEF Crash, BatchInv, AllIdle
<1>3. CASE LoadRowWork
  <2>1. /\ UNCHANGED <<phaseDone, rowsDone, worker>> /\ at' = <<1, 1>> /\ worker = AllIdle
        /\ pending' = Tables \ rowsDone
    BY <1>3 DEF LoadRowWork, saved, BatchInv
  <2>2. \A t \in Tables : worker'[t] = "idle"
    BY <2>1 DEF AllIdle
  <2>3. pc' # "rows" => worker' = AllIdle
    BY <2>1
  <2>4. ASSUME pc' = "rows"
        PROVE  /\ pending' # {}
               /\ \A i \in 1 .. 3 : IsPlan(plan'[i], ForeignKeys, pending', DirectionOf(Phases[i]))
               /\ at' \in (1 .. 3) \X Nat /\ at'[2] \in 1 .. Len(plan'[at'[1]])
    <3>1. pending' # {}
      BY <1>3, <2>4 DEF LoadRowWork, TypeInv
    <3>2. ASSUME NEW i \in 1 .. 3
          PROVE  IsPlan(plan'[i], ForeignKeys, pending', DirectionOf(Phases[i]))
      <4>1. PICK tables \in SUBSET Tables : tables = pending'
        BY <2>1
      <4>2. plan'[i] = plan_dependency_batches(tables, ForeignKeys, DirectionOf(Phases[i]), Parallelism).batches
        BY <1>3, <4>1 DEF LoadRowWork
      <4>3. QED
        BY <4>1, <4>2, PlansOfPending
    <3>3. 1 \in 1 .. Len(plan'[1])
      BY <3>1, <3>2, PlanHasBatch
    <3>4. QED
      BY <2>1, <3>1, <3>2, <3>3
  <2>5. at'[1] = 1 /\ at'[2] = 1
    BY <2>1
  <2>6. QED
    BY <2>1, <2>2, <2>3, <2>4, <2>5 DEF BatchInv, Phase, Batch, Batches, Phases, AllIdle
<1>4. CASE JoinBatch
  <2>1. /\ UNCHANGED <<phaseDone, rowsDone, pending, plan>> /\ worker' = AllIdle /\ pc = "rows"
        /\ \A t \in Tables : worker'[t] = "idle"
    BY <1>4 DEF JoinBatch, saved, AllIdle
  <2>2. /\ pending = Tables \ rowsDone /\ pending # {}
        /\ \A i \in 1 .. 3 : IsPlan(plan[i], ForeignKeys, pending, DirectionOf(Phases[i]))
        /\ at \in (1 .. 3) \X Nat /\ at[2] \in 1 .. Len(plan[at[1]])
        /\ \A i \in 1 .. at[1] - 1, t \in pending : <<Phases[i], t>> \in phaseDone
        /\ \A j \in 1 .. at[2] - 1 : \A t \in plan[at[1]][j] : <<Phase, t>> \in phaseDone
        /\ \A t \in Tables : worker[t] = "joined" => <<Phase, t>> \in phaseDone
    BY <2>1 DEF BatchInv
  <2>3. CASE pc' # "rows"
    BY <2>1, <2>3 DEF BatchInv, AllIdle
  <2>4. CASE pc' = "rows"
    <3>1. \A t \in Batch : worker[t] = "joined"
      BY <1>4, <2>4 DEF JoinBatch
    <3>2. plan[at[1]] \in Seq(SUBSET pending) /\ Len(plan[at[1]]) \in Nat
      BY <2>2 DEF IsPlan
    <3>3. \A t \in plan[at[1]][at[2]] : <<Phase, t>> \in phaseDone
      <4>1. plan[at[1]][at[2]] \subseteq Tables
        BY <2>2, <3>2
      <4>2. QED
        BY <2>2, <3>1, <4>1 DEF Batch, Batches
    <3>4. CASE at[2] < Len(Batches) /\ at' = <<at[1], at[2] + 1>>
      <4>1. /\ at'[1] = at[1] /\ at'[2] = at[2] + 1 /\ at' \in (1 .. 3) \X Nat
            /\ at'[2] \in 1 .. Len(plan[at[1]])
        BY <2>2, <3>2, <3>4, SMTT(30) DEF Batches
      <4>2. \A j \in 1 .. at'[2] - 1 : j \in 1 .. at[2] - 1 \/ j = at[2]
        BY <2>2, <4>1
      <4>3. \A j \in 1 .. at'[2] - 1 : \A t \in plan[at[1]][j] : <<Phase, t>> \in phaseDone
        BY <2>2, <3>3, <4>2
      <4>4. Phase' = Phase
        BY <4>1 DEF Phase, Phases
      <4>5. QED
        BY <2>1, <2>2, <2>4, <4>1, <4>3, <4>4 DEF BatchInv, Batch, Batches, Phases
    <3>5. CASE at[2] = Len(Batches) /\ at[1] < 3 /\ at' = <<at[1] + 1, 1>>
      <4>1. at'[1] = at[1] + 1 /\ at'[2] = 1 /\ at' \in (1 .. 3) \X Nat
        BY <2>2, <3>5
      <4>2. 1 \in 1 .. Len(plan[at'[1]])
        <5>1. at[1] + 1 \in 1 .. 3
          BY <2>2, <3>5
        <5>2. IsPlan(plan[at[1] + 1], ForeignKeys, pending, DirectionOf(Phases[at[1] + 1]))
          BY <5>1, <2>2
        <5>3. QED
          BY <5>2, <4>1, <2>2, PlanHasBatch, Zenon
      <4>3. \A i \in 1 .. at[1], t \in pending : <<Phases[i], t>> \in phaseDone
        BY <2>1, <3>1, <3>5, BatchesDone
      <4>4. \A i \in 1 .. at'[1] - 1, t \in pending : <<Phases[i], t>> \in phaseDone
        BY <2>2, <4>1, <4>3
      <4>5. \A j : j \notin 1 .. at'[2] - 1
        BY <4>1
      <4>6. QED
        BY <2>1, <2>2, <2>4, <4>1, <4>2, <4>4, <4>5 DEF BatchInv, Batch, Batches, Phases, Phase
    <3>6. QED
      BY <1>4, <2>4, <3>1, <3>4, <3>5 DEF JoinBatch
  <2>5. QED
    BY <2>3, <2>4
<1>5. ASSUME NEW t \in Tables, WorkerStep(t) \/ WorkerFails(t)
      PROVE  BatchInv'
  <2>1. /\ UNCHANGED <<pc, rowsDone, pending, plan, at>> /\ phaseDone \subseteq phaseDone'
        /\ \A u \in Tables \ {t} : worker'[u] = worker[u]
    BY <1>5 DEF WorkerStep, SkipPhase, LockAndRead, ApplyAndCommit, StatementRefused, SavePhase,
                WorkerFails, saved, TypeInv
  <2>2. pc = "rows" /\ t \in Batch
    <3>1. CASE worker[t] # "idle"
      BY <3>1, WorkerOfBatch
    <3>2. CASE worker[t] = "idle"
      BY <1>5, <3>2 DEF WorkerStep, SkipPhase, LockAndRead, ApplyAndCommit, StatementRefused, SavePhase,
                WorkerFails
    <3>3. QED
      BY <3>1, <3>2
  <2>3. worker'[t] = "joined" => <<Phase, t>> \in phaseDone'
    BY <1>5 DEF WorkerStep, SkipPhase, LockAndRead, ApplyAndCommit, StatementRefused, SavePhase,
                WorkerFails, saved, TypeInv
  <2>4. Phase' = Phase /\ Batch' = Batch
    BY <2>1 DEF Phase, Batch, Batches, Phases
  <2>5. \A u \in Tables : worker'[u] = "joined" => <<Phase, u>> \in phaseDone'
    BY <2>1, <2>2, <2>3 DEF BatchInv
  <2>6. \A u \in Tables : worker'[u] # "idle" => u \in Batch
    BY <2>1, <2>2 DEF BatchInv
  <2>7. QED
    BY <2>1, <2>2, <2>4, <2>5, <2>6 DEF BatchInv, Phases
<1>6. CASE SourceWrite
  BY <1>6 DEF SourceWrite, saved, control, BatchInv, Phase, Batch, Batches, Phases, AllIdle
<1>7. CASE UNCHANGED vars
  BY <1>7 DEF vars, saved, control, BatchInv, Phase, Batch, Batches, Phases, AllIdle
<1>8. QED
  BY <1>1, <1>2, <1>3, <1>4, <1>5, <1>6, <1>7 DEF Next, RunStep

(* What comes before a table of the batch at hand is complete for the      *)
(* phase: its parents when rows are inserted or updated, its children when *)
(* they are deleted; and so are the earlier phases of all tables.          *)
LEMMA EarlierIsComplete ==
  ASSUME TypeInv, RowsInv, BatchInv, pc = "rows", NEW t \in Batch
  PROVE  /\ \A j \in 1 .. at[1] - 1, u \in Tables : <<Phases[j], u>> \in phaseDone
         /\ \A k \in ForeignKeys :
              /\ at[1] < 3 /\ k[1] = t => <<Phase, k[2]>> \in phaseDone
              /\ at[1] = 3 /\ k[2] = t => <<Phase, k[1]>> \in phaseDone
<1>1. /\ pending = Tables \ rowsDone /\ at[1] \in 1 .. 3
      /\ IsPlan(plan[at[1]], ForeignKeys, pending, DirectionOf(Phase))
      /\ at[2] \in 1 .. Len(plan[at[1]])
      /\ \A i \in 1 .. at[1] - 1, u \in pending : <<Phases[i], u>> \in phaseDone
      /\ \A j \in 1 .. at[2] - 1 : \A u \in plan[at[1]][j] : <<Phase, u>> \in phaseDone
  BY DEF BatchInv, Phase
<1>2. \A u \in rowsDone, i \in 1 .. 3 : <<Phases[i], u>> \in phaseDone
  BY Zenon DEF RowsInv
<1>3. \A j \in 1 .. at[1] - 1 : j \in 1 .. 3
  BY <1>1
<1>4. \A j \in 1 .. at[1] - 1, u \in Tables : <<Phases[j], u>> \in phaseDone
  BY <1>1, <1>2, <1>3, Zenon
<1>5. \A u \in rowsDone : <<Phase, u>> \in phaseDone
  BY <1>1, <1>2, Zenon DEF Phase
<1>6. plan[at[1]] \in Seq(SUBSET pending) /\ t \in plan[at[1]][at[2]] /\ t \in pending
  BY <1>1 DEF IsPlan, Batch, Batches
<1>7. \A j \in 1 .. Len(plan[at[1]]) : j < at[2] => j \in 1 .. at[2] - 1
  BY <1>1, <1>6, SMTT(30)
<1>8. ASSUME NEW k \in ForeignKeys, at[1] < 3, k[1] = t
      PROVE  <<Phase, k[2]>> \in phaseDone
  <2>1. CASE k[2] \in rowsDone
    BY <2>1, <1>5
  <2>2. CASE k[2] \notin rowsDone
    <3>1. k[2] \in pending /\ k \in SelectedKeys(ForeignKeys, pending)
      BY <1>1, <1>6, <1>8, <2>2, KeyTables DEF SelectedKeys
    <3>2. PICK j \in 1 .. Len(plan[at[1]]) : k[2] \in plan[at[1]][j]
      BY <1>1, <3>1 DEF IsPlan
    <3>3. DirectionOf(Phase) = "parent_first"
      BY <1>1, <1>8 DEF DirectionOf, Phase, Phases
    <3>4. j < at[2]
      BY <1>1, <1>6, <1>8, <3>1, <3>2, <3>3 DEF IsPlan
    <3>5. QED
      BY <1>1, <1>7, <3>2, <3>4
  <2>3. QED
    BY <2>1, <2>2
<1>9. ASSUME NEW k \in ForeignKeys, at[1] = 3, k[2] = t
      PROVE  <<Phase, k[1]>> \in phaseDone
  <2>1. CASE k[1] \in rowsDone
    BY <2>1, <1>5
  <2>2. CASE k[1] \notin rowsDone
    <3>1. k[1] \in pending /\ k \in SelectedKeys(ForeignKeys, pending)
      BY <1>1, <1>6, <1>9, <2>2, KeyTables DEF SelectedKeys
    <3>2. PICK j \in 1 .. Len(plan[at[1]]) : k[1] \in plan[at[1]][j]
      BY <1>1, <3>1 DEF IsPlan
    <3>3. DirectionOf(Phase) = "child_first"
      BY <1>9 DEF DirectionOf, Phase, Phases
    <3>4. j < at[2]
      BY <1>1, <1>6, <1>9, <3>1, <3>2, <3>3 DEF IsPlan
    <3>5. QED
      BY <1>1, <1>7, <3>2, <3>4
  <2>3. QED
    BY <2>1, <2>2
<1>10. QED
  BY <1>4, <1>8, <1>9

LEMMA OrderStep ==
  ASSUME TypeInv, RowsInv, BatchInv, PhasesInOrder, Next
  PROVE  PhasesInOrder'
<1>1. ASSUME NEW t \in Tables, SavePhase(t)
      PROVE  PhasesInOrder'
  <2>1. worker[t] # "idle" /\ phaseDone' = phaseDone \cup {<<Phase, t>>}
    BY <1>1 DEF SavePhase
  <2>2. pc = "rows" /\ at[1] \in 1 .. 3 /\ t \in Batch
    BY <2>1, WorkerOfBatch
  <2> SUFFICES ASSUME NEW i \in 1 .. 3, NEW u \in Tables, <<Phases[i], u>> \in phaseDone'
               PROVE  /\ \A j \in 1 .. i - 1, w \in Tables : <<Phases[j], w>> \in phaseDone
                      /\ \A k \in ForeignKeys :
                           /\ i < 3 /\ k[1] = u => <<Phases[i], k[2]>> \in phaseDone
                           /\ i = 3 /\ k[2] = u => <<Phases[i], k[1]>> \in phaseDone
    BY <2>1 DEF PhasesInOrder, Phases
  <2>3. CASE <<Phases[i], u>> \in phaseDone
    BY <2>3 DEF PhasesInOrder
  <2>4. CASE <<Phases[i], u>> \notin phaseDone
    <3>1. u = t /\ Phases[i] = Phases[at[1]]
      BY <2>1, <2>4 DEF Phase
    <3>2. i = at[1]
      BY <2>2, <3>1 DEF Phases
    <3>3. QED
      BY <2>2, <3>1, <3>2, EarlierIsComplete DEF Phase
  <2>5. QED
    BY <2>3, <2>4
<1>2. CASE phaseDone' = phaseDone
  BY <1>2 DEF PhasesInOrder, Phases
<1>3. QED
  BY Zenon, <1>1, <1>2 DEF Next, RunStep, WorkerStep, StartRun, BeginStage, RunStageAction, SaveStage,
       LoadRowWork, JoinBatch, SaveRows, SkipPhase, LockAndRead, ApplyAndCommit, StatementRefused,
       WorkerFails, Crash, SourceWrite, vars, saved

(* A source write marks what it changes. *)
LEMMA UntouchedRows ==
  ASSUME TypeInv, SourceWrite
  PROVE  /\ \A t \in Tables : \A k \in KeysOf[t] :
              <<t, k>> \notin touched' => <<t, k>> \notin touched /\ source'[t][k] = source[t][k]
         /\ touched' # {}
<1>1. PICK u \in Tables : \E j \in KeysOf[u], v \in Row(u) \cup {NoRow} :
             source' = [source EXCEPT ![u][j] = v] /\ touched' = touched \cup {<<u, j>>}
  BY Zenon DEF SourceWrite
<1>2. PICK j \in KeysOf[u], v \in Row(u) \cup {NoRow} :
             source' = [source EXCEPT ![u][j] = v] /\ touched' = touched \cup {<<u, j>>}
  BY <1>1, Zenon
<1>3. source = [t \in Tables |-> source[t]] /\ \A t \in Tables : source[t] \in TableRows(t)
  BY SideElim DEF TypeInv
<1>4. ASSUME NEW t \in Tables, NEW k \in KeysOf[t], <<t, k>> # <<u, j>>
      PROVE  source'[t][k] = source[t][k]
  BY <1>2, <1>3, <1>4 DEF TableRows
<1>5. QED
  BY <1>2, <1>4, Zenon

LEMMA WindowStep ==
  ASSUME TypeInv, BatchInv, WindowInv, Next
  PROVE  WindowInv'
<1>1. ASSUME NEW t \in Tables, LockAndRead(t)
      PROVE  WindowInv'
  <2>1. /\ worker' = [worker EXCEPT ![t] = "locked"] /\ window' = [window EXCEPT ![t] = source[t]]
        /\ UNCHANGED <<source, touched>>
    BY <1>1 DEF LockAndRead, sides
  <2>2. /\ window'[t] = source[t]
        /\ \A u \in Tables \ {t} : window'[u] = window[u] /\ worker'[u] = worker[u]
    <3>1. window = [u \in Tables |-> window[u]]
      BY SideElim DEF TypeInv
    <3>2. QED
      BY <2>1, <3>1 DEF TypeInv
  <2>3. QED
    BY <2>1, <2>2 DEF WindowInv
<1>2. ASSUME NEW t \in Tables,
             SkipPhase(t) \/ ApplyAndCommit(t) \/ StatementRefused(t) \/ SavePhase(t) \/ WorkerFails(t)
      PROVE  WindowInv'
  <2>1. /\ UNCHANGED <<source, touched, window>> /\ worker'[t] # "locked"
        /\ \A u \in Tables \ {t} : worker'[u] = worker[u]
    BY <1>2 DEF SkipPhase, ApplyAndCommit, StatementRefused, SavePhase, WorkerFails, sides, TypeInv
  <2>2. QED
    BY <2>1 DEF WindowInv
<1>3. CASE JoinBatch \/ Crash
  <2>1. worker' = AllIdle
    BY <1>3 DEF JoinBatch, Crash
  <2>2. QED
    BY <2>1 DEF WindowInv, AllIdle
<1>4. CASE StartRun \/ BeginStage \/ RunStageAction \/ SaveStage \/ LoadRowWork \/ SaveRows \/ UNCHANGED vars
  <2>1. UNCHANGED <<source, touched, window, worker>>
    BY <1>4 DEF StartRun, BeginStage, RunStageAction, SaveStage, LoadRowWork, SaveRows, vars, sides, control
  <2>2. QED
    BY <2>1 DEF WindowInv
<1>5. CASE SourceWrite
  <2>1. UNCHANGED <<window, worker>>
    BY <1>5 DEF SourceWrite, control
  <2>2. QED
    BY <1>5, <2>1, UntouchedRows DEF WindowInv
<1>6. QED
  BY <1>1, <1>2, <1>3, <1>4, <1>5 DEF Next, RunStep, WorkerStep

(* What each phase does to the rows of its own table that the source left  *)
(* alone.                                                                  *)
LEMMA PhaseDoes ==
  ASSUME TypeInv, WindowInv, NEW t \in Tables, worker[t] = "locked", at[1] \in 1 .. 3,
         NEW k \in KeysOf[t], <<t, k>> \notin touched
  PROVE  LET row == PhaseResult(t).target[t][k]
         IN /\ at[1] = 1 /\ source[t][k] # NoRow => row # NoRow
            /\ at[1] = 2 /\ source[t][k] # NoRow /\ row # NoRow => row = source[t][k]
            /\ at[1] = 3 /\ row # NoRow => source[t][k] # NoRow
<1>1. /\ source \in Sides /\ target \in Sides /\ window \in Sides
      /\ window[t] \in TableRows(t) /\ DOMAIN window[t] = KeysOf[t]
      /\ target[t] \in TableRows(t) /\ DOMAIN target[t] = KeysOf[t]
  BY SideElim DEF TypeInv, TableRows
<1>2. window[t][k] = source[t][k]
  BY DEF WindowInv
<1>3. /\ k \in Present(window[t]) <=> source[t][k] # NoRow
      /\ k \in Present(target[t]) <=> target[t][k] # NoRow
  BY <1>1, <1>2 DEF Present
<1>4. CASE at[1] = 1
  <2> PICK keys : keys = Present(window[t]) \ Present(target[t])
    BY Zenon
  <2>1. PICK missing : PhaseResult(t).target = Write(WithAncestors(target, missing), t, keys, window[t])
    BY <1>4 DEF PhaseResult, Phase, Phases, InsertMissing
  <2> PICK side : side = WithAncestors(target, missing)
    OBVIOUS
  <2>2. side \in Sides /\ side[t][k] \in {source[t][k], target[t][k]}
    BY <1>1, AncestorRows
  <2>3. PhaseResult(t).target[t][k] = IF k \in keys THEN window[t][k] ELSE side[t][k]
    BY <1>1, <2>1, <2>2, WriteRows, SMTT(30)
  <2>4. QED
    BY <1>2, <1>3, <1>4, <2>2, <2>3, SMTT(30)
<1>5. CASE at[1] = 2
  <2> PICK keys : keys = {j \in Present(window[t]) \cap Present(target[t]) : window[t][j] # target[t][j]}
    BY Zenon
  <2>1. PhaseResult(t).target = Write(target, t, keys, window[t])
    BY <1>5 DEF PhaseResult, Phase, Phases, UpdateDivergent
  <2>2. PhaseResult(t).target[t][k] = IF k \in keys THEN window[t][k] ELSE target[t][k]
    BY <1>1, <2>1, WriteRows
  <2>3. QED
    BY <1>2, <1>3, <1>5, <2>2
<1>6. CASE at[1] = 3
  <2> PICK keys : keys = Present(target[t]) \ Present(window[t])
    BY Zenon
  <2>1. PhaseResult(t).target = Write(target, t, keys, window[t])
    BY <1>6 DEF PhaseResult, Phase, Phases, DeleteExtras
  <2>2. PhaseResult(t).target[t][k] = IF k \in keys THEN window[t][k] ELSE target[t][k]
    BY <1>1, <2>1, WriteRows
  <2>3. QED
    BY <1>2, <1>3, <1>6, <2>2
<1>7. QED
  BY <1>4, <1>5, <1>6

(* Steps that write no row and complete nothing new. *)
LEMMA ReachedFrame ==
  ASSUME ReachedInv, UNCHANGED <<source, target, touched>>,
         \A t \in Tables : \A i \in 1 .. 3 : Reached(i, t)' => Reached(i, t)
  PROVE  ReachedInv'
<1>1. \A t \in Tables : (Reached(1, t)' => Reached(1, t)) /\ (Reached(2, t)' => Reached(2, t))
                        /\ (Reached(3, t)' => Reached(3, t))
  OBVIOUS
<1> HIDE DEF Reached
<1>2. QED
  BY <1>1 DEF ReachedInv

LEMMA ReachedStep ==
  ASSUME TypeInv, BatchInv, WindowInv, ReachedInv, Next
  PROVE  ReachedInv'
<1>1. ASSUME NEW t \in Tables, ApplyAndCommit(t)
      PROVE  ReachedInv'
  <2>1. /\ worker[t] = "locked" /\ worker'[t] = "committed" /\ target' = PhaseResult(t).target
        /\ UNCHANGED <<source, touched, phaseDone, at>>
        /\ \A u \in Tables \ {t} : worker'[u] = worker[u]
    BY <1>1 DEF ApplyAndCommit, saved, TypeInv
  <2>2. at[1] \in 1 .. 3
    BY <2>1, WorkerOfBatch
  <2>3. Explained(target', t)
    BY <2>1, <2>2, PhaseIsExplained
  <2>4. ASSUME NEW u \in Tables, NEW k \in KeysOf[u], <<u, k>> \notin touched
        PROVE  target'[u][k] = target[u][k] \/ target'[u][k] = source[u][k]
    BY <2>1, <2>3, <2>4 DEF Explained, WindowInv
  <2>5. \A u \in Tables \ {t} : \A i \in 1 .. 3 : Reached(i, u)' <=> Reached(i, u)
    BY <2>1 DEF Reached, Phases
  <2>6. \A i \in 1 .. 3 : Reached(i, t)' => Reached(i, t) \/ i = at[1]
    BY <2>1 DEF Reached, Phases
  <2> SUFFICES ASSUME NEW u \in Tables, NEW k \in KeysOf[u], <<u, k>> \notin touched
               PROVE  /\ Reached(1, u)' /\ source[u][k] # NoRow => target'[u][k] # NoRow
                      /\ Reached(2, u)' /\ source[u][k] # NoRow /\ target'[u][k] # NoRow
                           => target'[u][k] = source[u][k]
                      /\ Reached(3, u)' /\ target'[u][k] # NoRow => source[u][k] # NoRow
    BY <2>1 DEF ReachedInv
  <2>7. target'[u][k] = target[u][k] \/ target'[u][k] = source[u][k]
    BY <2>4
  <2>8. /\ Reached(1, u) /\ source[u][k] # NoRow => target[u][k] # NoRow
        /\ Reached(2, u) /\ source[u][k] # NoRow /\ target[u][k] # NoRow => target[u][k] = source[u][k]
        /\ Reached(3, u) /\ target[u][k] # NoRow => source[u][k] # NoRow
    BY DEF ReachedInv
  <2>9. CASE u # t
    <3>1. (Reached(1, u)' <=> Reached(1, u)) /\ (Reached(2, u)' <=> Reached(2, u))
          /\ (Reached(3, u)' <=> Reached(3, u))
      BY <2>5, <2>9
    <3>2. QED
      BY <3>1, <2>7, <2>8, SMTT(30)
  <2>10. CASE u = t
    <3>1. /\ Reached(1, t)' => Reached(1, t) \/ at[1] = 1
          /\ Reached(2, t)' => Reached(2, t) \/ at[1] = 2
          /\ Reached(3, t)' => Reached(3, t) \/ at[1] = 3
      BY <2>6
    <3>2. /\ at[1] = 1 /\ source[t][k] # NoRow => target'[t][k] # NoRow
          /\ at[1] = 2 /\ source[t][k] # NoRow /\ target'[t][k] # NoRow => target'[t][k] = source[t][k]
          /\ at[1] = 3 /\ target'[t][k] # NoRow => source[t][k] # NoRow
      BY <2>1, <2>2, <2>10, PhaseDoes
    <3>3. QED
      BY <3>1, <3>2, <2>7, <2>8, <2>10
  <2>11. QED
    BY <2>9, <2>10
<1>2. ASSUME NEW t \in Tables, SavePhase(t)
      PROVE  ReachedInv'
  <2>1. /\ worker[t] = "committed" /\ phaseDone' = phaseDone \cup {<<Phase, t>>}
        /\ UNCHANGED <<source, target, touched, at>> /\ worker'[t] = "joined"
        /\ \A u \in Tables \ {t} : worker'[u] = worker[u]
    BY <1>2 DEF SavePhase, sides, TypeInv
  <2>2. at[1] \in 1 .. 3
    BY <2>1, WorkerOfBatch
  <2>3. \A i \in 1 .. 3 : Phases[i] = Phase => i = at[1]
    BY <2>2 DEF Phase, Phases
  <2>4. \A u \in Tables : \A i \in 1 .. 3 : Reached(i, u)' => Reached(i, u)
    BY <2>1, <2>3 DEF Reached, Phases
  <2>5. QED
    BY <2>1, <2>4, ReachedFrame
<1>3. ASSUME NEW t \in Tables, SkipPhase(t) \/ LockAndRead(t) \/ StatementRefused(t) \/ WorkerFails(t)
      PROVE  ReachedInv'
  <2>1. /\ UNCHANGED <<source, target, touched, phaseDone, at>> /\ worker'[t] # "committed"
        /\ \A u \in Tables \ {t} : worker'[u] = worker[u]
    BY <1>3 DEF SkipPhase, LockAndRead, StatementRefused, WorkerFails, sides, saved, TypeInv
  <2>2. \A u \in Tables : \A i \in 1 .. 3 : Reached(i, u)' => Reached(i, u)
    BY <2>1 DEF Reached, Phases
  <2>3. QED
    BY <2>1, <2>2, ReachedFrame
<1>4. CASE JoinBatch \/ Crash \/ LoadRowWork
  <2>1. UNCHANGED <<source, target, touched, phaseDone>> /\ worker' = AllIdle
    BY <1>4 DEF JoinBatch, Crash, LoadRowWork, sides, saved, BatchInv
  <2>2. \A u \in Tables : \A i \in 1 .. 3 : Reached(i, u)' => Reached(i, u)
    BY <2>1 DEF Reached, Phases, AllIdle
  <2>3. QED
    BY <2>1, <2>2, ReachedFrame
<1>5. CASE StartRun \/ BeginStage \/ RunStageAction \/ SaveStage \/ SaveRows \/ UNCHANGED vars
  <2>1. UNCHANGED <<source, target, touched, phaseDone, worker, at>>
    BY <1>5 DEF StartRun, BeginStage, RunStageAction, SaveStage, SaveRows, vars, sides, saved, control
  <2>2. \A u \in Tables : \A i \in 1 .. 3 : Reached(i, u)' => Reached(i, u)
    BY <2>1 DEF Reached, Phases
  <2>3. QED
    BY <2>1, <2>2, ReachedFrame
<1>6. CASE SourceWrite
  <2>1. UNCHANGED <<target, phaseDone, worker, at>>
    BY <1>6 DEF SourceWrite, saved, control
  <2>2. \A u \in Tables : \A i \in 1 .. 3 : Reached(i, u)' <=> Reached(i, u)
    BY <2>1 DEF Reached, Phases
  <2>3. \A u \in Tables : (Reached(1, u)' <=> Reached(1, u)) /\ (Reached(2, u)' <=> Reached(2, u))
                          /\ (Reached(3, u)' <=> Reached(3, u))
    BY <2>2
  <2>4. \A u \in Tables : \A k \in KeysOf[u] :
          <<u, k>> \notin touched' => <<u, k>> \notin touched /\ source'[u][k] = source[u][k]
    BY <1>6, UntouchedRows
  <2>5. QED
    BY <2>1, <2>3, <2>4 DEF ReachedInv
<1>7. QED
  BY <1>1, <1>2, <1>3, <1>4, <1>5, <1>6 DEF Next, RunStep, WorkerStep

-----------------------------------------------------------------------------
(* Foreign keys *)

LEMMA ParentKey ==
  ASSUME NEW side \in Sides, NEW t \in Tables, NEW k \in KeysOf[t], side[t][k] # NoRow,
         NEW p \in Parents(t), side[t][k][p] # Null
  PROVE  p \in Tables /\ side[t][k][p] \in KeysOf[p]
<1>1. side[t][k] \in Row(t)
  BY SideElim
<1>2. QED
  BY <1>1, ParentTables DEF Row

(* The rows of a consistent side have their parents. *)
LEMMA ParentIsThere ==
  ASSUME NEW side \in Sides, Consistent(side), NEW t \in Tables, NEW k \in KeysOf[t],
         side[t][k] # NoRow, NEW p \in Parents(t), side[t][k][p] # Null
  PROVE  side[p][side[t][k][p]] # NoRow
<1>1. k \in Present(side[t])
  BY SideElim DEF Present, TableRows
<1>2. QED
  BY <1>1 DEF Consistent

LEMMA ConsistentIntro ==
  ASSUME NEW side \in Sides,
         ASSUME NEW t \in Tables, NEW k \in KeysOf[t], side[t][k] # NoRow,
                NEW p \in Parents(t), side[t][k][p] # Null
         PROVE  side[p][side[t][k][p]] # NoRow
  PROVE  Consistent(side)
<1>1. \A t \in Tables : \A k \in Present(side[t]) : k \in KeysOf[t] /\ side[t][k] # NoRow
  BY SideElim DEF Present, TableRows
<1>2. QED
  BY <1>1 DEF Consistent

(* Nothing is missing of nothing. *)
LEMMA NoAncestors ==
  ASSUME TypeInv
  PROVE  MissingAncestors({}) = {}
<1> DEFINE turn == [found \in SUBSET Missing |->
                      found \cup UNION {MissingParents(m[1], source[m[1]][m[2]]) : m \in InSource(found)}]
<1>1. ASSUME NEW found \in SUBSET Missing, NEW m \in InSource(found)
      PROVE  MissingParents(m[1], source[m[1]][m[2]]) \subseteq Missing
  <2>1. m \in Missing /\ source[m[1]][m[2]] # NoRow
    BY DEF InSource
  <2>2. m[1] \in Tables /\ m[2] \in KeysOf[m[1]]
    BY <2>1 DEF Missing
  <2> PICK t \in Tables : t = m[1]
    BY <2>2
  <2> PICK k \in KeysOf[t] : k = m[2]
    BY <2>2
  <2>3. ASSUME NEW p \in Parents(t), source[t][k][p] # Null, target[p][source[t][k][p]] = NoRow
        PROVE  <<p, source[t][k][p]>> \in Missing
    <3>1. p \in Tables /\ source[t][k][p] \in KeysOf[p]
      BY <2>1, <2>3, ParentKey DEF TypeInv
    <3>2. source[t][k][p] \notin Present(target[p])
      BY <2>3 DEF Present
    <3> PICK j : j = source[t][k][p]
      OBVIOUS
    <3> DEFINE Absent(q) == {<<q, i>> : i \in KeysOf[q] \ Present(target[q])}
    <3>3. <<p, j>> \in Absent(p)
      BY <3>1, <3>2
    <3>4. Missing = UNION {Absent(q) : q \in Tables}
      BY DEF Missing
    <3> HIDE DEF Absent
    <3>5. <<p, j>> \in Missing
      BY <3>1, <3>3, <3>4, Zenon
    <3>6. QED
      BY <3>5
  <2>4. QED
    BY <2>3 DEF MissingParents
<1>2. turn \in [SUBSET Missing -> SUBSET Missing]
  <2>1. ASSUME NEW found \in SUBSET Missing
        PROVE  UNION {MissingParents(m[1], source[m[1]][m[2]]) : m \in InSource(found)} \in SUBSET Missing
    BY <1>1, Zenon
  <2>2. QED
    BY <2>1
<1>3. turn[{}] = {}
  BY DEF InSource
<1>4. MissingAncestors({}) = Repeat(turn, {})[Cardinality(Tables)]
  BY DEF MissingAncestors
<1> HIDE DEF turn
<1>5. {} \in SUBSET Missing
  OBVIOUS
<1>6. /\ Repeat(turn, {})[0] = {}
      /\ \A n \in Nat : Repeat(turn, {})[n + 1] = turn[Repeat(turn, {})[n]]
  BY <1>2, <1>5, RepeatTurns
<1> DEFINE S == {n \in Nat : Repeat(turn, {})[n] = {}}
<1>7. 0 \in S /\ \A n \in S : n + 1 \in S
  <2>1. ASSUME NEW n \in Nat, Repeat(turn, {})[n] = {}
        PROVE  Repeat(turn, {})[n + 1] = {}
    BY <1>3, <1>6, <2>1
  <2>2. QED
    BY <1>6, <2>1
<1>8. Cardinality(Tables) \in Nat
  BY FS_CardinalityType, SyncRunAssumption
<1>9. Cardinality(Tables) \in S
  <2> HIDE DEF S
  <2>1. S \in SUBSET Nat
    BY DEF S
  <2>2. QED
    BY <1>7, <1>8, <2>1, Induction
<1>10. QED
  BY <1>4, <1>9

(* Rows added from the source, and rows made equal to it, keep the target  *)
(* consistent where their parents are there.                               *)
LEMMA AddedRowsAreConsistent ==
  ASSUME TypeInv, Consistent(source), Consistent(target), NEW t \in Tables, NEW new \in Sides,
         \A u \in Tables : \A k \in KeysOf[u] :
           /\ new[u][k] = target[u][k] \/ (u = t /\ new[u][k] = source[u][k])
           /\ target[u][k] # NoRow => new[u][k] # NoRow,
         \A p \in Parents(t) : \A k \in KeysOf[p] : source[p][k] # NoRow => target[p][k] # NoRow
  PROVE  Consistent(new)
<1>1. source \in Sides /\ target \in Sides
  BY DEF TypeInv
<1>2. ASSUME NEW u \in Tables, NEW k \in KeysOf[u], new[u][k] # NoRow,
             NEW p \in Parents(u), new[u][k][p] # Null
      PROVE  new[p][new[u][k][p]] # NoRow
  <2>1. p \in Tables /\ new[u][k][p] \in KeysOf[p]
    BY <1>2, ParentKey
  <2>2. CASE new[u][k] = target[u][k]
    <3>1. target[p][new[u][k][p]] # NoRow
      BY <1>1, <1>2, <2>2, ParentIsThere
    <3>2. QED
      BY <2>1, <3>1
  <2>3. CASE u = t /\ new[u][k] = source[u][k]
    <3>1. source[p][new[u][k][p]] # NoRow
      BY <1>1, <1>2, <2>3, ParentIsThere
    <3>2. target[p][new[u][k][p]] # NoRow
      BY <2>1, <2>3, <3>1
    <3>3. QED
      BY <2>1, <3>2
  <2>4. QED
    BY <2>2, <2>3
<1>3. QED
  BY <1>2, ConsistentIntro

LEMMA NoAncestorRows ==
  ASSUME NEW side \in Sides, source \in Sides, NEW none, \A m : m \notin none
  PROVE  /\ WithAncestors(side, none) \in Sides
         /\ \A t \in Tables : \A k \in KeysOf[t] : WithAncestors(side, none)[t][k] = side[t][k]
<1> PICK new : new = WithAncestors(side, none)
  OBVIOUS
<1>1. /\ new \in Sides
      /\ \A t \in Tables : \A k \in KeysOf[t] :
           new[t][k] = IF <<t, k>> \in none THEN source[t][k] ELSE side[t][k]
  BY AncestorRows
<1>2. QED
  BY <1>1, Zenon

LEMMA Allowed ==
  ASSUME NEW t, NEW new, constrained => Consistent(new),
         PhaseResult(t) = [ok |-> constrained => Consistent(new), target |-> new]
  PROVE  PhaseResult(t).ok /\ PhaseResult(t).target = new
<1>1. PICK ok : ok = (constrained => Consistent(new))
  OBVIOUS
<1>2. PhaseResult(t) = [ok |-> ok, target |-> new]
  BY <1>1
<1>3. PhaseResult(t).ok = ok /\ PhaseResult(t).target = new
  BY <1>2
<1>4. ok
  BY <1>1, Zenon
<1>5. QED
  BY <1>3, <1>4, Zenon

(* Over a quiet source no phase is refused, and none breaks a foreign key. *)
LEMMA QuietPhase ==
  ASSUME RunInv, touched = {}, NEW t \in Tables, worker[t] = "locked"
  PROVE  PhaseResult(t).ok /\ (constrained => Consistent(PhaseResult(t).target))
<1>1. /\ source \in Sides /\ target \in Sides /\ window \in Sides
      /\ window[t] \in TableRows(t) /\ DOMAIN window[t] = KeysOf[t]
      /\ target[t] \in TableRows(t) /\ DOMAIN target[t] = KeysOf[t]
  BY SideElim DEF RunInv, TypeInv, TableRows
<1>2. at[1] \in 1 .. 3 /\ pc = "rows" /\ t \in Batch
  BY WorkerOfBatch DEF RunInv
<1>3. \A k \in KeysOf[t] : window[t][k] = source[t][k]
  BY DEF RunInv, WindowInv
<1>4. /\ \A k \in KeysOf[t] : k \in Present(window[t]) <=> source[t][k] # NoRow
      /\ \A k \in KeysOf[t] : k \in Present(target[t]) <=> target[t][k] # NoRow
      /\ Present(window[t]) \subseteq KeysOf[t]
  BY <1>1, <1>3 DEF Present
<1>5. Consistent(source) /\ (constrained => Consistent(target))
  BY DEF RunInv, ForeignKeyInv
<1>6. /\ \A u \in Tables : <<Phases[1], u>> \in phaseDone =>
           \A k \in KeysOf[u] : source[u][k] # NoRow => target[u][k] # NoRow
      /\ \A u \in Tables : <<Phases[2], u>> \in phaseDone =>
           \A k \in KeysOf[u] : source[u][k] # NoRow /\ target[u][k] # NoRow => target[u][k] = source[u][k]
      /\ \A u \in Tables : <<Phases[3], u>> \in phaseDone =>
           \A k \in KeysOf[u] : target[u][k] # NoRow => source[u][k] # NoRow
  BY Zenon DEF RunInv, ReachedInv, Reached
<1>7. /\ \A j \in 1 .. at[1] - 1, u \in Tables : <<Phases[j], u>> \in phaseDone
      /\ \A k \in ForeignKeys :
           /\ at[1] < 3 /\ k[1] = t => <<Phase, k[2]>> \in phaseDone
           /\ at[1] = 3 /\ k[2] = t => <<Phase, k[1]>> \in phaseDone
  BY <1>2, EarlierIsComplete DEF RunInv
<1>8. ASSUME at[1] \in 1 .. 2
      PROVE  \A p \in Parents(t) : \A k \in KeysOf[p] : source[p][k] # NoRow => target[p][k] # NoRow
  <2> SUFFICES ASSUME NEW p \in Parents(t)
               PROVE  p \in Tables /\ <<Phases[1], p>> \in phaseDone
    BY <1>6, Zenon
  <2>1. p \in Tables /\ \E k \in ForeignKeys : k[1] = t /\ k[2] = p
    BY ParentTables
  <2>2. CASE at[1] = 1
    BY <2>1, <2>2, <1>7 DEF Phase
  <2>3. CASE at[1] = 2
    BY <2>1, <2>3, <1>7
  <2>4. QED
    BY <1>8, <2>1, <2>2, <2>3
<1>9. CASE at[1] = 1
  <2>1. PICK keys : keys = Present(window[t]) \ Present(target[t])
    BY Zenon
  <2>2. ASSUME NEW k \in keys
        PROVE  MissingParents(t, window[t][k]) = {}
    <3>1. k \in KeysOf[t] /\ source[t][k] # NoRow /\ window[t][k] = source[t][k]
      BY <1>3, <1>4, <2>1
    <3>2. ASSUME NEW p \in Parents(t), source[t][k][p] # Null
          PROVE  target[p][source[t][k][p]] # NoRow
      <4>1. source[t][k][p] \in KeysOf[p] /\ source[p][source[t][k][p]] # NoRow
        BY <1>1, <1>5, <3>1, <3>2, ParentKey, ParentIsThere
      <4>2. QED
        BY <4>1, <1>8, <1>9
    <3>3. QED
      BY <3>1, <3>2 DEF MissingParents
  <2>3. UNION {MissingParents(t, window[t][k]) : k \in keys} = {}
    BY <2>2, Zenon
  <2>4. RequiredBy(t, keys) = {}
    BY <2>3, NoAncestors DEF RequiredBy, RunInv
  <2>5. PICK none : none = IF constrained THEN RequiredBy(t, keys) ELSE {}
    OBVIOUS
  <2>6. \A m : m \notin none
    BY <2>4, <2>5
  <2>7. PICK side : side = WithAncestors(target, none)
    OBVIOUS
  <2>8. PICK new : new = Write(side, t, keys, window[t])
    OBVIOUS
  <2>9. InsertMissing(t) = [ok |-> \A m \in none : source[m[1]][m[2]] # NoRow, target |-> new]
    BY <2>1, <2>5, <2>7, <2>8 DEF InsertMissing
  <2>10. PhaseResult(t).ok /\ PhaseResult(t).target = new
    BY <1>9, <2>6, <2>9 DEF PhaseResult, Phase, Phases
  <2>11. side \in Sides /\ \A u \in Tables : \A k \in KeysOf[u] : side[u][k] = target[u][k]
    BY <1>1, <2>6, <2>7, NoAncestorRows, SMTT(30)
  <2>12. /\ new \in Sides /\ \A u \in Tables \ {t} : new[u] = side[u]
         /\ \A k \in KeysOf[t] : new[t][k] = IF k \in keys THEN window[t][k] ELSE side[t][k]
    BY <1>1, <2>8, <2>11, WriteRows
  <2>13. \A u \in Tables : \A k \in KeysOf[u] :
           /\ new[u][k] = target[u][k] \/ (u = t /\ new[u][k] = source[u][k])
           /\ target[u][k] # NoRow => new[u][k] # NoRow
    BY <1>3, <1>4, <2>1, <2>11, <2>12
  <2>14. constrained => Consistent(new)
    <3>1. \A p \in Parents(t) : \A k \in KeysOf[p] : source[p][k] # NoRow => target[p][k] # NoRow
      BY <1>8, <1>9
    <3>2. TypeInv
      BY DEF RunInv
    <3>3. QED
      BY <1>5, <2>12, <2>13, <3>1, <3>2, AddedRowsAreConsistent, Zenon
  <2>15. QED
    BY <2>10, <2>14
<1>10. CASE at[1] = 2
  <2> PICK keys : keys = {k \in Present(window[t]) \cap Present(target[t]) : window[t][k] # target[t][k]}
    BY Zenon
  <2> PICK new : new = Write(target, t, keys, window[t])
    OBVIOUS
  <2>1. PhaseResult(t) = [ok |-> constrained => Consistent(new), target |-> new]
    BY <1>10 DEF PhaseResult, Phase, Phases, UpdateDivergent
  <2>2. /\ new \in Sides /\ \A u \in Tables \ {t} : new[u] = target[u]
        /\ \A k \in KeysOf[t] : new[t][k] = IF k \in keys THEN window[t][k] ELSE target[t][k]
    BY <1>1, WriteRows, SMTT(30)
  <2>3. \A u \in Tables : \A k \in KeysOf[u] :
          /\ new[u][k] = target[u][k] \/ (u = t /\ new[u][k] = source[u][k])
          /\ target[u][k] # NoRow => new[u][k] # NoRow
    BY <1>3, <1>4, <2>2, SMTT(30)
  <2>4. constrained => Consistent(new)
    <3>1. \A p \in Parents(t) : \A k \in KeysOf[p] : source[p][k] # NoRow => target[p][k] # NoRow
      BY <1>8, <1>10, SMTT(30)
    <3>2. TypeInv
      BY DEF RunInv
    <3>3. QED
      BY <1>5, <2>2, <2>3, <3>1, <3>2, AddedRowsAreConsistent, Zenon
  <2>5. QED
    BY <2>1, <2>4, Allowed
<1>11. CASE at[1] = 3
  <2> PICK keys : keys = Present(target[t]) \ Present(window[t])
    BY Zenon
  <2> PICK new : new = Write(target, t, keys, window[t])
    OBVIOUS
  <2>1. PhaseResult(t) = [ok |-> constrained => Consistent(new), target |-> new]
    BY <1>11 DEF PhaseResult, Phase, Phases, DeleteExtras
  <2>2. /\ new \in Sides /\ \A u \in Tables \ {t} : new[u] = target[u]
        /\ \A k \in KeysOf[t] : new[t][k] = IF k \in keys THEN window[t][k] ELSE target[t][k]
    BY <1>1, WriteRows
  <2>3. /\ \A u \in Tables : \A k \in KeysOf[u] : new[u][k] = NoRow \/ new[u][k] = target[u][k]
        /\ \A k \in KeysOf[t] : source[t][k] # NoRow => new[t][k] = target[t][k]
    BY <1>3, <1>4, <2>2, Zenon
  <2>4. ASSUME NEW u \in Tables, NEW k \in KeysOf[u], target[u][k] # NoRow,
               NEW p \in Parents(u), p = t, target[u][k][p] # Null
        PROVE  source[p][target[u][k][p]] # NoRow
    <3>1. PICK f \in ForeignKeys : f[1] = u /\ f[2] = p
      BY ParentTables
    <3>2. <<Phases[3], u>> \in phaseDone /\ <<Phases[2], u>> \in phaseDone
      BY <1>7, <1>11, <2>4, <3>1 DEF Phase
    <3>3. source[u][k] # NoRow /\ target[u][k] = source[u][k]
      BY <1>6, <2>4, <3>2
    <3>4. QED
      BY <1>1, <1>5, <2>4, <3>3, ParentIsThere
  <2>5. ASSUME constrained, NEW u \in Tables, NEW k \in KeysOf[u], new[u][k] # NoRow,
               NEW p \in Parents(u), new[u][k][p] # Null
        PROVE  new[p][new[u][k][p]] # NoRow
    <3>1. new[u][k] = target[u][k] /\ p \in Tables /\ new[u][k][p] \in KeysOf[p]
      BY <2>2, <2>3, <2>5, ParentKey, Zenon
    <3>2. target[p][new[u][k][p]] # NoRow
      BY <1>1, <1>5, <2>5, <3>1, ParentIsThere
    <3>3. CASE p = t
      <4>1. source[p][new[u][k][p]] # NoRow
        BY <2>4, <2>5, <3>1, <3>3
      <4>2. QED
        BY <2>3, <3>1, <3>2, <3>3, <4>1, Zenon
    <3>4. CASE p # t
      BY <2>2, <3>1, <3>2, <3>4
    <3>5. QED
      BY <3>3, <3>4
  <2>6. constrained => Consistent(new)
    BY <2>2, <2>5, ConsistentIntro
  <2>7. QED
    BY <2>1, <2>6, Allowed
<1>12. QED
  BY <1>2, <1>9, <1>10, <1>11

(* A row that the source left alone is the same on both sides once the     *)
(* rows stage of every table is complete.                                  *)
LEMMA RowsConverged ==
  ASSUME RowsInv, ReachedInv, rowsDone = Tables, NEW t \in Tables, NEW k \in KeysOf[t],
         <<t, k>> \notin touched
  PROVE  target[t][k] = source[t][k]
<1>1. Reached(1, t) /\ Reached(2, t) /\ Reached(3, t)
  BY DEF RowsInv, Reached
<1>2. QED
  BY <1>1 DEF ReachedInv

LEMMA FinalStageFindsNoOrphan ==
  ASSUME RunInv, touched = {}, rowsDone = Tables
  PROVE  Consistent(target)
<1>1. source \in Sides /\ target \in Sides /\ Consistent(source)
  BY DEF RunInv, TypeInv, ForeignKeyInv
<1>2. \A t \in Tables : \A k \in KeysOf[t] : target[t][k] = source[t][k]
  BY RowsConverged DEF RunInv
<1>3. ASSUME NEW t \in Tables, NEW k \in KeysOf[t], target[t][k] # NoRow,
             NEW p \in Parents(t), target[t][k][p] # Null
      PROVE  target[p][target[t][k][p]] # NoRow
  <2>1. p \in Tables /\ target[t][k][p] \in KeysOf[p]
    BY <1>1, <1>3, ParentKey
  <2>2. source[p][target[t][k][p]] # NoRow
    BY <1>1, <1>2, <1>3, ParentIsThere
  <2>3. QED
    BY <1>2, <2>1, <2>2
<1>4. QED
  BY <1>1, <1>3, ConsistentIntro

LEMMA ForeignKeyStep ==
  ASSUME RunInv, Next
  PROVE  ForeignKeyInv'
<1>1. Consistent(source) /\ (touched = {} /\ constrained => Consistent(target))
  BY DEF RunInv, ForeignKeyInv
<1>2. ASSUME NEW t \in Tables, ApplyAndCommit(t)
      PROVE  ForeignKeyInv'
  <2>1. worker[t] = "locked" /\ target' = PhaseResult(t).target /\ UNCHANGED <<source, touched, constrained>>
    BY <1>2 DEF ApplyAndCommit
  <2>2. touched = {} /\ constrained => Consistent(PhaseResult(t).target)
    BY <2>1, QuietPhase
  <2>3. Consistent(source)' /\ (touched' = {} /\ constrained' => Consistent(target'))
    BY <1>1, <2>1, <2>2 DEF Consistent
  <2>4. QED
    BY <2>3 DEF ForeignKeyInv, Consistent
<1>3. CASE RunStageAction
  <2>1. UNCHANGED <<source, target, touched>> /\ (constrained' = constrained \/ Consistent(target))
    BY <1>3 DEF RunStageAction
  <2>2. QED
    BY <1>1, <2>1, SMTT(30) DEF ForeignKeyInv, Consistent
<1>4. CASE SourceWrite
  <2>1. Consistent(source)'
    BY <1>4 DEF SourceWrite, Consistent
  <2>2. touched' # {}
    BY <1>4, UntouchedRows DEF RunInv
  <2>3. QED
    BY <2>1, <2>2 DEF ForeignKeyInv
<1>5. CASE UNCHANGED sides
  BY <1>1, <1>5 DEF ForeignKeyInv, Consistent, sides
<1>6. ASSUME ~ \E t \in Tables : ApplyAndCommit(t), ~ RunStageAction, ~ SourceWrite
      PROVE  UNCHANGED sides
  BY Zenon, <1>6 DEF Next, RunStep, WorkerStep, StartRun, BeginStage, SaveStage, LoadRowWork, JoinBatch,
              SaveRows, SkipPhase, LockAndRead, StatementRefused, SavePhase, WorkerFails, Crash, vars
<1>7. QED
  BY <1>2, <1>3, <1>4, <1>5, <1>6

LEMMA QuietStep ==
  ASSUME RunInv, Next
  PROVE  QuietRunIsNeverRefused'
<1>1. touched = {} => \A t \in Tables :
        worker[t] # "refused" /\ stageStatus["final_constraints"][t] # "error"
  BY DEF RunInv, QuietRunIsNeverRefused
<1>2. ASSUME NEW t \in Tables, StatementRefused(t)
      PROVE  QuietRunIsNeverRefused'
  <2>1. worker[t] = "locked" /\ ~ PhaseResult(t).ok /\ touched' = touched
    BY <1>2 DEF StatementRefused, sides
  <2>2. touched # {}
    BY <2>1, QuietPhase
  <2>3. QED
    BY <2>1, <2>2 DEF QuietRunIsNeverRefused
<1>3. CASE RunStageAction
  <2>1. UNCHANGED <<worker, touched>> /\ (stageStatus' = stageStatus \/ (pc = "final_action" /\ ~ Consistent(target)))
    BY <1>3 DEF RunStageAction
  <2>2. pc = "final_action" => rowsDone = Tables
    BY DEF RunInv, StageInv
  <2>3. touched = {} => stageStatus' = stageStatus
    BY <2>1, <2>2, FinalStageFindsNoOrphan
  <2>4. QED
    BY <1>1, <2>1, <2>3 DEF QuietRunIsNeverRefused
<1>4. CASE SourceWrite
  BY <1>4, UntouchedRows DEF RunInv, QuietRunIsNeverRefused
<1>5. CASE BeginStage
  <2>1. UNCHANGED <<worker, touched>>
    BY <1>5 DEF BeginStage, sides
  <2>2. \A t \in Tables : stageStatus'["final_constraints"][t] \in {stageStatus["final_constraints"][t], "running"}
    <3>1. InStage /\ pc \in DOMAIN StageOf /\ StageOf[pc] \in Stages
      BY <1>5 DEF BeginStage, InStage, StageOf, Stages
    <3>2. QED
      BY <1>5, <3>1 DEF BeginStage, RunInv, TypeInv, Stages
  <2>3. QED
    BY <1>1, <2>1, <2>2 DEF QuietRunIsNeverRefused
<1>6. CASE SaveStage
  <2>1. UNCHANGED <<worker, touched>>
    BY <1>6 DEF SaveStage, sides
  <2>2. \A t \in Tables : stageStatus'["final_constraints"][t] \in {stageStatus["final_constraints"][t], "complete"}
    BY <1>6 DEF SaveStage, RunInv, TypeInv, Stages
  <2>3. QED
    BY <1>1, <2>1, <2>2 DEF QuietRunIsNeverRefused
<1>7. ASSUME NEW t \in Tables,
             SkipPhase(t) \/ LockAndRead(t) \/ ApplyAndCommit(t) \/ SavePhase(t) \/ WorkerFails(t)
      PROVE  QuietRunIsNeverRefused'
  <2>1. /\ UNCHANGED <<stageStatus, touched>> /\ worker'[t] # "refused"
        /\ \A u \in Tables \ {t} : worker'[u] = worker[u]
    BY <1>7 DEF SkipPhase, LockAndRead, ApplyAndCommit, SavePhase, WorkerFails, sides, saved, RunInv, TypeInv
  <2>2. QED
    BY <1>1, <2>1 DEF QuietRunIsNeverRefused
<1>8. CASE StartRun \/ LoadRowWork \/ JoinBatch \/ SaveRows \/ Crash \/ UNCHANGED vars
  <2>1. UNCHANGED <<stageStatus, touched>> /\ (worker' = worker \/ worker' = AllIdle)
    BY <1>8 DEF StartRun, LoadRowWork, JoinBatch, SaveRows, Crash, vars, sides, saved, control
  <2>2. QED
    BY <1>1, <2>1 DEF QuietRunIsNeverRefused, AllIdle
<1>9. QED
  BY <1>2, <1>3, <1>4, <1>5, <1>6, <1>7, <1>8 DEF Next, RunStep, WorkerStep

-----------------------------------------------------------------------------
(* Theorems *)

LEMMA RunInvStep == RunInv /\ [Next]_vars => RunInv'
<1>1. CASE UNCHANGED vars
  <2>1. UNCHANGED <<source, target, constrained, touched, stageStatus, phaseDone, rowsDone, pc, pending,
                    plan, at, worker, window>>
    BY <1>1 DEF vars, sides, saved, control
  <2>2. ASSUME TypeInv, StageInv, RowsInv, BatchInv
        PROVE  TypeInv' /\ StageInv' /\ RowsInv' /\ BatchInv'
    BY <2>1, <2>2 DEF TypeInv, StageInv, RowsInv, BatchInv, Incomplete, Phase, Batch, Batches
  <2>3. ASSUME PhasesInOrder, WindowInv, ReachedInv, ForeignKeyInv, QuietRunIsNeverRefused
        PROVE  PhasesInOrder' /\ WindowInv' /\ ReachedInv' /\ ForeignKeyInv' /\ QuietRunIsNeverRefused'
    BY <2>1, <2>3 DEF PhasesInOrder, WindowInv, ReachedInv, Reached, ForeignKeyInv, Consistent,
                      QuietRunIsNeverRefused
  <2>4. QED
    BY <2>2, <2>3 DEF RunInv
<1>2. ASSUME RunInv, Next
      PROVE  RunInv'
  BY <1>2, TypeStep, StageStep, RowsStep, BatchStep, OrderStep, WindowStep, ReachedStep, ForeignKeyStep,
     QuietStep DEF RunInv
<1>3. QED
  BY <1>1, <1>2

(***************************************************************************)
(* The inductive invariant of a run of unified sync                        *)
(* (sync/orchestrate.rs, phased_run.rs, run.rs): the progress rows, the    *)
(* place in the plans, the workers and the rows agree, whatever the        *)
(* tables, foreign keys, parallelism, failures and source writes.          *)
(***************************************************************************)
THEOREM RunIsInductive == Spec => []RunInv
BY RunStart, RunInvStep, PTL DEF Spec

(***************************************************************************)
(* run_pending_phases and run_durable_schema_stage keep their order over   *)
(* any number of failed workers, crashes and attempts: no phase of a table *)
(* is recorded before the earlier phases of all tables, or before its      *)
(* parents' (children's for the deletes), and the final constraints are    *)
(* begun only over rows that have converged.                               *)
(***************************************************************************)
THEOREM RunKeepsItsOrder == Spec => []StagesInOrder
<1>1. RunInv => StagesInOrder
  <2> SUFFICES ASSUME RunInv, \E t \in Tables : stageStatus["final_constraints"][t] # "none"
               PROVE  /\ rowsDone = Tables /\ Incomplete("prerequisite_schema") = {}
                      /\ \A t \in Tables : \A k \in KeysOf[t] :
                           <<t, k>> \notin touched => target[t][k] = source[t][k]
    BY DEF StagesInOrder, FinalStageAfterRows, RunInv
  <2>1. rowsDone = Tables /\ Incomplete("prerequisite_schema") = {}
    BY DEF RunInv, StageInv
  <2>2. QED
    BY <2>1, RowsConverged DEF RunInv
<1>2. QED
  BY <1>1, RunIsInductive, PTL

(***************************************************************************)
(* Parents first and children last is enough: while the source is quiet    *)
(* no INSERT, UPDATE or DELETE of run_pending_phases is refused by a       *)
(* foreign key and the final stage finds no orphan, for every acyclic set  *)
(* of foreign keys and every parallelism, also after crashes and failed    *)
(* workers.                                                                *)
(***************************************************************************)
THEOREM QuietRunsAreNeverRefused == Spec => []QuietRunIsNeverRefused
<1>1. RunInv => QuietRunIsNeverRefused
  BY DEF RunInv
<1>2. QED
  BY <1>1, RunIsInductive, PTL

=============================================================================

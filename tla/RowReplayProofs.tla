--------------------------- MODULE RowReplayProofs ---------------------------
(***************************************************************************)
(* What row replay promises for every set of users, names and payments,    *)
(* any number of events and copied rows and any repair depth.              *)
(*                                                                         *)
(* Two arguments.  A call of execute_row_change_with_active_repairs keeps  *)
(* its promise if the calls nested in it do, so by induction on the depth  *)
(* every call does: rows other than the event's own only become the        *)
(* source's.  And a row in step is explained by the events that are still  *)
(* to come: if it is absent the source's row was absent at some time since *)
(* the stream's position, and if it is there each of its columns was in    *)
(* the source's row at some time since.                                    *)
(***************************************************************************)
EXTENDS RowReplay, FiniteSetTheorems, TLAPS

-----------------------------------------------------------------------------
(* Loops *)

(* A non-empty set of naturals has a least element. *)
LEMMA LeastNatural ==
  ASSUME NEW S \in SUBSET Nat, S # {}
  PROVE  \E m \in S : \A j \in S : m <= j
<1>1. PICK m \in S : \A y \in S : ~ (<<y, m>> \in OpToRel(<, Nat))
  <2>1. IsWellFoundedOn(OpToRel(<, Nat), Nat)
    BY NatLessThanWellFounded
  <2> HIDE DEF OpToRel
  <2>2. QED
    BY <2>1, WFMin
<1>2. \A j \in S : ~ (j < m)
  BY <1>1, Zenon DEF OpToRel
<1>3. QED
  BY <1>2

(* What holds of 0 and of the successor of each number it holds of. *)
LEMMA Induction ==
  ASSUME NEW S \in SUBSET Nat, 0 \in S, \A n \in S : n + 1 \in S
  PROVE  \A n \in Nat : n \in S
<1> SUFFICES ASSUME NEW n \in Nat, n \notin S
             PROVE  FALSE
  OBVIOUS
<1> DEFINE T == Nat \ S
<1>1. PICK m \in T : \A j \in T : m <= j
  <2>1. T \in SUBSET Nat /\ T # {}
    OBVIOUS
  <2>2. QED
    BY <2>1, LeastNatural, Zenon
<1>2. m # 0 /\ m - 1 \in Nat /\ m - 1 \notin T
  BY <1>1
<1>3. m - 1 \in S
  BY <1>2
<1>4. m - 1 + 1 = m
  BY <1>1
<1>5. QED
  BY <1>3, <1>4

Chain(turn, start, f, n) ==
  /\ f[0] = start
  /\ \A i \in 0 .. n - 1 : f[i + 1] = turn[f[i]]

(* The values of a loop after some turns are determined by its start. *)
LEMMA ChainsAgree ==
  ASSUME NEW turn, NEW start, NEW f, NEW g, NEW n \in Nat, NEW m \in Nat, n <= m,
         Chain(turn, start, f, n), Chain(turn, start, g, m)
  PROVE  f[n] = g[n]
<1> DEFINE S == {i \in Nat : i <= n => f[i] = g[i]}
<1>1. 0 \in S
  BY DEF Chain
<1>2. ASSUME NEW i \in S
      PROVE  i + 1 \in S
  <2> SUFFICES ASSUME i + 1 <= n
               PROVE  f[i + 1] = g[i + 1]
    OBVIOUS
  <2>1. i \in 0 .. n - 1 /\ i \in 0 .. m - 1 /\ f[i] = g[i]
    OBVIOUS
  <2>2. QED
    BY <2>1 DEF Chain
<1>3. n \in S
  BY <1>1, <1>2, Induction, Zenon
<1>4. QED
  BY <1>3

(* A loop has values for any number of turns. *)
LEMMA ChainExists ==
  ASSUME NEW S, NEW turn \in [S -> S], NEW start \in S
  PROVE  \A n \in Nat : \E f \in [0 .. n -> S] : Chain(turn, start, f, n)
<1> DEFINE T == {n \in Nat : \E f \in [0 .. n -> S] : Chain(turn, start, f, n)}
<1>1. 0 \in T
  <2> DEFINE f == [i \in 0 .. 0 |-> start]
  <2>1. f \in [0 .. 0 -> S] /\ Chain(turn, start, f, 0)
    BY DEF Chain
  <2>2. QED
    BY <2>1
<1>2. ASSUME NEW n \in T
      PROVE  n + 1 \in T
  <2>1. PICK f \in [0 .. n -> S] : Chain(turn, start, f, n)
    OBVIOUS
  <2> DEFINE g == [i \in 0 .. n + 1 |-> IF i = n + 1 THEN turn[f[n]] ELSE f[i]]
  <2>2. g \in [0 .. n + 1 -> S]
    OBVIOUS
  <2>3. g[0] = start
    BY <2>1 DEF Chain
  <2>4. ASSUME NEW i \in 0 .. n + 1 - 1
        PROVE  g[i + 1] = turn[g[i]]
    <3>1. CASE i = n
      BY <3>1
    <3>2. CASE i # n
      <4>1. i \in 0 .. n - 1 /\ i + 1 \in 0 .. n + 1 /\ i + 1 # n + 1 /\ i # n + 1
        BY <3>2
      <4>2. g[i] = f[i] /\ g[i + 1] = f[i + 1]
        BY <4>1
      <4>3. QED
        BY <4>1, <4>2, <2>1 DEF Chain
    <3>3. QED
      BY <3>1, <3>2
  <2> HIDE DEF g
  <2>5. Chain(turn, start, g, n + 1)
    BY <2>3, <2>4 DEF Chain
  <2>6. QED
    BY <2>2, <2>5
<1>3. \A n \in Nat : n \in T
  BY <1>1, <1>2, Induction, Zenon
<1>4. QED
  BY <1>3

Turns(turn, start, held) == held = [n \in Nat |-> IF n = 0 THEN start ELSE turn[held[n - 1]]]

(* The function that starts with a value and makes each further one from   *)
(* the one before.                                                         *)
LEMMA TurnsExist ==
  ASSUME NEW S, NEW turn \in [S -> S], NEW start \in S
  PROVE  \E held \in [Nat -> S] : Turns(turn, start, held)
<1> DEFINE Pick(n) == CHOOSE f \in [0 .. n -> S] : Chain(turn, start, f, n)
           F == [n \in Nat |-> Pick(n)[n]]
<1>1. \A n \in Nat : Pick(n) \in [0 .. n -> S] /\ Chain(turn, start, Pick(n), n)
  BY ChainExists
<1> HIDE DEF Pick
<1>2. F[0] = start
  BY <1>1 DEF Chain
<1>3. ASSUME NEW n \in Nat
      PROVE  F[n + 1] = turn[F[n]]
  <2>1. Pick(n)[n] = Pick(n + 1)[n]
    BY <1>1, ChainsAgree
  <2>2. n \in 0 .. (n + 1) - 1
    OBVIOUS
  <2>3. Pick(n + 1)[n + 1] = turn[Pick(n + 1)[n]]
    BY <1>1, <2>2 DEF Chain
  <2>4. QED
    BY <2>1, <2>3
<1>4. \A n \in Nat : F[n] = IF n = 0 THEN start ELSE turn[F[n - 1]]
  <2> SUFFICES ASSUME NEW n \in Nat, n # 0
               PROVE  F[n] = turn[F[n - 1]]
    BY <1>2
  <2>1. n - 1 \in Nat /\ n - 1 + 1 = n
    OBVIOUS
  <2> HIDE DEF F
  <2>2. QED
    BY <2>1, <1>3
<1>5. F = [n \in Nat |-> IF n = 0 THEN start ELSE turn[F[n - 1]]]
  BY <1>4
<1>6. F \in [Nat -> S]
  BY <1>1
<1>7. Turns(turn, start, F)
  BY <1>5, Zenon DEF Turns
<1>8. QED
  BY <1>6, <1>7, Zenon

-----------------------------------------------------------------------------
(* Rows and changes *)

(* Absent rows are none of the rows, and a table's rows have its columns. *)
LEMMA RowShapes ==
  /\ NoRow \notin Users /\ NoPayment \notin Payments
  /\ \A row \in Users \cup {NoRow} : DOMAIN row = {"name", "boss"}
  /\ \A row \in Payments \cup {NoPayment} : DOMAIN row = {"ident", "state"}
<1>1. NoRow \notin Users
  BY RowReplayAssumption DEF NoRow, Users
<1>2. NoPayment \notin Payments
  BY RowReplayAssumption DEF NoPayment, Payments
<1>3. \A row \in Users \cup {NoRow} : DOMAIN row = {"name", "boss"}
  BY DEF Users, NoRow
<1>4. \A row \in Payments \cup {NoPayment} : DOMAIN row = {"ident", "state"}
  BY DEF Payments, NoPayment
<1>5. QED
  BY <1>1, <1>2, <1>3, <1>4

UserChange(change) ==
  /\ change.table = "users"
  /\ change.id \in UserIds
  /\ \/ change.kind = "insert" /\ change.row \in Users /\ change.columns = {"name", "boss"}
     \/ change.kind = "update" /\ change.row \in Users /\ change.columns \in SUBSET {"name", "boss"}
     \/ change.kind = "delete" /\ change.row = NoRow

PaymentChange(change) ==
  /\ change.table = "payments"
  /\ change.id \in PaymentIds
  /\ \/ change.kind = "insert" /\ change.row \in Payments /\ change.columns = {"ident", "state"}
     \/ change.kind = "update" /\ change.row \in Payments /\ change.columns \in SUBSET {"ident", "state"}
     \/ change.kind = "delete" /\ change.row = NoPayment

(* What the changes of the two tables are made of. *)
LEMMA ChangeShapes ==
  ASSUME NEW change \in Changes
  PROVE  /\ UserChange(change) \/ PaymentChange(change)
         /\ change.native \in BOOLEAN
<1>1. DOMAIN NoRow = {"name", "boss"} /\ DOMAIN NoPayment = {"ident", "state"}
  BY RowShapes
<1>2. CASE change \in RowChanges("users", UserIds, Users)
  <2>1. UserChange(change)
    BY <1>1, <1>2 DEF RowChanges, Absent, UserChange
  <2>2. change.native \in BOOLEAN
    BY <1>2 DEF RowChanges
  <2>3. QED
    BY <2>1, <2>2
<1>3. CASE change \in RowChanges("payments", PaymentIds, Payments)
  <2>1. PaymentChange(change)
    BY <1>1, <1>3 DEF RowChanges, Absent, PaymentChange
  <2>2. change.native \in BOOLEAN
    BY <1>3 DEF RowChanges
  <2>3. QED
    BY <2>1, <2>2
<1>4. QED
  BY <1>2, <1>3 DEF Changes

(* The statements for a user are changes. *)
LEMMA UserChanges ==
  ASSUME NEW id \in UserIds
  PROVE  /\ \A row \in Users : Insert("users", id, row) \in Changes /\ Update("users", id, row) \in Changes
         /\ Delete("users", id) \in Changes
<1>1. DOMAIN NoRow = {"name", "boss"}
  BY RowShapes
<1>2. ASSUME NEW row \in Users
      PROVE  Insert("users", id, row) \in RowChanges("users", UserIds, Users)
  <2>1. DOMAIN row = {"name", "boss"}
    BY RowShapes
  <2>2. QED
    BY <1>1, <2>1 DEF Insert, Change, RowChanges, Absent
<1>3. ASSUME NEW row \in Users
      PROVE  Update("users", id, row) \in RowChanges("users", UserIds, Users)
  <2>1. DOMAIN row = {"name", "boss"}
    BY RowShapes
  <2>2. QED
    BY <1>1, <2>1 DEF Update, Change, RowChanges, Absent
<1>4. Delete("users", id) \in RowChanges("users", UserIds, Users)
  BY <1>1 DEF Delete, Change, RowChanges, Absent
<1>5. QED
  BY <1>2, <1>3, <1>4 DEF Changes

(* The statements for a payment are changes. *)
LEMMA PaymentChanges ==
  ASSUME NEW id \in PaymentIds
  PROVE  /\ \A row \in Payments : Insert("payments", id, row) \in Changes
                                  /\ Update("payments", id, row) \in Changes
         /\ Delete("payments", id) \in Changes
<1>1. DOMAIN NoPayment = {"ident", "state"}
  BY RowShapes
<1>2. ASSUME NEW row \in Payments
      PROVE  Insert("payments", id, row) \in RowChanges("payments", PaymentIds, Payments)
  <2>1. DOMAIN row = {"ident", "state"}
    BY RowShapes
  <2>2. QED
    BY <1>1, <2>1 DEF Insert, Change, RowChanges, Absent
<1>3. ASSUME NEW row \in Payments
      PROVE  Update("payments", id, row) \in RowChanges("payments", PaymentIds, Payments)
  <2>1. DOMAIN row = {"ident", "state"}
    BY RowShapes
  <2>2. QED
    BY <1>1, <2>1 DEF Update, Change, RowChanges, Absent
<1>4. Delete("payments", id) \in RowChanges("payments", PaymentIds, Payments)
  BY <1>1 DEF Delete, Change, RowChanges, Absent
<1>5. QED
  BY <1>2, <1>3, <1>4 DEF Changes

(* What an assignment of some columns leaves of a user. *)
LEMMA UserImage ==
  ASSUME NEW old \in Users \cup {NoRow}, NEW change, UserChange(change), change.kind # "delete"
  PROVE  /\ old \in Users => AfterImage(old, change) \in Users
         /\ change.columns = {"name", "boss"} => AfterImage(old, change) = change.row
         /\ \A c \in {"name", "boss"} :
              AfterImage(old, change)[c] = IF c \in change.columns THEN change.row[c] ELSE old[c]
<1>1. DOMAIN old = {"name", "boss"} /\ change.row \in Users /\ DOMAIN change.row = {"name", "boss"}
  BY RowShapes DEF UserChange
<1>2. AfterImage(old, change) =
        [c \in {"name", "boss"} |-> IF c \in change.columns THEN change.row[c] ELSE old[c]]
  BY <1>1 DEF AfterImage
<1>3. old \in Users => AfterImage(old, change) \in Users
  BY <1>1, <1>2 DEF Users
<1>4. change.columns = {"name", "boss"} => AfterImage(old, change) = change.row
  BY <1>1, <1>2 DEF Users
<1>5. QED
  BY <1>2, <1>3, <1>4

(* What an assignment of some columns leaves of a payment. *)
LEMMA PaymentImage ==
  ASSUME NEW old \in Payments \cup {NoPayment}, NEW change, PaymentChange(change), change.kind # "delete"
  PROVE  /\ old \in Payments => AfterImage(old, change) \in Payments
         /\ change.columns = {"ident", "state"} => AfterImage(old, change) = change.row
         /\ \A c \in {"ident", "state"} :
              AfterImage(old, change)[c] = IF c \in change.columns THEN change.row[c] ELSE old[c]
<1>1. DOMAIN old = {"ident", "state"} /\ change.row \in Payments /\ DOMAIN change.row = {"ident", "state"}
  BY RowShapes DEF PaymentChange
<1>2. AfterImage(old, change) =
        [c \in {"ident", "state"} |-> IF c \in change.columns THEN change.row[c] ELSE old[c]]
  BY <1>1 DEF AfterImage
<1>3. old \in Payments => AfterImage(old, change) \in Payments
  BY <1>1, <1>2 DEF Payments
<1>4. change.columns = {"ident", "state"} => AfterImage(old, change) = change.row
  BY <1>1, <1>2 DEF Payments
<1>5. QED
  BY <1>2, <1>3, <1>4

-----------------------------------------------------------------------------
(* Statements *)

(* A statement on a user touches that user alone. *)
LEMMA ExecutedUser ==
  ASSUME NEW rows \in Rows, NEW change, UserChange(change)
  PROVE  /\ Executed(rows, change) \in Rows
         /\ Executed(rows, change).payments = rows.payments
         /\ \A i \in UserIds \ {change.id} : Executed(rows, change).users[i] = rows.users[i]
         /\ Executed(rows, change).users[change.id] =
              IF change.kind = "delete" \/ (change.kind = "update" /\ rows.users[change.id] = NoRow)
              THEN NoRow ELSE AfterImage(rows.users[change.id], change)
<1> DEFINE id == change.id
           old == rows.users[id]
           new == AfterImage(old, change)
           Kept(next, row) == /\ next \in Rows
                              /\ next.payments = rows.payments
                              /\ \A i \in UserIds \ {id} : next.users[i] = rows.users[i]
                              /\ next.users[id] = row
<1>1. /\ id \in UserIds /\ change.table = "users" /\ rows["users"] = rows.users
      /\ rows.users \in [UserIds -> Users \cup {NoRow}]
      /\ rows.payments \in [PaymentIds -> Payments \cup {NoPayment}]
      /\ old \in Users \cup {NoRow}
  BY DEF UserChange, Rows
<1>2. change.kind \in {"insert", "update", "delete"}
  BY DEF UserChange
<1>3. \A row \in Users \cup {NoRow} : Kept([rows EXCEPT !["users"][id] = row], row)
  BY <1>1 DEF Rows
<1> HIDE DEF Kept
<1>4. CASE change.kind = "delete"
  <2>1. Executed(rows, change) = [rows EXCEPT !["users"][id] = NoRow]
    BY <1>1, <1>4 DEF Executed, Absent
  <2>2. Kept(Executed(rows, change), NoRow)
    BY <1>3, <2>1, Zenon
  <2>3. QED
    BY <1>4, <2>2 DEF Kept
<1>5. CASE change.kind = "update" /\ old = NoRow
  <2>1. Executed(rows, change) = rows
    BY <1>1, <1>5 DEF Executed, Absent
  <2>2. QED
    BY <1>5, <2>1
<1>6. CASE change.kind # "delete" /\ ~ (change.kind = "update" /\ old = NoRow)
  <2>1. Executed(rows, change) = [rows EXCEPT !["users"][id] = new]
    BY <1>1, <1>6 DEF Executed, Absent
  <2>2. new \in Users
    <3>1. CASE change.kind = "insert"
      BY <1>1, <3>1, UserImage DEF UserChange
    <3>2. CASE change.kind = "update"
      BY <1>1, <1>6, <3>2, UserImage
    <3>3. QED
      BY <1>2, <1>6, <3>1, <3>2
  <2> HIDE DEF new
  <2>3. Kept(Executed(rows, change), new)
    BY <1>3, <2>1, <2>2, Zenon
  <2>4. QED
    BY <1>6, <2>3 DEF Kept, new
<1>7. QED
  BY <1>4, <1>5, <1>6

(* A statement on a payment touches that payment alone. *)
LEMMA ExecutedPayment ==
  ASSUME NEW rows \in Rows, NEW change, PaymentChange(change)
  PROVE  /\ Executed(rows, change) \in Rows
         /\ Executed(rows, change).users = rows.users
         /\ \A i \in PaymentIds \ {change.id} : Executed(rows, change).payments[i] = rows.payments[i]
         /\ Executed(rows, change).payments[change.id] =
              IF change.kind = "delete" \/ (change.kind = "update" /\ rows.payments[change.id] = NoPayment)
              THEN NoPayment ELSE AfterImage(rows.payments[change.id], change)
<1> DEFINE id == change.id
           old == rows.payments[id]
           new == AfterImage(old, change)
           Kept(next, row) == /\ next \in Rows
                              /\ next.users = rows.users
                              /\ \A i \in PaymentIds \ {id} : next.payments[i] = rows.payments[i]
                              /\ next.payments[id] = row
<1>1. /\ id \in PaymentIds /\ change.table = "payments" /\ rows["payments"] = rows.payments
      /\ rows.users \in [UserIds -> Users \cup {NoRow}]
      /\ rows.payments \in [PaymentIds -> Payments \cup {NoPayment}]
      /\ old \in Payments \cup {NoPayment}
  BY DEF PaymentChange, Rows
<1>2. change.kind \in {"insert", "update", "delete"}
  BY DEF PaymentChange
<1>3. \A row \in Payments \cup {NoPayment} : Kept([rows EXCEPT !["payments"][id] = row], row)
  BY <1>1 DEF Rows
<1> HIDE DEF Kept
<1>4. CASE change.kind = "delete"
  <2>1. Executed(rows, change) = [rows EXCEPT !["payments"][id] = NoPayment]
    BY <1>1, <1>4 DEF Executed, Absent
  <2>2. Kept(Executed(rows, change), NoPayment)
    BY <1>3, <2>1, Zenon
  <2>3. QED
    BY <1>4, <2>2 DEF Kept
<1>5. CASE change.kind = "update" /\ old = NoPayment
  <2>1. Executed(rows, change) = rows
    BY <1>1, <1>5 DEF Executed, Absent
  <2>2. QED
    BY <1>5, <2>1
<1>6. CASE change.kind # "delete" /\ ~ (change.kind = "update" /\ old = NoPayment)
  <2>1. Executed(rows, change) = [rows EXCEPT !["payments"][id] = new]
    BY <1>1, <1>6 DEF Executed, Absent
  <2>2. new \in Payments
    <3>1. CASE change.kind = "insert"
      BY <1>1, <3>1, PaymentImage DEF PaymentChange
    <3>2. CASE change.kind = "update"
      BY <1>1, <1>6, <3>2, PaymentImage
    <3>3. QED
      BY <1>2, <1>6, <3>1, <3>2
  <2> HIDE DEF new
  <2>3. Kept(Executed(rows, change), new)
    BY <1>3, <2>1, <2>2, Zenon
  <2>4. QED
    BY <1>6, <2>3 DEF Kept, new
<1>7. QED
  BY <1>4, <1>5, <1>6

(* When MySQL refuses a statement on a user. *)
LEMMA UserErrors ==
  ASSUME NEW rows \in Rows, NEW change, UserChange(change),
         NEW error, error = StatementError(rows, change)
  PROVE  /\ error \in {"ok", "1451", "1062 PRIMARY", "1062 name", "1452"}
         /\ error = "1451" => change.kind = "delete"
         /\ error = "1062 PRIMARY" => change.kind = "insert" /\ rows.users[change.id] # NoRow
         /\ error = "1062 name" /\ change.kind = "insert" =>
              rows.users[change.id] = NoRow /\ Owner(rows, change.row.name) # {}
         /\ error = "1452" => /\ foreign_key_reference(rows, change) \in UserIds
                              /\ change.kind = "insert" => rows.users[change.id] = NoRow
         /\ error = "ok" /\ change.kind = "insert" => rows.users[change.id] = NoRow
<1> DEFINE id == change.id
           old == rows.users[id]
           new == AfterImage(old, change)
<1>1. /\ id \in UserIds /\ change.table = "users" /\ rows["users"] = rows.users
      /\ old \in Users \cup {NoRow}
  BY DEF UserChange, Rows
<1>2. change.kind \in {"insert", "update", "delete"}
  BY DEF UserChange
<1>3. change.kind = "insert" => new = change.row
  BY <1>1, UserImage DEF UserChange
<1>4. change.kind # "delete" /\ ~ (change.kind = "update" /\ old = NoRow) => new.boss \in UserIds \cup {0}
  <2>1. CASE change.kind = "insert"
    BY <1>3, <2>1 DEF UserChange, Users
  <2>2. CASE change.kind = "update" /\ old # NoRow
    <3>1. new \in Users
      BY <1>1, <2>2, UserImage
    <3>2. QED
      BY <3>1 DEF Users
  <2>3. QED
    BY <1>2, <2>1, <2>2
<1>5. foreign_key_reference(rows, change) = new.boss
  BY DEF foreign_key_reference
<1> HIDE DEF new
<1>6. error = IF change.kind = "delete"
              THEN IF \E i \in UserIds \ {id} : rows.users[i].boss = id THEN "1451" ELSE "ok"
              ELSE IF change.kind = "update" /\ old = NoRow THEN "ok"
              ELSE IF change.kind = "insert" /\ old # NoRow THEN "1062 PRIMARY"
              ELSE IF Owner(rows, new.name) \ {id} # {} THEN "1062 name"
              ELSE IF new.boss # 0 /\ new.boss # id /\ rows.users[new.boss] = NoRow THEN "1452"
              ELSE "ok"
  BY <1>1 DEF StatementError, Absent, new
<1>7. QED
  BY <1>2, <1>3, <1>4, <1>5, <1>6

(* When MySQL refuses a statement on a payment. *)
LEMMA PaymentErrors ==
  ASSUME NEW rows \in Rows, NEW change, PaymentChange(change),
         NEW error, error = StatementError(rows, change)
  PROVE  /\ error \in {"ok", "1644", "1062 PRIMARY"}
         /\ error = "1644" => change.kind = "insert"
         /\ error = "1062 PRIMARY" => change.kind = "insert" /\ rows.payments[change.id] # NoPayment
         /\ error = "ok" /\ change.kind = "insert" => rows.payments[change.id] = NoPayment
<1> DEFINE id == change.id
           old == rows.payments[id]
           new == AfterImage(old, change)
<1>1. /\ id \in PaymentIds /\ change.table = "payments" /\ rows["payments"] = rows.payments
  BY DEF PaymentChange, Rows
<1>2. change.kind \in {"insert", "update", "delete"}
  BY DEF PaymentChange
<1> HIDE DEF new
<1>3. error = IF change.kind = "delete" THEN "ok"
              ELSE IF change.kind = "update" /\ old = NoPayment THEN "ok"
              ELSE IF change.kind = "insert" /\ Payers(rows, new.ident) # {} THEN "1644"
              ELSE IF change.kind = "insert" /\ old # NoPayment THEN "1062 PRIMARY"
              ELSE "ok"
  BY <1>1 DEF StatementError, Absent, new
<1>4. QED
  BY <1>2, <1>3

(* execute_row_change_statement acknowledges a refused update only of a    *)
(* user that is the source's row.                                          *)
LEMMA UserGuards ==
  ASSUME NEW rows \in Rows, NEW change, UserChange(change), change.native \in BOOLEAN
  PROVE  \/ GuardedError(rows, change) = StatementError(rows, change)
         \/ /\ GuardedError(rows, change) = "proven"
            /\ change.native
            /\ rows.users[change.id] = source.users[change.id]
<1>1. StatementError(rows, change) # "1644"
  BY UserErrors
<1>2. UsersUpdateProven(rows, change) => change.native /\ rows.users[change.id] = source.users[change.id]
  BY DEF UsersUpdateProven
<1>3. QED
  BY <1>1, <1>2 DEF GuardedError

(* execute_row_change_statement acknowledges a refused insert only of a    *)
(* payment that is the source's row.                                       *)
LEMMA PaymentGuards ==
  ASSUME NEW rows \in Rows, NEW change, PaymentChange(change)
  PROVE  \/ GuardedError(rows, change) = StatementError(rows, change)
         \/ /\ GuardedError(rows, change) = "proven"
            /\ rows.payments[change.id] = source.payments[change.id]
<1>1. StatementError(rows, change) # "1062 name"
  BY PaymentErrors
<1>2. PaymentReplayProven(rows, change) => rows.payments[change.id] = source.payments[change.id]
  BY DEF PaymentReplayProven
<1>3. QED
  BY <1>1, <1>2 DEF GuardedError

-----------------------------------------------------------------------------
(* Repairs *)

Results == [ok : BOOLEAN, rows : Rows]

(* A change that makes a user what the source has. *)
Authoritative(change) ==
  /\ change.table = "users"
  /\ change.native = FALSE
  /\ IF change.kind = "delete" THEN source.users[change.id] = NoRow
     ELSE change.row = source.users[change.id] /\ change.columns = {"name", "boss"}

FromSource(before, after) ==
  /\ after.payments = before.payments
  /\ \A i \in UserIds : after.users[i] \in {before.users[i], source.users[i]}

(* What a statement makes of a row. *)
Applied(old, change, absent) ==
  IF change.kind = "delete" \/ (change.kind = "update" /\ old = absent) THEN absent
  ELSE AfterImage(old, change)

(* What an event may leave of its own row: the source's current row, what  *)
(* its statement makes of the row before or of the source's, or, when an   *)
(* INSERT is ignored, that row.                                            *)
Outcome(change, before, current, absent, after) ==
  \/ after = current
  \/ \E old \in {before, current} :
       after = Applied(old, change, absent) \/ (change.kind = "insert" /\ after = old)

SoundRepair(rows, change, duplicate, after) ==
  Authoritative(change) /\ duplicate # "ignore" =>
    /\ FromSource(rows, after)
    /\ change.kind = "insert" => after.users[change.id] = change.row

SoundUser(rows, change, duplicate, after) ==
  change.table = "users" /\ duplicate = "ignore" =>
    /\ after.payments = rows.payments
    /\ \A i \in UserIds \ {change.id} : after.users[i] \in {rows.users[i], source.users[i]}
    /\ Outcome(change, rows.users[change.id], source.users[change.id], NoRow, after.users[change.id])

SoundPayment(rows, change, duplicate, after) ==
  change.table = "payments" /\ duplicate = "ignore" =>
    /\ after.users = rows.users
    /\ \A i \in PaymentIds \ {change.id} : after.payments[i] = rows.payments[i]
    /\ Outcome(change, rows.payments[change.id], source.payments[change.id], NoPayment,
               after.payments[change.id])
    /\ change.kind = "insert" /\ after.payments[change.id] = NoPayment => source.payments[change.id] = NoPayment

Sound(rows, change, duplicate, result) ==
  /\ result \in Results
  /\ result.ok = TRUE => /\ SoundRepair(rows, change, duplicate, result.rows)
                         /\ SoundUser(rows, change, duplicate, result.rows)
                         /\ SoundPayment(rows, change, duplicate, result.rows)

Executors ==
  {execute \in [Calls -> Results] :
     \A call \in Calls : Sound(call.rows, call.change, call.duplicate, execute[call])}

Behaviours == {"ignore", "reject", "reconcile"}

(* What a nested call promises. *)
LEMMA NestedCall ==
  ASSUME NEW execute \in Executors, NEW rows \in Rows, NEW change \in Changes,
         NEW active \in SUBSET RepairKeys, NEW duplicate \in Behaviours
  PROVE  Sound(rows, change, duplicate, execute[Call(rows, change, active, duplicate)])
<1>1. Call(rows, change, active, duplicate) \in Calls
  BY DEF Call, Calls, Behaviours
<1>2. /\ Call(rows, change, active, duplicate).rows = rows
      /\ Call(rows, change, active, duplicate).change = change
      /\ Call(rows, change, active, duplicate).duplicate = duplicate
  BY DEF Call
<1> HIDE DEF Call
<1>3. QED
  BY <1>1, <1>2 DEF Executors

(* An error promises nothing: the target transaction is rolled back. *)
LEMMA Failure ==
  ASSUME NEW rows \in Rows, NEW change, NEW duplicate, NEW anything \in Rows
  PROVE  Sound(rows, change, duplicate, Failed(anything))
BY DEF Sound, Failed, Results

(* One repair after another is still from the source. *)
LEMMA FromSourceComposes ==
  ASSUME NEW a, NEW b, NEW c, FromSource(a, b), FromSource(b, c)
  PROVE  FromSource(a, c)
BY DEF FromSource

(* The changes that repairs build from a source row make it the target's. *)
LEMMA AuthoritativeChanges ==
  ASSUME source \in Rows, NEW id \in UserIds
  PROVE  /\ source.users[id] # NoRow =>
              /\ source.users[id] \in Users
              /\ Insert("users", id, source.users[id]) \in Changes
              /\ Update("users", id, source.users[id]) \in Changes
              /\ Authoritative(Insert("users", id, source.users[id]))
              /\ Authoritative(Update("users", id, source.users[id]))
         /\ source.users[id] = NoRow => Delete("users", id) \in Changes /\ Authoritative(Delete("users", id))
<1>1. source.users[id] \in Users \cup {NoRow}
  BY DEF Rows
<1>2. CASE source.users[id] # NoRow
  <2>1. source.users[id] \in Users /\ DOMAIN source.users[id] = {"name", "boss"}
    BY <1>1, <1>2, RowShapes
  <2>2. QED
    BY <1>2, <2>1, UserChanges DEF Authoritative, Insert, Update, Change
<1>3. CASE source.users[id] = NoRow
  BY <1>3, UserChanges DEF Authoritative, Delete, Change
<1>4. QED
  BY <1>2, <1>3

LEMMA ReconciledParent ==
  ASSUME source \in Rows, NEW execute \in Executors, NEW rows \in Rows, NEW change \in Changes,
         change.kind = "insert", NEW active \in SUBSET RepairKeys, NEW error \in {"1062 PRIMARY", "1062 name"},
         error = "1062 name" => UserChange(change) /\ Owner(rows, change.row.name) # {}
  PROVE  Sound(rows, change, "reconcile", reconcile_duplicate_parent(execute, rows, change, error, active))
<1> DEFINE key == duplicate_parent_repair_key(change, error)
           oc == OwnerChange(rows, change, error)
           under == active \cup {key}
<1>1. under \in SUBSET RepairKeys
  <2>1. CASE error = "1062 PRIMARY"
    <3>1. change.id \in UserIds \cup PaymentIds
      BY ChangeShapes DEF UserChange, PaymentChange
    <3>2. key \in {"1062 PRIMARY"} \X (UserIds \cup PaymentIds)
      BY <2>1, <3>1 DEF duplicate_parent_repair_key
    <3>3. QED
      BY <3>2 DEF RepairKeys
  <2>2. CASE error = "1062 name"
    <3>1. change.row.name \in Names
      BY <2>2 DEF UserChange, Users
    <3>2. key \in {"1062 name"} \X Names
      BY <2>2, <3>1 DEF duplicate_parent_repair_key
    <3>3. QED
      BY <3>2 DEF RepairKeys
  <2>3. QED
    BY <2>1, <2>2
<1>2. oc \in Changes /\ (Authoritative(change) => Authoritative(oc))
  <2>1. CASE error = "1062 PRIMARY"
    <3>1. oc = Update(change.table, change.id, change.row)
      BY <2>1 DEF OwnerChange
    <3>2. CASE UserChange(change)
      <4>1. oc \in Changes
        BY <3>1, <3>2, UserChanges DEF UserChange
      <4>2. Authoritative(change) => Authoritative(oc)
        <5> SUFFICES ASSUME Authoritative(change)
                     PROVE  Authoritative(oc)
          OBVIOUS
        <5>1. /\ change.table = "users" /\ change.id \in UserIds /\ change.row \in Users
              /\ change.row = source.users[change.id]
          BY <3>2 DEF UserChange, Authoritative
        <5>2. source.users[change.id] # NoRow
          BY <5>1, RowShapes
        <5>3. QED
          BY <3>1, <5>1, <5>2, AuthoritativeChanges
      <4>3. QED
        BY <4>1, <4>2
    <3>3. CASE PaymentChange(change)
      <4>1. oc \in Changes
        BY <3>1, <3>3, PaymentChanges DEF PaymentChange
      <4>2. ~ Authoritative(change)
        BY <3>3 DEF PaymentChange, Authoritative
      <4>3. QED
        BY <4>1, <4>2
    <3>4. QED
      BY <3>2, <3>3, ChangeShapes
  <2>2. CASE error = "1062 name"
    <3>1. PICK owner : owner = duplicate_parent_owner(rows, change)
      OBVIOUS
    <3>2. owner \in UserIds
      <4>1. owner \in Owner(rows, change.row.name)
        BY <2>2, <3>1 DEF duplicate_parent_owner
      <4>2. QED
        BY <4>1 DEF Owner
    <3>3. oc = IF source.users[owner] # NoRow THEN Update("users", owner, source.users[owner])
               ELSE Delete("users", owner)
      BY <2>2, <3>1 DEF OwnerChange, fetch_source_owner
    <3>4. QED
      BY <3>2, <3>3, AuthoritativeChanges
  <2>3. QED
    BY <2>1, <2>2
<1> HIDE DEF key, oc, under
<1>3. PICK owner : owner = execute[Call(rows, oc, under, "reconcile")]
  OBVIOUS
<1>4. Sound(rows, oc, "reconcile", owner)
  BY <1>1, <1>2, <1>3, NestedCall DEF Behaviours
<1>5. owner \in Results /\ owner.rows \in Rows /\ owner.ok \in BOOLEAN
  BY <1>4 DEF Sound, Results
<1>6. owner.ok = TRUE /\ Authoritative(change) => FromSource(rows, owner.rows)
  BY <1>2, <1>4 DEF Sound, SoundRepair
<1>7. PICK again : again = execute[Call(owner.rows, change, under, "reject")]
  OBVIOUS
<1>8. Sound(owner.rows, change, "reject", again)
  BY <1>1, <1>5, <1>7, NestedCall DEF Behaviours
<1>9. PICK retry : retry = IF owner.ok /\ error # "1062 PRIMARY" THEN again ELSE owner
  OBVIOUS
<1>10. retry \in Results /\ retry.rows \in Rows /\ retry.ok \in BOOLEAN
  BY <1>5, <1>8, <1>9 DEF Sound, Results
<1>11. retry.ok = TRUE /\ Authoritative(change) => FromSource(rows, retry.rows)
  <2> SUFFICES ASSUME retry.ok = TRUE, Authoritative(change)
               PROVE  FromSource(rows, retry.rows)
    OBVIOUS
  <2>1. CASE owner.ok = TRUE /\ error # "1062 PRIMARY"
    <3>1. retry = again
      BY <1>9, <2>1
    <3>2. FromSource(owner.rows, retry.rows)
      BY <1>8, <3>1 DEF Sound, SoundRepair
    <3>3. FromSource(rows, owner.rows)
      BY <1>6, <2>1
    <3>4. QED
      BY <3>2, <3>3, FromSourceComposes
  <2>2. CASE ~ (owner.ok = TRUE /\ error # "1062 PRIMARY")
    <3>1. retry = owner
      BY <1>5, <1>9, <2>2
    <3>2. QED
      BY <1>6, <3>1
  <2>3. QED
    BY <2>1, <2>2
<1>12. reconcile_duplicate_parent(execute, rows, change, error, active) =
         IF ~ CanStart(key, active) THEN Failed(rows)
         ELSE IF retry.ok /\ retry.rows.users[change.id] # change.row THEN Failed(retry.rows)
         ELSE retry
  BY <1>3, <1>7, <1>9 DEF reconcile_duplicate_parent, verify_duplicate_parent_reconciliation, key, oc, under
<1>13. CASE ~ CanStart(key, active)
  BY <1>12, <1>13, Failure
<1>14. CASE CanStart(key, active) /\ retry.ok /\ retry.rows.users[change.id] # change.row
  BY <1>10, <1>12, <1>14, Failure
<1>15. CASE CanStart(key, active) /\ ~ (retry.ok /\ retry.rows.users[change.id] # change.row)
  <2>1. reconcile_duplicate_parent(execute, rows, change, error, active) = retry
    BY <1>12, <1>15
  <2>2. retry.ok = TRUE => SoundRepair(rows, change, "reconcile", retry.rows)
    BY <1>11, <1>15 DEF SoundRepair
  <2>3. QED
    BY <1>10, <2>1, <2>2 DEF Sound, SoundUser, SoundPayment
<1>16. QED
  BY <1>13, <1>14, <1>15

(* A change tried again after a repair. *)
LEMMA SoundAfterRepair ==
  ASSUME NEW rows, NEW repaired, NEW change, UserChange(change), NEW duplicate, NEW result,
         FromSource(rows, repaired), Sound(repaired, change, duplicate, result)
  PROVE  Sound(rows, change, duplicate, result)
<1>1. change.id \in UserIds /\ change.table = "users"
  BY DEF UserChange
<1>2. repaired.users[change.id] \in {rows.users[change.id], source.users[change.id]}
  BY <1>1 DEF FromSource
<1>3. SoundRepair(repaired, change, duplicate, result.rows) => SoundRepair(rows, change, duplicate, result.rows)
  BY FromSourceComposes DEF SoundRepair
<1>4. SoundUser(repaired, change, duplicate, result.rows) => SoundUser(rows, change, duplicate, result.rows)
  <2> SUFFICES ASSUME SoundUser(repaired, change, duplicate, result.rows), duplicate = "ignore"
               PROVE  SoundUser(rows, change, duplicate, result.rows)
    BY DEF SoundUser
  <2>1. Outcome(change, rows.users[change.id], source.users[change.id], NoRow, result.rows.users[change.id])
    BY <1>1, <1>2 DEF SoundUser, Outcome
  <2>2. \A i \in UserIds \ {change.id} : result.rows.users[i] \in {rows.users[i], source.users[i]}
    BY <1>1 DEF SoundUser, FromSource
  <2>3. result.rows.payments = rows.payments
    BY <1>1 DEF SoundUser, FromSource
  <2>4. QED
    BY <2>1, <2>2, <2>3 DEF SoundUser
<1>5. SoundPayment(rows, change, duplicate, result.rows)
  BY <1>1 DEF SoundPayment
<1>6. QED
  BY <1>3, <1>4, <1>5 DEF Sound

(* superseded_insert: the source's current row, or none where it has none. *)
LEMMA SupersededInsert ==
  ASSUME source \in Rows, NEW execute \in Executors, NEW rows \in Rows, NEW change \in Changes,
         UserChange(change), change.kind = "insert", rows.users[change.id] = NoRow,
         NEW active \in SUBSET RepairKeys, NEW duplicate \in Behaviours, NEW reference
  PROVE  Sound(rows, change, duplicate, superseded_insert(execute, rows, change, reference, active))
<1> DEFINE current == source.users[change.id]
           insert == Insert("users", change.id, current)
<1>1. change.id \in UserIds /\ change.table = "users"
  BY DEF UserChange
<1>2. CASE current = NoRow
  <2>1. superseded_insert(execute, rows, change, reference, active) = Done(rows)
    BY <1>2 DEF superseded_insert
  <2>2. Done(rows) \in Results /\ Done(rows).rows = rows
    BY DEF Done, Results
  <2>3. ~ Authoritative(change)
    BY <1>2, RowShapes DEF Authoritative, UserChange
  <2>4. SoundUser(rows, change, duplicate, rows)
    BY <1>2 DEF SoundUser, Outcome
  <2>5. QED
    BY <1>1, <2>1, <2>2, <2>3, <2>4 DEF Sound, SoundRepair, SoundPayment
<1>3. CASE current # NoRow /\ current.boss = reference
  <2>1. superseded_insert(execute, rows, change, reference, active) = Failed(rows)
    BY <1>3 DEF superseded_insert
  <2>2. QED
    BY <2>1, Failure
<1>4. CASE current # NoRow /\ current.boss # reference
  <2>1. PICK result : result = execute[Call(rows, insert, active, "reconcile")]
    OBVIOUS
  <2>2. superseded_insert(execute, rows, change, reference, active) = result
    BY <1>4, <2>1 DEF superseded_insert
  <2>3. insert \in Changes /\ Authoritative(insert)
    BY <1>1, <1>4, AuthoritativeChanges
  <2>4. insert.id = change.id /\ insert.kind = "insert" /\ insert.row = current
    BY DEF Insert, Change
  <2> HIDE DEF insert
  <2>5. Sound(rows, insert, "reconcile", result)
    BY <2>1, <2>3, NestedCall DEF Behaviours
  <2>6. result \in Results /\
        (result.ok = TRUE => FromSource(rows, result.rows) /\ result.rows.users[change.id] = current)
    BY <2>3, <2>4, <2>5 DEF Sound, SoundRepair
  <2>7. result.ok = TRUE => SoundRepair(rows, change, duplicate, result.rows)
    BY <2>6 DEF SoundRepair, Authoritative
  <2>8. result.ok = TRUE => SoundUser(rows, change, duplicate, result.rows)
    BY <2>6 DEF SoundUser, Outcome, FromSource
  <2>9. QED
    BY <1>1, <2>2, <2>6, <2>7, <2>8 DEF Sound, SoundPayment
<1>5. QED
  BY <1>2, <1>3, <1>4

(* repair_parent_and_retry, with and without a source parent. *)
LEMMA RepairedParent ==
  ASSUME source \in Rows, NEW execute \in Executors, NEW rows \in Rows, NEW change \in Changes,
         UserChange(change), foreign_key_reference(rows, change) \in UserIds,
         change.kind = "insert" => rows.users[change.id] = NoRow,
         NEW active \in SUBSET RepairKeys, NEW duplicate \in Behaviours
  PROVE  Sound(rows, change, duplicate, repair_parent_and_retry(execute, rows, change, active, duplicate))
<1> DEFINE result == repair_parent_and_retry(execute, rows, change, active, duplicate)
<1>1. PICK reference \in UserIds : reference = foreign_key_reference(rows, change)
  OBVIOUS
<1>2. PICK key : key = missing_foreign_key_repair_key(reference)
  OBVIOUS
<1>3. PICK under : under = active \cup {key}
  OBVIOUS
<1>4. under \in SUBSET RepairKeys
  <2>1. key \in {"1452"} \X UserIds
    BY <1>2 DEF missing_foreign_key_repair_key
  <2>2. QED
    BY <1>3, <2>1 DEF RepairKeys
<1>5. PICK insert : insert = build_parent_row_change(reference)
  OBVIOUS
<1>6. PICK parent : parent = execute[Call(rows, insert, under, "reconcile")]
  OBVIOUS
<1>7. result = IF ~ CanStart(key, active) THEN Failed(rows)
               ELSE IF source.users[reference] # NoRow
               THEN IF parent.ok THEN execute[Call(parent.rows, change, under, duplicate)] ELSE parent
               ELSE IF change.kind # "insert" THEN Failed(rows)
               ELSE superseded_insert(execute, rows, change, reference, under)
  BY <1>1, <1>2, <1>3, <1>5, <1>6 DEF repair_parent_and_retry, fetch_source_parent_row
<1> HIDE DEF result
<1>8. CASE ~ CanStart(key, active)
  BY <1>7, <1>8, Failure DEF result
<1>9. CASE CanStart(key, active) /\ source.users[reference] # NoRow
  <2>1. insert \in Changes /\ Authoritative(insert)
    BY <1>5, <1>9, AuthoritativeChanges DEF build_parent_row_change, fetch_source_parent_row
  <2>2. Sound(rows, insert, "reconcile", parent)
    BY <1>4, <1>6, <2>1, NestedCall DEF Behaviours
  <2>3. parent \in Results /\ parent.rows \in Rows /\ parent.ok \in BOOLEAN
    BY <2>2 DEF Sound, Results
  <2>4. CASE parent.ok = TRUE
    <3>1. FromSource(rows, parent.rows)
      BY <2>1, <2>2, <2>4 DEF Sound, SoundRepair
    <3>2. PICK again : again = execute[Call(parent.rows, change, under, duplicate)]
      OBVIOUS
    <3>3. Sound(parent.rows, change, duplicate, again)
      BY <1>4, <2>3, <3>2, NestedCall
    <3>4. Sound(rows, change, duplicate, again)
      BY <3>1, <3>3, SoundAfterRepair
    <3>5. result = again
      BY <1>7, <1>9, <2>4, <3>2
    <3>6. QED
      BY <3>4, <3>5 DEF result
  <2>5. CASE parent.ok = FALSE
    <3>1. result = parent
      BY <1>7, <1>9, <2>5
    <3>2. Sound(rows, change, duplicate, parent)
      BY <2>3, <2>5 DEF Sound
    <3>3. QED
      BY <3>1, <3>2 DEF result
  <2>6. QED
    BY <2>3, <2>4, <2>5
<1>10. CASE CanStart(key, active) /\ source.users[reference] = NoRow /\ change.kind # "insert"
  BY <1>7, <1>10, Failure DEF result
<1>11. CASE CanStart(key, active) /\ source.users[reference] = NoRow /\ change.kind = "insert"
  <2>1. result = superseded_insert(execute, rows, change, reference, under)
    BY <1>7, <1>11
  <2>2. QED
    BY <1>4, <1>11, <2>1, SupersededInsert DEF result
<1>12. QED
  BY <1>8, <1>9, <1>10, <1>11

LEMMA StatementOfUser ==
  ASSUME source \in Rows, NEW rows \in Rows, NEW change, UserChange(change), NEW duplicate
  PROVE  Sound(rows, change, duplicate, Done(Executed(rows, change)))
<1> DEFINE after == Executed(rows, change)
           id == change.id
<1>1. /\ after \in Rows
      /\ after.payments = rows.payments
      /\ \A i \in UserIds \ {id} : after.users[i] = rows.users[i]
      /\ after.users[id] = Applied(rows.users[id], change, NoRow)
  BY ExecutedUser DEF Applied
<1>2. /\ id \in UserIds /\ change.table = "users" /\ rows.users[id] \in Users \cup {NoRow}
      /\ change.kind \in {"insert", "update", "delete"}
  BY DEF UserChange, Rows
<1> HIDE DEF after
<1>3. SoundUser(rows, change, duplicate, after)
  BY <1>1, <1>2 DEF SoundUser, Outcome
<1>4. SoundRepair(rows, change, duplicate, after)
  <2> SUFFICES ASSUME Authoritative(change)
               PROVE  /\ after.users[id] \in {rows.users[id], source.users[id]}
                      /\ change.kind = "insert" => after.users[id] = change.row
    BY <1>1, <1>2 DEF SoundRepair, FromSource
  <2>1. CASE change.kind = "delete"
    BY <1>1, <2>1 DEF Applied, Authoritative
  <2>2. CASE change.kind = "update" /\ rows.users[id] = NoRow
    BY <1>1, <2>2 DEF Applied
  <2>3. CASE change.kind # "delete" /\ ~ (change.kind = "update" /\ rows.users[id] = NoRow)
    <3>1. after.users[id] = AfterImage(rows.users[id], change)
      BY <1>1, <2>3 DEF Applied
    <3>2. change.columns = {"name", "boss"} /\ change.row = source.users[id]
      BY <2>3 DEF Authoritative
    <3>3. AfterImage(rows.users[id], change) = change.row
      BY <1>2, <2>3, <3>2, UserImage
    <3>4. QED
      BY <3>1, <3>2, <3>3
  <2>4. QED
    BY <2>1, <2>2, <2>3
<1>5. SoundPayment(rows, change, duplicate, after)
  BY <1>2 DEF SoundPayment
<1>6. QED
  BY <1>1, <1>3, <1>4, <1>5 DEF Sound, Done, Results, after

(* A statement on a payment that MySQL executes. *)
LEMMA StatementOfPayment ==
  ASSUME source \in Rows, NEW rows \in Rows, NEW change, PaymentChange(change), NEW duplicate
  PROVE  Sound(rows, change, duplicate, Done(Executed(rows, change)))
<1> DEFINE after == Executed(rows, change)
           id == change.id
<1>1. /\ after \in Rows
      /\ after.users = rows.users
      /\ \A i \in PaymentIds \ {id} : after.payments[i] = rows.payments[i]
      /\ after.payments[id] = Applied(rows.payments[id], change, NoPayment)
  BY ExecutedPayment DEF Applied
<1>2. /\ id \in PaymentIds /\ change.table = "payments" /\ rows.payments[id] \in Payments \cup {NoPayment}
  BY DEF PaymentChange, Rows
<1>3. change.kind = "insert" => after.payments[id] # NoPayment
  <2> SUFFICES ASSUME change.kind = "insert"
               PROVE  after.payments[id] # NoPayment
    OBVIOUS
  <2>1. change.row \in Payments /\ change.columns = {"ident", "state"}
    BY DEF PaymentChange
  <2>2. AfterImage(rows.payments[id], change) = change.row
    BY <1>2, <2>1, PaymentImage
  <2>3. QED
    BY <1>1, <2>1, <2>2, RowShapes DEF Applied
<1> HIDE DEF after
<1>4. SoundPayment(rows, change, duplicate, after)
  BY <1>1, <1>2, <1>3 DEF SoundPayment, Outcome
<1>5. SoundUser(rows, change, duplicate, after) /\ SoundRepair(rows, change, duplicate, after)
  BY <1>2 DEF SoundUser, SoundRepair, Authoritative
<1>6. QED
  BY <1>1, <1>4, <1>5 DEF Sound, Done, Results, after

(* One call for a user, whatever its statement meets. *)
LEMMA UserAttempt ==
  ASSUME source \in Rows, NEW execute \in Executors, NEW rows \in Rows, NEW change \in Changes,
         UserChange(change), NEW active \in SUBSET RepairKeys, NEW duplicate \in Behaviours
  PROVE  Sound(rows, change, duplicate, Attempt(execute, rows, change, active, duplicate))
<1> DEFINE result == Attempt(execute, rows, change, active, duplicate)
<1>1. PICK error : error = GuardedError(rows, change)
  OBVIOUS
<1>2. result = IF error = "ok" THEN Done(Executed(rows, change))
               ELSE IF error = "proven" THEN Done(rows)
               ELSE IF error \in {"1062 PRIMARY", "1062 name"} /\ change.kind = "insert"
               THEN IF duplicate = "ignore" THEN Done(rows)
                    ELSE IF duplicate = "reject" THEN Failed(rows)
                    ELSE reconcile_duplicate_parent(execute, rows, change, error, active)
               ELSE IF error = "1452" THEN repair_parent_and_retry(execute, rows, change, active, duplicate)
               ELSE Failed(rows)
  BY <1>1 DEF Attempt
<1> HIDE DEF result
<1>3. change.id \in UserIds /\ change.table = "users" /\ change.native \in BOOLEAN
  BY ChangeShapes DEF UserChange
<1>4. Done(rows) \in Results /\ Done(rows).rows = rows
  BY DEF Done, Results
<1>5. FromSource(rows, rows)
  BY DEF FromSource
<1>6. \/ error = StatementError(rows, change)
      \/ error = "proven" /\ change.native /\ rows.users[change.id] = source.users[change.id]
  BY <1>1, <1>3, UserGuards
<1>7. CASE error = "proven"
  <2>1. StatementError(rows, change) # "proven"
    BY UserErrors
  <2>2. change.native = TRUE /\ rows.users[change.id] = source.users[change.id]
    BY <1>3, <1>6, <1>7, <2>1
  <2>3. SoundUser(rows, change, duplicate, rows)
    BY <2>2 DEF SoundUser, Outcome
  <2>4. SoundRepair(rows, change, duplicate, rows)
    BY <2>2 DEF SoundRepair, Authoritative
  <2>5. QED
    BY <1>2, <1>3, <1>4, <1>7, <2>3, <2>4 DEF Sound, SoundPayment, result
<1>8. CASE error # "proven"
  <2>1. error = StatementError(rows, change)
    BY <1>6, <1>8
  <2>2. CASE error = "ok"
    BY <1>2, <2>2, StatementOfUser DEF result
  <2>3. CASE error \in {"1062 PRIMARY", "1062 name"} /\ change.kind = "insert"
    <3>1. CASE duplicate = "ignore"
      <4>1. SoundUser(rows, change, duplicate, rows)
        BY <2>3 DEF SoundUser, Outcome
      <4>2. SoundRepair(rows, change, duplicate, rows)
        BY <3>1 DEF SoundRepair
      <4>3. result = Done(rows)
        BY <1>2, <2>3, <3>1
      <4>4. QED
        BY <1>3, <1>4, <4>1, <4>2, <4>3 DEF Sound, SoundPayment, result
    <3>2. CASE duplicate = "reject"
      <4>1. result = Failed(rows)
        BY <1>2, <2>3, <3>2
      <4>2. QED
        BY <4>1, Failure DEF result
    <3>3. CASE duplicate = "reconcile"
      <4>1. result = reconcile_duplicate_parent(execute, rows, change, error, active)
        BY <1>2, <2>3, <3>3
      <4>2. error = "1062 name" => Owner(rows, change.row.name) # {}
        BY <2>1, <2>3, UserErrors
      <4>3. Sound(rows, change, "reconcile", reconcile_duplicate_parent(execute, rows, change, error, active))
        BY <2>3, <4>2, ReconciledParent
      <4>4. QED
        BY <3>3, <4>1, <4>3 DEF result
    <3>4. QED
      BY <3>1, <3>2, <3>3 DEF Behaviours
  <2>4. CASE error = "1452"
    <3>1. result = repair_parent_and_retry(execute, rows, change, active, duplicate)
      BY <1>2, <2>4
    <3>2. /\ foreign_key_reference(rows, change) \in UserIds
          /\ change.kind = "insert" => rows.users[change.id] = NoRow
      BY <2>1, <2>4, UserErrors
    <3>3. QED
      BY <3>1, <3>2, RepairedParent DEF result
  <2>5. CASE /\ error \notin {"ok", "1452"}
             /\ ~ (error \in {"1062 PRIMARY", "1062 name"} /\ change.kind = "insert")
    <3>1. result = Failed(rows)
      BY <1>2, <1>8, <2>5
    <3>2. QED
      BY <3>1, Failure DEF result
  <2>6. QED
    BY <2>2, <2>3, <2>4, <2>5
<1>9. QED
  BY <1>7, <1>8

(* One call for a payment, whatever its statement meets. *)
LEMMA PaymentAttempt ==
  ASSUME source \in Rows, NEW execute \in Executors, NEW rows \in Rows, NEW change \in Changes,
         PaymentChange(change), NEW active \in SUBSET RepairKeys, NEW duplicate \in Behaviours
  PROVE  Sound(rows, change, duplicate, Attempt(execute, rows, change, active, duplicate))
<1> DEFINE result == Attempt(execute, rows, change, active, duplicate)
<1>1. PICK error : error = GuardedError(rows, change)
  OBVIOUS
<1>2. result = IF error = "ok" THEN Done(Executed(rows, change))
               ELSE IF error = "proven" THEN Done(rows)
               ELSE IF error \in {"1062 PRIMARY", "1062 name"} /\ change.kind = "insert"
               THEN IF duplicate = "ignore" THEN Done(rows)
                    ELSE IF duplicate = "reject" THEN Failed(rows)
                    ELSE reconcile_duplicate_parent(execute, rows, change, error, active)
               ELSE IF error = "1452" THEN repair_parent_and_retry(execute, rows, change, active, duplicate)
               ELSE Failed(rows)
  BY <1>1 DEF Attempt
<1> HIDE DEF result
<1>3. change.id \in PaymentIds /\ change.table = "payments"
  BY DEF PaymentChange
<1>4. Done(rows) \in Results /\ Done(rows).rows = rows
  BY DEF Done, Results
<1>5. SoundUser(rows, change, duplicate, rows) /\ SoundRepair(rows, change, duplicate, rows)
  BY <1>3 DEF SoundUser, SoundRepair, Authoritative
<1>6. \/ error = StatementError(rows, change)
      \/ error = "proven" /\ rows.payments[change.id] = source.payments[change.id]
  BY <1>1, PaymentGuards
<1>7. CASE error = "proven"
  <2>1. StatementError(rows, change) # "proven"
    BY PaymentErrors
  <2>2. SoundPayment(rows, change, duplicate, rows)
    BY <1>6, <1>7, <2>1 DEF SoundPayment, Outcome
  <2>3. QED
    BY <1>2, <1>4, <1>5, <1>7, <2>2 DEF Sound, result
<1>8. CASE error # "proven"
  <2>1. /\ error \in {"ok", "1644", "1062 PRIMARY"}
        /\ error = "1062 PRIMARY" => change.kind = "insert" /\ rows.payments[change.id] # NoPayment
    BY <1>6, <1>8, PaymentErrors
  <2>2. CASE error = "ok"
    BY <1>2, <2>2, StatementOfPayment DEF result
  <2>3. CASE error = "1062 PRIMARY"
    <3>1. CASE duplicate = "ignore"
      <4>1. SoundPayment(rows, change, duplicate, rows)
        BY <2>1, <2>3 DEF SoundPayment, Outcome
      <4>2. result = Done(rows)
        BY <1>2, <2>1, <2>3, <3>1
      <4>3. QED
        BY <1>4, <1>5, <4>1, <4>2 DEF Sound, result
    <3>2. CASE duplicate = "reject"
      <4>1. result = Failed(rows)
        BY <1>2, <2>1, <2>3, <3>2
      <4>2. QED
        BY <4>1, Failure DEF result
    <3>3. CASE duplicate = "reconcile"
      <4>1. result = reconcile_duplicate_parent(execute, rows, change, error, active)
        BY <1>2, <2>1, <2>3, <3>3
      <4>2. Sound(rows, change, "reconcile", reconcile_duplicate_parent(execute, rows, change, error, active))
        BY <2>1, <2>3, ReconciledParent
      <4>3. QED
        BY <3>3, <4>1, <4>2 DEF result
    <3>4. QED
      BY <3>1, <3>2, <3>3 DEF Behaviours
  <2>4. CASE error = "1644"
    <3>1. result = Failed(rows)
      BY <1>2, <2>4
    <3>2. QED
      BY <3>1, Failure DEF result
  <2>5. QED
    BY <2>1, <2>2, <2>3, <2>4
<1>9. QED
  BY <1>7, <1>8

(* Nested calls that do what they promise make a call that does. *)
LEMMA CallsAreSound ==
  ASSUME source \in Rows
  PROVE  Execute \in [Nat -> Executors]
<1> DEFINE call_(execute) ==
             [call \in Calls |-> Attempt(execute, call.rows, call.change, call.active, call.duplicate)]
           turn == [execute \in Executors |-> call_(execute)]
           start == [call \in Calls |-> Failed(call.rows)]
<1>1. \A call \in Calls : /\ call.rows \in Rows /\ call.change \in Changes
                          /\ call.active \in SUBSET RepairKeys /\ call.duplicate \in Behaviours
  BY DEF Calls, Behaviours
<1>2. start \in Executors
  <2>1. \A call \in Calls : Sound(call.rows, call.change, call.duplicate, Failed(call.rows))
    BY <1>1, Failure
  <2>2. \A call \in Calls : Failed(call.rows) \in Results
    BY <1>1 DEF Failed, Results
  <2>3. QED
    BY <2>1, <2>2 DEF Executors
<1>3. ASSUME NEW execute \in Executors
      PROVE  call_(execute) \in Executors
  <2>1. ASSUME NEW call \in Calls
        PROVE  Sound(call.rows, call.change, call.duplicate,
                     Attempt(execute, call.rows, call.change, call.active, call.duplicate))
    <3>1. CASE UserChange(call.change)
      BY <1>1, <3>1, UserAttempt
    <3>2. CASE PaymentChange(call.change)
      BY <1>1, <3>2, PaymentAttempt
    <3>3. QED
      BY <1>1, <3>1, <3>2, ChangeShapes
  <2>2. ASSUME NEW call \in Calls
        PROVE  Attempt(execute, call.rows, call.change, call.active, call.duplicate) \in Results
    BY <2>1 DEF Sound
  <2>3. QED
    BY <2>1, <2>2 DEF Executors
<1> HIDE DEF start
<1> HIDE DEF call_
<1>4. turn \in [Executors -> Executors] /\ \A execute \in Executors : turn[execute] = call_(execute)
  BY <1>3
<1> HIDE DEF turn
<1>5. PICK held \in [Nat -> Executors] : Turns(turn, start, held)
  BY <1>2, <1>4, TurnsExist
<1>6. ASSUME NEW n \in Nat
      PROVE  held[n] = IF n = 0 THEN start ELSE call_(held[n - 1])
  <2>1. held[n] = IF n = 0 THEN start ELSE turn[held[n - 1]]
    BY <1>5 DEF Turns
  <2>2. n # 0 => held[n - 1] \in Executors
    <3>1. n # 0 => n - 1 \in Nat
      OBVIOUS
    <3>2. QED
      BY <3>1, <1>5
  <2>3. QED
    BY <1>4, <2>1, <2>2
<1>7. held = [depth \in Nat |-> IF depth = 0 THEN start ELSE call_(held[depth - 1])]
  BY <1>5, <1>6
<1>8. \E f : f = [depth \in Nat |-> IF depth = 0 THEN start ELSE call_(f[depth - 1])]
  BY <1>7, Zenon
<1>9. Execute = [depth \in Nat |-> IF depth = 0 THEN start ELSE call_(Execute[depth - 1])]
  BY <1>8, Zenon DEF Execute, start, call_
<1>10. Execute[0] = start
  BY <1>9
<1>11. ASSUME NEW n \in Nat
       PROVE  Execute[n + 1] = call_(Execute[n])
  <2>1. n + 1 \in Nat /\ n + 1 # 0 /\ n + 1 - 1 = n
    OBVIOUS
  <2>2. Execute[n + 1] = IF n + 1 = 0 THEN start ELSE call_(Execute[n + 1 - 1])
    BY <1>9, <2>1
  <2>3. QED
    BY <2>1, <2>2
<1>12. \A n \in Nat : Execute[n] \in Executors
  <2> DEFINE T == {n \in Nat : Execute[n] \in Executors}
  <2>1. 0 \in T
    BY <1>2, <1>10
  <2>2. \A n \in T : n + 1 \in T
    BY <1>3, <1>11
  <2>3. \A n \in Nat : n \in T
    BY <2>1, <2>2, Induction, Zenon
  <2>4. QED
    BY <2>3
<1>13. Execute = [n \in Nat |-> Execute[n]]
  BY <1>9
<1>14. QED
  BY <1>12, <1>13

(* execute_row_change, for every repair depth. *)
LEMMA RowChangesAreSound ==
  ASSUME source \in Rows, NEW rows \in Rows, NEW change \in Changes
  PROVE  Sound(rows, change, "ignore", execute_row_change(rows, change))
<1>1. Execute[MaxRepairDepth + 1] \in Executors
  BY CallsAreSound, RowReplayAssumption
<1>2. QED
  BY <1>1, NestedCall DEF execute_row_change, Behaviours, RepairKeys

-----------------------------------------------------------------------------
(* Histories *)

(* What an event of the source makes of its row. *)
Follows(before, event, after, absent) ==
  /\ after = event.row
  /\ event.kind = "insert" => before = absent
  /\ event.kind = "update" =>
       before # absent /\ \A c \in DOMAIN event.row \ event.columns : before[c] = event.row[c]

(* h is what a row of the source was after each of the events. *)
Chronicle(h, events, table, id, absent, current) ==
  /\ h[Len(events)] = current
  /\ \A p \in 1 .. Len(events) :
       IF events[p].table = table /\ events[p].id = id THEN Follows(h[p - 1], events[p], h[p], absent)
       ELSE h[p] = h[p - 1]

(* A row that is absent was absent at some time since; every column of a   *)
(* row that is there was what it is at some time since.                    *)
Explained(h, from, to, row, absent) ==
  IF row = absent THEN \E p \in from .. to : h[p] = absent
  ELSE \A c \in DOMAIN row : \E p \in from .. to : h[p] # absent /\ h[p][c] = row[c]

Tracked(events, from, table, id, images, absent, current, row, inStep) ==
  \E h \in [0 .. Len(events) -> images \cup {absent}] :
    /\ Chronicle(h, events, table, id, absent, current)
    /\ inStep => Explained(h, from, Len(events), row, absent)

(* The source goes on. *)
LEMMA LongerHistory ==
  ASSUME NEW events \in Seq(Changes), NEW event \in Changes, NEW from \in 0 .. Len(events), NEW table, NEW id,
         NEW images, NEW absent, NEW current, NEW next \in images \cup {absent}, NEW row,
         NEW inStep \in BOOLEAN, Tracked(events, from, table, id, images, absent, current, row, inStep),
         IF event.table = table /\ event.id = id THEN Follows(current, event, next, absent)
         ELSE next = current
  PROVE  Tracked(Append(events, event), from, table, id, images, absent, next, row, inStep)
<1> DEFINE n == Len(events)
           longer == Append(events, event)
<1>1. PICK h \in [0 .. n -> images \cup {absent}] :
        /\ Chronicle(h, events, table, id, absent, current)
        /\ inStep => Explained(h, from, n, row, absent)
  BY DEF Tracked
<1> DEFINE g == [p \in 0 .. n + 1 |-> IF p = n + 1 THEN next ELSE h[p]]
<1>2. n \in Nat /\ Len(longer) = n + 1 /\ longer[n + 1] = event /\ \A p \in 1 .. n : longer[p] = events[p]
  OBVIOUS
<1>3. g \in [0 .. n + 1 -> images \cup {absent}] /\ g[n + 1] = next /\ \A p \in 0 .. n : g[p] = h[p]
  BY <1>2
<1> HIDE DEF n, longer, g
<1>4. Chronicle(g, longer, table, id, absent, next)
  <2>1. ASSUME NEW p \in 1 .. n + 1
        PROVE  IF longer[p].table = table /\ longer[p].id = id THEN Follows(g[p - 1], longer[p], g[p], absent)
               ELSE g[p] = g[p - 1]
    <3>1. CASE p = n + 1
      <4>1. p - 1 = n /\ g[p - 1] = h[n] /\ h[n] = current /\ longer[p] = event /\ g[p] = next
        BY <1>1, <1>2, <1>3, <3>1 DEF Chronicle, n
      <4>2. QED
        BY <4>1
    <3>2. CASE p # n + 1
      <4>1. p \in 1 .. n /\ p \in 0 .. n /\ p - 1 \in 0 .. n
        BY <1>2, <3>2
      <4>2. longer[p] = events[p] /\ g[p] = h[p] /\ g[p - 1] = h[p - 1]
        BY <1>2, <1>3, <4>1
      <4>3. QED
        BY <1>1, <4>1, <4>2 DEF Chronicle, n
    <3>3. QED
      BY <3>1, <3>2
  <2>2. QED
    BY <1>2, <1>3, <2>1 DEF Chronicle
<1>5. inStep => Explained(g, from, n + 1, row, absent)
  <2>1. \A p \in from .. n : p \in from .. n + 1 /\ g[p] = h[p]
    BY <1>2, <1>3 DEF n
  <2>2. QED
    BY <1>1, <2>1 DEF Explained
<1>6. QED
  BY <1>2, <1>3, <1>4, <1>5 DEF Tracked, longer

(* The source's current row is explained at every position. *)
LEMMA CurrentRow ==
  ASSUME NEW events \in Seq(Changes), NEW from, NEW to \in 0 .. Len(events), NEW table, NEW id,
         NEW images, NEW absent, NEW current, NEW row, NEW inStep, NEW now \in BOOLEAN,
         Tracked(events, from, table, id, images, absent, current, row, inStep)
  PROVE  Tracked(events, to, table, id, images, absent, current, current, now)
<1>1. PICK h \in [0 .. Len(events) -> images \cup {absent}] : Chronicle(h, events, table, id, absent, current)
  BY DEF Tracked
<1>2. h[Len(events)] = current /\ Len(events) \in to .. Len(events)
  BY <1>1 DEF Chronicle
<1>3. Explained(h, to, Len(events), current, absent)
  BY <1>2 DEF Explained
<1>4. QED
  BY <1>1, <1>3 DEF Tracked

(* Of a row out of step nothing is claimed. *)
LEMMA StrayRow ==
  ASSUME NEW events, NEW from, NEW to, NEW table, NEW id, NEW images, NEW absent, NEW current, NEW row,
         NEW after, NEW inStep, Tracked(events, from, table, id, images, absent, current, row, inStep)
  PROVE  Tracked(events, to, table, id, images, absent, current, after, FALSE)
BY DEF Tracked

(* An event of another row is passed. *)
LEMMA OtherEvent ==
  ASSUME NEW events \in Seq(Changes), NEW from \in Nat, from < Len(events), NEW table, NEW id, NEW images,
         NEW absent, NEW current, NEW row, NEW inStep \in BOOLEAN,
         ~ (events[from + 1].table = table /\ events[from + 1].id = id),
         Tracked(events, from, table, id, images, absent, current, row, inStep)
  PROVE  Tracked(events, from + 1, table, id, images, absent, current, row, inStep)
<1> DEFINE n == Len(events)
<1>1. PICK h \in [0 .. n -> images \cup {absent}] :
        /\ Chronicle(h, events, table, id, absent, current)
        /\ inStep => Explained(h, from, n, row, absent)
  BY DEF Tracked
<1>2. n \in Nat /\ from + 1 \in 1 .. n /\ from + 1 - 1 = from
  OBVIOUS
<1>3. h[from + 1] = h[from]
  BY <1>1, <1>2 DEF Chronicle
<1> HIDE DEF n
<1>4. \A p \in from .. n : p = from \/ p \in from + 1 .. n
  BY <1>2
<1>5. from + 1 \in from + 1 .. n
  BY <1>2
<1>6. inStep => Explained(h, from + 1, n, row, absent)
  BY <1>1, <1>3, <1>4, <1>5 DEF Explained
<1>7. QED
  BY <1>1, <1>6 DEF Tracked, n

(* What AfterImage makes of the rows of a table. *)
Images(event, images, absent, columns) ==
  /\ absent \notin images
  /\ \A row \in images \cup {absent} : DOMAIN row = columns
  /\ event.kind \in {"insert", "update", "delete"}
  /\ event.kind = "delete" => event.row = absent
  /\ event.kind # "delete" =>
       /\ event.row \in images
       /\ \A old \in images : AfterImage(old, event) \in images
       /\ \A old \in images \cup {absent} :
            /\ event.kind = "insert" => AfterImage(old, event) = event.row
            /\ \A c \in columns :
                 AfterImage(old, event)[c] = IF c \in event.columns THEN event.row[c] ELSE old[c]

(* What an event makes of an explained row is explained behind the event. *)
LEMMA ExplainedOutcome ==
  ASSUME NEW n \in Nat, NEW from \in Nat, from < n, NEW images, NEW absent, NEW columns,
         NEW h \in [0 .. n -> images \cup {absent}], NEW event, Images(event, images, absent, columns),
         Follows(h[from], event, h[from + 1], absent),
         NEW old \in images \cup {absent}, Explained(h, from, n, old, absent), NEW after,
         \/ after = Applied(old, event, absent)
         \/ event.kind = "insert" /\ after = old /\ after # absent
  PROVE  Explained(h, from + 1, n, after, absent)
<1>1. from + 1 \in from + 1 .. n /\ from \in 0 .. n /\ from + 1 \in 0 .. n
  OBVIOUS
<1>2. \A p \in from .. n : p = from \/ p \in from + 1 .. n
  OBVIOUS
<1>3. h[from + 1] = event.row
  BY DEF Follows
<1>4. event.kind # "delete" => h[from + 1] # absent
  BY <1>3 DEF Images
<1>5. CASE event.kind = "delete"
  <2>1. after = absent /\ h[from + 1] = absent
    BY <1>3, <1>5 DEF Applied, Images
  <2>2. QED
    BY <1>1, <2>1 DEF Explained
<1>6. CASE event.kind = "insert" /\ after = Applied(old, event, absent)
  <2>1. after = h[from + 1]
    BY <1>3, <1>6 DEF Applied, Images
  <2>2. QED
    BY <1>1, <1>4, <1>6, <2>1 DEF Explained
<1>7. CASE event.kind = "insert" /\ after = old /\ after # absent
  <2>1. h[from] = absent
    BY <1>7 DEF Follows
  <2>2. QED
    BY <1>2, <1>7, <2>1 DEF Explained
<1>8. CASE event.kind = "update" /\ old = absent
  <2>1. after = absent /\ h[from] # absent
    BY <1>8 DEF Applied, Follows
  <2>2. \E p \in from .. n : h[p] = absent
    BY <1>8 DEF Explained
  <2>3. QED
    BY <1>2, <2>1, <2>2 DEF Explained
<1>9. CASE event.kind = "update" /\ old # absent
  <2>1. after = AfterImage(old, event) /\ old \in images
    BY <1>9 DEF Applied
  <2>2. after \in images /\ after # absent /\ DOMAIN after = columns /\ DOMAIN old = columns
    BY <1>9, <2>1 DEF Images
  <2>3. DOMAIN event.row = columns
    BY <1>9 DEF Images
  <2>4. ASSUME NEW c \in columns
        PROVE  \E p \in from + 1 .. n : h[p] # absent /\ h[p][c] = after[c]
    <3>1. after[c] = IF c \in event.columns THEN event.row[c] ELSE old[c]
      BY <1>9, <2>1 DEF Images
    <3>2. CASE c \in event.columns
      BY <1>1, <1>3, <1>4, <1>9, <3>1, <3>2
    <3>3. CASE c \notin event.columns
      <4>1. PICK p \in from .. n : h[p] # absent /\ h[p][c] = old[c]
        BY <1>9, <2>2 DEF Explained
      <4>2. CASE p = from
        <5>1. h[from][c] = event.row[c]
          BY <1>9, <2>3, <3>3 DEF Follows
        <5>2. QED
          BY <1>1, <1>3, <1>4, <1>9, <3>1, <3>3, <4>1, <4>2, <5>1
      <4>3. CASE p # from
        BY <1>2, <3>1, <3>3, <4>1, <4>3
      <4>4. QED
        BY <4>2, <4>3
    <3>4. QED
      BY <3>2, <3>3
  <2>5. QED
    BY <2>2, <2>4 DEF Explained
<1>10. QED
  BY <1>5, <1>6, <1>7, <1>8, <1>9 DEF Images

(* An event of the row itself is passed. *)
LEMMA OwnEvent ==
  ASSUME NEW events \in Seq(Changes), NEW from \in Nat, from < Len(events), NEW table, NEW id, NEW images,
         NEW absent, NEW columns, NEW current, NEW before \in images \cup {absent}, NEW after,
         events[from + 1].table = table, events[from + 1].id = id,
         Images(events[from + 1], images, absent, columns),
         Tracked(events, from, table, id, images, absent, current, before, TRUE),
         Outcome(events[from + 1], before, current, absent, after),
         events[from + 1].kind = "insert" /\ after = absent => current = absent
  PROVE  Tracked(events, from + 1, table, id, images, absent, current, after, TRUE)
<1> DEFINE n == Len(events)
<1>1. PICK h \in [0 .. n -> images \cup {absent}] :
        Chronicle(h, events, table, id, absent, current) /\ Explained(h, from, n, before, absent)
  BY DEF Tracked
<1>2. PICK event : event = events[from + 1]
  OBVIOUS
<1>3. n \in Nat /\ from + 1 \in 1 .. n /\ from + 1 - 1 = from /\ n \in from .. n /\ n \in from + 1 .. n
  OBVIOUS
<1>4. Follows(h[from], event, h[from + 1], absent)
  BY <1>1, <1>2, <1>3, SMTT(30) DEF Chronicle
<1>5. h[n] = current /\ current \in images \cup {absent}
  BY <1>1, <1>3, SMTT(30) DEF Chronicle
<1> HIDE DEF n
<1>6. Explained(h, from, n, current, absent) /\ Explained(h, from + 1, n, current, absent)
  BY <1>3, <1>5 DEF Explained
<1>7. Explained(h, from + 1, n, after, absent)
  <2>1. CASE after = current
    BY <1>6, <2>1
  <2>2. CASE after # current
    <3>1. PICK old \in {before, current} :
            after = Applied(old, event, absent) \/ (event.kind = "insert" /\ after = old)
      BY <1>2, <2>2 DEF Outcome
    <3>2. Explained(h, from, n, old, absent) /\ old \in images \cup {absent}
      BY <1>1, <1>5, <1>6, <3>1
    <3>3. event.kind = "insert" => after # absent
      BY <1>2, <2>2
    <3>4. from < n
      BY DEF n
    <3>5. Images(event, images, absent, columns)
      BY <1>2
    <3>6. QED
      BY <1>3, <1>4, <3>1, <3>2, <3>3, <3>4, <3>5, ExplainedOutcome
  <2>3. QED
    BY <2>1, <2>2
<1>8. QED
  BY <1>1, <1>7 DEF Tracked, n

-----------------------------------------------------------------------------
(* The inductive invariant *)

UserTracked(i) ==
  Tracked(log, pos, "users", i, Users, NoRow, source.users[i], target.users[i], i \notin strays)

PaymentTracked(i) ==
  Tracked(log, pos, "payments", i, Payments, NoPayment, source.payments[i], target.payments[i], TRUE)

ReplayInv ==
  /\ source \in Rows
  /\ target \in Rows
  /\ log \in Seq(Changes)
  /\ pos \in 0 .. Len(log)
  /\ strays \in SUBSET UserIds
  /\ \A i \in UserIds : UserTracked(i)
  /\ \A i \in PaymentIds : PaymentTracked(i)

(* The target the stream starts on. *)
LEMMA ReplayInvInit ==
  ASSUME Init
  PROVE  ReplayInv
<1>1. PICK s \in [UserIds -> Users \cup {NoRow}], t \in [UserIds -> Users \cup {NoRow}] :
        /\ source = [EmptyRows EXCEPT !.users = s]
        /\ target = [EmptyRows EXCEPT !.users = t]
        /\ strays = {i \in UserIds : s[i] # t[i]}
  BY DEF Init
<1>2. /\ source.users = s /\ target.users = t
      /\ source.payments = [i \in PaymentIds |-> NoPayment]
      /\ target.payments = [i \in PaymentIds |-> NoPayment]
  BY <1>1 DEF EmptyRows
<1>3. source \in Rows /\ target \in Rows
  BY <1>1 DEF EmptyRows, Rows
<1>4. log = <<>> /\ pos = 0 /\ Len(log) = 0 /\ log \in Seq(Changes)
  BY DEF Init
<1>5. ASSUME NEW table, NEW id, NEW images, NEW absent, NEW row \in images \cup {absent}, NEW inStep \in BOOLEAN,
             NEW other, inStep => other = row
      PROVE  Tracked(log, pos, table, id, images, absent, row, other, inStep)
  <2> DEFINE h == [p \in 0 .. 0 |-> row]
  <2>1. h \in [0 .. 0 -> images \cup {absent}] /\ h[0] = row
    OBVIOUS
  <2> HIDE DEF h
  <2>2. Chronicle(h, log, table, id, absent, row)
    BY <1>4, <2>1 DEF Chronicle
  <2>3. Explained(h, 0, 0, row, absent)
    BY <2>1 DEF Explained
  <2>4. inStep => Explained(h, pos, Len(log), other, absent)
    <3>1. Explained(h, pos, Len(log), row, absent)
      BY <1>4, <2>3
    <3>2. QED
      BY <1>5, <3>1, Zenon
  <2>5. h \in [0 .. Len(log) -> images \cup {absent}]
    BY <1>4, <2>1
  <2>6. QED
    BY <2>2, <2>4, <2>5 DEF Tracked
<1>6. ASSUME NEW i \in UserIds
      PROVE  UserTracked(i)
  <2>1. source.users[i] \in Users \cup {NoRow} /\ (i \notin strays => target.users[i] = source.users[i])
    BY <1>1, <1>2
  <2>2. QED
    BY <1>5, <2>1 DEF UserTracked
<1>7. ASSUME NEW i \in PaymentIds
      PROVE  PaymentTracked(i)
  <2>1. source.payments[i] \in Payments \cup {NoPayment} /\ target.payments[i] = source.payments[i]
    BY <1>2
  <2>2. QED
    BY <1>5, <2>1 DEF PaymentTracked
<1>8. strays \in SUBSET UserIds
  BY <1>1
<1>9. QED
  BY <1>3, <1>4, <1>6, <1>7, <1>8 DEF ReplayInv

(* An event of the source that says what happened to its row. *)
LEMMA SourceSteps ==
  ASSUME ReplayInv, NEW event \in Changes, log' = Append(log, event), source' \in Rows,
         UNCHANGED <<target, pos, strays>>,
         \A i \in UserIds : IF event.table = "users" /\ event.id = i
                            THEN Follows(source.users[i], event, source'.users[i], NoRow)
                            ELSE source'.users[i] = source.users[i],
         \A i \in PaymentIds : IF event.table = "payments" /\ event.id = i
                               THEN Follows(source.payments[i], event, source'.payments[i], NoPayment)
                               ELSE source'.payments[i] = source.payments[i]
  PROVE  ReplayInv'
<1>1. /\ log \in Seq(Changes) /\ pos \in 0 .. Len(log)
      /\ log' \in Seq(Changes) /\ pos' \in 0 .. Len(log')
  BY DEF ReplayInv
<1>2. ASSUME NEW i \in UserIds
      PROVE  UserTracked(i)'
  <2>1. Tracked(log, pos, "users", i, Users, NoRow, source.users[i], target.users[i], i \notin strays)
    BY DEF ReplayInv, UserTracked
  <2>2. source'.users[i] \in Users \cup {NoRow}
    BY DEF Rows
  <2>3. Tracked(Append(log, event), pos, "users", i, Users, NoRow, source'.users[i], target.users[i], i \notin strays)
    BY <1>1, <2>1, <2>2, LongerHistory
  <2>4. QED
    BY <2>3 DEF UserTracked
<1>3. ASSUME NEW i \in PaymentIds
      PROVE  PaymentTracked(i)'
  <2>1. Tracked(log, pos, "payments", i, Payments, NoPayment, source.payments[i], target.payments[i], TRUE)
    BY DEF ReplayInv, PaymentTracked
  <2>2. source'.payments[i] \in Payments \cup {NoPayment}
    BY DEF Rows
  <2>3. Tracked(Append(log, event), pos, "payments", i, Payments, NoPayment, source'.payments[i],
                target.payments[i], TRUE)
    BY <1>1, <2>1, <2>2, LongerHistory
  <2>4. QED
    BY <2>3 DEF PaymentTracked
<1>4. target' \in Rows /\ strays' \in SUBSET UserIds
  BY DEF ReplayInv
<1>5. QED
  BY <1>1, <1>2, <1>3, <1>4 DEF ReplayInv

(* A change of a user on the source, with the columns that its event has. *)
LEMMA SourceUserStep ==
  ASSUME ReplayInv, NEW change, UserChange(change), change.kind # "delete" => change.columns = {"name", "boss"},
         NEW columns \in SUBSET {"name", "boss"}, change.kind # "update" => columns = {"name", "boss"},
         change.kind = "insert" => source.users[change.id] = NoRow,
         change.kind = "update" =>
           /\ source.users[change.id] # NoRow
           /\ \A c \in {"name", "boss"} \ columns : source.users[change.id][c] = change.row[c],
         SourceChange(change, Event(change, columns))
  PROVE  ReplayInv'
<1> DEFINE id == change.id
<1>1. PICK event : event = Event(change, columns)
  OBVIOUS
<1>2. /\ event.kind = change.kind /\ event.table = "users" /\ event.id = id /\ event.row = change.row
      /\ event.columns = columns
  BY <1>1 DEF Event, Change, UserChange
<1>3. event \in Changes
  <2>1. DOMAIN NoRow = {"name", "boss"}
    BY RowShapes
  <2>2. event \in RowChanges("users", UserIds, Users)
    BY <1>1, <2>1 DEF Event, Change, RowChanges, UserChange, Absent
  <2>3. QED
    BY <2>2 DEF Changes
<1>4. source \in Rows /\ source' = Executed(source, change) /\ log' = Append(log, event)
      /\ UNCHANGED <<target, pos, strays>>
  BY <1>1 DEF SourceChange, ReplayInv
<1>5. /\ source' \in Rows
      /\ source'.payments = source.payments
      /\ \A i \in UserIds \ {id} : source'.users[i] = source.users[i]
      /\ source'.users[id] = Applied(source.users[id], change, NoRow)
  BY <1>4, ExecutedUser DEF Applied
<1>6. id \in UserIds /\ source.users[id] \in Users \cup {NoRow} /\ change.kind \in {"insert", "update", "delete"}
  BY <1>4 DEF UserChange, Rows
<1>7. source'.users[id] = change.row
  <2>1. CASE change.kind = "delete"
    BY <1>5, <2>1 DEF Applied, UserChange
  <2>2. CASE change.kind # "delete"
    <3>1. AfterImage(source.users[id], change) = change.row
      BY <1>6, <2>2, UserImage
    <3>2. ~ (change.kind = "update" /\ source.users[id] = NoRow)
      OBVIOUS
    <3>3. QED
      BY <1>5, <2>2, <3>1, <3>2 DEF Applied
  <2>3. QED
    BY <2>1, <2>2
<1>8. Follows(source.users[id], event, source'.users[id], NoRow)
  <2>1. change.kind = "update" => DOMAIN change.row = {"name", "boss"}
    BY RowShapes DEF UserChange
  <2>2. QED
    BY <1>2, <1>7, <2>1 DEF Follows
<1>9. QED
  BY <1>2, <1>3, <1>4, <1>5, <1>8, SourceSteps

(* A change of a payment on the source, with the columns that its event    *)
(* has.                                                                    *)
LEMMA SourcePaymentStep ==
  ASSUME ReplayInv, NEW change, PaymentChange(change),
         change.kind # "delete" => change.columns = {"ident", "state"},
         NEW columns \in SUBSET {"ident", "state"}, change.kind # "update" => columns = {"ident", "state"},
         change.kind = "insert" => source.payments[change.id] = NoPayment,
         change.kind = "update" =>
           /\ source.payments[change.id] # NoPayment
           /\ \A c \in {"ident", "state"} \ columns : source.payments[change.id][c] = change.row[c],
         SourceChange(change, Event(change, columns))
  PROVE  ReplayInv'
<1> DEFINE id == change.id
<1>1. PICK event : event = Event(change, columns)
  OBVIOUS
<1>2. /\ event.kind = change.kind /\ event.table = "payments" /\ event.id = id /\ event.row = change.row
      /\ event.columns = columns
  BY <1>1 DEF Event, Change, PaymentChange
<1>3. event \in Changes
  <2>1. DOMAIN NoPayment = {"ident", "state"}
    BY RowShapes
  <2>2. event \in RowChanges("payments", PaymentIds, Payments)
    BY <1>1, <2>1 DEF Event, Change, RowChanges, PaymentChange, Absent
  <2>3. QED
    BY <2>2 DEF Changes
<1>4. source \in Rows /\ source' = Executed(source, change) /\ log' = Append(log, event)
      /\ UNCHANGED <<target, pos, strays>>
  BY <1>1 DEF SourceChange, ReplayInv
<1>5. /\ source' \in Rows
      /\ source'.users = source.users
      /\ \A i \in PaymentIds \ {id} : source'.payments[i] = source.payments[i]
      /\ source'.payments[id] = Applied(source.payments[id], change, NoPayment)
  BY <1>4, ExecutedPayment DEF Applied
<1>6. /\ id \in PaymentIds /\ source.payments[id] \in Payments \cup {NoPayment}
      /\ change.kind \in {"insert", "update", "delete"}
  BY <1>4 DEF PaymentChange, Rows
<1>7. source'.payments[id] = change.row
  <2>1. CASE change.kind = "delete"
    BY <1>5, <2>1 DEF Applied, PaymentChange
  <2>2. CASE change.kind # "delete"
    <3>1. AfterImage(source.payments[id], change) = change.row
      BY <1>6, <2>2, PaymentImage
    <3>2. ~ (change.kind = "update" /\ source.payments[id] = NoPayment)
      OBVIOUS
    <3>3. QED
      BY <1>5, <2>2, <3>1, <3>2 DEF Applied
  <2>3. QED
    BY <2>1, <2>2
<1>8. Follows(source.payments[id], event, source'.payments[id], NoPayment)
  <2>1. change.kind = "update" => DOMAIN change.row = {"ident", "state"}
    BY RowShapes DEF PaymentChange
  <2>2. QED
    BY <1>2, <1>7, <2>1 DEF Follows
<1>9. QED
  BY <1>2, <1>3, <1>4, <1>5, <1>8, SourceSteps

LEMMA SourceUserActions ==
  ASSUME ReplayInv, NEW i \in UserIds,
         \/ \E row \in Users : SourceInsert("users", i, row) \/ SourceUpdate("users", i, row)
         \/ SourceDelete("users", i)
  PROVE  ReplayInv'
<1>1. source["users"] = source.users /\ source.users[i] \in Users \cup {NoRow}
  BY DEF ReplayInv, Rows
<1>2. ASSUME NEW row \in Users, SourceInsert("users", i, row)
      PROVE  ReplayInv'
  <2>1. PICK change : change = Insert("users", i, row)
    OBVIOUS
  <2>2. DOMAIN row = {"name", "boss"}
    BY RowShapes
  <2>3. UserChange(change) /\ change.kind = "insert" /\ change.columns = {"name", "boss"} /\ change.id = i
    BY <2>1, <2>2 DEF Insert, Change, UserChange
  <2>4. source.users[i] = NoRow /\ SourceChange(change, Event(change, change.columns))
    BY <1>1, <1>2, <2>1 DEF SourceInsert, Absent
  <2>5. QED
    BY <2>3, <2>4, SourceUserStep
<1>3. ASSUME NEW row \in Users, SourceUpdate("users", i, row)
      PROVE  ReplayInv'
  <2>1. PICK change : change = Update("users", i, row)
    OBVIOUS
  <2>2. PICK columns : columns = changed_columns(source.users[i], row)
    OBVIOUS
  <2>3. DOMAIN row = {"name", "boss"}
    BY RowShapes
  <2>4. /\ UserChange(change) /\ change.kind = "update" /\ change.columns = {"name", "boss"}
        /\ change.id = i /\ change.row = row
    BY <2>1, <2>3 DEF Update, Change, UserChange
  <2>5. source.users[i] # NoRow /\ SourceChange(change, Event(change, columns))
    BY <1>1, <1>3, <2>1, <2>2 DEF SourceUpdate, Absent
  <2>6. columns \in SUBSET {"name", "boss"} /\ \A c \in {"name", "boss"} \ columns : source.users[i][c] = row[c]
    BY <2>2, <2>3 DEF changed_columns
  <2>7. QED
    BY <2>4, <2>5, <2>6, SourceUserStep
<1>4. ASSUME SourceDelete("users", i)
      PROVE  ReplayInv'
  <2>1. PICK change : change = Delete("users", i)
    OBVIOUS
  <2>2. DOMAIN NoRow = {"name", "boss"}
    BY RowShapes
  <2>3. UserChange(change) /\ change.kind = "delete" /\ change.columns = {"name", "boss"} /\ change.id = i
    BY <2>1, <2>2 DEF Delete, Change, UserChange, Absent
  <2>4. SourceChange(change, Event(change, change.columns))
    BY <1>4, <2>1 DEF SourceDelete
  <2>5. QED
    BY <2>3, <2>4, SourceUserStep
<1>5. QED
  BY <1>2, <1>3, <1>4

(* Transactions of the source on payments. *)
LEMMA SourcePaymentActions ==
  ASSUME ReplayInv, NEW i \in PaymentIds,
         \/ \E row \in Payments : SourceInsert("payments", i, row) \/ SourceUpdate("payments", i, row)
         \/ SourceDelete("payments", i)
  PROVE  ReplayInv'
<1>1. source["payments"] = source.payments /\ source.payments[i] \in Payments \cup {NoPayment}
  BY DEF ReplayInv, Rows
<1>2. ASSUME NEW row \in Payments, SourceInsert("payments", i, row)
      PROVE  ReplayInv'
  <2>1. PICK change : change = Insert("payments", i, row)
    OBVIOUS
  <2>2. DOMAIN row = {"ident", "state"}
    BY RowShapes
  <2>3. PaymentChange(change) /\ change.kind = "insert" /\ change.columns = {"ident", "state"} /\ change.id = i
    BY <2>1, <2>2 DEF Insert, Change, PaymentChange
  <2>4. source.payments[i] = NoPayment /\ SourceChange(change, Event(change, change.columns))
    BY <1>1, <1>2, <2>1 DEF SourceInsert, Absent
  <2>5. QED
    BY <2>3, <2>4, SourcePaymentStep
<1>3. ASSUME NEW row \in Payments, SourceUpdate("payments", i, row)
      PROVE  ReplayInv'
  <2>1. PICK change : change = Update("payments", i, row)
    OBVIOUS
  <2>2. PICK columns : columns = changed_columns(source.payments[i], row)
    OBVIOUS
  <2>3. DOMAIN row = {"ident", "state"}
    BY RowShapes
  <2>4. /\ PaymentChange(change) /\ change.kind = "update" /\ change.columns = {"ident", "state"}
        /\ change.id = i /\ change.row = row
    BY <2>1, <2>3 DEF Update, Change, PaymentChange
  <2>5. source.payments[i] # NoPayment /\ SourceChange(change, Event(change, columns))
    BY <1>1, <1>3, <2>1, <2>2 DEF SourceUpdate, Absent
  <2>6. /\ columns \in SUBSET {"ident", "state"}
        /\ \A c \in {"ident", "state"} \ columns : source.payments[i][c] = row[c]
    BY <2>2, <2>3 DEF changed_columns
  <2>7. QED
    BY <2>4, <2>5, <2>6, SourcePaymentStep
<1>4. ASSUME SourceDelete("payments", i)
      PROVE  ReplayInv'
  <2>1. PICK change : change = Delete("payments", i)
    OBVIOUS
  <2>2. DOMAIN NoPayment = {"ident", "state"}
    BY RowShapes
  <2>3. PaymentChange(change) /\ change.kind = "delete" /\ change.columns = {"ident", "state"} /\ change.id = i
    BY <2>1, <2>2 DEF Delete, Change, PaymentChange, Absent
  <2>4. SourceChange(change, Event(change, change.columns))
    BY <1>4, <2>1 DEF SourceDelete
  <2>5. QED
    BY <2>3, <2>4, SourcePaymentStep
<1>5. QED
  BY <1>2, <1>3, <1>4

(* Rows that stay or become the source's. *)
LEMMA TargetSteps ==
  ASSUME ReplayInv, target' \in Rows, UNCHANGED <<source, log, pos>>, strays' = OutOfStep(strays),
         \A i \in UserIds : target'.users[i] \in {target.users[i], source.users[i]},
         \A i \in PaymentIds : target'.payments[i] \in {target.payments[i], source.payments[i]}
  PROVE  ReplayInv'
<1>1. log \in Seq(Changes) /\ pos \in 0 .. Len(log) /\ strays \in SUBSET UserIds
  BY DEF ReplayInv
<1>2. strays' \in SUBSET UserIds
  BY <1>1 DEF OutOfStep
<1>3. ASSUME NEW i \in UserIds
      PROVE  UserTracked(i)'
  <2>1. Tracked(log, pos, "users", i, Users, NoRow, source.users[i], target.users[i], i \notin strays)
    BY DEF ReplayInv, UserTracked
  <2>2. Tracked(log, pos, "users", i, Users, NoRow, source.users[i], target'.users[i], i \notin strays')
    <3>1. CASE target'.users[i] = source.users[i]
      <4>1. Tracked(log, pos, "users", i, Users, NoRow, source.users[i], source.users[i], i \notin strays')
        BY <1>1, <2>1, CurrentRow
      <4>2. QED
        BY <3>1, <4>1
    <3>2. CASE target'.users[i] # source.users[i]
      <4>1. target'.users[i] = target.users[i] /\ (i \in strays <=> i \in strays')
        BY <3>2 DEF OutOfStep
      <4>2. QED
        BY <2>1, <4>1 DEF Tracked
    <3>3. QED
      BY <3>1, <3>2
  <2>3. QED
    BY <2>2 DEF UserTracked
<1>4. ASSUME NEW i \in PaymentIds
      PROVE  PaymentTracked(i)'
  <2>1. Tracked(log, pos, "payments", i, Payments, NoPayment, source.payments[i], target.payments[i], TRUE)
    BY DEF ReplayInv, PaymentTracked
  <2>2. Tracked(log, pos, "payments", i, Payments, NoPayment, source.payments[i], target'.payments[i], TRUE)
    <3>1. Tracked(log, pos, "payments", i, Payments, NoPayment, source.payments[i], source.payments[i], TRUE)
      BY <1>1, <2>1, CurrentRow
    <3>2. QED
      BY <2>1, <3>1
  <2>3. QED
    BY <2>2 DEF PaymentTracked
<1>5. QED
  BY <1>1, <1>2, <1>3, <1>4 DEF ReplayInv

(* A user the sync copies, deletes or leaves. *)
LEMMA CopiedUser ==
  ASSUME ReplayInv, NEW i \in UserIds, SyncCopies("users", i)
  PROVE  ReplayInv'
<1>1. /\ source \in Rows /\ target \in Rows /\ source["users"] = source.users /\ target["users"] = target.users
      /\ source.users[i] \in Users \cup {NoRow} /\ target.users[i] \in Users \cup {NoRow}
  BY DEF ReplayInv, Rows
<1>2. PICK row : row = source.users[i]
  OBVIOUS
<1>3. PICK change : change = IF row = NoRow THEN Delete("users", i)
                             ELSE IF target.users[i] = NoRow THEN Insert("users", i, row)
                             ELSE Update("users", i, row)
  OBVIOUS
<1>4. target' = Executed(target, change) /\ strays' = OutOfStep(strays) /\ UNCHANGED <<source, log, pos>>
  BY <1>1, <1>2, <1>3 DEF SyncCopies, Absent
<1>5. /\ UserChange(change) /\ change.id = i
      /\ change.kind = IF row = NoRow THEN "delete" ELSE IF target.users[i] = NoRow THEN "insert" ELSE "update"
      /\ row # NoRow => change.columns = {"name", "boss"} /\ change.row = row
  <2>1. row \in Users \cup {NoRow} /\ DOMAIN row = {"name", "boss"}
    BY <1>1, <1>2, RowShapes
  <2>2. QED
    BY <1>3, <2>1 DEF Insert, Update, Delete, Change, UserChange, Absent
<1>6. /\ target' \in Rows /\ target'.payments = target.payments
      /\ \A j \in UserIds \ {i} : target'.users[j] = target.users[j]
      /\ target'.users[i] = Applied(target.users[i], change, NoRow)
  BY <1>1, <1>4, <1>5, ExecutedUser DEF Applied
<1>7. target'.users[i] = source.users[i]
  <2>1. CASE row = NoRow
    BY <1>2, <1>5, <1>6, <2>1 DEF Applied
  <2>2. CASE row # NoRow
    <3>1. AfterImage(target.users[i], change) = row
      BY <1>1, <1>5, <2>2, UserImage
    <3>2. QED
      BY <1>2, <1>5, <1>6, <2>2, <3>1 DEF Applied
  <2>3. QED
    BY <2>1, <2>2
<1>8. QED
  BY <1>4, <1>6, <1>7, TargetSteps

(* A payment the sync copies, deletes or leaves. *)
LEMMA CopiedPayment ==
  ASSUME ReplayInv, NEW i \in PaymentIds, SyncCopies("payments", i)
  PROVE  ReplayInv'
<1>1. /\ source \in Rows /\ target \in Rows
      /\ source["payments"] = source.payments /\ target["payments"] = target.payments
      /\ source.payments[i] \in Payments \cup {NoPayment} /\ target.payments[i] \in Payments \cup {NoPayment}
  BY DEF ReplayInv, Rows
<1>2. PICK row : row = source.payments[i]
  OBVIOUS
<1>3. PICK change : change = IF row = NoPayment THEN Delete("payments", i)
                             ELSE IF target.payments[i] = NoPayment THEN Insert("payments", i, row)
                             ELSE Update("payments", i, row)
  OBVIOUS
<1>4. target' = Executed(target, change) /\ strays' = OutOfStep(strays) /\ UNCHANGED <<source, log, pos>>
  BY <1>1, <1>2, <1>3 DEF SyncCopies, Absent
<1>5. /\ PaymentChange(change) /\ change.id = i
      /\ change.kind = IF row = NoPayment THEN "delete"
                       ELSE IF target.payments[i] = NoPayment THEN "insert" ELSE "update"
      /\ row # NoPayment => change.columns = {"ident", "state"} /\ change.row = row
  <2>1. row \in Payments \cup {NoPayment} /\ DOMAIN row = {"ident", "state"}
    BY <1>1, <1>2, RowShapes
  <2>2. QED
    BY <1>3, <2>1 DEF Insert, Update, Delete, Change, PaymentChange, Absent
<1>6. /\ target' \in Rows /\ target'.users = target.users
      /\ \A j \in PaymentIds \ {i} : target'.payments[j] = target.payments[j]
      /\ target'.payments[i] = Applied(target.payments[i], change, NoPayment)
  BY <1>1, <1>4, <1>5, ExecutedPayment DEF Applied
<1>7. target'.payments[i] = source.payments[i]
  <2>1. CASE row = NoPayment
    BY <1>2, <1>5, <1>6, <2>1 DEF Applied
  <2>2. CASE row # NoPayment
    <3>1. AfterImage(target.payments[i], change) = row
      BY <1>1, <1>5, <2>2, PaymentImage
    <3>2. QED
      BY <1>2, <1>5, <1>6, <2>2, <3>1 DEF Applied
  <2>3. QED
    BY <2>1, <2>2
<1>8. QED
  BY <1>4, <1>6, <1>7, TargetSteps

(* What a replayed event leaves, once its target transaction commits. *)
LEMMA CommittedEvent ==
  ASSUME ReplayInv, ReplayEvent, pos' # pos
  PROVE  LET event == log[pos + 1]
         IN /\ pos < Len(log) /\ pos' = pos + 1 /\ UNCHANGED <<source, log>>
            /\ event \in Changes
            /\ target' \in Rows
            /\ SoundUser(target, event, "ignore", target')
            /\ SoundPayment(target, event, "ignore", target')
            /\ strays' = OutOfStep(strays \cup {i \in {event.id} : event.table = "users" /\ event.kind = "insert"
                                                                   /\ target'.users[i] = NoRow})
<1>1. PICK event : event = log[pos + 1]
  OBVIOUS
<1>2. PICK result : result = execute_row_change(target, event)
  OBVIOUS
<1>3. log \in Seq(Changes) /\ pos \in 0 .. Len(log) /\ pos < Len(log) /\ source \in Rows /\ target \in Rows
  BY DEF ReplayInv, ReplayEvent
<1>4. event \in Changes
  BY <1>1, <1>3
<1>5. Sound(target, event, "ignore", result)
  BY <1>2, <1>3, <1>4, RowChangesAreSound
<1>6. result \in Results /\ result.ok \in BOOLEAN /\ result.rows \in Rows
  BY <1>5 DEF Sound, Results
<1>7. /\ target' = IF result.ok THEN result.rows ELSE target
      /\ pos' = IF result.ok THEN pos + 1 ELSE pos
      /\ strays' = OutOfStep(strays \cup {i \in {event.id} : result.ok /\ event.table = "users"
                                            /\ event.kind = "insert" /\ result.rows.users[i] = NoRow})
      /\ UNCHANGED <<source, log>>
  BY <1>1, <1>2 DEF ReplayEvent
<1>8. result.ok = TRUE
  BY <1>6, <1>7
<1>9. target' = result.rows /\ pos' = pos + 1
  BY <1>7, <1>8
<1>10. SoundUser(target, event, "ignore", target') /\ SoundPayment(target, event, "ignore", target')
  BY <1>5, <1>8, <1>9 DEF Sound
<1>11. strays' = OutOfStep(strays \cup {i \in {event.id} : event.table = "users" /\ event.kind = "insert"
                                                             /\ target'.users[i] = NoRow})
  BY <1>7, <1>8, <1>9
<1>12. QED
  BY <1>1, <1>3, <1>4, <1>6, <1>7, <1>9, <1>10, <1>11

(* The events of a user as histories need them. *)
LEMMA UserImages ==
  ASSUME NEW event, UserChange(event)
  PROVE  Images(event, Users, NoRow, {"name", "boss"})
<1>1. event.kind # "delete" =>
        /\ event.row \in Users
        /\ \A old \in Users : AfterImage(old, event) \in Users
        /\ \A old \in Users \cup {NoRow} :
             /\ event.kind = "insert" => AfterImage(old, event) = event.row
             /\ \A c \in {"name", "boss"} :
                  AfterImage(old, event)[c] = IF c \in event.columns THEN event.row[c] ELSE old[c]
  BY UserImage DEF UserChange
<1>2. event.kind \in {"insert", "update", "delete"} /\ (event.kind = "delete" => event.row = NoRow)
  BY DEF UserChange
<1>3. QED
  BY <1>1, <1>2, RowShapes DEF Images

(* The events of a payment as histories need them. *)
LEMMA PaymentImages ==
  ASSUME NEW event, PaymentChange(event)
  PROVE  Images(event, Payments, NoPayment, {"ident", "state"})
<1>1. event.kind # "delete" =>
        /\ event.row \in Payments
        /\ \A old \in Payments : AfterImage(old, event) \in Payments
        /\ \A old \in Payments \cup {NoPayment} :
             /\ event.kind = "insert" => AfterImage(old, event) = event.row
             /\ \A c \in {"ident", "state"} :
                  AfterImage(old, event)[c] = IF c \in event.columns THEN event.row[c] ELSE old[c]
  BY PaymentImage DEF PaymentChange
<1>2. event.kind \in {"insert", "update", "delete"} /\ (event.kind = "delete" => event.row = NoPayment)
  BY DEF PaymentChange
<1>3. QED
  BY <1>1, <1>2, RowShapes DEF Images

(* Users, when an event commits. *)
LEMMA ReplayedUser ==
  ASSUME ReplayInv, ReplayEvent, pos' # pos, NEW i \in UserIds
  PROVE  UserTracked(i)'
<1>1. PICK event : event = log[pos + 1]
  OBVIOUS
<1>2. /\ pos < Len(log) /\ pos' = pos + 1 /\ UNCHANGED <<source, log>>
      /\ event \in Changes /\ target' \in Rows
      /\ SoundUser(target, event, "ignore", target')
      /\ SoundPayment(target, event, "ignore", target')
      /\ strays' = OutOfStep(strays \cup {j \in {event.id} : event.table = "users" /\ event.kind = "insert"
                                                             /\ target'.users[j] = NoRow})
  BY <1>1, CommittedEvent
<1>3. /\ log \in Seq(Changes) /\ pos \in Nat /\ pos + 1 \in 0 .. Len(log)
      /\ target.users[i] \in Users \cup {NoRow}
  BY <1>2 DEF ReplayInv, Rows
<1>4. Tracked(log, pos, "users", i, Users, NoRow, source.users[i], target.users[i], i \notin strays)
  BY DEF ReplayInv, UserTracked
<1> DEFINE Reached == Tracked(log, pos + 1, "users", i, Users, NoRow, source.users[i], target'.users[i],
                              i \notin strays')
<1>5. CASE target'.users[i] = source.users[i]
  <2>1. Tracked(log, pos + 1, "users", i, Users, NoRow, source.users[i], source.users[i], i \notin strays')
    BY <1>3, <1>4, CurrentRow
  <2>2. Reached
    BY <1>5, <2>1
  <2>3. QED
    BY <1>2, <2>2 DEF UserTracked
<1>6. CASE target'.users[i] # source.users[i] /\ i \in strays'
  <2>1. Tracked(log, pos + 1, "users", i, Users, NoRow, source.users[i], target'.users[i], FALSE)
    BY <1>4, StrayRow
  <2>2. Reached
    BY <1>6, <2>1 DEF Tracked
  <2>3. QED
    BY <1>2, <2>2 DEF UserTracked
<1>7. CASE target'.users[i] # source.users[i] /\ i \notin strays'
  <2>1. /\ i \notin strays
        /\ ~ (event.id = i /\ event.table = "users" /\ event.kind = "insert" /\ target'.users[i] = NoRow)
    BY <1>2, <1>7 DEF OutOfStep
  <2>2. Tracked(log, pos, "users", i, Users, NoRow, source.users[i], target.users[i], TRUE)
    BY <1>4, <2>1 DEF Tracked
  <2>3. Tracked(log, pos + 1, "users", i, Users, NoRow, source.users[i], target'.users[i], TRUE)
    <3>1. CASE event.table = "users" /\ event.id = i
      <4>1. UserChange(event)
        BY <1>2, <3>1, ChangeShapes DEF PaymentChange
      <4>2. Outcome(event, target.users[i], source.users[i], NoRow, target'.users[i])
        BY <1>2, <3>1 DEF SoundUser
      <4>3. Images(event, Users, NoRow, {"name", "boss"})
        BY <4>1, UserImages
      <4>4. event.kind = "insert" /\ target'.users[i] = NoRow => source.users[i] = NoRow
        BY <2>1, <3>1
      <4>5. QED
        BY <1>1, <1>2, <1>3, <2>2, <3>1, <4>2, <4>3, <4>4, OwnEvent
    <3>2. CASE ~ (event.table = "users" /\ event.id = i)
      <4>1. target'.users[i] = target.users[i]
        <5>1. CASE event.table = "users"
          BY <1>2, <1>7, <3>2, <5>1 DEF SoundUser
        <5>2. CASE event.table = "payments"
          BY <1>2, <5>2 DEF SoundPayment
        <5>3. QED
          BY <1>2, <5>1, <5>2, ChangeShapes DEF UserChange, PaymentChange
      <4>2. Tracked(log, pos + 1, "users", i, Users, NoRow, source.users[i], target.users[i], TRUE)
        BY <1>1, <1>2, <1>3, <2>2, <3>2, OtherEvent
      <4>3. QED
        BY <4>1, <4>2
    <3>3. QED
      BY <3>1, <3>2
  <2>4. Reached
    BY <1>7, <2>3 DEF Tracked
  <2>5. QED
    BY <1>2, <2>4 DEF UserTracked
<1>8. QED
  BY <1>5, <1>6, <1>7

(* Payments, when an event commits. *)
LEMMA ReplayedPayment ==
  ASSUME ReplayInv, ReplayEvent, pos' # pos, NEW i \in PaymentIds
  PROVE  PaymentTracked(i)'
<1>1. PICK event : event = log[pos + 1]
  OBVIOUS
<1>2. /\ pos < Len(log) /\ pos' = pos + 1 /\ UNCHANGED <<source, log>>
      /\ event \in Changes /\ target' \in Rows
      /\ SoundUser(target, event, "ignore", target')
      /\ SoundPayment(target, event, "ignore", target')
  BY <1>1, CommittedEvent
<1>3. /\ log \in Seq(Changes) /\ pos \in Nat
      /\ target.payments[i] \in Payments \cup {NoPayment}
  BY <1>2 DEF ReplayInv, Rows
<1>4. Tracked(log, pos, "payments", i, Payments, NoPayment, source.payments[i], target.payments[i], TRUE)
  BY DEF ReplayInv, PaymentTracked
<1>5. Tracked(log, pos + 1, "payments", i, Payments, NoPayment, source.payments[i], target'.payments[i], TRUE)
  <2>1. CASE event.table = "payments" /\ event.id = i
    <3>1. PaymentChange(event)
      BY <1>2, <2>1, ChangeShapes DEF UserChange
    <3>2. /\ Outcome(event, target.payments[i], source.payments[i], NoPayment, target'.payments[i])
          /\ event.kind = "insert" /\ target'.payments[i] = NoPayment => source.payments[i] = NoPayment
      BY <1>2, <2>1 DEF SoundPayment
    <3>3. Images(event, Payments, NoPayment, {"ident", "state"})
      BY <3>1, PaymentImages
    <3>4. QED
      BY <1>1, <1>2, <1>3, <1>4, <2>1, <3>2, <3>3, OwnEvent
  <2>2. CASE ~ (event.table = "payments" /\ event.id = i)
    <3>1. target'.payments[i] = target.payments[i]
      <4>1. CASE event.table = "payments"
        BY <1>2, <2>2, <4>1 DEF SoundPayment
      <4>2. CASE event.table = "users"
        BY <1>2, <4>2 DEF SoundUser
      <4>3. QED
        BY <1>2, <4>1, <4>2, ChangeShapes DEF UserChange, PaymentChange
    <3>2. Tracked(log, pos + 1, "payments", i, Payments, NoPayment, source.payments[i], target.payments[i], TRUE)
      BY <1>1, <1>2, <1>3, <1>4, <2>2, OtherEvent
    <3>3. QED
      BY <3>1, <3>2
  <2>3. QED
    BY <2>1, <2>2
<1>6. QED
  BY <1>2, <1>5 DEF PaymentTracked

(* An event committed or rolled back. *)
LEMMA ReplayStep ==
  ASSUME ReplayInv, ReplayEvent
  PROVE  ReplayInv'
<1>1. CASE pos' # pos
  <2>1. /\ pos < Len(log) /\ pos' = pos + 1 /\ UNCHANGED <<source, log>> /\ target' \in Rows
        /\ strays' \in SUBSET UserIds
    <3>1. PICK event : event = log[pos + 1]
      OBVIOUS
    <3>2. /\ pos < Len(log) /\ pos' = pos + 1 /\ UNCHANGED <<source, log>> /\ target' \in Rows
          /\ event \in Changes
          /\ strays' = OutOfStep(strays \cup {j \in {event.id} : event.table = "users" /\ event.kind = "insert"
                                                                 /\ target'.users[j] = NoRow})
      BY <1>1, <3>1, CommittedEvent
    <3>3. event.table = "users" => event.id \in UserIds
      BY <3>2, ChangeShapes DEF UserChange, PaymentChange
    <3>4. strays' \in SUBSET UserIds
      BY <3>2, <3>3 DEF OutOfStep, ReplayInv
    <3>5. QED
      BY <3>2, <3>4
  <2>2. \A i \in UserIds : UserTracked(i)'
    BY <1>1, ReplayedUser
  <2>3. \A i \in PaymentIds : PaymentTracked(i)'
    BY <1>1, ReplayedPayment
  <2>4. source' \in Rows /\ log' \in Seq(Changes) /\ pos' \in 0 .. Len(log')
    BY <2>1 DEF ReplayInv
  <2>5. QED
    BY <2>1, <2>2, <2>3, <2>4 DEF ReplayInv
<1>2. CASE pos' = pos
  <2>1. PICK event : event = log[pos + 1]
    OBVIOUS
  <2>2. PICK result : result = execute_row_change(target, event)
    OBVIOUS
  <2>3. /\ target' = IF result.ok THEN result.rows ELSE target
        /\ pos' = IF result.ok THEN pos + 1 ELSE pos
        /\ strays' = OutOfStep(strays \cup {i \in {event.id} : result.ok /\ event.table = "users"
                                              /\ event.kind = "insert" /\ result.rows.users[i] = NoRow})
        /\ UNCHANGED <<source, log>>
    BY <2>1, <2>2 DEF ReplayEvent
  <2>4. ~ result.ok
    BY <1>2, <2>3, SMTT(30) DEF ReplayInv
  <2>5. target' = target /\ strays' = OutOfStep(strays)
    BY <2>3, <2>4
  <2>6. QED
    BY <1>2, <2>3, <2>5, TargetSteps DEF ReplayInv
<1>3. QED
  BY <1>1, <1>2

(* Every step keeps the invariant. *)
LEMMA ReplayInvStep ==
  ASSUME ReplayInv, [Next]_vars
  PROVE  ReplayInv'
<1>1. ASSUME NEW i \in UserIds, NEW row \in Users,
             SourceInsert("users", i, row) \/ SourceUpdate("users", i, row)
      PROVE  ReplayInv'
  BY <1>1, SourceUserActions
<1>2. ASSUME NEW i \in PaymentIds, NEW row \in Payments,
             SourceInsert("payments", i, row) \/ SourceUpdate("payments", i, row)
      PROVE  ReplayInv'
  BY <1>2, SourcePaymentActions
<1>3. ASSUME NEW i \in UserIds, SourceDelete("users", i) \/ SyncCopies("users", i)
      PROVE  ReplayInv'
  BY <1>3, SourceUserActions, CopiedUser
<1>4. ASSUME NEW i \in PaymentIds, SourceDelete("payments", i) \/ SyncCopies("payments", i)
      PROVE  ReplayInv'
  BY <1>4, SourcePaymentActions, CopiedPayment
<1>5. CASE ReplayEvent
  BY <1>5, ReplayStep
<1>6. CASE UNCHANGED vars
  BY <1>6 DEF vars, ReplayInv, UserTracked, PaymentTracked
<1>7. QED
  BY <1>1, <1>2, <1>3, <1>4, <1>5, <1>6 DEF Next

(***************************************************************************)
(* Row replay: whatever the sync's copies and the repairs of parents,      *)
(* owners and superseded inserts do, a row in step is always one that the  *)
(* rest of the binlog turns into the source's.                             *)
(***************************************************************************)
THEOREM ReplayIsInductive == Spec => []ReplayInv
<1>1. Init => ReplayInv
  BY ReplayInvInit
<1>2. ReplayInv /\ [Next]_vars => ReplayInv'
  BY ReplayInvStep
<1>3. QED
  BY <1>1, <1>2, PTL DEF Spec

(* At the end of the binlog only the current row explains a row. *)
LEMMA RowsAtTheEnd ==
  ASSUME ReplayInv, pos = Len(log)
  PROVE  /\ \A i \in UserIds \ strays : target.users[i] = source.users[i]
         /\ \A i \in PaymentIds : target.payments[i] = source.payments[i]
<1> DEFINE Agree(row, current, absent) ==
             IF row = absent THEN current = absent
             ELSE \A c \in DOMAIN row : current # absent /\ current[c] = row[c]
<1>1. log \in Seq(Changes) /\ Len(log) \in Nat
  BY DEF ReplayInv
<1>2. ASSUME NEW table, NEW id, NEW images, NEW absent, NEW current, NEW row,
             Tracked(log, pos, table, id, images, absent, current, row, TRUE)
      PROVE  Agree(row, current, absent)
  <2>1. PICK h \in [0 .. Len(log) -> images \cup {absent}] :
          Chronicle(h, log, table, id, absent, current) /\ Explained(h, pos, Len(log), row, absent)
    BY <1>2 DEF Tracked
  <2>2. h[Len(log)] = current /\ \A p \in pos .. Len(log) : p = Len(log)
    BY <1>1, <2>1 DEF Chronicle
  <2>3. QED
    BY <2>1, <2>2 DEF Explained
<1> HIDE DEF Agree
<1>3. ASSUME NEW i \in UserIds \ strays
      PROVE  target.users[i] = source.users[i]
  <2>1. target.users[i] \in Users \cup {NoRow} /\ source.users[i] \in Users \cup {NoRow}
    BY DEF ReplayInv, Rows
  <2>2. Tracked(log, pos, "users", i, Users, NoRow, source.users[i], target.users[i], TRUE)
    BY DEF ReplayInv, UserTracked, Tracked
  <2>3. Agree(target.users[i], source.users[i], NoRow)
    BY <1>2, <2>2
  <2>4. DOMAIN target.users[i] = {"name", "boss"}
    BY <2>1, RowShapes
  <2>5. CASE target.users[i] # NoRow
    <3>1. /\ target.users[i] \in Users /\ source.users[i] \in Users
          /\ source.users[i]["name"] = target.users[i]["name"] /\ source.users[i]["boss"] = target.users[i]["boss"]
      BY <2>1, <2>3, <2>4, <2>5 DEF Agree
    <3>2. QED
      BY <3>1 DEF Users
  <2>6. QED
    BY <2>3, <2>5 DEF Agree
<1>4. ASSUME NEW i \in PaymentIds
      PROVE  target.payments[i] = source.payments[i]
  <2>1. target.payments[i] \in Payments \cup {NoPayment} /\ source.payments[i] \in Payments \cup {NoPayment}
    BY DEF ReplayInv, Rows
  <2>2. Tracked(log, pos, "payments", i, Payments, NoPayment, source.payments[i], target.payments[i], TRUE)
    BY DEF ReplayInv, PaymentTracked
  <2>3. Agree(target.payments[i], source.payments[i], NoPayment)
    BY <1>2, <2>2
  <2>4. DOMAIN target.payments[i] = {"ident", "state"}
    BY <2>1, RowShapes
  <2>5. CASE target.payments[i] # NoPayment
    <3>1. /\ target.payments[i] \in Payments /\ source.payments[i] \in Payments
          /\ source.payments[i]["ident"] = target.payments[i]["ident"]
          /\ source.payments[i]["state"] = target.payments[i]["state"]
      BY <2>1, <2>3, <2>4, <2>5 DEF Agree
    <3>2. QED
      BY <3>1 DEF Payments
  <2>6. QED
    BY <2>3, <2>5 DEF Agree
<1>5. QED
  BY <1>3, <1>4

(***************************************************************************)
(* Row replay: at the end of the binlog every row in step is the source's, *)
(* for any number of users, names, payments, events and copied rows and    *)
(* any repair depth.                                                       *)
(***************************************************************************)
THEOREM ReplayAlwaysConverges == Spec => []ReplayConverges
<1>1. ReplayInv => ReplayConverges
  <2> SUFFICES ASSUME ReplayInv, pos = Len(log)
               PROVE  /\ \A i \in UserIds \ strays : target.users[i] = source.users[i]
                      /\ target.payments = source.payments
    BY DEF ReplayConverges
  <2>1. /\ target.payments \in [PaymentIds -> Payments \cup {NoPayment}]
        /\ source.payments \in [PaymentIds -> Payments \cup {NoPayment}]
    BY DEF ReplayInv, Rows
  <2>2. QED
    BY <2>1, RowsAtTheEnd
<1>2. QED
  BY <1>1, ReplayIsInductive, PTL

(***************************************************************************)
(* Row replay: an event and its nested repairs change a user other than    *)
(* their own only into the source's current row, however deep the repairs  *)
(* go.                                                                     *)
(***************************************************************************)
THEOREM RepairsAreFromSource == Spec => RepairsOnlyFromSource
<1> DEFINE Step == pos' = pos + 1 =>
             \A i \in UserIds : i # log[pos + 1].id \/ log[pos + 1].table # "users" =>
               target'.users[i] \in {target.users[i], source.users[i]}
<1>1. ReplayInv /\ [Next]_vars => Step \/ UNCHANGED vars
  <2> SUFFICES ASSUME ReplayInv, Next, pos' = pos + 1, NEW i \in UserIds,
                      i # log[pos + 1].id \/ log[pos + 1].table # "users"
               PROVE  target'.users[i] \in {target.users[i], source.users[i]}
    OBVIOUS
  <2>1. pos \in Nat /\ pos' # pos
    BY DEF ReplayInv
  <2>2. ReplayEvent
    BY <2>1 DEF Next, SourceInsert, SourceUpdate, SourceDelete, SourceChange, SyncCopies
  <2>3. PICK event : event = log[pos + 1]
    OBVIOUS
  <2>4. event \in Changes /\ SoundUser(target, event, "ignore", target') /\ SoundPayment(target, event, "ignore", target')
    BY <2>1, <2>2, <2>3, CommittedEvent
  <2>5. CASE event.table = "users"
    BY <2>3, <2>4, <2>5 DEF SoundUser
  <2>6. CASE event.table = "payments"
    BY <2>4, <2>6 DEF SoundPayment
  <2>7. QED
    BY <2>4, <2>5, <2>6, ChangeShapes DEF UserChange, PaymentChange
<1>2. QED
  BY <1>1, ReplayIsInductive, PTL DEF Spec, RepairsOnlyFromSource

=============================================================================

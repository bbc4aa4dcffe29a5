------------------------------ MODULE RowReplay ------------------------------
(***************************************************************************)
(* Native row events replayed on a target that is not where the binlog is: *)
(* a sync has copied rows of a later source, or has not copied them yet.   *)
(* A duplicate INSERT is taken for a replay; a missing parent is fetched   *)
(* from the source, which is ahead of the event; a parent insert that      *)
(* meets another owner of its unique value reconciles that owner           *)
(* (row/, mysql_client.rs, mysql_client/missing_foreign_key*, the payment  *)
(* and user guards).                                                       *)
(*                                                                         *)
(* Users have a unique name and a boss among the users (a foreign key; 0   *)
(* is NULL); a trigger refuses a payment whose external identity is        *)
(* already there.  Each event is one row and one source transaction.       *)
(***************************************************************************)
EXTENDS Naturals, Sequences, FiniteSets

CONSTANTS
  UserIds, Names,           \* users
  PaymentIds, Identities,   \* payments
  MaxEvents,                \* bound on source changes
  MaxCopies,                \* bound on rows the sync copies
  MaxRepairDepth,           \* MAX_MISSING_FOREIGN_KEY_REPAIR_DEPTH
  GuardsEnabled             \* insert_conflict_policy is replace-divergent-pk

(* The marks of an absent row and of NULL are no values of the columns. *)
ASSUME RowReplayAssumption ==
  /\ MaxRepairDepth \in Nat
  /\ 0 \notin UserIds
  /\ "none" \notin Names
  /\ "none" \notin Identities

VARIABLES
  source,     \* current rows of the source
  target,     \* committed rows of the target
  log,        \* row events of the source, in commit order
  pos,        \* events the stream has committed
  blocked,    \* the stream stopped at event pos + 1
  strays,     \* users not in step: copied late, or their INSERT was ignored
  copies      \* rows the sync has copied

vars == <<source, target, log, pos, blocked, strays, copies>>

NoRow == [name |-> "none", boss |-> 0]
NoPayment == [ident |-> "none", state |-> 0]
Users == [name : Names, boss : UserIds \cup {0}]
Payments == [ident : Identities, state : {0, 1}]
Rows == [users : [UserIds -> Users \cup {NoRow}], payments : [PaymentIds -> Payments \cup {NoPayment}]]
EmptyRows == [users |-> [i \in UserIds |-> NoRow], payments |-> [i \in PaymentIds |-> NoPayment]]

Absent(table) == IF table = "users" THEN NoRow ELSE NoPayment
Owner(rows, name) == {i \in UserIds : rows.users[i].name = name}
Payers(rows, ident) == {i \in PaymentIds : rows.payments[i].ident = ident}

-----------------------------------------------------------------------------
(* Statements of the target, with the error MySQL reports first. *)

(* The columns a row change assigns; build_update_statement leaves out the *)
(* ones the source did not change.                                         *)
Change(kind, table, id, row, columns, native) ==
  [kind |-> kind, table |-> table, id |-> id, row |-> row, columns |-> columns, native |-> native]

Insert(table, id, row) == Change("insert", table, id, row, DOMAIN row, FALSE)
Update(table, id, row) == Change("update", table, id, row, DOMAIN row, FALSE)
Delete(table, id) == Change("delete", table, id, Absent(table), DOMAIN Absent(table), FALSE)
Event(change, columns) == Change(change.kind, change.table, change.id, change.row, columns, TRUE)

RowChanges(table, ids, rows) ==
  LET columns == DOMAIN Absent(table)
      change(kind, images, assigned) ==
        [kind : {kind}, table : {table}, id : ids, row : images, columns : assigned, native : BOOLEAN]
  IN change("insert", rows, {columns}) \cup change("update", rows, SUBSET columns)
       \cup change("delete", {Absent(table)}, {columns})

Changes == RowChanges("users", UserIds, Users) \cup RowChanges("payments", PaymentIds, Payments)

changed_columns(before, after) == {c \in DOMAIN after : before[c] # after[c]}

AfterImage(old, change) ==
  [c \in DOMAIN old |-> IF c \in change.columns THEN change.row[c] ELSE old[c]]

StatementError(rows, change) ==
  LET old == rows[change.table][change.id]
      new == AfterImage(old, change)
      here == old # Absent(change.table)
  IN IF change.kind = "delete"
     THEN IF change.table = "users" /\ \E i \in UserIds \ {change.id} : rows.users[i].boss = change.id
          THEN "1451" ELSE "ok"
     ELSE IF change.kind = "update" /\ ~here THEN "ok"
     ELSE IF change.table = "payments" /\ change.kind = "insert" /\ Payers(rows, new.ident) # {} THEN "1644"
     ELSE IF change.kind = "insert" /\ here THEN "1062 PRIMARY"
     ELSE IF change.table = "payments" THEN "ok"
     ELSE IF Owner(rows, new.name) \ {change.id} # {} THEN "1062 name"
     ELSE IF new.boss # 0 /\ new.boss # change.id /\ rows.users[new.boss] = NoRow THEN "1452"
     ELSE "ok"

Executed(rows, change) ==
  LET old == rows[change.table][change.id]
  IN IF change.kind = "delete" THEN [rows EXCEPT ![change.table][change.id] = Absent(change.table)]
     ELSE IF change.kind = "update" /\ old = Absent(change.table) THEN rows
     ELSE [rows EXCEPT ![change.table][change.id] = AfterImage(old, change)]

(* prove_existing_payment_replay: the one target payment with the event's  *)
(* external identity has the event's id and is the source's current row.   *)
PaymentReplayProven(rows, change) ==
  /\ GuardsEnabled
  /\ change.table = "payments" /\ change.kind = "insert"
  /\ Payers(rows, change.row.ident) = {change.id}
  /\ source.payments[change.id].ident = change.row.ident
  /\ rows.payments[change.id] = source.payments[change.id]

(* Mutant: the user need not be the source's current row. *)
OwnerOnlyProven(rows, change) ==
  /\ GuardsEnabled
  /\ change.table = "users" /\ change.kind = "update" /\ change.native
  /\ Owner(rows, change.row.name) \notin {{}, {change.id}}
  /\ Owner(rows, change.row.name) = Owner(source, change.row.name)

(* prove_current_users_update_replay: the user is already the source's     *)
(* current row and the name's owner is the owner in the source too.        *)
UsersUpdateProven(rows, change) ==
  /\ GuardsEnabled
  /\ change.table = "users" /\ change.kind = "update" /\ change.native
  /\ rows.users[change.id] # NoRow
  /\ rows.users[change.id] = source.users[change.id]
  /\ Owner(rows, change.row.name) \notin {{}, {change.id}}
  /\ Owner(rows, change.row.name) = Owner(source, change.row.name)

(* execute_row_change_statement *)
GuardedError(rows, change) ==
  LET error == StatementError(rows, change)
  IN IF \/ error = "1644" /\ PaymentReplayProven(rows, change)
        \/ error = "1062 name" /\ UsersUpdateProven(rows, change)
     THEN "proven" ELSE error

-----------------------------------------------------------------------------
(* execute_row_change_with_active_repairs: a change, and what it takes to  *)
(* get it done.  A call is the rows, the change, the repairs under way and *)
(* what a duplicate key is taken for; a result is [ok, rows].              *)

RepairKeys ==
  ({"1062 PRIMARY"} \X (UserIds \cup PaymentIds)) \cup ({"1062 name"} \X Names) \cup ({"1452"} \X UserIds)

Calls ==
  [rows : Rows, change : Changes, active : SUBSET RepairKeys, duplicate : {"ignore", "reject", "reconcile"}]

Call(rows, change, active, duplicate) ==
  [rows |-> rows, change |-> change, active |-> active, duplicate |-> duplicate]

Done(rows) == [ok |-> TRUE, rows |-> rows]
Failed(rows) == [ok |-> FALSE, rows |-> rows]

CanStart(key, active) == key \notin active /\ Cardinality(active) < MaxRepairDepth

(* Mutant: another owner is deleted without asking the source. *)
DeleteOwner(rows, change, error) ==
  IF error = "1062 PRIMARY" THEN Update(change.table, change.id, change.row)
  ELSE Delete("users", CHOOSE i \in Owner(rows, change.row.name) : TRUE)

(* The target row that holds the duplicate value, locked. *)
duplicate_parent_owner(rows, change) == CHOOSE i \in Owner(rows, change.row.name) : TRUE

fetch_source_owner(owner) == source.users[owner]

duplicate_parent_repair_key(change, error) ==
  <<error, IF error = "1062 PRIMARY" THEN change.id ELSE change.row.name>>

verify_duplicate_parent_reconciliation(rows, change) == rows.users[change.id] = change.row

(* plan_duplicate_parent_reconciliation: the owner of the intended primary *)
(* key becomes the parent; another owner becomes its own source row, or is *)
(* deleted when the source has no such row.                                *)
OwnerChange(rows, change, error) ==
  LET owner == duplicate_parent_owner(rows, change)
  IN IF error = "1062 PRIMARY" THEN Update(change.table, change.id, change.row)
     ELSE IF fetch_source_owner(owner) # NoRow THEN Update("users", owner, fetch_source_owner(owner))
     ELSE Delete("users", owner)

(* execute is what a nested call of execute_row_change_with_active_repairs *)
(* returns.                                                                *)
reconcile_duplicate_parent(execute, rows, change, error, active) ==
  LET key == duplicate_parent_repair_key(change, error)
      owner == execute[Call(rows, OwnerChange(rows, change, error), active \cup {key}, "reconcile")]
      retry == IF owner.ok /\ error # "1062 PRIMARY"
               THEN execute[Call(owner.rows, change, active \cup {key}, "reject")] ELSE owner
  IN IF ~CanStart(key, active) THEN Failed(rows)
     ELSE IF retry.ok /\ ~verify_duplicate_parent_reconciliation(retry.rows, change) THEN Failed(retry.rows)
     ELSE retry

(* The parent key that the refused change refers to. *)
foreign_key_reference(rows, change) == AfterImage(rows.users[change.id], change).boss

missing_foreign_key_repair_key(reference) == <<"1452", reference>>

fetch_source_parent_row(reference) == source.users[reference]

build_parent_row_change(reference) == Insert("users", reference, fetch_source_parent_row(reference))

(* load_superseded_source_insert: the source's current row in place of the *)
(* event's, unless it still refers to the missing parent.                  *)
superseded_insert(execute, rows, change, reference, active) ==
  LET current == source.users[change.id]
  IN IF current = NoRow THEN Done(rows)
     ELSE IF current.boss = reference THEN Failed(rows)
     ELSE execute[Call(rows, Insert("users", change.id, current), active, "reconcile")]

(* The source parent is inserted and the change tried again; without one,  *)
(* an INSERT gives way to the source's current row.                        *)
repair_parent_and_retry(execute, rows, change, active, duplicate) ==
  LET reference == foreign_key_reference(rows, change)
      key == missing_foreign_key_repair_key(reference)
      parent == execute[Call(rows, build_parent_row_change(reference), active \cup {key}, "reconcile")]
  IN IF ~CanStart(key, active) THEN Failed(rows)
     ELSE IF fetch_source_parent_row(reference) # NoRow
     THEN IF parent.ok THEN execute[Call(parent.rows, change, active \cup {key}, duplicate)] ELSE parent
     ELSE IF change.kind # "insert" THEN Failed(rows)
     ELSE superseded_insert(execute, rows, change, reference, active \cup {key})

(* One call, given what the nested ones return. *)
Attempt(execute, rows, change, active, duplicate) ==
  LET error == GuardedError(rows, change)
  IN IF error = "ok" THEN Done(Executed(rows, change))
     ELSE IF error = "proven" THEN Done(rows)
     ELSE IF error \in {"1062 PRIMARY", "1062 name"} /\ change.kind = "insert"
     THEN IF duplicate = "ignore" THEN Done(rows)
          ELSE IF duplicate = "reject" THEN Failed(rows)
          ELSE reconcile_duplicate_parent(execute, rows, change, error, active)
     ELSE IF error = "1452" THEN repair_parent_and_retry(execute, rows, change, active, duplicate)
     ELSE Failed(rows)

(* A nested call has one more repair under way, so there are at most       *)
(* MaxRepairDepth of them inside each other.                               *)
Execute[depth \in Nat] ==
  IF depth = 0 THEN [call \in Calls |-> Failed(call.rows)]
  ELSE [call \in Calls |->
          Attempt(Execute[depth - 1], call.rows, call.change, call.active, call.duplicate)]

execute_row_change(rows, change) == Execute[MaxRepairDepth + 1][Call(rows, change, {}, "ignore")]

-----------------------------------------------------------------------------
(* The source's transactions; MariaDB enforces the same constraints. *)

SourceChange(change, event) ==
  /\ Len(log) < MaxEvents
  /\ StatementError(source, change) = "ok"
  /\ source' = Executed(source, change)
  /\ log' = Append(log, event)
  /\ UNCHANGED <<target, pos, blocked, strays, copies>>

SourceInsert(table, id, row) ==
  /\ source[table][id] = Absent(table)
  /\ LET change == Insert(table, id, row)
     IN SourceChange(change, Event(change, change.columns))

SourceUpdate(table, id, row) ==
  /\ source[table][id] \notin {Absent(table), row}
  /\ LET change == Update(table, id, row)
     IN SourceChange(change, Event(change, changed_columns(source[table][id], row)))

SourceDelete(table, id) ==
  /\ source[table][id] # Absent(table)
  /\ LET change == Delete(table, id)
     IN SourceChange(change, Event(change, change.columns))

(* A user is back in step when the target has the source's current row. *)
OutOfStep(users) == {i \in users : target'.users[i] # source.users[i]}

(* A row the staged sync copies, deletes or leaves equal in one chunk. *)
SyncCopies(table, id) ==
  LET row == source[table][id]
      change == IF row = Absent(table) THEN Delete(table, id)
                ELSE IF target[table][id] = Absent(table) THEN Insert(table, id, row)
                ELSE Update(table, id, row)
  IN /\ copies < MaxCopies
     /\ target[table][id] # row
     /\ StatementError(target, change) = "ok"
     /\ target' = Executed(target, change)
     /\ copies' = copies + 1
     /\ strays' = OutOfStep(strays)
     /\ UNCHANGED <<source, log, pos, blocked>>

(* apply_row_event in a target transaction: committed as a whole, or       *)
(* rolled back with the stream stopped at the event.                       *)
ReplayEvent ==
  /\ pos < Len(log)
  /\ LET event == log[pos + 1]
         result == execute_row_change(target, event)
     IN /\ target' = IF result.ok THEN result.rows ELSE target
        /\ pos' = IF result.ok THEN pos + 1 ELSE pos
        /\ blocked' = ~result.ok
        /\ strays' = OutOfStep(strays \cup {i \in {event.id} : result.ok /\ event.table = "users"
                                               /\ event.kind = "insert" /\ result.rows.users[i] = NoRow})
  /\ UNCHANGED <<source, log, copies>>

(* MySQL and MariaDB keep their constraints. *)
ValidUsers(users) ==
  /\ \A i, j \in UserIds : users[i] # NoRow /\ users[i].name = users[j].name => i = j
  /\ \A i \in UserIds : users[i].boss # 0 => users[users[i].boss] # NoRow

(* The stream starts on a target where any users may be missing, old or    *)
(* left over.                                                              *)
Init ==
  /\ \E s, t \in {u \in [UserIds -> Users \cup {NoRow}] : ValidUsers(u)} :
       /\ source = [EmptyRows EXCEPT !.users = s]
       /\ target = [EmptyRows EXCEPT !.users = t]
       /\ strays = {i \in UserIds : s[i] # t[i]}
  /\ log = <<>> /\ pos = 0 /\ blocked = FALSE /\ copies = 0

Next ==
  \/ \E i \in UserIds, row \in Users : SourceInsert("users", i, row) \/ SourceUpdate("users", i, row)
  \/ \E i \in PaymentIds, row \in Payments :
       SourceInsert("payments", i, row) \/ SourceUpdate("payments", i, row)
  \/ \E i \in UserIds : SourceDelete("users", i) \/ SyncCopies("users", i)
  \/ \E i \in PaymentIds : SourceDelete("payments", i) \/ SyncCopies("payments", i)
  \/ ReplayEvent

Spec == Init /\ [][Next]_vars

-----------------------------------------------------------------------------

(***************************************************************************)
(* Once the stream has replayed the whole binlog, every user that was ever *)
(* in step with the source, and every payment, is the source's row,        *)
(* whatever the sync's copies, the parents fetched early, the reconciled   *)
(* owners, the superseded inserts and the acknowledged payment and user    *)
(* replays did in between.  Out of step are the rows the sync has not      *)
(* reached and, as the repository documents, one whose INSERT was ignored  *)
(* because another row had the unique value, be it a parent fetched for    *)
(* that very INSERT.                                                       *)
(***************************************************************************)
ReplayConverges ==
  pos = Len(log) =>
    /\ \A i \in UserIds \ strays : target.users[i] = source.users[i]
    /\ target.payments = source.payments

(***************************************************************************)
(* Repairs are source-authoritative: an event changes a row other than its *)
(* own only into the row the source has now, and removes one only if the   *)
(* source no longer has it.                                                *)
(***************************************************************************)
RepairsOnlyFromSource ==
  [][pos' = pos + 1 =>
       \A i \in UserIds : i # log[pos + 1].id \/ log[pos + 1].table # "users" =>
         target'.users[i] \in {target.users[i], source.users[i]}]_vars

=============================================================================

--------------------------- MODULE GuestRangeRepair ---------------------------
(***************************************************************************)
(* repair-guest-range (sync/guest_range_repair.rs): the guests of an       *)
(* inclusive range are copied from one source snapshot into the target, in *)
(* pages, each a target transaction that only inserts.  Meanwhile the      *)
(* source changes and the stream replays.                                  *)
(*                                                                         *)
(* A guest row is its value; 0 is no row.  A guest with value u refers to  *)
(* the target's utms row u if u is in Utms.                                *)
(***************************************************************************)
EXTENDS Integers, Sequences, FiniteSets

CONSTANTS
  Guests,        \* guest ids, a range of numbers
  Start, End,    \* --start-guest-id and --end-guest-id
  ExpectedRows,  \* --expected-rows
  BatchSize,     \* --batch-size
  Values, Utms,  \* row values, and those of them that refer to a utms row
  MaxEvents      \* bound on source changes

VARIABLES
  source, target, utms,    \* guests of both sides, utms rows of the target
  log, pos,
  snapshot,                \* the command's source snapshot
  pc, after, page,         \* step, last id copied, ids of the current page
  work,                    \* the open target transaction
  changed                  \* guests changed in the source since the snapshot

vars == <<source, target, utms, log, pos, snapshot, pc, after, page, work, changed>>

NoGuest == 0
Rows == [Guests -> Values \cup {NoGuest}]

(* validate_bounds *)
BoundsValid == ExpectedRows = End - Start + 1 /\ ExpectedRows > 0 /\ BatchSize > 0

(* The guests left in the snapshot, and the first BatchSize of them by id *)
ReadPage == {g \in Guests : snapshot[g] # NoGuest /\ after < g /\ g <= End}
PageOf(ids) == {g \in ids : Cardinality({h \in ids : h < g}) < BatchSize}

(* validate_page: exactly the next ids of the range *)
validate_page(ids) == ids # {} /\ ids = after + 1 .. after + Cardinality(ids)

command == <<snapshot, pc, after, page, work>>

SourceChange(g, row) ==
  /\ Len(log) < MaxEvents
  /\ source[g] # row
  /\ source' = [source EXCEPT ![g] = row]
  /\ log' = Append(log, [guest |-> g, before |-> source[g], row |-> row])
  /\ changed' = IF pc = "start" THEN changed ELSE changed \cup {g}
  /\ UNCHANGED <<command, target, utms, pos>>

(* Guests the open target transaction has locked *)
Locked(g) == pc = "readback" /\ g \in page

StreamReplays ==
  /\ pos < Len(log) /\ ~Locked(log[pos + 1].guest)
  /\ LET event == log[pos + 1]
         keeps == IF event.before = NoGuest THEN target[event.guest] # NoGuest
                                            ELSE target[event.guest] = NoGuest
     IN target' = IF keeps THEN target ELSE [target EXCEPT ![event.guest] = event.row]
  /\ pos' = pos + 1
  /\ UNCHANGED <<command, source, utms, log, changed>>

-----------------------------------------------------------------------------

Fail == /\ pc' = "error" /\ work' = target
        /\ UNCHANGED <<source, target, utms, log, pos, snapshot, after, page, changed>>

(* connect and preflight: START TRANSACTION WITH CONSISTENT SNAPSHOT, then *)
(* the count and both ends of the range                                    *)
TakeSnapshot ==
  /\ pc = "start"
  /\ snapshot' = source
  /\ pc' = IF BoundsValid /\ \A g \in Start .. End : source[g] # NoGuest THEN "page" ELSE "error"
  /\ UNCHANGED <<source, target, utms, log, pos, after, page, work, changed>>

(* Mutant: a page starts one id too late, unchecked. *)
StartPageAfterNext ==
  /\ pc = "page"
  /\ page' = PageOf(IF Cardinality(ReadPage) > 1 THEN ReadPage \ {after + 1} ELSE ReadPage)
  /\ pc' = "batch"
  /\ UNCHANGED <<source, target, utms, log, pos, snapshot, after, work, changed>>

StartPage ==
  /\ pc = "page"
  /\ IF ~validate_page(PageOf(ReadPage)) THEN Fail
     ELSE /\ page' = PageOf(ReadPage)
          /\ pc' = "batch"
          /\ UNCHANGED <<source, target, utms, log, pos, snapshot, after, work, changed>>

RequireParent(g) == snapshot[g] \in Utms => snapshot[g] \in utms

(* insert_batch: SELECT ... FOR UPDATE locks each guest, and an absent one *)
(* is inserted; a different one ends the command.                          *)
InsertBatch ==
  /\ pc = "batch"
  /\ IF \E g \in page : ~RequireParent(g) \/ target[g] \notin {NoGuest, snapshot[g]}
     THEN Fail
     ELSE /\ work' = [g \in Guests |-> IF g \in page THEN snapshot[g] ELSE target[g]]
          /\ pc' = "readback"
          /\ UNCHANGED <<source, target, utms, log, pos, snapshot, after, page, changed>>

(* The read back under the row locks, and COMMIT; an error of COMMIT may   *)
(* come after the transaction took effect.                                 *)
CommitBatch ==
  /\ pc = "readback"
  /\ target' = [g \in Guests |-> IF g \in page THEN work[g] ELSE target[g]]
  /\ after' = CHOOSE last \in page : \A g \in page : last >= g
  /\ \E acknowledged \in BOOLEAN :
       pc' = CASE ~acknowledged -> "error" [] after' < End -> "page" [] OTHER -> "ok"
  /\ UNCHANGED <<source, utms, log, pos, snapshot, page, work, changed>>

(* An error or the loss of a connection: the batch rolls back. *)
Disconnected == pc \in {"page", "batch", "readback"} /\ Fail

Init ==
  /\ source \in Rows /\ target \in Rows /\ utms \in SUBSET Utms
  /\ \A g \in Guests : target[g] \in Utms => target[g] \in utms
  /\ log = <<>> /\ pos = 0
  /\ snapshot = source /\ pc = "start" /\ after = Start - 1 /\ page = {}
  /\ work = target /\ changed = {}

Next ==
  \/ \E g \in Guests, row \in Values \cup {NoGuest} : SourceChange(g, row)
  \/ StreamReplays \/ TakeSnapshot \/ StartPage \/ InsertBatch \/ CommitBatch \/ Disconnected

Spec == Init /\ [][Next]_vars

-----------------------------------------------------------------------------

(***************************************************************************)
(* A repair that reports success has restored the range: once the stream   *)
(* has replayed everything, each guest of the range that the source did    *)
(* not change after the snapshot is the source's row, wherever the pages   *)
(* fell.  (A guest changed after the snapshot may keep the snapshot's row: *)
(* its event can be replayed before the page inserts it.)                  *)
(***************************************************************************)
RangeRestored ==
  pc = "ok" /\ pos = Len(log) =>
    \A g \in (Start .. End) \ changed : target[g] = source[g]

(***************************************************************************)
(* The repair only inserts: no guest the target has is changed by a batch, *)
(* so a row the stream replayed first always stays.                        *)
(***************************************************************************)
InsertStep ==
  CommitBatch => \A g \in Guests : target'[g] # target[g] => target[g] = NoGuest /\ g \in Start .. End
=============================================================================

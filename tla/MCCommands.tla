------------------------------ MODULE MCCommands -----------------------------
(***************************************************************************)
(* The operator commands beside the stream: sync-schema, FK orphan repair, *)
(* guest range repair, targeted conflict resolution and cutover.  A        *)
(* behaviour runs one of them; they share the variables whose names they   *)
(* share.                                                                  *)
(***************************************************************************)
EXTENDS MCSchemaSync

CONSTANTS MaxEvents, BatchSize, ComicNames, ArtistNames

VARIABLES
  command,
  log, pos, work,
  case, expected, plan, batch, locked, seen, history,
  utms, snapshot, after, page, changed,
  ledger, keys, read, evidence, todo, past, changes,
  quarantined, writes, endpoint, result

schemaOnly ==
  <<data, stage, plans, status, left, failed, complete, blocked, pinned, faulted, lost, runs, faults>>
orphanOnly == <<case, expected, plan, batch, locked, seen, history>>
guestOnly == <<utms, snapshot, after, page, changed>>
conflictOnly == <<ledger, keys, read, evidence, todo, past, changes>>
cutoverOnly == <<quarantined, writes, endpoint, result>>

mcVars == <<command, source, target, pc, log, pos, work, schemaOnly, orphanOnly, guestOnly, conflictOnly, cutoverOnly>>

Orphan == INSTANCE OrphanRepair WITH
  Children <- {1, 2}, Parents <- {"p"}, Names <- ComicNames, Limit <- 2

Guest == INSTANCE GuestRangeRepair WITH
  Guests <- {1, 2, 3}, Start <- 1, End <- 3, ExpectedRows <- 3, Values <- {1, 2}, Utms <- {2}

Conflict == INSTANCE ConflictResolution WITH
  Keys <- {1, 2}, Utms <- {"u"}, Me <- "a", BatchSize <- 1, MaxChanges <- 1,
  Conflicts <- {<<"a", 1, 1>>, <<"a", 1, 2>>, <<"a", 2, 1>>, <<"b", 1, 1>>}

Cut == INSTANCE Cutover WITH
  Keys <- {1, 2}, Values <- {1, 2}, SampleSize <- 1, DivergenceLimit <- 2, MaxLag <- 0

SchemaIdle ==
  /\ data = 0 /\ stage = 0 /\ plans = 0 /\ status = 0 /\ left = 0 /\ failed = 0 /\ complete = 0
  /\ blocked = 0 /\ pinned = 0 /\ faulted = 0 /\ lost = 0 /\ runs = 0 /\ faults = 0
OrphanIdle == case = 0 /\ expected = 0 /\ plan = 0 /\ batch = 0 /\ locked = 0 /\ seen = 0 /\ history = 0
GuestIdle == utms = 0 /\ snapshot = 0 /\ after = 0 /\ page = 0 /\ changed = 0
ConflictIdle == ledger = 0 /\ keys = 0 /\ read = 0 /\ evidence = 0 /\ todo = 0 /\ past = 0 /\ changes = 0
CutoverIdle == quarantined = 0 /\ writes = 0 /\ endpoint = 0 /\ result = 0

MCInit ==
  \/ /\ command = "sync-schema" /\ Init /\ log = 0 /\ pos = 0 /\ work = 0
     /\ OrphanIdle /\ GuestIdle /\ ConflictIdle /\ CutoverIdle
  \/ /\ command = "repair-fk-orphans" /\ Orphan!Init
     /\ SchemaIdle /\ GuestIdle /\ ConflictIdle /\ CutoverIdle
  \/ /\ command = "repair-guest-range" /\ Guest!Init
     /\ SchemaIdle /\ OrphanIdle /\ ConflictIdle /\ CutoverIdle
  \/ /\ command = "resolve-conflicts" /\ Conflict!Init /\ log = 0 /\ pos = 0 /\ work = 0
     /\ SchemaIdle /\ OrphanIdle /\ GuestIdle /\ CutoverIdle
  \/ /\ command = "cutover" /\ Cut!Init /\ work = 0
     /\ SchemaIdle /\ OrphanIdle /\ GuestIdle /\ ConflictIdle

(* Only sync-schema must never get stuck: the repairs and the cutover end. *)
Ended == command # "sync-schema" /\ UNCHANGED mcVars

MCNext ==
  \/ /\ command = "sync-schema" /\ Next
     /\ UNCHANGED <<command, log, pos, work, orphanOnly, guestOnly, conflictOnly, cutoverOnly>>
  \/ /\ command = "repair-fk-orphans" /\ Orphan!Next
     /\ UNCHANGED <<command, schemaOnly, guestOnly, conflictOnly, cutoverOnly>>
  \/ /\ command = "repair-guest-range" /\ Guest!Next
     /\ UNCHANGED <<command, schemaOnly, orphanOnly, conflictOnly, cutoverOnly>>
  \/ /\ command = "resolve-conflicts" /\ Conflict!Next
     /\ UNCHANGED <<command, log, pos, work, schemaOnly, orphanOnly, guestOnly, cutoverOnly>>
  \/ /\ command = "cutover" /\ Cut!Next
     /\ UNCHANGED <<command, work, schemaOnly, orphanOnly, guestOnly, conflictOnly>>
  \/ Ended

MCSpec == MCInit /\ [][MCNext]_mcVars

(* The names of repair-fk-orphans are only compared. *)
Symmetry == Permutations(ComicNames) \cup Permutations(ArtistNames)

-----------------------------------------------------------------------------

(* A run of sync-schema that reports success has converged the target, and *)
(* without faults and refused conversions every run succeeds.              *)
SchemaRunEndsConverged ==
  command = "sync-schema" => CompletedRunIsConverged /\ FaultFreeRunConverges

(* sync-schema never drops a constraint that the source has, nor changes a *)
(* stored value.                                                           *)
SchemaRunPreserves == [][command = "sync-schema" => MatchingConstraintsStep /\ NoValueIsLost']_mcVars

(* A batch of repair-fk-orphans commits rows the source had under its      *)
(* locks; it changes orphans, and parents only where its case may.         *)
OrphanRepairIsSound ==
  [][command = "repair-fk-orphans" => Orphan!CommitStep /\ Orphan!TargetedStep]_mcVars

(* repair-guest-range never changes a guest that the target has, and has   *)
(* restored its range when it succeeds.                                    *)
GuestRepairIsSound ==
  [][command = "repair-guest-range" => Guest!InsertStep /\ Guest!RangeRestored']_mcVars

(* A conflict is closed only after its row was seen equal on both sides,   *)
(* and a successful command leaves none it examined open.                  *)
ConflictsAreResolvedOnEvidence ==
  [][command = "resolve-conflicts" => Conflict!EvidenceStep /\ Conflict!ExaminedAreResolved']_mcVars

(* Cutover moves the application to a target with all its writes, for      *)
(* good; and whatever fails, it ends with writes on, or says that it could *)
(* not resume them.                                                        *)
CutoverIsSafe == [][command = "cutover" => Cut!SwitchStep /\ Cut!WritesComeBack']_mcVars
=============================================================================

------------------------------ MODULE LiveStream ------------------------------
(***************************************************************************)
(* The live stream with its DDL handlers: StreamApply composed with the    *)
(* automatic DDL journal.  A DDL event of the source is never replayed as  *)
(* it stands.  It is translated, its target state before and after is      *)
(* recorded in the journal, it is executed, verified, and only then does   *)
(* the checkpoint pass it.  DDL commits implicitly on the target, so every *)
(* one of these steps is durable by itself and a crash may follow it.      *)
(*                                                                         *)
(* The schema state an event is about is one of                            *)
(*   pre    the event has not been applied                                 *)
(*   post   the state the translation expects after it                     *)
(*   other  neither                                                        *)
(***************************************************************************)
EXTENDS StreamApply

VARIABLES
  journal,    \* status of each DDL event in cdc.ddl_replay_journal
  evidence,   \* pre_state of its recorded evidence
  schema,     \* the target's schema state, per DDL event
  upgraded    \* the deployed binary has translators for the manual events

ddlVars == <<journal, evidence, schema, upgraded>>
liveVars == <<vars, ddlVars>>

DdlReplayStatus ==
  {"none", "translation_pending", "prepared", "applied", "checkpointed", "blocked"}

DdlEvents == {i \in 1 .. Len(log) : log[i] \in DdlKind}

LiveInit ==
  /\ Init
  /\ journal = [i \in 1 .. Len(log) |-> "none"]
  /\ evidence = [i \in 1 .. Len(log) |-> "none"]
  /\ schema \in [1 .. Len(log) -> {"pre", "post", "other"}]
  /\ \A i \in 1 .. Len(log) : log[i] \notin DdlKind => schema[i] = "pre"
  /\ upgraded = FALSE

-----------------------------------------------------------------------------
(* The journal. *)

(* What the barrier query selects. *)
Barrier(i) == journal[i] \in {"translation_pending", "prepared", "blocked"}

(* A session may start at the checkpoint only if no barrier lies behind it. *)
enforce_no_overtake == \A i \in DdlEvents : Barrier(i) => ckpt <= i - 1

(* A recorded post-state proves execution only if it differs from the      *)
(* recorded pre-state.                                                     *)
ProvenApplied(i) == evidence[i] # "post" /\ schema[i] = "post"

SetStatus(i, status) == journal' = [journal EXCEPT ![i] = status]

automatically_handled(kind) == kind = "auto" \/ (kind = "manual" /\ upgraded)

-----------------------------------------------------------------------------
(* The DDL handlers. *)

(* Both handlers flush the group before they look at the journal. *)
ReceiveDdl ==
  /\ pc = "recv"
  /\ next < Len(log)
  /\ Kind \in DdlKind
  /\ ~PastStopPosition
  /\ flush_grouped_transaction(tx)
  /\ pc' = "ddl"
  /\ UNCHANGED <<sourceVars, next, rowTxOpen, cached, reconnects, executed, faults, ddlVars>>

(* A step of a DDL handler that writes only the journal. *)
JournalStep(stage) ==
  /\ pc' = stage
  /\ UNCHANGED <<sourceVars, next, tx, rowTxOpen, cached, reconnects, targetVars,
                 schema, upgraded>>

(* No translator: the event becomes, or stays, a barrier. *)
RecordUntranslated ==
  /\ pc = "ddl"
  /\ ~automatically_handled(Kind)
  /\ journal[Event] \in {"none", "translation_pending"}
  /\ SetStatus(Event, "translation_pending")
  /\ JournalStep("blocked")
  /\ UNCHANGED <<evidence, faults>>

(* The translation fails on a schema state it does not expect, or because  *)
(* the inventory cannot be read.                                           *)
CaptureFails ==
  /\ pc = "ddl"
  /\ automatically_handled(Kind)
  /\ journal[Event] \in {"none", "translation_pending"}
  /\ \/ schema[Event] = "other" /\ UNCHANGED faults
     \/ faults < MaxFaults /\ faults' = faults + 1
  /\ SetStatus(Event, "translation_pending")
  /\ JournalStep("blocked")
  /\ UNCHANGED evidence

(* Mutant: a blocked event is prepared again. *)
PrepareAgain ==
  /\ pc = "ddl"
  /\ automatically_handled(Kind)
  /\ journal[Event] \in {"none", "translation_pending", "blocked"}
  /\ schema[Event] # "other"
  /\ evidence' = [evidence EXCEPT ![Event] = schema[Event]]
  /\ SetStatus(Event, "prepared")
  /\ JournalStep("execute")
  /\ UNCHANGED faults

Prepare ==
  /\ pc = "ddl"
  /\ automatically_handled(Kind)
  /\ journal[Event] \in {"none", "translation_pending"}
  /\ schema[Event] # "other"
  /\ evidence' = [evidence EXCEPT ![Event] = schema[Event]]
  /\ SetStatus(Event, "prepared")
  /\ JournalStep("execute")
  /\ UNCHANGED faults

(* Mutant: a prepared event is executed, whatever the target shows. *)
ExecutePrepared ==
  /\ pc = "ddl"
  /\ journal[Event] = "prepared"
  /\ UNCHANGED journal
  /\ JournalStep("execute")
  /\ UNCHANGED <<evidence, faults>>

(* The process died between prepare and applied: the target decides. *)
ReconcilePrepared ==
  /\ pc = "ddl"
  /\ journal[Event] = "prepared"
  /\ IF ProvenApplied(Event)
     THEN SetStatus(Event, "applied") /\ JournalStep("finalize")
     ELSE SetStatus(Event, "blocked") /\ JournalStep("blocked")
  /\ UNCHANGED <<evidence, faults>>

(* Mutant: a blocked event stays blocked. *)
StayBlocked ==
  /\ pc = "ddl"
  /\ journal[Event] = "blocked"
  /\ UNCHANGED journal
  /\ JournalStep("blocked")
  /\ UNCHANGED <<evidence, faults>>

(* A blocked event is retried until its expected state is observed. *)
RecoverBlocked ==
  /\ pc = "ddl"
  /\ journal[Event] = "blocked"
  /\ IF schema[Event] = "post"
     THEN SetStatus(Event, "applied") /\ JournalStep("finalize")
     ELSE UNCHANGED journal /\ JournalStep("blocked")
  /\ UNCHANGED <<evidence, faults>>

CheckpointOnly ==
  /\ pc = "ddl"
  /\ journal[Event] = "applied"
  /\ UNCHANGED journal
  /\ JournalStep("finalize")
  /\ UNCHANGED <<evidence, faults>>

(***************************************************************************)
(* The translated statement runs on the stream's connection and commits    *)
(* the server's open transaction, if any; an event whose recorded          *)
(* pre-state already is the post-state runs nothing.                       *)
(***************************************************************************)
ImplicitCommit ==
  /\ durable' = durable \cup uncommitted
  /\ uncommitted' = {}
  /\ serverTx' = FALSE

ExecuteDdl ==
  /\ pc = "execute"
  /\ evidence[Event] # "post"
  /\ ImplicitCommit
  /\ executed' = [executed EXCEPT ![Event] = @ + 1]
  /\ \/ schema' = [schema EXCEPT ![Event] = "post"] /\ UNCHANGED faults
     \/ /\ faults < MaxFaults
        /\ faults' = faults + 1
        /\ schema' = [schema EXCEPT ![Event] = "other"]
  /\ pc' = "verify"
  /\ UNCHANGED <<sourceVars, next, tx, rowTxOpen, cached, reconnects, ckpt,
                 journal, evidence, upgraded>>

SuppressConvergedDdl ==
  /\ pc = "execute"
  /\ evidence[Event] = "post"
  /\ UNCHANGED journal
  /\ JournalStep("verify")
  /\ UNCHANGED <<evidence, faults>>

(* Mutant: the postcondition is not compared. *)
TrustExecution ==
  /\ pc = "verify"
  /\ SetStatus(Event, "applied")
  /\ JournalStep("finalize")
  /\ UNCHANGED <<evidence, faults>>

VerifyPostcondition ==
  /\ pc = "verify"
  /\ IF schema[Event] = "post"
     THEN SetStatus(Event, "applied") /\ JournalStep("finalize")
     ELSE SetStatus(Event, "blocked") /\ JournalStep("blocked")
  /\ UNCHANGED <<evidence, faults>>

(* Mutant: the group's transaction is rolled back first. *)
RollbackThenFinalize ==
  /\ pc = "finalize"
  /\ ckpt <= Event - 1
  /\ cached' = ckpt
  /\ uncommitted' = {}
  /\ serverTx' = FALSE
  /\ pc' = "checkpoint"
  /\ UNCHANGED <<sourceVars, next, tx, rowTxOpen, reconnects, ckpt, durable, executed, faults,
                 ddlVars>>

(* finalize_automatic_ddl_checkpoint: reload the checkpoint, BEGIN (which  *)
(* commits what the server's transaction holds), check the predecessor.    *)
BeginFinalize ==
  /\ pc = "finalize"
  /\ ckpt <= Event - 1
  /\ cached' = ckpt
  /\ ImplicitCommit
  /\ pc' = "checkpoint"
  /\ UNCHANGED <<sourceVars, next, tx, rowTxOpen, reconnects, ckpt, executed, faults, ddlVars>>

(* Mutant: the checkpoint is written without the journal transition. *)
CheckpointWithoutJournal ==
  /\ pc = "checkpoint"
  /\ ckpt' = Event
  /\ next' = Event
  /\ pc' = NextStage
  /\ UNCHANGED <<sourceVars, tx, rowTxOpen, cached, reconnects, serverTx, uncommitted,
                 durable, executed, faults, ddlVars>>

(* The journal entry and the checkpoint commit together. *)
FinalizeDdl ==
  /\ pc = "checkpoint"
  /\ journal' = [journal EXCEPT ![Event] = IF @ = "applied" THEN "checkpointed" ELSE @]
  /\ ckpt' = Event
  /\ next' = Event
  /\ pc' = NextStage
  /\ UNCHANGED <<sourceVars, tx, rowTxOpen, cached, reconnects, serverTx, uncommitted,
                 durable, executed, faults, evidence, schema, upgraded>>

-----------------------------------------------------------------------------
(* The loop around the handlers. *)

(* DdlBlocked: retried for ever, outside the transport budget. *)
RetryBlocked ==
  /\ pc = "blocked"
  /\ enforce_no_overtake
  /\ StartSession(ckpt)
  /\ UNCHANGED <<reconnects, ddlVars>>

(* A release with more translators replaces the process. *)
Deploy ==
  /\ ~upgraded
  /\ pc # "stopped"
  /\ upgraded' = TRUE
  /\ pc' = "down"
  /\ DropTargetTransaction
  /\ UNCHANGED <<sourceVars, next, rowTxOpen, cached, reconnects, faults,
                 journal, evidence, schema>>

(* The target's schema is brought to the expected state from outside.      *)
RepairSchema ==
  \E i \in DdlEvents :
    /\ journal[i] \in {"translation_pending", "blocked"}
    /\ schema[i] # "post"
    /\ schema' = [schema EXCEPT ![i] = "post"]
    /\ UNCHANGED <<vars, journal, evidence, upgraded>>

JournalHandler ==
  RecordUntranslated \/ CaptureFails \/ Prepare \/ ReconcilePrepared \/ RecoverBlocked
    \/ CheckpointOnly
DdlHandler ==
  ReceiveDdl \/ JournalHandler \/ ExecuteDdl \/ SuppressConvergedDdl
    \/ VerifyPostcondition \/ BeginFinalize \/ FinalizeDdl

StartStep == (Reconnect \/ Restart) /\ enforce_no_overtake

LiveNext ==
  \/ EventStep /\ UNCHANGED ddlVars
  \/ StartStep /\ UNCHANGED ddlVars
  \/ (StreamEnds \/ SourceError \/ GiveUp \/ Crash) /\ UNCHANGED ddlVars
  \/ TimeStep /\ UNCHANGED ddlVars
  \/ DdlHandler
  \/ RetryBlocked
  \/ Deploy
  \/ RepairSchema

LiveSpec == LiveInit /\ [][LiveNext]_liveVars

(***************************************************************************)
(* As in StreamApply; the DDL handlers are part of the same thread.  That  *)
(* a release is deployed and the schema repaired is what the operators     *)
(* are there for: the stream waits for them at the barrier.                *)
(***************************************************************************)
LiveFairness ==
  /\ WF_liveVars(EventStep /\ UNCHANGED ddlVars)
  /\ WF_liveVars(StartStep /\ UNCHANGED ddlVars)
  /\ WF_liveVars(GiveUp /\ UNCHANGED ddlVars)
  /\ WF_liveVars(GroupTimesOut /\ UNCHANGED ddlVars)
  /\ WF_liveVars(Heartbeat /\ UNCHANGED ddlVars)
  /\ WF_liveVars(DdlHandler)
  /\ WF_liveVars(RetryBlocked)
  /\ WF_liveVars(Deploy)
  /\ WF_liveVars(RepairSchema)

LiveFairSpec == LiveSpec /\ LiveFairness

-----------------------------------------------------------------------------
(* Properties. *)

LiveTypeOK ==
  /\ TypeOK
  /\ journal \in [1 .. Len(log) -> DdlReplayStatus]
  /\ evidence \in [1 .. Len(log) -> {"none", "pre", "post"}]
  /\ schema \in [1 .. Len(log) -> {"pre", "post", "other"}]
  /\ upgraded \in BOOLEAN

(* No crash, retry or reconnection makes the stream execute a translated   *)
(* DDL event twice.                                                        *)
DdlAtMostOnce == \A i \in DdlEvents : executed[i] <= 1

(* Once the checkpoint has passed a DDL event the target has its expected  *)
(* state, by execution or because it was verified to have it already.      *)
PassedDdlConverged == \A i \in DdlEvents : ckpt >= i => schema[i] = "post"

(* The journal and the checkpoint agree, although rows save the checkpoint *)
(* on their own: an event is checkpointed exactly when the stream will not *)
(* read it again.                                                          *)
JournalMatchesCheckpoint ==
  \A i \in DdlEvents : journal[i] = "checkpointed" <=> ckpt >= i

(* No row overtakes a DDL event: a row behind one is committed only when   *)
(* the event has been verified and checkpointed.                           *)
NoRowOvertakesDdl ==
  \A i \in DdlEvents : (\E j \in durable : j > i) => journal[i] = "checkpointed"

(* The startup barrier never locks the stream out: whatever the journal    *)
(* holds, the checkpoint is not behind an unresolved event.                *)
BarrierNeverOvertaken == enforce_no_overtake

(* The status of an event only moves along the edges that the handlers and *)
(* the update guard of the journal table allow.                            *)
JournalEdges ==
  { <<"none", "translation_pending">>, <<"none", "prepared">>,
    <<"translation_pending", "prepared">>, <<"prepared", "applied">>,
    <<"prepared", "blocked">>, <<"blocked", "applied">>,
    <<"applied", "checkpointed">> }
JournalTransitions ==
  [][\A i \in DOMAIN journal :
       journal'[i] # journal[i] => <<journal[i], journal'[i]>> \in JournalEdges]_liveVars

(* The recorded pre-state is evidence: it is never rewritten once written. *)
EvidenceImmutable ==
  [][\A i \in DOMAIN evidence : evidence[i] # "none" => evidence'[i] = evidence[i]]_liveVars

(* No DDL statement of the source, translated or not, is executed twice.   *)
NoBlindReplay == \A i \in 1 .. Len(log) : executed[i] <= 1

(* Every DDL event is passed in the end: a barrier is retried until the    *)
(* release and the repair it waits for have come.                          *)
EveryDdlPasses == <>[](\A i \in DdlEvents : ckpt >= i)

=============================================================================

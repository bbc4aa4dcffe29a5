------------------------------- MODULE MCStream -------------------------------
(***************************************************************************)
(* The live stream in four configurations, each on the binlogs it is       *)
(* about: "live", an unbounded run that groups transactions and meets DDL  *)
(* events (LiveStream); and without DDL events (StreamApply) "bounded", a  *)
(* run with a stop position on every sequence of up to three groups,       *)
(* "single", the same binlogs without raw statements for a run that        *)
(* commits every transaction by itself, and "steady", transactions that    *)
(* end with an XID for an unbounded run that groups them.                  *)
(***************************************************************************)
EXTENDS MCLiveStream

CONSTANT BoundedStop   \* --stop-position of the bounded run

(* A transaction of two rows; one with a query of another schema between   *)
(* its rows (SAVEPOINT); one of an ignored table; a non-transactional      *)
(* group, closed by COMMIT; one opened by BEGIN.                           *)
Groups ==
  { <<"row", "row", "xid">>,
    <<"row", "foreign", "row", "xid">>,
    <<"ignored", "xid">>,
    <<"row", "control">>,
    <<"control", "row", "xid">> }

Singles == { <<"foreign">>, <<"skip">>, <<"rotate">>, <<"other">> }

Sequences3(groups) == { a \o b \o c : a, b, c \in groups }

(* With what ends a process every time it is met. *)
SingleLogs == Sequences3(Groups \cup Singles) \cup { a \o <<"dml">> \o b : a, b \in Groups }
SteadyLogs == Sequences3({ <<"row", "row", "xid">>, <<"row", "xid">>, <<"foreign">>, <<"rotate">> })
BoundedLogs == SingleLogs \cup { a \o <<"raw">> \o b : a, b \in Groups }
AllLogs == DdlLogs \cup BoundedLogs \cup SteadyLogs

-----------------------------------------------------------------------------

VARIABLE configuration

Bounded == INSTANCE StreamApply WITH Logs <- BoundedLogs, StopPosition <- BoundedStop
Single == INSTANCE StreamApply WITH Logs <- SingleLogs, GroupSize <- 1, GroupTimeout <- FALSE
Steady == INSTANCE StreamApply WITH Logs <- SteadyLogs

NoDdl ==
  /\ journal = [i \in 1 .. Len(log) |-> "none"]
  /\ evidence = journal
  /\ schema = [i \in 1 .. Len(log) |-> "pre"]
  /\ upgraded = FALSE

MCInit ==
  \/ configuration = "live" /\ log \in DdlLogs /\ LiveInit
  \/ configuration = "bounded" /\ Bounded!Init /\ NoDdl
  \/ configuration = "single" /\ Single!Init /\ NoDdl
  \/ configuration = "steady" /\ Steady!Init /\ NoDdl

MCNext ==
  /\ UNCHANGED configuration
  /\ \/ configuration = "live" /\ LiveNext
     \/ configuration = "bounded" /\ Bounded!Next /\ UNCHANGED ddlVars
     \/ configuration = "single" /\ Single!Next /\ UNCHANGED ddlVars
     \/ configuration = "steady" /\ Steady!Next /\ UNCHANGED ddlVars

mcVars == <<liveVars, configuration>>
InSteadyRun(A) == configuration = "steady" /\ UNCHANGED <<configuration, ddlVars>> /\ A
InLiveRun(A) == configuration = "live" /\ UNCHANGED configuration /\ A

(* The fairness of StreamApply for the steady run, that of LiveStream for  *)
(* the live one.                                                           *)
MCSpec ==
  /\ MCInit /\ [][MCNext]_mcVars
  /\ WF_mcVars(InSteadyRun(Steady!EventStep))
  /\ WF_mcVars(InSteadyRun(Steady!Reconnect \/ Steady!GiveUp \/ Steady!Restart))
  /\ WF_mcVars(InSteadyRun(Steady!GroupTimesOut))
  /\ WF_mcVars(InSteadyRun(Steady!Heartbeat))
  /\ WF_mcVars(InLiveRun(EventStep /\ UNCHANGED ddlVars))
  /\ WF_mcVars(InLiveRun(StartStep /\ UNCHANGED ddlVars))
  /\ WF_mcVars(InLiveRun(GiveUp /\ UNCHANGED ddlVars))
  /\ WF_mcVars(InLiveRun(GroupTimesOut /\ UNCHANGED ddlVars))
  /\ WF_mcVars(InLiveRun(Heartbeat /\ UNCHANGED ddlVars))
  /\ WF_mcVars(InLiveRun(DdlHandler))
  /\ WF_mcVars(InLiveRun(RetryBlocked))
  /\ WF_mcVars(InLiveRun(Deploy))
  /\ WF_mcVars(InLiveRun(RepairSchema))

-----------------------------------------------------------------------------
(* A bounded run commits exactly the rows up to its stop position when it  *)
(* reports success, and never a row past it (PastStopPosition,             *)
(* CompleteStop).                                                          *)
BoundedRunStopsExactly ==
  configuration = "bounded" => Bounded!StopIsExact /\ Bounded!StopIsNeverPassed

(* With a group size of one, a source transaction is committed as a whole, *)
(* its rows are never applied again, and no finished one waits.            *)
SingleTransactionsAreWhole ==
  configuration = "single" => ExactlyOnce /\ AtomicSourceTransactions /\ Single!GroupIsBounded

(* An unbounded run commits every finished transaction in the end.         *)
SteadyRunCommitsAll == configuration = "steady" => EveryTransactionCommits

(* A live run passes every DDL event in the end. *)
LiveRunPassesDdl == configuration = "live" => EveryDdlPasses
=============================================================================

---------------------------- MODULE MCLiveStream ----------------------------
(* Binlogs for LiveStream: DDL events between, and right after, transactions. *)
EXTENDS LiveStream

Transactions ==
  { <<"row", "row", "xid">>, <<"row", "control">>, <<"skip">>, <<"ignored", "rotate">> }
Ddl == { <<"auto">>, <<"manual">> }

(* Two DDL events with a transaction before, between and after them. *)
DdlLogs ==
  { a \o d \o b : a, b \in Transactions, d \in Ddl }
    \cup { d \o a \o e : a \in Transactions, d, e \in Ddl }
    \cup { d \o e \o a : a \in Transactions, d, e \in Ddl }

(* A non-transactional group right before a DDL event. *)
CommitThenDdlLogs == { <<"row", "control", "auto", "row", "row", "xid">> }

RawLogs == { a \o <<"raw">> \o b : a, b \in Transactions }
=============================================================================

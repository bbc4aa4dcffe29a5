-------------------------- MODULE BinlogCoordinate --------------------------
(***************************************************************************)
(* Order of binlog coordinates. The stream compares file names as strings  *)
(* (live/structured_stream/ddl.rs); lost-binlog recovery compares the      *)
(* numbers at their ends (lost_binlog_recovery.rs). A file name is the     *)
(* sequence of its characters, the letters of its base above all digits.   *)
(***************************************************************************)
EXTENDS Naturals, Sequences

CONSTANTS
  Radix,   \* digits 0 .. Radix - 1 (10)
  Width    \* the least number of digits of a file's number (6)

Letter == Radix + 1   \* a character of the base name
Dot == Radix          \* any character that no number contains

(* The source numbers its files from 1, padded with zeros. *)
RECURSIVE Digits(_, _)
Digits(n, least) ==
  IF n = 0 /\ least = 0 THEN <<>>
  ELSE Append(Digits(n \div Radix, IF least = 0 THEN 0 ELSE least - 1), n % Radix)

FileName(n) == <<Letter, Dot>> \o Digits(n, Width)

(* The order of Rust's strings. *)
StringBefore(a, b) ==
  \/ \E i \in DOMAIN a \cap DOMAIN b : a[i] < b[i] /\ \A j \in 1 .. i - 1 : a[j] = b[j]
  \/ Len(a) < Len(b) /\ \A j \in DOMAIN a : a[j] = b[j]

(* Mutant: positions are compared before files. *)
PositionFirst(left, right) ==
  left.position < right.position
    \/ (left.position = right.position /\ StringBefore(left.file, right.file))

binlog_coordinate_is_before(left, right) ==
  \/ StringBefore(left.file, right.file)
  \/ left.file = right.file /\ left.position < right.position

ensure_coordinate_advances(current, next) == ~binlog_coordinate_is_before(next, current)

(* The locked checkpoint is at or before the start of the DDL event. *)
ensure_automatic_ddl_checkpoint_predecessor(current, event) ==
  \/ StringBefore(current.file, event.file)
  \/ current.file = event.file /\ current.position <= event.position

(* The characters after the last dot, as a number. *)
RECURSIVE NumberOf(_)
NumberOf(digits) ==
  IF digits = <<>> THEN 0
  ELSE NumberOf(SubSeq(digits, 1, Len(digits) - 1)) * Radix + digits[Len(digits)]
binlog_sequence(file) == NumberOf(SubSeq(file, 3, Len(file)))

source_coordinate_advances(old, new) ==
  IF new.file = old.file THEN new.position > old.position
  ELSE binlog_sequence(new.file) > binlog_sequence(old.file)
=============================================================================

----------------------------- MODULE WalManager -----------------------------
(***************************************************************************)
(* The write-ahead log of wal/wal_manager.cpp: an append-only file of      *)
(* records and the last log sequence number given out.  A record that      *)
(* replay can not read back (its checksum does not match, or the file ends *)
(* inside it) has valid = FALSE; replay stops at the first one.            *)
(***************************************************************************)
EXTENDS Records

VARIABLES
    log,          \* the log file
    current_lsn   \* current_lsn_

WalRecords == [lsn : Nat, key : Keys, value : Values, valid : BOOLEAN]

\* The lengths are written as uint16_t: of a longer value only the first
\* length % 2^16 bytes reach the file, under the checksum of the whole value.
LengthFits(v) == ByteLen[v] < 2^16

LogRecord(k, v, whole) ==
    [lsn |-> current_lsn + 1, key |-> k, value |-> v, valid |-> whole /\ LengthFits(v)]

\* WalManager::append
wal_append(k, v) ==
    /\ current_lsn' = current_lsn + 1
    /\ log' = Append(log, LogRecord(k, v, TRUE))

\* The process dies inside append after part of the record was written.
wal_tear(k, v) == log' = Append(log, LogRecord(k, v, FALSE))

\* Defect: the last record is not read.
ReadableBeforeLast(i) == i \in DOMAIN log /\ i < Len(log) /\ log[i].valid

\* replay: the record at position i is readable.
Readable(i) == i \in DOMAIN log /\ log[i].valid

\* Defect: numbering starts again after a restart.
lsn_forgotten(i) == current_lsn' = current_lsn

\* replay: current_lsn_ follows the records read.
wal_replayed(i) ==
    current_lsn' = IF log[i].lsn > current_lsn THEN log[i].lsn ELSE current_lsn

WalTypeOK ==
    /\ log \in Seq(WalRecords)
    /\ current_lsn \in Nat
=============================================================================

------------------------------- MODULE Logger -------------------------------
(* backend/dm/logger: the log file under crashes.  The file is a 4-byte      *)
(* checksum of all records, then the records, each 8 bytes of header and its *)
(* data, and possibly the beginning of a record that a crash cut.  All       *)
(* records are RecLen bytes long; the checksum over the first n records is   *)
(* written n (no collisions).  Log writes the record, then the checksum, and *)
(* syncs once.                                                               *)
EXTENDS Naturals

CONSTANTS RecLen,      \* bytes of a record, header included
          MaxRecords,  \* bound on the records in the file
          MaxCrashes   \* bound on the crashes

LoggerConstants ==
  RecLen \in Nat /\ RecLen > 8 /\ MaxRecords \in Nat /\ MaxCrashes \in Nat

OF_DATA == 8

VARIABLES records,   \* whole records in the file
          tail,      \* bytes of a cut record behind them
          xsum,      \* the checksum in the file
          offset,    \* where the next Write goes
          pos,       \* lg.pos
          fileSize,  \* lg.fileSize
          xChecksum, \* lg.xChecksum
          pc,        \* "free", or the step of the Log call that holds lg.lock
          mode,      \* "up", "replay" in Recovery, "down", "bad" or "panic"
          crashes,
          acked      \* history: records whose Log returned

loggerVars == <<records, tail, xsum, offset, pos, fileSize, xChecksum, pc, mode, crashes, acked>>

MaxSize == 4 + RecLen * MaxRecords
EndOf(n) == 4 + RecLen * n

TypeOK ==
  /\ records \in 0..MaxRecords
  /\ tail \in 0..(RecLen - 1)
  /\ xsum \in 0..MaxRecords /\ xChecksum \in 0..MaxRecords
  /\ offset \in 0..MaxSize /\ pos \in 0..MaxSize /\ fileSize \in 0..MaxSize
  /\ pc \in {"free", "written", "summed"}
  /\ mode \in {"up", "replay", "down", "bad", "panic"}
  /\ crashes \in 0..MaxCrashes
  /\ acked \in 0..MaxRecords

(* Create: an empty log, fileSize and pos left 0. *)
Init ==
  /\ records = 0 /\ tail = 0 /\ xsum = 0
  /\ offset = 4 /\ pos = 0 /\ fileSize = 0 /\ xChecksum = 0
  /\ pc = "free" /\ mode = "up" /\ crashes = 0 /\ acked = 0
-----------------------------------------------------------------------------
(* Log: the record is written, *)
LogWrite ==
  /\ mode = "up" /\ pc = "free"
  /\ records < MaxRecords
  /\ records' = records + 1
  /\ offset' = offset + RecLen
  /\ pc' = "written"
  /\ UNCHANGED <<tail, xsum, pos, fileSize, xChecksum, mode, crashes, acked>>

(* Mutant: the checksum stays in memory. *)
LogSumInMemory ==
  /\ pc = "written"
  /\ xChecksum' = xChecksum + 1
  /\ pc' = "summed"
  /\ UNCHANGED <<records, tail, xsum, offset, pos, fileSize, mode, crashes, acked>>

(* updateXChecksum: then the checksum *)
LogSum ==
  /\ pc = "written"
  /\ xChecksum' = xChecksum + 1
  /\ xsum' = xChecksum'
  /\ pc' = "summed"
  /\ UNCHANGED <<records, tail, offset, pos, fileSize, mode, crashes, acked>>

(* and the Sync; Log returns. *)
LogSync ==
  /\ pc = "summed"
  /\ pc' = "free"
  /\ acked' = records
  /\ UNCHANGED <<records, tail, xsum, offset, pos, fileSize, xChecksum, mode, crashes>>

(* A crash keeps any beginning of the record that is not synced, and its     *)
(* checksum or the previous one.                                             *)
Crash ==
  /\ mode \in {"up", "replay"}
  /\ crashes < MaxCrashes
  /\ crashes' = crashes + 1
  /\ \/ pc = "free" /\ UNCHANGED <<records, tail, xsum>>
     \/ /\ pc # "free"
        /\ \/ UNCHANGED <<records, tail>>
           \/ records' = records - 1 /\ tail' \in 0..(RecLen - 1)
        /\ xsum' \in {xsum, records - 1}
  /\ mode' = "down" /\ pc' = "free"
  /\ UNCHANGED <<offset, pos, fileSize, xChecksum, acked>>

(* Open: init and checkAndRemoveTail.  next stops in front of the cut        *)
(* record; the records read must be those the checksum is over; then the     *)
(* file is cut there, fileSize keeping the size it had.                      *)
Open ==
  /\ mode = "down"
  /\ fileSize' = EndOf(records) + tail
  /\ xChecksum' = xsum
  /\ IF records = xsum
       THEN /\ mode' = "replay"
            /\ tail' = 0 /\ offset' = EndOf(records) /\ pos' = 4
       ELSE /\ mode' = "bad"
            /\ pos' = EndOf(records)
            /\ UNCHANGED <<tail, offset>>
  /\ UNCHANGED <<records, xsum, pc, crashes, acked>>

(* Recovery's loops over Next: a record, *)
NextRecord ==
  /\ mode = "replay"
  /\ pos + OF_DATA < fileSize
  /\ pos < EndOf(records)
  /\ pos + RecLen <= fileSize
  /\ pos' = pos + RecLen
  /\ UNCHANGED <<records, tail, xsum, offset, fileSize, xChecksum, pc, mode, crashes, acked>>

(* the end, *)
NextEnd ==
  /\ mode = "replay"
  /\ pos + OF_DATA >= fileSize
  /\ mode' = "up"
  /\ UNCHANGED <<records, tail, xsum, offset, pos, fileSize, xChecksum, pc, crashes, acked>>

(* or a read past the end of the file, on which Recovery panics. *)
NextError ==
  /\ mode = "replay"
  /\ pos + OF_DATA < fileSize
  /\ pos >= EndOf(records)
  /\ mode' = "panic"
  /\ UNCHANGED <<records, tail, xsum, offset, pos, fileSize, xChecksum, pc, crashes, acked>>

(* The panic ends the process; the database is opened again. *)
Restart ==
  /\ mode = "panic"
  /\ crashes < MaxCrashes
  /\ crashes' = crashes + 1
  /\ mode' = "down"
  /\ UNCHANGED <<records, tail, xsum, offset, pos, fileSize, xChecksum, pc, acked>>

Next ==
  \/ LogWrite \/ LogSum \/ LogSync \/ Crash \/ Open
  \/ NextRecord \/ NextEnd \/ NextError \/ Restart

Spec == Init /\ [][Next]_loggerVars
-----------------------------------------------------------------------------
(* Whatever crashes cut, no record whose Log returned is lost, and a log     *)
(* that Open accepted has no cut record and a checksum over all its records. *)
AckedIsKept ==
  acked <= records /\ (mode \in {"up", "replay"} /\ pc = "free" => tail = 0 /\ xsum = records)

(* The next record goes right behind the last one: an earlier record is      *)
(* never overwritten and none is out of next's reach.                        *)
AppendsAtEnd ==
  mode \in {"up", "replay"} => offset = EndOf(records)

(* When Recovery has read the log, it has read every record in it.           *)
ReplayIsComplete ==
  [][mode = "replay" /\ mode' = "up" => pos = EndOf(records)]_loggerVars

(* readme.md:112, an ordinary power failure recovers to a consistent state:  *)
(* Open accepts the log a crash leaves.                                      *)
OpenSucceeds ==
  mode # "bad"

(* readme.md:118, the no-panic design: reading the log that Open accepted    *)
(* does not fail.                                                            *)
ReplayDoesNotPanic ==
  mode # "panic"
=============================================================================

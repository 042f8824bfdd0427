----------------------------- MODULE Durability -----------------------------
(* The two files a commit rests on, the log (Logger) and the xid file         *)
(* (TransactionManager), under the same crashes.  A transaction logs what it  *)
(* writes and commits when its Log calls have returned; the two files are     *)
(* locked, synced and cut by a crash independently.  Both are opened, and     *)
(* Recovery has undone and aborted the transactions the crash left active,    *)
(* before the database serves again (cmd/launcher.go:136).                    *)
EXTENDS TransactionManager

CONSTANTS RecLen, MaxRecords, MaxCrashes   \* as in Logger

VARIABLES records, tail, xsum, offset, pos, fileSize, xChecksum, crashes, acked,
          lpc, lmode,   \* Logger's pc and mode
          owner,        \* the xid in each record of the log
          running,      \* the transactions begun since the database was opened
          writer,       \* the transaction whose Log call runs (0: none)
          undo,         \* logCache of Recovery: the transactions it has yet to abort
          wrote         \* history: xid -> the records its Log calls wrote

LG == INSTANCE Logger WITH pc <- lpc, mode <- lmode

ASSUME DurabilityAssumption == LG!LoggerConstants

lgVars == <<records, tail, xsum, offset, pos, fileSize, xChecksum, crashes, acked, lpc, lmode>>
txVars == <<owner, running, writer, undo, wrote>>
vars == <<tmVars, lgVars, txVars>>

DurabilityTypeOK ==
  /\ TypeOK /\ LG!TypeOK
  /\ owner \in [1..records -> XID]
  /\ running \in SUBSET XID /\ undo \in SUBSET XID
  /\ writer \in 0..MaxXID
  /\ wrote \in [XID -> SUBSET (1..MaxRecords)]

DurabilityInit ==
  /\ Init /\ LG!Init
  /\ owner = <<>> /\ running = {} /\ writer = 0 /\ undo = {}
  /\ wrote = [x \in XID |-> {}]

(* Both files are open and Recovery has returned. *)
Serving == mode = "up" /\ lmode = "up" /\ undo = {}

(* TM.Begin, the part of Commit and Abort after the write included. *)
TMStep ==
  /\ Serving
  /\ BeginStatus \/ BeginStatusSync \/ BeginHeader \/ EndSync
  /\ UNCHANGED <<lgVars, txVars>>

BeginReturns ==
  /\ Serving
  /\ BeginHeaderSync
  /\ running' = running \cup {arg}
  /\ UNCHANGED <<lgVars, owner, writer, undo, wrote>>

(* A running transaction logs a record before it changes a page. *)
Log(x) ==
  /\ Serving /\ x \in running
  /\ LG!LogWrite
  /\ owner' = [i \in 1..records' |-> IF i = records' THEN x ELSE owner[i]]
  /\ wrote' = [wrote EXCEPT ![x] = @ \cup {records'}]
  /\ writer' = x
  /\ UNCHANGED <<tmVars, running, undo>>

LogStep ==
  /\ Serving
  /\ LG!LogSum
  /\ UNCHANGED <<tmVars, txVars>>

LogReturns ==
  /\ Serving
  /\ LG!LogSync
  /\ writer' = 0
  /\ UNCHANGED <<tmVars, owner, running, undo, wrote>>

(* Mutant of EndTx: commit does not wait for the transaction's own Log. *)
EndTxEarly(x, s) ==
  /\ Serving /\ x \in running
  /\ End(x, s)
  /\ running' = running \ {x}
  /\ UNCHANGED <<lgVars, owner, writer, undo, wrote>>

(* SM.Commit and SM.Abort come when the transaction's statement, and so its  *)
(* Log, has returned.                                                        *)
EndTx(x, s) ==
  /\ Serving /\ x \in running /\ writer # x
  /\ End(x, s)
  /\ running' = running \ {x}
  /\ UNCHANGED <<lgVars, owner, writer, undo, wrote>>

(* The machine stops; the files lose what was not synced. *)
PowerLoss ==
  /\ Crash /\ LG!Crash
  /\ owner' = [i \in 1..records' |-> owner[i]]
  /\ running' = {} /\ writer' = 0 /\ undo' = {}
  /\ UNCHANGED wrote

(* tm.Open, then dm.Open and its Recovery.  A failure of dm.Open ends the    *)
(* process; one of tm.Open is ignored (launcher.go:138), and the first use   *)
(* of the nil manager, in Recovery or in Begin, panics.  Both stop here.     *)
OpenXidFile ==
  /\ Open
  /\ UNCHANGED <<lgVars, txVars>>

OpenLog ==
  /\ mode = "up"
  /\ LG!Open
  /\ UNCHANGED <<tmVars, txVars>>

Replay ==
  /\ mode = "up"
  /\ LG!NextRecord \/ LG!NextError
  /\ UNCHANGED <<tmVars, txVars>>

(* Mutant of ActiveOwners: the last record is not read. *)
ActiveOwnersShort == {owner[i] : i \in {j \in 1..records : j < records /\ checkXID(owner[j], "active")}}

(* undoTransactions: the transactions with a record whose status is active. *)
ActiveOwners == {owner[i] : i \in {j \in 1..records : checkXID(owner[j], "active")}}

ReplayEnds ==
  /\ mode = "up"
  /\ LG!NextEnd
  /\ undo' = ActiveOwners
  /\ UNCHANGED <<tmVars, owner, running, writer, wrote>>

(* Each is aborted when its records are undone. *)
UndoAbort(x) ==
  /\ lmode = "up" /\ x \in undo
  /\ End(x, "aborted")
  /\ UNCHANGED <<lgVars, txVars>>

UndoAborted ==
  /\ lmode = "up" /\ undo # {}
  /\ EndSync
  /\ undo' = undo \ {arg}
  /\ UNCHANGED <<lgVars, owner, running, writer, wrote>>

(* A panic in Recovery ends the process. *)
ReplayRestart ==
  /\ LG!Restart /\ Crash
  /\ UNCHANGED txVars

DurabilityNext ==
  \/ TMStep \/ BeginReturns \/ LogStep \/ LogReturns
  \/ \E x \in XID : Log(x) \/ UndoAbort(x) \/ \E s \in {"committed", "aborted"} : EndTx(x, s)
  \/ PowerLoss \/ OpenXidFile \/ OpenLog \/ Replay \/ ReplayEnds \/ UndoAborted \/ ReplayRestart

DurabilitySpec == DurabilityInit /\ [][DurabilityNext]_vars
-----------------------------------------------------------------------------
(* No record whose Log returned is lost, although the xid file is written    *)
(* and cut at the same time, and an open log has no cut record; the next     *)
(* record Log writes goes right behind the last one (logger.go:113), also    *)
(* after Open has cut a torn tail.                                           *)
LogIsSound == LG!AckedIsKept /\ LG!AppendsAtEnd

(* When the database serves again, Recovery has read every record with Next. *)
ReplayIsComplete ==
  [][lmode = "replay" /\ lmode' = "up" => pos = LG!EndOf(records)]_vars

(* readme.md:112: when the xid file on disk says that a transaction has      *)
(* committed, every record the transaction ever wrote is in the log and      *)
(* synced, whatever crashes cut: Commit is not ahead of the log.             *)
CommitIsDurable ==
  \A x \in XID : x \in DOMAIN onDisk.bytes /\ onDisk.bytes[x] = "committed" =>
                   \A n \in wrote[x] : n <= acked /\ n <= records /\ owner[n] = x

(* While the database serves, every record of the log is a running           *)
(* transaction's or one's that has ended: Recovery has aborted each          *)
(* transaction a crash left behind with records, also when it was itself     *)
(* interrupted, so that no later recovery can take its records for live ones.*)
(* This is after crashes: a database closed cleanly is opened without        *)
(* Recovery (data_manager.go:83), and what its shutdown left active stays so *)
(* (NoTransactionsRemain of Session.tla).                                    *)
LosersAreEnded ==
  Serving => \A i \in 1..records : owner[i] \in running \cup ended

(* readme.md:112, an ordinary power failure recovers to a consistent state:  *)
(* Open accepts the log a crash leaves.  The code does not keep this.        *)
LogOpens == LG!OpenSucceeds

(* readme.md:118, the no-panic design: Recovery can read the log Open has    *)
(* accepted.  The code does not keep this.                                   *)
ReplayDoesNotPanic == LG!ReplayDoesNotPanic
=============================================================================

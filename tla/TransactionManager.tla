------------------------- MODULE TransactionManager -------------------------
(* backend/tm: the xid file, a header with the number of transactions        *)
(* followed by one status byte each, under crashes.  The WriteAt of a method *)
(* is one step and its Sync another: a write that was not synced may be lost *)
(* in a crash.                                                               *)
EXTENDS Naturals, Sequences

CONSTANT MaxXID  \* bound on the status bytes ever written

ASSUME MaxXIDAssumption == MaxXID \in Nat

XID == 1..MaxXID
Status == {"active", "committed", "aborted"}

VARIABLES header,      \* the counter in the file
          bytes,       \* the status bytes in the file
          onDisk,      \* header and bytes as of the last Sync
          xidCounter,  \* tm.xidCounter
          pc,          \* the step of the method that holds counterLock
          arg,         \* its xid
          mode,        \* "up", "down" after a crash, "bad" when Open failed
          begun,       \* history: xids Begin has returned
          ended        \* history: xids Commit or Abort was called for

tmVars == <<header, bytes, onDisk, xidCounter, pc, arg, mode, begun, ended>>

Image == [header : 0..MaxXID, bytes : UNION {[1..n -> Status] : n \in 0..MaxXID}]

TypeOK ==
  /\ [header |-> header, bytes |-> bytes] \in Image
  /\ onDisk \in Image
  /\ xidCounter \in 0..MaxXID
  /\ pc \in {"free", "beginSync", "beginHeader", "headerSync", "endSync"}
  /\ arg \in 0..MaxXID
  /\ mode \in {"up", "down", "bad"}
  /\ begun \in SUBSET XID
  /\ ended \in SUBSET XID

(* Create wrote an empty header. *)
Init ==
  /\ header = 0 /\ bytes = <<>>
  /\ onDisk = [header |-> 0, bytes |-> <<>>]
  /\ xidCounter = 0
  /\ pc = "free" /\ arg = 0
  /\ mode = "up"
  /\ begun = {} /\ ended = {}
-----------------------------------------------------------------------------
Sync == onDisk' = [header |-> header, bytes |-> bytes]

(* WriteAt of one status byte, at the end of the file or inside it. *)
PutStatus(x, s) ==
  bytes' = [i \in 1..(IF x > Len(bytes) THEN x ELSE Len(bytes)) |->
              IF i = x THEN s ELSE bytes[i]]

Goto(p, q) == mode = "up" /\ pc = p /\ pc' = q

(* Begin: updateXID, then incrXIDCounter. *)
BeginStatus ==
  /\ Goto("free", "beginSync")
  /\ xidCounter < MaxXID
  /\ arg' = xidCounter + 1
  /\ PutStatus(arg', "active")
  /\ UNCHANGED <<header, onDisk, xidCounter, mode, begun, ended>>

BeginStatusSync ==
  /\ Goto("beginSync", "beginHeader")
  /\ Sync
  /\ UNCHANGED <<header, bytes, xidCounter, arg, mode, begun, ended>>

BeginHeader ==
  /\ Goto("beginHeader", "headerSync")
  /\ xidCounter' = xidCounter + 1
  /\ header' = xidCounter'
  /\ UNCHANGED <<bytes, onDisk, arg, mode, begun, ended>>

BeginHeaderSync ==
  /\ Goto("headerSync", "free")
  /\ Sync
  /\ begun' = begun \cup {arg}
  /\ UNCHANGED <<header, bytes, xidCounter, arg, mode, ended>>

(* Commit and Abort, called once for a transaction that was begun; recovery  *)
(* calls Abort for the ones the crash left active.                           *)
End(x, s) ==
  /\ Goto("free", "endSync")
  /\ x \in begun \ ended
  /\ PutStatus(x, s)
  /\ arg' = x
  /\ ended' = ended \cup {x}
  /\ UNCHANGED <<header, onDisk, xidCounter, mode, begun>>

(* Mutant: no Sync. *)
EndNoSync ==
  /\ Goto("endSync", "free")
  /\ UNCHANGED <<header, bytes, onDisk, xidCounter, arg, mode, begun, ended>>

EndSync ==
  /\ Goto("endSync", "free")
  /\ Sync
  /\ UNCHANGED <<header, bytes, xidCounter, arg, mode, begun, ended>>

(* The machine stops: what was not synced is kept or lost. *)
Crash ==
  /\ mode = "up"
  /\ mode' = "down" /\ pc' = "free" /\ arg' = 0
  /\ \/ UNCHANGED <<header, bytes>>
     \/ header' = onDisk.header /\ bytes' = onDisk.bytes
  /\ onDisk' = [header |-> header', bytes |-> bytes']
  /\ ended' = {x \in ended : bytes'[x] # "active"}
  /\ UNCHANGED <<xidCounter, begun>>

(* Mutant: the counter is the index of the last byte, counted from 0. *)
OpenLow ==
  /\ mode = "down"
  /\ IF header = Len(bytes)
       THEN mode' = "up" /\ xidCounter' = (IF header = 0 THEN 0 ELSE header - 1)
       ELSE mode' = "bad" /\ UNCHANGED xidCounter
  /\ UNCHANGED <<header, bytes, onDisk, pc, arg, begun, ended>>

(* Open: checkXIDCounter compares the size of the file with the header. *)
Open ==
  /\ mode = "down"
  /\ IF header = Len(bytes)
       THEN mode' = "up" /\ xidCounter' = header
       ELSE mode' = "bad" /\ UNCHANGED xidCounter
  /\ UNCHANGED <<header, bytes, onDisk, pc, arg, begun, ended>>

Next ==
  \/ BeginStatus \/ BeginStatusSync \/ BeginHeader \/ BeginHeaderSync
  \/ \E x \in XID, s \in {"committed", "aborted"} : End(x, s)
  \/ EndSync
  \/ Crash \/ Open

Spec == Init /\ [][Next]_tmVars
-----------------------------------------------------------------------------
(* checkXID: what IsActive, IsCommitted and IsAborted answer; a read past    *)
(* the end of the file is no.                                                *)
checkXID(x, s) == x \in DOMAIN bytes /\ bytes[x] = s

(* Begin never takes an xid it returned before, whatever crashes came in     *)
(* between: the byte it writes is no live transaction's.                     *)
XidsAreFresh ==
  [][pc' = "beginSync" => arg' \notin begun]_tmVars

(* A transaction whose Commit or Abort returned keeps that status through    *)
(* crashes and reopening; one that was begun and not ended is found active   *)
(* by recovery.                                                              *)
OutcomeIsDurable ==
  mode # "bad" => \A x \in begun :
    /\ x \in DOMAIN onDisk.bytes
    /\ x \notin ended => checkXID(x, "active")
    /\ x \in ended /\ ~(pc = "endSync" /\ arg = x) => onDisk.bytes[x] # "active"

(* readme.md:112, an ordinary power failure recovers to a consistent state:  *)
(* Open accepts the file a crash leaves.                                     *)
OpenSucceeds ==
  mode # "bad"
=============================================================================

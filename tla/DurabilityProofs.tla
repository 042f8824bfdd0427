-------------------------- MODULE DurabilityProofs --------------------------
(* Proofs about Durability, for any number of transactions, records and       *)
(* crashes and any length of a record.  The invariant has three parts: TInv   *)
(* says how the xid file in memory, on disk and the counter differ at each    *)
(* step of Begin, Commit and Abort; LInv says the same of the log; DInv       *)
(* relates the two: whose records are in the log, and which are synced.       *)
EXTENDS Durability, TLAPS

Beginning == pc \in {"beginSync", "beginHeader", "headerSync"}

TInv ==
  /\ TypeOK
  /\ Len(onDisk.bytes) <= Len(bytes)
  /\ ended \subseteq begun /\ begun \subseteq 1..Len(onDisk.bytes)
  /\ \A x \in begun : x \in ended <=> bytes[x] # "active"
  /\ \A x \in 1..Len(onDisk.bytes) :
       onDisk.bytes[x] = bytes[x] \/ (pc = "endSync" /\ arg = x /\ onDisk.bytes[x] = "active")
  /\ mode # "up" => pc = "free"
  /\ mode = "up" =>
       /\ pc \in {"free", "endSync", "headerSync"} => Len(bytes) = xidCounter
       /\ pc \in {"beginSync", "beginHeader"} => Len(bytes) = xidCounter + 1
  /\ Beginning => arg = Len(bytes) /\ bytes[arg] = "active" /\ arg \notin begun /\ arg # 0
  /\ pc = "endSync" => arg \in ended

-----------------------------------------------------------------------------
(* The xid file *)

(* The status bytes are a function on their indices. *)
LEMMA BytesFcn ==
  ASSUME NEW b \in UNION {[1..n -> Status] : n \in 0..MaxXID}
  PROVE  Len(b) \in 0..MaxXID /\ b \in [1..Len(b) -> Status] /\ DOMAIN b = 1..Len(b)
<1>1. PICK n \in 0..MaxXID : b \in [1..n -> Status]
  OBVIOUS
<1>2. n \in Nat
  BY MaxXIDAssumption
<1>3. Len(b) = n
  BY <1>1, <1>2
<1>. QED
  BY <1>1, <1>2, <1>3

(* A function on 1..n is one that the file can hold. *)
LEMMA FcnBytes ==
  ASSUME NEW n \in 0..MaxXID, NEW b \in [1..n -> Status]
  PROVE  b \in UNION {[1..k -> Status] : k \in 0..MaxXID} /\ Len(b) = n
<1>1. n \in Nat
  BY MaxXIDAssumption
<1>2. Len(b) = n
  BY <1>1
<1>. QED
  BY <1>2

(* What TypeOK says of the file and of its image on disk. *)
LEMMA FileFacts ==
  ASSUME TypeOK
  PROVE  /\ Len(bytes) \in 0..MaxXID /\ bytes \in [1..Len(bytes) -> Status] /\ DOMAIN bytes = 1..Len(bytes)
         /\ Len(onDisk.bytes) \in 0..MaxXID /\ onDisk.bytes \in [1..Len(onDisk.bytes) -> Status]
         /\ DOMAIN onDisk.bytes = 1..Len(onDisk.bytes)
         /\ xidCounter \in Nat /\ MaxXID \in Nat /\ arg \in Nat /\ header \in 0..MaxXID
<1>1. bytes \in UNION {[1..n -> Status] : n \in 0..MaxXID} /\ header \in 0..MaxXID
  BY DEF TypeOK, Image
<1>2. onDisk.bytes \in UNION {[1..n -> Status] : n \in 0..MaxXID}
  BY DEF TypeOK, Image
<1>. QED
  BY <1>1, <1>2, BytesFcn, MaxXIDAssumption DEF TypeOK

LEMMA TMInit == Init => TInv
<1>. SUFFICES ASSUME Init PROVE TInv
  OBVIOUS
<1>1. <<>> \in [1..0 -> Status] /\ Len(<<>>) = 0
  OBVIOUS
<1>2. <<>> \in UNION {[1..n -> Status] : n \in 0..MaxXID}
  BY <1>1, FcnBytes, MaxXIDAssumption
<1>3. onDisk.bytes = <<>> /\ bytes = <<>>
  BY DEF Init
<1>4. TypeOK
  <2>. DEFINE B == UNION {[1..n -> Status] : n \in 0..MaxXID}
  <2>1. <<>> \in B
    BY <1>2
  <2>2. Image = [header : 0..MaxXID, bytes : B]
    BY DEF Image
  <2>. HIDE DEF B
  <2>. QED
    BY <2>1, <2>2, MaxXIDAssumption DEF Init, TypeOK
<1>. QED
  BY <1>1, <1>3, <1>4 DEF Init, TInv, Beginning

(* An image is a counter and status bytes. *)
LEMMA ImageOK ==
  ASSUME NEW h \in 0..MaxXID, NEW n \in 0..MaxXID, NEW b \in [1..n -> Status]
  PROVE  [header |-> h, bytes |-> b] \in Image /\ Len(b) = n
<1>. DEFINE B == UNION {[1..k -> Status] : k \in 0..MaxXID}
<1>1. b \in B /\ Len(b) = n
  BY FcnBytes
<1>2. Image = [header : 0..MaxXID, bytes : B]
  BY DEF Image
<1>. HIDE DEF B
<1>. QED
  BY <1>1, <1>2

(* Begin writes a byte behind the last one. *)
LEMMA BeginKeeps == TInv /\ BeginStatus => TInv' /\ arg' \notin begun
<1>. SUFFICES ASSUME TInv, BeginStatus PROVE TInv' /\ arg' \notin begun
  OBVIOUS
<1>. USE FileFacts
<1>. DEFINE n == Len(bytes) + 1
<1>1. /\ mode = "up" /\ pc = "free" /\ pc' = "beginSync" /\ xidCounter < MaxXID /\ arg' = xidCounter + 1
      /\ PutStatus(arg', "active") /\ UNCHANGED <<header, onDisk, xidCounter, mode, begun, ended>>
  BY DEF BeginStatus, Goto
<1>2. arg' = n /\ n \in 1..MaxXID
  BY <1>1 DEF TInv
<1>3. bytes' = [i \in 1..n |-> IF i = n THEN "active" ELSE bytes[i]]
  BY <1>1, <1>2 DEF PutStatus, TInv
<1>4. bytes' \in [1..n -> Status]
  BY <1>3 DEF TInv, Status
<1>5. Len(bytes') = n /\ [header |-> header', bytes |-> bytes'] \in Image
  BY <1>1, <1>2, <1>4, ImageOK DEF TInv
<1>6. bytes'[n] = "active" /\ \A x \in 1..Len(bytes) : bytes'[x] = bytes[x]
  BY <1>2, <1>3 DEF TInv
<1>. HIDE DEF n
<1>7. n = xidCounter + 1 /\ n > Len(bytes) /\ Len(bytes) \in Nat /\ Len(onDisk.bytes) \in Nat
  BY <1>1, <1>2 DEF TInv, n
<1>8. n \notin begun
  BY <1>7 DEF TInv
<1>9. TypeOK'
  BY <1>1, <1>2, <1>5 DEF TInv, TypeOK
<1>. QED
  BY <1>1, <1>2, <1>5, <1>6, <1>7, <1>8, <1>9 DEF TInv, Beginning

(* The other steps of Begin. *)
LEMMA BeginStepKeeps == TInv /\ (BeginStatusSync \/ BeginHeader \/ BeginHeaderSync) => TInv'
<1>. SUFFICES ASSUME TInv, BeginStatusSync \/ BeginHeader \/ BeginHeaderSync PROVE TInv'
  OBVIOUS
<1>. USE FileFacts
<1>1. CASE BeginStatusSync
  BY <1>1 DEF BeginStatusSync, Goto, Sync, TInv, TypeOK, Beginning
<1>2. CASE BeginHeader
  <2>1. xidCounter + 1 \in 0..MaxXID /\ xidCounter + 1 = Len(bytes)
    BY <1>2 DEF BeginHeader, Goto, TInv
  <2>2. [header |-> xidCounter + 1, bytes |-> bytes] \in Image
    BY <2>1, ImageOK DEF TInv
  <2>. QED
    BY <1>2, <2>1, <2>2 DEF BeginHeader, Goto, TInv, TypeOK, Beginning
<1>3. CASE BeginHeaderSync
  <2>1. arg \in XID /\ arg \in 1..Len(bytes) /\ bytes[arg] = "active" /\ arg \notin ended
    BY <1>3 DEF BeginHeaderSync, Goto, TInv, TypeOK, Beginning, XID
  <2>. QED
    BY <1>3, <2>1 DEF BeginHeaderSync, Goto, Sync, TInv, TypeOK, Beginning
<1>. QED
  BY <1>1, <1>2, <1>3

(* Commit and Abort write the byte of their transaction. *)
LEMMA EndKeeps ==
  ASSUME TInv, NEW x, NEW s \in {"committed", "aborted"}, End(x, s)
  PROVE  TInv' /\ bytes' = [bytes EXCEPT ![x] = s] /\ x \in 1..Len(bytes) /\ x \in 1..Len(onDisk.bytes)
<1>. USE FileFacts
<1>1. /\ mode = "up" /\ pc = "free" /\ pc' = "endSync" /\ x \in begun /\ x \notin ended
      /\ PutStatus(x, s) /\ arg' = x /\ ended' = ended \cup {x}
      /\ UNCHANGED <<header, onDisk, xidCounter, mode, begun>>
  BY DEF End, Goto
<1>2. x \in 1..Len(bytes) /\ x \in 1..Len(onDisk.bytes) /\ x \in XID
  BY <1>1 DEF TInv, TypeOK
<1>3. bytes' = [bytes EXCEPT ![x] = s]
  <2>1. (IF x > Len(bytes) THEN x ELSE Len(bytes)) = Len(bytes)
    BY <1>2 DEF TInv
  <2>2. bytes' = [i \in 1..Len(bytes) |-> IF i = x THEN s ELSE bytes[i]]
    BY <1>1, <2>1 DEF PutStatus
  <2>. QED
    BY <1>2, <2>2 DEF TInv
<1>4. bytes' \in [1..Len(bytes) -> Status]
  BY <1>3 DEF TInv, Status
<1>5. Len(bytes') = Len(bytes) /\ [header |-> header', bytes |-> bytes'] \in Image
  <2>1. Len(bytes) \in 0..MaxXID /\ header' \in 0..MaxXID
    BY <1>1 DEF TInv
  <2>. QED
    BY <1>4, <2>1, ImageOK
<1>6. bytes'[x] = s /\ \A y \in 1..Len(bytes) : y # x => bytes'[y] = bytes[y]
  BY <1>2, <1>3 DEF TInv
<1>7. TypeOK'
  BY <1>1, <1>2, <1>5 DEF TInv, TypeOK, XID
<1>8. bytes[x] = "active" /\ onDisk.bytes[x] = "active"
  BY <1>1, <1>2 DEF TInv
<1>. QED
  BY <1>1, <1>2, <1>3, <1>5, <1>6, <1>7, <1>8 DEF TInv, Beginning

LEMMA EndSyncKeeps == TInv /\ EndSync => TInv'
  BY FileFacts DEF EndSync, Goto, Sync, TInv, TypeOK, Beginning

(* A crash leaves the file or its image on disk; of the transactions that    *)
(* ended, the one whose byte was lost is found active.                       *)
LEMMA CrashKeeps == TInv /\ Crash => TInv'
<1>. SUFFICES ASSUME TInv, Crash PROVE TInv'
  OBVIOUS
<1>. USE FileFacts
<1>1. /\ mode' = "down" /\ pc' = "free" /\ arg' = 0
      /\ onDisk' = [header |-> header', bytes |-> bytes']
      /\ ended' = {x \in ended : bytes'[x] # "active"} /\ xidCounter' = xidCounter /\ begun' = begun
  BY DEF Crash
<1>2. \/ header' = header /\ bytes' = bytes
      \/ header' = onDisk.header /\ bytes' = onDisk.bytes
  BY DEF Crash
<1>3. onDisk'.bytes = bytes' /\ onDisk' \in Image
  <2>1. onDisk \in Image /\ [header |-> header, bytes |-> bytes] \in Image
    BY DEF TInv, TypeOK
  <2>2. onDisk = [header |-> onDisk.header, bytes |-> onDisk.bytes]
    BY <2>1 DEF Image
  <2>. QED
    BY <1>1, <1>2, <2>1, <2>2
<1>4. TypeOK'
  <2>1. [header |-> header', bytes |-> bytes'] \in Image
    BY <1>1, <1>3
  <2>0. ended' \subseteq ended
    BY <1>1
  <2>2. ended' \in SUBSET XID /\ begun' \in SUBSET XID /\ xidCounter' \in 0..MaxXID
    BY <1>1, <2>0 DEF TInv, TypeOK
  <2>3. arg' \in 0..MaxXID
    BY <1>1, MaxXIDAssumption
  <2>. QED
    BY <1>1, <1>3, <2>1, <2>2, <2>3 DEF TypeOK
<1>a. Len(bytes') \in Nat
  BY <1>2 DEF TInv
<1>5. begun \subseteq 1..Len(bytes')
  BY <1>2 DEF TInv
<1>6. \A x \in begun : bytes'[x] = bytes[x] \/ bytes'[x] = "active"
  BY <1>2 DEF TInv
<1>7. \A x \in begun : x \in ended' <=> bytes'[x] # "active"
  BY <1>1, <1>6 DEF TInv
<1>8. /\ Len(onDisk'.bytes) <= Len(bytes') /\ begun' \subseteq 1..Len(onDisk'.bytes)
      /\ \A x \in 1..Len(onDisk'.bytes) : onDisk'.bytes[x] = bytes'[x]
  BY <1>1, <1>3, <1>a, <1>5
<1>9. ended' \subseteq begun' /\ \A x \in begun' : x \in ended' <=> bytes'[x] # "active"
  BY <1>1, <1>7 DEF TInv
<1>. QED
  BY <1>1, <1>4, <1>8, <1>9 DEF TInv, Beginning

LEMMA OpenKeeps == TInv /\ Open => TInv'
  BY FileFacts DEF Open, TInv, TypeOK, Beginning

-----------------------------------------------------------------------------
(* The log *)

LInv ==
  /\ records \in 0..MaxRecords /\ acked \in Nat /\ tail \in Nat /\ xsum \in Nat /\ xChecksum \in Nat
  /\ offset \in Nat /\ pos \in Nat /\ fileSize \in Nat
  /\ lpc \in {"free", "written", "summed"} /\ lmode \in {"up", "replay", "down", "bad", "panic"}
  /\ acked <= records
  /\ lpc # "free" => acked < records /\ lmode = "up"
  /\ lmode \in {"up", "replay"} =>
       /\ offset = LG!EndOf(records) /\ tail = 0 /\ xsum = xChecksum
       /\ xsum = IF lpc = "written" THEN records - 1 ELSE records
  /\ lmode = "replay" =>
       /\ fileSize >= LG!EndOf(records)
       /\ \E k \in 0..records : pos = LG!EndOf(k)

LEMMA Constants == RecLen \in Nat /\ RecLen > 8 /\ MaxRecords \in Nat
  BY DurabilityAssumption DEF LG!LoggerConstants

(* Where a record ends: the next one ends RecLen bytes later. *)
LEMMA EndOfFacts ==
  ASSUME NEW n \in Nat
  PROVE  /\ LG!EndOf(n) \in Nat /\ LG!EndOf(n + 1) = LG!EndOf(n) + RecLen
         /\ \A k \in Nat : k < n => LG!EndOf(k) + RecLen <= LG!EndOf(n)
<1>1. \A k, m \in Nat : k * m \in Nat /\ m * (k + 1) = m * k + m
  BY SMT
<1>2. \A a, b, m \in Nat : a < b => m * a + m <= m * b
  <2>. TAKE a, b, m \in Nat
  <2>. HAVE a < b
  <2>1. PICK d \in Nat : b = a + 1 + d
    <3>1. b - a - 1 \in Nat /\ b = a + 1 + (b - a - 1)
      OBVIOUS
    <3>. QED
      BY <3>1
  <2>2. m * b = m * a + m + m * d
    BY <2>1, SMT
  <2>3. m * d \in Nat /\ m * a \in Nat
    BY <2>1
  <2>. QED
    BY <2>2, <2>3
<1>3. \A k \in Nat : LG!EndOf(k) = 4 + RecLen * k /\ RecLen * k \in Nat
  BY Constants DEF LG!EndOf
<1>. QED
  BY <1>1, <1>2, <1>3, Constants

LEMMA LogInit == LG!Init => LInv
  BY Constants DEF LG!Init, LInv, LG!EndOf

(* Each step of the logger keeps LInv, and acked never gets smaller. *)
LEMMA LogKeeps == LInv /\ LG!Next => LInv' /\ acked <= acked'
<1>. SUFFICES ASSUME LInv, LG!Next PROVE LInv' /\ acked <= acked'
  OBVIOUS
<1>0. records \in Nat /\ LG!EndOf(records) \in Nat
  BY Constants, EndOfFacts DEF LInv
<1>1. CASE LG!LogWrite
  <2>1. records' = records + 1 /\ records' \in 0..MaxRecords /\ LG!EndOf(records') = LG!EndOf(records) + RecLen
    BY <1>0, <1>1, Constants, EndOfFacts DEF LG!LogWrite, LInv
  <2>. QED
    BY <1>0, <1>1, <2>1, Constants DEF LG!LogWrite, LInv
<1>2. CASE LG!LogSum
  BY <1>0, <1>2, Constants DEF LG!LogSum, LInv
<1>3. CASE LG!LogSync
  BY <1>0, <1>3, Constants DEF LG!LogSync, LInv
<1>4. CASE LG!Crash
  BY <1>0, <1>4, Constants DEF LG!Crash, LInv
<1>5. CASE LG!Open
  <2>1. LG!EndOf(0) = 4
    BY Constants DEF LG!EndOf
  <2>. QED
    BY <1>0, <1>5, <2>1, Constants DEF LG!Open, LInv
<1>6. CASE LG!NextRecord
  <2>1. PICK k \in 0..records : pos = LG!EndOf(k)
    BY <1>6 DEF LG!NextRecord, LInv
  <2>2. k + 1 \in 0..records /\ pos' = LG!EndOf(k + 1)
    BY <1>0, <1>6, <2>1, Constants, EndOfFacts DEF LG!NextRecord
  <2>. QED
    BY <1>0, <1>6, <2>2, Constants DEF LG!NextRecord, LInv
<1>7. CASE LG!NextEnd
  BY <1>7 DEF LG!NextEnd, LInv
<1>8. CASE LG!NextError
  BY <1>8 DEF LG!NextError, LInv
<1>9. CASE LG!Restart
  BY <1>9 DEF LG!Restart, LInv
<1>. QED
  BY <1>1, <1>2, <1>3, <1>4, <1>5, <1>6, <1>7, <1>8, <1>9 DEF LG!Next

(* Recovery stops reading only behind the last record: in front of another   *)
(* one there is room for more than a header.                                 *)
LEMMA ReplayReadsAll == LInv /\ LG!NextEnd => pos = LG!EndOf(records)
<1>. SUFFICES ASSUME LInv, LG!NextEnd PROVE pos = LG!EndOf(records)
  OBVIOUS
<1>1. PICK k \in 0..records : pos = LG!EndOf(k)
  BY DEF LG!NextEnd, LInv
<1>2. records \in Nat /\ pos \in Nat /\ LG!EndOf(records) \in Nat /\ fileSize \in Nat
      /\ fileSize >= LG!EndOf(records) /\ pos + 8 >= fileSize
  BY Constants, EndOfFacts DEF LG!NextEnd, LG!OF_DATA, LInv
<1>3. k < records => pos + RecLen <= LG!EndOf(records)
  BY <1>1, <1>2, EndOfFacts
<1>4. ~(k < records)
  BY <1>2, <1>3, Constants
<1>. QED
  BY <1>1, <1>2, <1>4

-----------------------------------------------------------------------------
(* The two together *)

Synced(x) == \A n \in wrote[x] : n <= acked /\ owner[n] = x

DInv ==
  /\ owner \in [1..records -> XID] /\ \A i \in 1..records : owner[i] \in begun
  /\ running \subseteq begun \ ended
  /\ wrote \in [XID -> SUBSET (1..MaxRecords)] /\ \A x \in XID \ begun : wrote[x] = {}
  /\ lpc = "free" => writer = 0
  /\ lpc # "free" => writer \in running /\ owner[records] = writer
  /\ running # {} => lmode = "up" /\ undo = {}
  /\ undo # {} => lmode = "up"
  /\ \A x \in running : Synced(x) \/ (writer = x /\ \A n \in wrote[x] : n <= records /\ owner[n] = x
                                                                  /\ (n <= acked \/ n = records))
  /\ \A x \in 1..Len(bytes) : bytes[x] = "committed" => Synced(x)
  /\ lmode = "up" => \A i \in 1..records : owner[i] \in running \cup ended \cup undo

IInv == TInv /\ LInv /\ DInv

LEMMA TStutter == TInv /\ UNCHANGED tmVars => TInv'
  BY DEF tmVars, TInv, TypeOK, Beginning

LEMMA LStutter == LInv /\ UNCHANGED lgVars => LInv'
  BY DEF lgVars, LInv, LG!EndOf

LEMMA DurabilityInitIInv == DurabilityInit => IInv
<1>. SUFFICES ASSUME DurabilityInit PROVE IInv
  OBVIOUS
<1>1. TInv /\ LInv
  BY TMInit, LogInit DEF DurabilityInit
<1>2. records = 0 /\ begun = {} /\ bytes = <<>> /\ lpc = "free"
  BY DEF DurabilityInit, Init, LG!Init
<1>3. owner \in [1..records -> XID] /\ Len(bytes) = 0
  BY <1>2 DEF DurabilityInit
<1>4. DInv
  BY <1>2, <1>3 DEF DurabilityInit, DInv, Synced
<1>. QED
  BY <1>1, <1>4 DEF IInv

(* A step of Begin, or the Sync of an End. *)
LEMMA TMStepKeeps == IInv /\ (TMStep \/ BeginReturns) => IInv'
<1>. SUFFICES ASSUME IInv, TMStep \/ BeginReturns PROVE IInv'
  OBVIOUS
<1>1. UNCHANGED lgVars /\ UNCHANGED <<owner, writer, undo, wrote>> /\ Serving
  BY DEF TMStep, BeginReturns, txVars
<1>2. TInv'
  BY BeginKeeps, BeginStepKeeps, EndSyncKeeps DEF TMStep, BeginReturns, IInv
<1>3. LInv'
  BY <1>1, LStutter DEF IInv
<1>4. \A x \in 1..Len(bytes') : bytes'[x] = "committed" => x \in 1..Len(bytes) /\ bytes[x] = "committed"
  <2>1. CASE BeginStatus
    <3>1. arg' = Len(bytes) + 1 /\ Len(bytes) \in Nat
      BY <2>1, FileFacts DEF BeginStatus, Goto, IInv, TInv
    <3>2. bytes' = [i \in 1..Len(bytes) + 1 |-> IF i = Len(bytes) + 1 THEN "active" ELSE bytes[i]]
      BY <2>1, <3>1 DEF BeginStatus, PutStatus
    <3>3. Len(bytes') = Len(bytes) + 1
      BY <3>1, <3>2
    <3>. QED
      BY <3>1, <3>2, <3>3
  <2>2. CASE bytes' = bytes
    BY <2>2
  <2>. QED
    BY <2>1, <2>2 DEF TMStep, BeginReturns, BeginStatusSync, BeginHeader, BeginHeaderSync, EndSync
<1>5. ended' = ended /\ \/ begun' = begun /\ running' = running
                        \/ begun' = begun \cup {arg} /\ running' = running \cup {arg} /\ Beginning
  BY DEF TMStep, BeginReturns, BeginStatus, BeginStatusSync, BeginHeader, BeginHeaderSync, EndSync, txVars,
         Goto, Beginning
<1>6. Beginning => arg \in XID \ begun
  BY FileFacts DEF IInv, TInv, TypeOK, XID
<1>7. records' = records /\ acked' = acked /\ lpc' = lpc /\ lmode' = lmode
  BY <1>1 DEF lgVars
<1>8. DInv'
  <2>1. running' \subseteq begun' \ ended'
    BY <1>5, <1>6 DEF IInv, DInv, TInv
  <2>2. \A x \in running' : x \in running \/ wrote[x] = {}
    BY <1>5, <1>6 DEF IInv, DInv
  <2>3. \A x \in running' : Synced(x) \/ (writer = x /\ \A n \in wrote[x] : n <= records /\ owner[n] = x
                                                                     /\ (n <= acked \/ n = records))
    BY <2>2 DEF IInv, DInv, Synced
  <2>4. running \subseteq running' /\ begun \subseteq begun'
    BY <1>5
  <2>5. \A x : Synced(x)' <=> Synced(x)
    BY <1>1, <1>7 DEF Synced
  <2>. QED
    BY <1>1, <1>4, <1>5, <1>7, <2>1, <2>3, <2>4, <2>5 DEF IInv, DInv, Serving
<1>. QED
  BY <1>2, <1>3, <1>8 DEF IInv

(* A transaction writes a record. *)
LEMMA LogWriteKeeps ==
  ASSUME IInv, NEW x \in XID, Log(x)
  PROVE  IInv'
<1>1. TInv'
  BY TStutter DEF Log, IInv
<1>2. LInv'
  BY LogKeeps DEF Log, IInv, LG!Next
<1>3. /\ x \in running /\ lpc = "free" /\ lpc' = "written" /\ writer' = x /\ writer = 0
      /\ records' = records + 1 /\ records' \in 1..MaxRecords /\ acked' = acked /\ lmode' = lmode
      /\ UNCHANGED tmVars /\ running' = running /\ undo' = undo /\ lmode = "up"
      /\ owner' = [i \in 1..records' |-> IF i = records' THEN x ELSE owner[i]]
      /\ wrote' = [wrote EXCEPT ![x] = @ \cup {records'}]
  BY Constants DEF Log, Serving, LG!LogWrite, IInv, DInv, LInv
<1>4. owner' \in [1..records' -> XID] /\ owner'[records'] = x /\ \A i \in 1..records : owner'[i] = owner[i]
  BY <1>3, Constants DEF IInv, DInv, LInv
<1>5. wrote' \in [XID -> SUBSET (1..MaxRecords)] /\ wrote'[x] = wrote[x] \cup {records'}
      /\ \A y \in XID : y # x => wrote'[y] = wrote[y]
  BY <1>3 DEF IInv, DInv
<1>6. begun' = begun /\ ended' = ended /\ bytes' = bytes /\ x \in begun /\ x \notin ended
  BY <1>3 DEF tmVars, IInv, DInv
<1>7. acked <= records /\ acked \in Nat /\ records \in Nat /\ \A y \in XID : wrote[y] \subseteq Nat \ {0}
  BY Constants DEF IInv, DInv, LInv
<1>8. \A y \in XID : y # x /\ Synced(y) => Synced(y)'
  BY <1>3, <1>4, <1>5, <1>7 DEF Synced
<1>9. \A y \in running : Synced(y)
  <2>1. 0 \notin XID
    BY DEF XID
  <2>. QED
    BY <1>3, <2>1 DEF IInv, DInv, TInv, TypeOK
<1>10. \A n \in wrote'[x] : n <= records' /\ owner'[n] = x /\ (n <= acked' \/ n = records')
  BY <1>3, <1>4, <1>5, <1>7, <1>9 DEF Synced
<1>11. running \subseteq XID /\ bytes[x] # "committed" /\ 1..Len(bytes) \subseteq XID
  BY <1>6, FileFacts DEF IInv, DInv, TInv, TypeOK, XID
<1>12. \A i \in 1..records' : i = records' \/ i \in 1..records
  BY <1>3, <1>7
<1>13. DInv'
  <2>1. \A i \in 1..records' : owner'[i] \in begun'
    BY <1>4, <1>6, <1>12 DEF IInv, DInv
  <2>2. lmode' = "up" => \A i \in 1..records' : owner'[i] \in running' \cup ended' \cup undo'
    BY <1>3, <1>4, <1>6, <1>12 DEF IInv, DInv
  <2>3. \A y \in 1..Len(bytes') : bytes'[y] = "committed" => Synced(y)'
    BY <1>6, <1>8, <1>11 DEF IInv, DInv
  <2>4. \A y \in running' : Synced(y)' \/ (writer' = y /\ \A n \in wrote'[y] : n <= records' /\ owner'[n] = y
                                                                     /\ (n <= acked' \/ n = records'))
    BY <1>3, <1>8, <1>9, <1>10, <1>11
  <2>5. \A y \in XID \ begun' : wrote'[y] = {}
    BY <1>5, <1>6 DEF IInv, DInv
  <2>. QED
    BY <1>3, <1>4, <1>5, <1>6, <2>1, <2>2, <2>3, <2>4, <2>5 DEF IInv, DInv
<1>. QED
  BY <1>1, <1>2, <1>13 DEF IInv

(* The rest of a Log call. *)
LEMMA LogStepKeeps == IInv /\ (LogStep \/ LogReturns) => IInv'
<1>. SUFFICES ASSUME IInv, LogStep \/ LogReturns PROVE IInv'
  OBVIOUS
<1>1. TInv'
  BY TStutter DEF LogStep, LogReturns, IInv
<1>2. LInv' /\ acked <= acked'
  BY LogKeeps DEF LogStep, LogReturns, IInv, LG!Next
<1>3. UNCHANGED tmVars /\ owner' = owner /\ running' = running /\ undo' = undo /\ wrote' = wrote
      /\ records' = records /\ lmode' = lmode
  BY DEF LogStep, LogReturns, txVars, LG!LogSum, LG!LogSync
<1>4. \/ writer' = writer /\ lpc # "free" /\ lpc' # "free" /\ acked' = acked
      \/ writer' = 0 /\ lpc' = "free" /\ acked' = records
  BY DEF LogStep, LogReturns, txVars, LG!LogSum, LG!LogSync
<1>5. acked \in Nat /\ acked' \in Nat /\ records \in Nat /\ \A y \in XID : wrote[y] \subseteq Nat
  BY <1>2, Constants DEF IInv, DInv, LInv
<1>6. \A y \in XID : Synced(y) => Synced(y)'
  BY <1>2, <1>3, <1>5 DEF Synced
<1>7. running \subseteq XID /\ 1..Len(bytes) \subseteq XID
  BY FileFacts DEF IInv, DInv, TInv, TypeOK, XID
<1>8. \A y \in running' : Synced(y)' \/ (writer' = y /\ \A n \in wrote'[y] : n <= records' /\ owner'[n] = y
                                                                   /\ (n <= acked' \/ n = records'))
  BY <1>3, <1>4, <1>6, <1>7 DEF IInv, DInv, Synced
<1>9. \A y \in 1..Len(bytes') : bytes'[y] = "committed" => Synced(y)'
  BY <1>3, <1>6, <1>7 DEF IInv, DInv, tmVars
<1>10. DInv'
  BY <1>3, <1>4, <1>8, <1>9 DEF IInv, DInv, tmVars
<1>. QED
  BY <1>1, <1>2, <1>10 DEF IInv

(* Commit, Abort and the Aborts of Recovery. *)
LEMMA EndTxKeeps ==
  ASSUME IInv, NEW x \in XID, NEW s \in {"committed", "aborted"},
         EndTx(x, s) \/ (UndoAbort(x) /\ s = "aborted")
  PROVE  IInv'
<1>1. End(x, s) /\ UNCHANGED <<lgVars, owner, writer, undo, wrote>>
  BY DEF EndTx, UndoAbort, txVars
<1>2. TInv' /\ bytes' = [bytes EXCEPT ![x] = s]
  BY <1>1, EndKeeps DEF IInv
<1>3. LInv'
  BY <1>1, LStutter DEF IInv
<1>4. begun' = begun /\ ended' = ended \cup {x}
  BY <1>1 DEF End
<1>5. records' = records /\ acked' = acked /\ lpc' = lpc /\ lmode' = lmode
  BY <1>1 DEF lgVars
<1>6. \/ running' = running \ {x} /\ x \in running /\ writer # x
      \/ running' = running /\ undo # {} /\ s = "aborted"
  BY DEF EndTx, UndoAbort, txVars
<1>7. running' = running \ {x} /\ (s = "committed" => x \in running /\ writer # x)
  BY <1>6 DEF IInv, DInv
<1>8. \A y : Synced(y)' <=> Synced(y)
  BY <1>1, <1>5 DEF Synced
<1>9. Len(bytes') = Len(bytes) /\ \A y \in 1..Len(bytes) : bytes'[y] = IF y = x THEN s ELSE bytes[y]
  <2>1. Len(bytes) \in Nat /\ bytes \in [1..Len(bytes) -> Status] /\ x \in 1..Len(bytes)
    BY <1>1, EndKeeps, FileFacts DEF IInv, TInv
  <2>. QED
    BY <1>2, <2>1 DEF Status
<1>10. \A y \in 1..Len(bytes') : bytes'[y] = "committed" => Synced(y)'
  BY <1>7, <1>8, <1>9 DEF IInv, DInv
<1>11. lpc' # "free" => writer' \in running'
  BY <1>1, <1>5, <1>6 DEF IInv, DInv
<1>12. DInv'
  BY <1>1, <1>4, <1>5, <1>7, <1>8, <1>10, <1>11 DEF IInv, DInv
<1>. QED
  BY <1>2, <1>3, <1>12 DEF IInv

(* The machine stops: what is lost was not synced. *)
LEMMA PowerLossKeeps == IInv /\ PowerLoss => IInv'
<1>. SUFFICES ASSUME IInv, PowerLoss PROVE IInv'
  OBVIOUS
<1>1. TInv' /\ LInv' /\ acked' = acked
  BY CrashKeeps, LogKeeps DEF PowerLoss, IInv, LG!Next, LG!Crash
<1>2. /\ running' = {} /\ writer' = 0 /\ undo' = {} /\ wrote' = wrote /\ begun' = begun
      /\ lpc' = "free" /\ lmode' = "down" /\ owner' = [i \in 1..records' |-> owner[i]]
      /\ records' \in {records, records - 1}
  BY DEF PowerLoss, Crash, LG!Crash
<1>3. records \in Nat /\ records' \in Nat /\ records' <= records /\ acked \in Nat /\ acked <= records'
  BY <1>1, <1>2, Constants DEF IInv, LInv
<1>4. owner' \in [1..records' -> XID] /\ \A i \in 1..records' : owner'[i] = owner[i] /\ i \in 1..records
  BY <1>2, <1>3 DEF IInv, DInv
<1>5. \A x \in XID : Synced(x) => Synced(x)'
  <2>1. \A x \in XID : wrote[x] \subseteq Nat \ {0}
    BY DEF IInv, DInv
  <2>. QED
    BY <1>1, <1>2, <1>3, <1>4, <2>1 DEF Synced
<1>6. \A x \in 1..Len(bytes') : x \in XID /\ (bytes'[x] = "committed" => x \in 1..Len(bytes) /\ bytes[x] = "committed")
  BY FileFacts DEF IInv, TInv, PowerLoss, Crash, XID
<1>7. DInv'
  BY <1>2, <1>4, <1>5, <1>6 DEF IInv, DInv
<1>. QED
  BY <1>1, <1>7 DEF IInv

(* Opening the files and reading the log. *)
LEMMA OpenStepKeeps == IInv /\ (OpenXidFile \/ OpenLog \/ Replay \/ ReplayRestart) => IInv'
<1>. SUFFICES ASSUME IInv, OpenXidFile \/ OpenLog \/ Replay \/ ReplayRestart PROVE IInv'
  OBVIOUS
<1>1. TInv'
  BY TStutter, OpenKeeps, CrashKeeps DEF OpenXidFile, OpenLog, Replay, ReplayRestart, IInv
<1>2. LInv'
  BY LStutter, LogKeeps DEF OpenXidFile, OpenLog, Replay, ReplayRestart, IInv, LG!Next
<1>3. UNCHANGED txVars /\ begun' = begun /\ records' = records /\ acked' = acked /\ lpc' = lpc
  BY DEF OpenXidFile, OpenLog, Replay, ReplayRestart, Open, Crash, tmVars, lgVars,
         LG!Open, LG!NextRecord, LG!NextError, LG!Restart
<1>4. \/ lmode' = lmode /\ ended' = ended
      \/ lmode' # "up" /\ lmode # "up"
  BY DEF OpenXidFile, OpenLog, Replay, ReplayRestart, Open, Crash, tmVars, lgVars,
         LG!Open, LG!NextRecord, LG!NextError, LG!Restart
<1>5. \A x \in 1..Len(bytes') : bytes'[x] = "committed" => x \in 1..Len(bytes) /\ bytes[x] = "committed"
  BY FileFacts DEF IInv, TInv, OpenXidFile, OpenLog, Replay, ReplayRestart, Open, Crash, tmVars
<1>6. \A x : Synced(x)' <=> Synced(x)
  BY <1>3 DEF txVars, Synced
<1>7. running' = running /\ (lmode # "up" => running = {}) /\ (running # {} => ended' = ended)
  BY <1>3, <1>4 DEF txVars, IInv, DInv
<1>8. DInv'
  BY <1>3, <1>4, <1>5, <1>6, <1>7 DEF txVars, IInv, DInv
<1>. QED
  BY <1>1, <1>2, <1>8 DEF IInv

(* Recovery collects whoever has a record and is active: the others with a   *)
(* record have ended.                                                        *)
LEMMA ReplayEndsKeeps == IInv /\ ReplayEnds => IInv'
<1>. SUFFICES ASSUME IInv, ReplayEnds PROVE IInv'
  OBVIOUS
<1>1. TInv' /\ LInv'
  BY TStutter, LogKeeps DEF ReplayEnds, IInv, LG!Next
<1>2. /\ UNCHANGED tmVars /\ records' = records /\ acked' = acked /\ lpc' = lpc /\ lmode = "replay" /\ lmode' = "up"
      /\ undo' = ActiveOwners /\ UNCHANGED <<owner, running, writer, wrote>>
  BY DEF ReplayEnds, LG!NextEnd
<1>3. begun' = begun /\ ended' = ended /\ bytes' = bytes
  BY <1>2 DEF tmVars
<1>4. running = {}
  BY <1>2 DEF IInv, DInv
<1>5. \A i \in 1..records : owner[i] \in ended \cup ActiveOwners
  <2>. TAKE i \in 1..records
  <2>0. owner[i] \in begun
    BY DEF IInv, DInv
  <2>a. begun \subseteq 1..Len(bytes)
    BY FileFacts DEF IInv, TInv
  <2>b. DOMAIN bytes = 1..Len(bytes)
    BY FileFacts DEF IInv, TInv
  <2>1. owner[i] \in DOMAIN bytes
    BY <2>0, <2>a, <2>b
  <2>2. owner[i] \in ended \/ checkXID(owner[i], "active")
    BY <2>0, <2>1 DEF IInv, TInv, checkXID
  <2>. QED
    BY <2>2 DEF ActiveOwners
<1>6. \A x : Synced(x)' <=> Synced(x)
  BY <1>2 DEF Synced
<1>7. DInv'
  BY <1>2, <1>3, <1>4, <1>5, <1>6 DEF IInv, DInv
<1>. QED
  BY <1>1, <1>7 DEF IInv

LEMMA UndoAbortedKeeps == IInv /\ UndoAborted => IInv'
<1>. SUFFICES ASSUME IInv, UndoAborted PROVE IInv'
  OBVIOUS
<1>1. TInv' /\ LInv'
  BY EndSyncKeeps, LStutter DEF UndoAborted, IInv
<1>2. /\ begun' = begun /\ ended' = ended /\ bytes' = bytes /\ arg \in ended
      /\ undo' = undo \ {arg} /\ undo # {} /\ UNCHANGED <<owner, running, writer, wrote>>
      /\ records' = records /\ acked' = acked /\ lpc' = lpc /\ lmode' = lmode
  BY DEF UndoAborted, EndSync, Goto, lgVars, IInv, TInv
<1>3. \A x : Synced(x)' <=> Synced(x)
  BY <1>2 DEF Synced
<1>4. DInv'
  BY <1>2, <1>3 DEF IInv, DInv
<1>. QED
  BY <1>1, <1>4 DEF IInv

LEMMA DurabilityNextIInv == IInv /\ [DurabilityNext]_vars => IInv'
<1>. SUFFICES ASSUME IInv, [DurabilityNext]_vars PROVE IInv'
  OBVIOUS
<1>1. CASE UNCHANGED vars
  <2>1. UNCHANGED tmVars /\ UNCHANGED lgVars /\ UNCHANGED txVars
    BY <1>1 DEF vars
  <2>2. TInv' /\ LInv'
    BY <2>1, TStutter, LStutter DEF IInv
  <2>3. DInv'
    BY <2>1 DEF IInv, DInv, Synced, tmVars, lgVars, txVars
  <2>. QED
    BY <2>2, <2>3 DEF IInv
<1>. QED
  BY <1>1, TMStepKeeps, LogWriteKeeps, LogStepKeeps, EndTxKeeps, PowerLossKeeps, OpenStepKeeps,
     ReplayEndsKeeps, UndoAbortedKeeps DEF DurabilityNext

THEOREM DurabilityInvariance == DurabilitySpec => []IInv
  BY DurabilityInitIInv, DurabilityNextIInv, PTL DEF DurabilitySpec

(* For any number of transactions, records and crashes: what Commit or Abort  *)
(* returned for stays in the xid file (transaction_manager.go).               *)
THEOREM OutcomesAreDurable == DurabilitySpec => []OutcomeIsDurable
<1>1. IInv => OutcomeIsDurable
  BY FileFacts DEF IInv, TInv, OutcomeIsDurable, checkXID
<1>. QED
  BY <1>1, DurabilityInvariance, PTL

(* No record whose Log returned is lost, and none is written over another or  *)
(* out of next's reach (logger.go).                                           *)
THEOREM LogStaysSound == DurabilitySpec => []LogIsSound
<1>1. IInv => LogIsSound
  BY DEF IInv, LInv, LogIsSound, LG!AckedIsKept, LG!AppendsAtEnd
<1>. QED
  BY <1>1, DurabilityInvariance, PTL

(* A transaction the xid file on disk calls committed has every record it     *)
(* wrote in the log, synced, after any crashes.                               *)
THEOREM CommitsAreDurable == DurabilitySpec => []CommitIsDurable
<1>1. IInv => CommitIsDurable
  <2>. SUFFICES ASSUME IInv, NEW x \in XID, x \in DOMAIN onDisk.bytes, onDisk.bytes[x] = "committed",
                       NEW n \in wrote[x]
                PROVE  n <= acked /\ n <= records /\ owner[n] = x
    BY DEF CommitIsDurable
  <2>1. x \in 1..Len(bytes) /\ bytes[x] = "committed"
    BY FileFacts DEF IInv, TInv
  <2>2. n <= acked /\ owner[n] = x
    BY <2>1 DEF IInv, DInv, Synced
  <2>3. n \in Nat /\ acked \in Nat /\ records \in Nat /\ acked <= records
    BY Constants DEF IInv, DInv, LInv
  <2>. QED
    BY <2>2, <2>3
<1>. QED
  BY <1>1, DurabilityInvariance, PTL

(* Before the database serves, Recovery has ended every transaction with a    *)
(* record that the crash left active (recovery.go:86).                        *)
THEOREM RecoveryEndsLosers == DurabilitySpec => []LosersAreEnded
<1>1. IInv => LosersAreEnded
  BY DEF IInv, DInv, LosersAreEnded, Serving
<1>. QED
  BY <1>1, DurabilityInvariance, PTL

(* Begin never takes an xid that it returned before.                          *)
THEOREM XidsNeverReused == DurabilitySpec => XidsAreFresh
<1>1. IInv /\ [DurabilityNext]_vars => [pc' = "beginSync" => arg' \notin begun]_tmVars
  <2>. SUFFICES ASSUME IInv, [DurabilityNext]_vars, pc' = "beginSync", ~UNCHANGED tmVars
                PROVE  arg' \notin begun
    OBVIOUS
  <2>1. BeginStatus
    BY DEF DurabilityNext, vars, TMStep, BeginReturns, LogStep, LogReturns, Log, UndoAbort, EndTx, PowerLoss,
           OpenXidFile, OpenLog, Replay, ReplayEnds, UndoAborted, ReplayRestart, BeginStatusSync, BeginHeader,
           BeginHeaderSync, End, EndSync, Crash, Open, Goto, IInv, TInv
  <2>. QED
    BY <2>1, BeginKeeps DEF IInv
<1>. QED
  BY <1>1, DurabilityInvariance, PTL DEF DurabilitySpec, XidsAreFresh

(* When Recovery stops reading the log it has read every record.              *)
THEOREM RecoveryReadsAll == DurabilitySpec => ReplayIsComplete
<1>1. IInv /\ [DurabilityNext]_vars => [lmode = "replay" /\ lmode' = "up" => pos = LG!EndOf(records)]_vars
  <2>. SUFFICES ASSUME IInv, [DurabilityNext]_vars, lmode = "replay", lmode' = "up"
                PROVE  pos = LG!EndOf(records)
    OBVIOUS
  <2>1. LG!NextEnd
    BY DEF DurabilityNext, vars, lgVars, TMStep, BeginReturns, LogStep, LogReturns, Log, UndoAbort, EndTx, PowerLoss,
           OpenXidFile, OpenLog, Replay, ReplayEnds, UndoAborted, ReplayRestart, LG!LogSum, LG!LogSync, LG!LogWrite,
           LG!Crash, LG!Open, LG!NextRecord, LG!NextError, LG!Restart
  <2>. QED
    BY <2>1, ReplayReadsAll DEF IInv
<1>. QED
  BY <1>1, DurabilityInvariance, PTL DEF DurabilitySpec, ReplayIsComplete
=============================================================================

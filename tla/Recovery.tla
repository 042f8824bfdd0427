------------------------------ MODULE Recovery ------------------------------
(* backend/dm: insertion and update of data items with write-ahead logging,  *)
(* the clean-shutdown mark of page 1, crashes, and the redo and undo passes  *)
(* of Recovery, under the calls the serializability manager makes.  A raw    *)
(* data item is its valid flag and the xmin and xmax of the entry in it.  A  *)
(* page is a row of slots, each as wide as the free space offset (FSO) at    *)
(* offset 0: _PX_OF_DATA is 1 and PAGE_SIZE is Slots + 1.  Log is one        *)
(* durable step here (module Logger), as is a status byte of the xid file    *)
(* (module TransactionManager).                                              *)
EXTENDS Naturals, Sequences, SequencesExt, FiniteSets

CONSTANTS MaxXID,     \* transactions 1..MaxXID
          Pages,      \* page numbers 2..Pages hold data, 1 is page1
          Slots,      \* items that fit in a page
          MaxLog,     \* bound on the length of the log
          MaxStops,   \* bound on the crashes and shutdowns
          TornFSO     \* what a crash may leave in the FSO of a page being written

SUPER_XID == 0
XID == 1..MaxXID
Pgno == 2..Pages
Slot == 1..Slots
PX_OF_DATA == 1
PAGE_SIZE == Slots + 1
Near == PAGE_SIZE + 1  \* an FSO past the page, by less than a class of the page index
Far == PAGE_SIZE + 2   \* by more, such as 0xFFFF
FSO == 0..Far

ASSUME RecoveryAssumption ==
  /\ MaxXID \in Nat /\ Pages \in Nat /\ Slots \in Nat /\ MaxLog \in Nat /\ MaxStops \in Nat
  /\ TornFSO \subseteq FSO

Raw == [valid : BOOLEAN, xmin : 0..MaxXID, xmax : 0..MaxXID]
Zero == [valid |-> FALSE, xmin |-> SUPER_XID, xmax |-> SUPER_XID]
Page == [fso : FSO, item : [Slot -> Raw]]
PXInitRaw == [fso |-> PX_OF_DATA, item |-> [s \in Slot |-> Zero]]

(* An item below _PX_OF_DATA has slot 0: it lies over the FSO, and its       *)
(* content is not kept.                                                      *)
Uid == [pgno : Pgno, slot : 0..Slots]
Row == [pgno : Pgno, slot : Slot]
NoUid == [pgno |-> 0, slot |-> 0]

(* A call on an item: between the log record and the page in Insert, in      *)
(* Delete's wait for the row lock, and between SetXMAX and After's record.   *)
Idle == [at |-> "idle", uid |-> NoUid]
Op == [at : {"insert", "wait", "update"}, uid : Uid] \cup {Idle}

(* InsertLog and UpdateLog records. *)
Record == [type : {"insert", "update"}, xid : 0..MaxXID, uid : Uid, old : Raw, new : Raw]

VARIABLES log,         \* the log file
          disk,        \* the pages in the database file
          mem,         \* the pages as the page cache shows them
          noPages,     \* pages in the database file, page1 included
          p1,          \* page1 on disk: "open" or "clean"
          status,      \* the xid file
          phase,       \* where each transaction is in the serializability manager
          locks,       \* the rows each one has locked
          op,          \* the call each one is in
          oldraw,      \* di.oldraw of the update in progress
          mode,        \* what the process is doing
          pos,         \* redo: next record
          todo,        \* undo: keys of logCache not handled yet
          cur,         \* undo: the key being handled, or SUPER_XID
          rest,        \* undo: its records that are left, last one first
          stops,       \* crashes and shutdowns so far
          overwritten, \* history: rows whose mark, not an aborted one, was replaced
          overtaken,   \* history: Close overtook a call, or a crash overtook Close
          low,         \* history: pages left with an FSO below the data area
          losers       \* history: active transactions when this recovery began

db == <<log, disk, mem, noPages, p1>>
txn == <<status, phase, locks, op, oldraw>>
hist == <<overwritten, overtaken, low>>
rec == <<pos, todo, cur, rest, losers>>
vars == <<log, disk, mem, noPages, p1, status, phase, locks, op, oldraw, mode, pos,
          todo, cur, rest, losers, stops, overwritten, overtaken, low>>

TypeOK ==
  /\ log \in Seq(Record) /\ Len(log) <= MaxLog
  /\ disk \in [Pgno -> Page] /\ mem \in [Pgno -> Page]
  /\ noPages \in 1..Pages
  /\ p1 \in {"open", "clean"}
  /\ status \in [XID -> {"none", "active", "committed", "aborted"}]
  /\ phase \in [XID -> {"none", "run", "committing", "aborting"}]
  /\ locks \in [XID -> SUBSET Row]
  /\ op \in [0..MaxXID -> Op]
  /\ oldraw \in Raw
  /\ mode \in {"up", "closing", "cut", "closed", "down", "redo", "undo", "panicked"}
  /\ pos \in 1..(MaxLog + 1)
  /\ todo \in SUBSET XID /\ losers \in SUBSET XID
  /\ cur \in 0..MaxXID /\ rest \in Seq(1..MaxLog)
  /\ stops \in 0..MaxStops
  /\ overwritten \in SUBSET Row /\ overtaken \in BOOLEAN /\ low \in SUBSET Pgno

(* After Create: page1 only, marked open. *)
Init ==
  /\ log = <<>>
  /\ disk = [p \in Pgno |-> PXInitRaw] /\ mem = disk
  /\ noPages = 1 /\ p1 = "open"
  /\ status = [x \in XID |-> "none"]
  /\ phase = [x \in XID |-> "none"]
  /\ locks = [x \in XID |-> {}]
  /\ op = [x \in 0..MaxXID |-> Idle] /\ oldraw = Zero
  /\ mode = "up" /\ pos = 1 /\ todo = {} /\ cur = SUPER_XID /\ rest = <<>>
  /\ stops = 0 /\ overwritten = {} /\ overtaken = FALSE /\ low = {} /\ losers = {}
-----------------------------------------------------------------------------
IsActive(x) == x # SUPER_XID /\ status[x] = "active"
IsCommitted(x) == x # SUPER_XID => status[x] = "committed"

At(m, u) == m[u.pgno].item[u.slot]
Items(pg, s, raw) == [t \in Slot |-> IF t = s THEN raw ELSE pg.item[t]]
Put(m, u, raw) == [m EXCEPT ![u.pgno].item = Items(m[u.pgno], u.slot, raw)]

(* Goroutines run until the process ends, Close or not; Log fails from       *)
(* lg.Close on.                                                              *)
Live == mode \in {"up", "closing", "cut", "closed"}
LogOpen == mode \in {"up", "closing"}

(* A call is between taking page p and releasing it. *)
InUse(p) == \E x \in 0..MaxXID : op[x].uid.pgno = p
Taken(p) == \E x \in 0..MaxXID : op[x].at = "insert" /\ op[x].uid.pgno = p
FirstFree(p) == [pgno |-> p, slot |-> mem[p].fso]

(* sm.lock, which SM.Insert and the last part of SM.Delete hold. *)
smFree == \A x \in XID : op[x].at \notin {"insert", "update"}

(* Bound: room in the log for the update under way and one record more. *)
LogRoom == Len(log) + Cardinality({x \in XID : op[x].at = "update"}) < MaxLog

Begin(x) ==
  /\ mode \in {"up", "closing", "cut"} /\ smFree
  /\ status[x] = "none"
  /\ \A y \in 1..(x - 1) : status[y] # "none"
  /\ status' = [status EXCEPT ![x] = "active"]
  /\ phase' = [phase EXCEPT ![x] = "run"]
  /\ UNCHANGED <<db, locks, op, oldraw, mode, rec, stops, hist>>

(* pcacher.NewPage: the initial page is written and synced. *)
NewPage ==
  /\ Live /\ mode # "closed"
  /\ noPages < Pages
  /\ \A p \in 2..noPages : mem[p].fso > Slots \/ Taken(p)
  /\ noPages' = noPages + 1
  /\ disk' = [disk EXCEPT ![noPages + 1] = PXInitRaw]
  /\ mem' = [mem EXCEPT ![noPages + 1] = PXInitRaw]
  /\ UNCHANGED <<log, p1, txn, mode, rec, stops, hist>>

(* dataManager.Insert, for a transaction or for the index: pidx.Select hands *)
(* page p to one caller; the log record first,                               *)
InsertLog(x, p) ==
  LET u == FirstFree(p) IN
  /\ LogOpen
  /\ x # SUPER_XID => phase[x] = "run" /\ smFree
  /\ op[x] = Idle
  /\ LogRoom
  /\ p <= noPages /\ mem[p].fso <= Slots /\ ~Taken(p)
  /\ log' = Append(log, [type |-> "insert", xid |-> x, uid |-> u, old |-> Zero,
                         new |-> [valid |-> TRUE, xmin |-> x, xmax |-> SUPER_XID]])
  /\ op' = [op EXCEPT ![x] = [at |-> "insert", uid |-> u]]
  /\ UNCHANGED <<disk, mem, noPages, p1, status, phase, locks, oldraw, mode, rec,
                 stops, hist>>

(* then PXInsert. *)
PXInsert(x) ==
  LET u == op[x].uid IN
  /\ Live
  /\ op[x].at = "insert"
  /\ mem' = [Put(mem, u, [valid |-> TRUE, xmin |-> x, xmax |-> SUPER_XID])
               EXCEPT ![u.pgno].fso = u.slot + 1]
  /\ op' = [op EXCEPT ![x] = Idle]
  /\ UNCHANGED <<log, disk, noPages, p1, status, phase, locks, oldraw, mode, rec,
                 stops, hist>>

(* SM.Delete: a row that x sees is waited for with sm.lock released.  Read   *)
(* committed, the default level, is modelled: a repeatable read transaction  *)
(* sees and replaces no more (module SerializabilityManager).                *)
Delete(x, u) ==
  LET raw == At(mem, u) IN
  /\ mode \in {"up", "closing", "cut"} /\ smFree
  /\ phase[x] = "run" /\ op[x] = Idle
  /\ LogRoom
  /\ u.slot < mem[u.pgno].fso /\ raw.valid
  /\ \/ raw.xmin = x /\ raw.xmax = SUPER_XID
     \/ /\ IsCommitted(raw.xmin)
        /\ raw.xmax # SUPER_XID => raw.xmax # x /\ ~IsCommitted(raw.xmax)
  /\ op' = [op EXCEPT ![x] = [at |-> "wait", uid |-> u]]
  /\ UNCHANGED <<db, status, phase, locks, oldraw, mode, rec, stops, hist>>

(* With the row's lock, all of it under sm.lock: Before and the change to    *)
(* the page.  IsVersionSkip tests nothing at read committed, so the mark of  *)
(* a deleter that committed meanwhile is replaced;                           *)
SetXMAX(x) ==
  LET u == op[x].uid
      raw == At(mem, u) IN
  /\ Live /\ smFree
  /\ op[x].at = "wait"
  /\ \A y \in XID \ {x} : u \notin locks[y]
  /\ LogRoom
  /\ mem' = Put(mem, u, [raw EXCEPT !.xmax = x])
  /\ locks' = [locks EXCEPT ![x] = @ \cup {u}]
  /\ op' = [op EXCEPT ![x].at = "update"]
  /\ oldraw' = raw
  /\ overwritten' = IF raw.xmax # SUPER_XID /\ status[raw.xmax] # "aborted"
                    THEN overwritten \cup {u} ELSE overwritten
  /\ UNCHANGED <<log, disk, noPages, p1, status, phase, mode, rec, stops, overtaken, low>>

(* then After: the log record.  An error of Log is dropped. *)
After(x) ==
  LET u == op[x].uid IN
  /\ Live
  /\ op[x].at = "update"
  /\ IF LogOpen
     THEN /\ log' = Append(log, [type |-> "update", xid |-> x, uid |-> u,
                                 old |-> oldraw, new |-> At(mem, u)])
          /\ UNCHANGED overtaken
     ELSE overtaken' = TRUE /\ UNCHANGED log
  /\ op' = [op EXCEPT ![x] = Idle]
  /\ oldraw' = Zero
  /\ UNCHANGED <<disk, mem, noPages, p1, status, phase, locks, mode, rec, stops,
                 overwritten, low>>

(* SM.Commit and SM.abort: the locks go first, *)
Leave(x, ph) ==
  /\ Live /\ smFree
  /\ phase[x] = "run" /\ op[x] = Idle
  /\ phase' = [phase EXCEPT ![x] = ph]
  /\ locks' = [locks EXCEPT ![x] = {}]
  /\ UNCHANGED <<db, status, op, oldraw, mode, rec, stops, hist>>

(* then TM.Commit or TM.Abort; the xid file is closed after the database. *)
Mark(x) ==
  /\ Live
  /\ phase[x] \in {"committing", "aborting"}
  /\ status' = [status EXCEPT ![x] = IF phase[x] = "committing" THEN "committed" ELSE "aborted"]
  /\ phase' = [phase EXCEPT ![x] = "none"]
  /\ UNCHANGED <<db, locks, op, oldraw, mode, rec, stops, hist>>

(* Mutant: a page is written while a call is changing it. *)
FlushInUse(p) ==
  /\ Live /\ mode # "closed"
  /\ disk[p] # mem[p]
  /\ disk' = [disk EXCEPT ![p] = mem[p]]
  /\ UNCHANGED <<log, mem, noPages, p1, txn, mode, rec, stops, hist>>

(* The last user of page p released it: releaseForCacher writes it.  Readers *)
(* delay it at will.                                                         *)
Flush(p) ==
  /\ Live /\ mode # "closed"
  /\ ~InUse(p)
  /\ disk[p] # mem[p]
  /\ disk' = [disk EXCEPT ![p] = mem[p]]
  /\ UNCHANGED <<log, mem, noPages, p1, txn, mode, rec, stops, hist>>

(* dataManager.Close, which tests nothing and stops nobody: page1 is marked  *)
(* and written,                                                              *)
CloseMark ==
  /\ mode = "up"
  /\ stops < MaxStops
  /\ p1' = "clean"
  /\ mode' = "closing"
  /\ UNCHANGED <<log, disk, mem, noPages, txn, rec, stops, hist>>

(* lg.Close,                                                                 *)
CloseLog ==
  /\ mode = "closing"
  /\ mode' = "cut"
  /\ UNCHANGED <<db, txn, rec, stops, hist>>

(* then pc.Close writes the pages that are still in the cache, in use or not. *)
ClosePages ==
  /\ mode = "cut"
  /\ disk' = mem
  /\ mode' = "closed"
  /\ overtaken' = (overtaken \/ \E x \in 0..MaxXID : op[x].at \in {"insert", "update"})
  /\ UNCHANGED <<log, mem, noPages, p1, txn, rec, stops, overwritten, low>>

(* The process ends and leaves d in the database file.  The clean mark is    *)
(* wrong when a page was not written or an insertion was logged only.        *)
Down(d) ==
  /\ disk' = d /\ mem' = d
  /\ phase' = [x \in XID |-> "none"]
  /\ locks' = [x \in XID |-> {}]
  /\ op' = [x \in 0..MaxXID |-> Idle]
  /\ oldraw' = Zero
  /\ mode' = "down" /\ pos' = 1
  /\ todo' = {} /\ cur' = SUPER_XID /\ rest' = <<>> /\ losers' = {}
  /\ overtaken' = \/ overtaken
                  \/ p1 = "clean" /\ (d # mem \/ \E p \in Pgno : Taken(p))
  /\ low' = low \cup {p \in Pgno : d[p].fso < PX_OF_DATA}
  /\ UNCHANGED <<log, noPages, p1, status, overwritten>>

(* openDB returns. *)
Exit ==
  /\ mode = "closed"
  /\ stops' = stops + 1
  /\ Down(disk)

(* A crash; when it falls into the write of a page it can damage the FSO. *)
Crash ==
  /\ mode \notin {"down", "closed", "panicked"}
  /\ stops < MaxStops
  /\ stops' = stops + 1
  /\ \/ Down(disk)
     \/ \E p \in 2..noPages, f \in TornFSO :
          /\ Live
          /\ disk[p].fso # mem[p].fso /\ ~InUse(p)
          /\ Down([disk EXCEPT ![p].fso = f])
-----------------------------------------------------------------------------
(* PXRecoverUpdate, and PXRecoverInsert with its check of the FSO. *)
PXRecoverUpdate(pg, s, raw) == [pg EXCEPT !.item = Items(pg, s, raw)]

(* Mutant: the FSO is left as it is on disk. *)
PXRecoverInsertKeepFSO(pg, s, raw) == {[pg EXCEPT !.item = Items(pg, s, raw)]}

(* The pages it may leave: an item at offset 0 is read as the FSO, which can *)
(* then be any.                                                              *)
PXRecoverInsert(pg, s, raw) ==
  LET logFSO == s + 1
      Fixed(f) == LET currentFSO == IF f < PX_OF_DATA \/ f > PAGE_SIZE THEN logFSO ELSE f
                  IN IF logFSO > currentFSO THEN logFSO ELSE f
  IN {[fso |-> Fixed(f), item |-> Items(pg, s, raw)] :
        f \in IF s < PX_OF_DATA THEN FSO ELSE {pg.fso}}

(* doInsertLog and doUpdateLog on the page of record r.  Recovery is the     *)
(* only user, so releasing the page writes it.                               *)
Apply(r, flag) ==
  LET raw == IF flag = "redo" THEN r.new
             ELSE IF r.type = "insert" THEN [r.new EXCEPT !.valid = FALSE] ELSE r.old
      pg == mem[r.uid.pgno]
  IN \E pg2 \in IF r.type = "insert" THEN PXRecoverInsert(pg, r.uid.slot, raw)
                                     ELSE {PXRecoverUpdate(pg, r.uid.slot, raw)} :
       /\ mem' = [mem EXCEPT ![r.uid.pgno] = pg2]
       /\ disk' = [disk EXCEPT ![r.uid.pgno] = pg2]

(* The rest of Open: fillPindex, whose Add has no class for a page with much *)
(* less than no room and panics, then P1SetVCOpen and FlushPage.             *)
fillPindex ==
  IF \E p \in 2..noPages : mem[p].fso = Far
  THEN mode' = "panicked" /\ UNCHANGED p1
  ELSE mode' = "up" /\ p1' = "open"

(* Open when page1 carries the clean mark: no recovery. *)
OpenClean ==
  /\ mode = "down"
  /\ p1 = "clean"
  /\ fillPindex
  /\ UNCHANGED <<log, disk, mem, noPages, txn, rec, stops, hist>>

(* Open otherwise.  Recovery first truncates the file to the last page the   *)
(* log mentions;                                                             *)
TruncateByPgno ==
  /\ mode = "down"
  /\ p1 = "open"
  /\ noPages' = Max({1} \cup {log[i].uid.pgno : i \in 1..Len(log)})
  /\ disk' = [p \in Pgno |-> IF p <= noPages' THEN disk[p] ELSE PXInitRaw]
  /\ mem' = disk'
  /\ mode' = "redo"
  /\ losers' = {x \in XID : IsActive(x)}
  /\ UNCHANGED <<log, p1, txn, pos, todo, cur, rest, stops, hist>>

(* Mutant: the test on the status is inverted. *)
RedoActive ==
  /\ mode = "redo"
  /\ pos <= Len(log)
  /\ IF IsActive(log[pos].xid) THEN Apply(log[pos], "redo") ELSE UNCHANGED <<mem, disk>>
  /\ pos' = pos + 1
  /\ UNCHANGED <<log, noPages, p1, txn, mode, todo, cur, rest, stops, hist, losers>>

(* redoTransactions repeats every record of a transaction not active;        *)
Redo ==
  /\ mode = "redo"
  /\ pos <= Len(log)
  /\ IF IsActive(log[pos].xid) THEN UNCHANGED <<mem, disk>> ELSE Apply(log[pos], "redo")
  /\ pos' = pos + 1
  /\ UNCHANGED <<log, noPages, p1, txn, mode, todo, cur, rest, stops, hist, losers>>

(* undoTransactions collects the others in logCache                          *)
Collect ==
  /\ mode = "redo"
  /\ pos > Len(log)
  /\ mode' = "undo"
  /\ todo' = {x \in XID : IsActive(x) /\ \E i \in 1..Len(log) : log[i].xid = x}
  /\ UNCHANGED <<db, txn, pos, cur, rest, stops, hist, losers>>

(* Mutant: the records are undone in the order of the log. *)
UndoPickForward(x) ==
  /\ mode = "undo"
  /\ cur = SUPER_XID /\ x \in todo
  /\ cur' = x
  /\ todo' = todo \ {x}
  /\ rest' = SetToSortSeq({i \in 1..Len(log) : log[i].xid = x}, <)
  /\ UNCHANGED <<db, txn, mode, pos, stops, hist, losers>>

(* and takes them in any order,                                              *)
UndoPick(x) ==
  /\ mode = "undo"
  /\ cur = SUPER_XID /\ x \in todo
  /\ cur' = x
  /\ todo' = todo \ {x}
  /\ rest' = Reverse(SetToSortSeq({i \in 1..Len(log) : log[i].xid = x}, <))
  /\ UNCHANGED <<db, txn, mode, pos, stops, hist, losers>>

(* undoing the records of each in reverse                                    *)
Undo ==
  /\ mode = "undo"
  /\ rest # <<>>
  /\ Apply(log[Head(rest)], "undo")
  /\ rest' = Tail(rest)
  /\ UNCHANGED <<log, noPages, p1, txn, mode, pos, todo, cur, stops, hist, losers>>

(* and marking it aborted.                                                   *)
UndoAbort ==
  /\ mode = "undo"
  /\ cur # SUPER_XID /\ rest = <<>>
  /\ status' = [status EXCEPT ![cur] = "aborted"]
  /\ cur' = SUPER_XID
  /\ UNCHANGED <<db, phase, locks, op, oldraw, mode, pos, todo, rest, stops, hist, losers>>

FinishOpen ==
  /\ mode = "undo"
  /\ cur = SUPER_XID /\ todo = {}
  /\ fillPindex
  /\ pos' = 1
  /\ UNCHANGED <<log, disk, mem, noPages, txn, todo, cur, rest, stops, hist, losers>>
-----------------------------------------------------------------------------
Next ==
  \/ \E x \in XID :
       \/ Begin(x)
       \/ \E u \in Row : Delete(x, u)
       \/ SetXMAX(x) \/ After(x)
       \/ Leave(x, "committing") \/ Leave(x, "aborting") \/ Mark(x)
       \/ UndoPick(x)
  \/ \E x \in 0..MaxXID : PXInsert(x) \/ \E p \in Pgno : InsertLog(x, p)
  \/ \E p \in Pgno : Flush(p)
  \/ NewPage \/ CloseMark \/ CloseLog \/ ClosePages \/ Exit \/ Crash
  \/ OpenClean \/ TruncateByPgno \/ Redo \/ Collect \/ Undo \/ UndoAbort \/ FinishOpen

Spec == Init /\ [][Next]_vars
-----------------------------------------------------------------------------
(* The call that logged record i has also changed the page. *)
Done(i) == op[log[i].xid] # [at |-> "insert", uid |-> log[i].uid]

(* The effect of record i shows in the pages: the row is there, and deleted  *)
(* by a committed transaction when i is an update of a row whose mark nobody *)
(* replaced.                                                                 *)
Shows(i) ==
  LET raw == At(mem, log[i].uid) IN
  /\ raw.valid
  /\ log[i].type = "update" /\ log[i].uid \notin overwritten =>
       raw.xmax # SUPER_XID /\ IsCommitted(raw.xmax)

(* While the database serves calls, every insertion and deletion of a        *)
(* committed transaction shows, whatever crashes, crashes of recovery itself *)
(* included, came before.  Excepted are: deletions whose mark a second       *)
(* Delete replaced, because it waited for the row at read committed, or came *)
(* when the first had released its locks and not reached the xid file, or    *)
(* met an open transaction that a clean Close left behind; a Close that      *)
(* overtook a call or was cut by a crash; and pages a crash left with an FSO *)
(* below the data area.                                                      *)
CommittedSurvives ==
  mode = "up" /\ ~overtaken =>
    \A i \in 1..Len(log) :
      IsCommitted(log[i].xid) /\ Done(i) /\ log[i].uid.pgno \notin low => Shows(i)

(* readme.md:112, a power failure recovers to a consistent state: the last   *)
(* deletion of a row survives when its transaction is committed.  The code   *)
(* does not keep this.                                                       *)
LastDeletionSurvives ==
  mode = "up" /\ ~overtaken =>
    \A i \in 1..Len(log) :
      /\ log[i].type = "update" /\ IsCommitted(log[i].xid)
      /\ log[i].uid.pgno \notin low
      /\ \A x \in XID : op[x].uid # log[i].uid
      /\ \A j \in (i + 1)..Len(log) : log[j].uid # log[i].uid
      => LET raw == At(mem, log[i].uid) IN raw.xmax # SUPER_XID /\ IsCommitted(raw.xmax)

(* data_manager.go:154, "Mark page1 as cleanly closed, so recovery is        *)
(* skipped on next open": the rows committed transactions inserted are there *)
(* also when Open trusts the mark.  The code does not keep this.             *)
CommittedRowsSurvive ==
  mode = "up" =>
    \A i \in 1..Len(log) :
      /\ log[i].type = "insert" /\ IsCommitted(log[i].xid) /\ Done(i)
      /\ log[i].uid.pgno \notin low
      => At(mem, log[i].uid).valid

(* When recovery is over, a transaction it found active and with records in  *)
(* the log is aborted, its insertions are invalid and its deletions gone,    *)
(* save for the rows and pages that CommittedSurvives excepts.               *)
LosersAreUndone ==
  mode = "up" =>
    \A i \in 1..Len(log) : log[i].xid \in losers =>
      /\ status[log[i].xid] = "aborted"
      /\ ~overtaken /\ log[i].uid.pgno \notin low =>
           /\ log[i].type = "insert" => ~At(mem, log[i].uid).valid
           /\ log[i].uid \notin overwritten => At(mem, log[i].uid).xmax # log[i].xid

(* Write-ahead rule: what the database file holds of an item is what some    *)
(* record of the log says of it, unless Close overtook the call (After drops *)
(* the error of a closed log) or the page had a low FSO.                     *)
LoggedBeforeWritten ==
  ~overtaken =>
    \A u \in Row : At(disk, u) # Zero /\ u.pgno \notin low =>
      \E i \in 1..Len(log) :
        /\ log[i].uid = u
        /\ At(disk, u) \in {log[i].new, log[i].old, [log[i].new EXCEPT !.valid = FALSE]}

(* No place in a page is given to two insertions, even when a crash lost the *)
(* page after the first was logged or left a wrong FSO inside the page: redo *)
(* and undo raise the FSO past every logged item.  Excepted are a Close that *)
(* overtook a call or was cut by a crash, and an FSO left below the data     *)
(* area, which PXRecoverInsert finds and leaves.                             *)
SlotsGivenOnce ==
  ~overtaken => \A i, j \in 1..Len(log) :
    /\ log[i].type = "insert" /\ log[j].type = "insert"
    /\ log[i].uid = log[j].uid /\ log[i].uid.pgno \notin low
    => i = j

(* pageX.go:66 and recovery.go:211: an FSO damaged by the crash is detected  *)
(* and repaired.  The code does not keep this.                               *)
FSORepaired ==
  mode = "up" => \A p \in 2..noPages : mem[p].fso \in PX_OF_DATA..PAGE_SIZE

(* The same comment names 0xFFFF: with it Open comes up.  The code does not  *)
(* keep this.                                                                *)
OpensAfterTornFSO == mode # "panicked"

(* An insertion never lands on the FSO or on the place of an earlier one,    *)
(* whatever the crash left in the FSO.  The code does not keep this.         *)
ItemsStayApart ==
  ~overtaken => \A i, j \in 1..Len(log) :
    log[i].type = "insert" /\ log[j].type = "insert" =>
      log[i].uid.slot >= PX_OF_DATA /\ (log[i].uid = log[j].uid => i = j)
=============================================================================

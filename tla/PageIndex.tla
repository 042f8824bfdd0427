------------------------------ MODULE PageIndex ------------------------------
(***************************************************************************)
(* Where an inserted item goes: DataManager.Insert of dm/data_manager.go   *)
(* with the page index of dm/pindex/pindex.go and the free space offset of *)
(* dm/pageX.go.  A page is selected out of the index, written by the one   *)
(* inserter that holds it and put back with the space it has left.         *)
(*                                                                         *)
(* The lists of the index are one set of pairs, the class of a pair being  *)
(* its list; within a list any pair may come first.                        *)
(***************************************************************************)
EXTENDS Integers, FiniteSets

CONSTANTS
    Proc,         \* the goroutines that insert
    PAGE_SIZE,    \* pcacher.PAGE_SIZE
    NO_INTERVAL,  \* the number of classes but one
    PX_OF_DATA,   \* the bytes in front of the items of a page
    Size,         \* the lengths of the wrapped items inserted
    Tries,        \* how often Insert selects
    MaxPages      \* bound on the pages

THRESHOLD == PAGE_SIZE \div NO_INTERVAL
PXMaxFreeSpace == PAGE_SIZE - PX_OF_DATA

ASSUME PageIndexAssumption ==
    /\ PAGE_SIZE \in Nat /\ NO_INTERVAL \in Nat \ {0} /\ PX_OF_DATA \in Nat \ {0}
    /\ NO_INTERVAL * THRESHOLD <= PXMaxFreeSpace   \* an empty page is in the last class
    /\ THRESHOLD > 0
    /\ Size \subseteq Nat \ {0} /\ Tries \in Nat \ {0}
    /\ MaxPages \in Nat

VARIABLES
    noPages,      \* pcacher.noPages; page 1 is not for items
    fso,          \* page -> its free space offset
    pidx,         \* the index: pairs [pgno, free]
    pc,           \* inserter -> where it stands in Insert
    op,           \* inserter -> [size, try, pgno, free] of its call
    taken,        \* inserter -> the selections of others during its call, up to Tries
    leaked        \* pages with a reference nobody releases

vars == <<noPages, fso, pidx, pc, op, taken, leaked>>

Idle == [size |-> 0, try |-> 0, pgno |-> 0, free |-> 0]
Page == 2 .. noPages

PXFreeSpace(pg) == PAGE_SIZE - fso[pg]

\* Division in Go rounds to zero.
Class(free) == IF free >= 0 THEN free \div THRESHOLD ELSE -((-free) \div THRESHOLD)

\* As FirstClass, the class of the size itself.
FirstClassSame(size) == Class(size)
FirstClass(size) == IF Class(size) < NO_INTERVAL THEN Class(size) + 1 ELSE Class(size)

\* The pairs Select may return: of the first list that is not empty.
Selectable(size) ==
    {pr \in pidx : /\ Class(pr.free) >= FirstClass(size)
                   /\ \A q \in pidx : Class(q.free) >= FirstClass(size) => Class(pr.free) <= Class(q.free)}

At(p, from, to) == pc[p] = from /\ pc' = [pc EXCEPT ![p] = to]
Leave(p) == op' = [op EXCEPT ![p] = Idle] /\ taken' = [taken EXCEPT ![p] = 0]

Insert(p, size) ==
    /\ size <= PXMaxFreeSpace                         \* else ErrDataTooLarge
    /\ At(p, "idle", "select")
    /\ op' = [op EXCEPT ![p] = [Idle EXCEPT !.size = size]]
    /\ UNCHANGED <<noPages, fso, pidx, taken, leaked>>

Select(p) ==
    /\ At(p, "select", "get")
    /\ \E pr \in Selectable(op[p].size) :
         /\ pidx' = pidx \ {pr}
         /\ op' = [op EXCEPT ![p].pgno = pr.pgno, ![p].free = pr.free]
    /\ taken' = [q \in Proc |-> IF q # p /\ pc[q] \in {"select", "new"} /\ taken[q] < Tries
                                THEN taken[q] + 1 ELSE taken[q]]
    /\ UNCHANGED <<noPages, fso, leaked>>

\* The page takes its place in the file before the index has it.  NewPage's number and its
\* write are one step here (PageCache.tla has two): nobody else knows the page before
\* AddNew.  Only a crash tells them apart: if another inserter has logged an item on a
\* later page, the unwritten one stays in the file with an offset of 0, which Recovery.tla
\* has among the offsets a crash can leave.
SelectNone(p) ==
    /\ At(p, "select", "new")
    /\ Selectable(op[p].size) = {} /\ noPages < MaxPages
    /\ noPages' = noPages + 1
    /\ fso' = [pg \in 2 .. noPages + 1 |-> IF pg \in Page THEN fso[pg] ELSE PX_OF_DATA]
    /\ op' = [op EXCEPT ![p].pgno = noPages + 1]
    /\ UNCHANGED <<pidx, taken, leaked>>

LastTry(p) == op[p].try + 1 = Tries

\* After the last try the loop ends without another selection: ErrBusy.
AddNew(p) ==
    /\ At(p, "new", IF LastTry(p) THEN "idle" ELSE "select")
    /\ pidx' = pidx \cup {[pgno |-> op[p].pgno, free |-> PXMaxFreeSpace]}
    /\ \/ LastTry(p) /\ Leave(p)
       \/ /\ ~LastTry(p) /\ op' = [op EXCEPT ![p].try = @ + 1, ![p].pgno = 0]
          /\ UNCHANGED taken
    /\ UNCHANGED <<noPages, fso, leaked>>

GetPage(p) == At(p, "get", "log") /\ UNCHANGED <<noPages, fso, pidx, op, taken, leaked>>

\* The page cache is full or the read fails: the pair goes back as it was.
GetPageFails(p) ==
    /\ At(p, "get", "idle")
    /\ pidx' = pidx \cup {[pgno |-> op[p].pgno, free |-> op[p].free]}
    /\ Leave(p)
    /\ UNCHANGED <<noPages, fso, leaked>>

Log(p) == At(p, "log", "write") /\ UNCHANGED <<noPages, fso, pidx, op, taken, leaked>>

\* The early return runs the deferred Add and not the Release.
LogFails(p) ==
    /\ At(p, "log", "add")
    /\ leaked' = leaked \cup {op[p].pgno}
    /\ UNCHANGED <<noPages, fso, pidx, op, taken>>

\* PXInsert and Release.
PXInsert(p) ==
    /\ At(p, "write", "add")
    /\ fso' = [fso EXCEPT ![op[p].pgno] = @ + op[p].size]
    /\ UNCHANGED <<noPages, pidx, op, taken, leaked>>

\* The deferred function, with the space the page has now.
Add(p) ==
    /\ At(p, "add", "idle")
    /\ pidx' = pidx \cup {[pgno |-> op[p].pgno, free |-> PXFreeSpace(op[p].pgno)]}
    /\ Leave(p)
    /\ UNCHANGED <<noPages, fso, leaked>>

-----------------------------------------------------------------------------
(* Closing, crashing and opening again *)

Writing(pg) == {p \in Proc : pc[p] = "write" /\ op[p].pgno = pg}

\* Where the last logged item of a page ends.
LogFSO(pg) == IF Writing(pg) = {} THEN fso[pg] ELSE fso[pg] + op[CHOOSE p \in Writing(pg) : TRUE].size

Logged == {pg \in Page : LogFSO(pg) > PX_OF_DATA}

\* As fillPindex, one page short.
fillPindexShort(pages, offset) == {[pgno |-> pg, free |-> PAGE_SIZE - offset[pg]] : pg \in pages \ {2}}
fillPindex(pages, offset) == {[pgno |-> pg, free |-> PAGE_SIZE - offset[pg]] : pg \in pages}

Start(n, offset) ==
    /\ noPages' = n /\ fso' = offset
    /\ pidx' = fillPindex(2 .. n, offset)
    /\ pc' = [p \in Proc |-> "idle"] /\ op' = [p \in Proc |-> Idle]
    /\ taken' = [p \in Proc |-> 0] /\ leaked' = {}

Reopen == (\A p \in Proc : pc[p] = "idle") /\ Start(noPages, fso)

\* Recovery cuts the file after the last page the log names and replays the log, which
\* leaves a page's offset behind its last logged item (Recovery.tla).
Crash ==
    \E n \in {1} \cup Logged :
        /\ \A pg \in Logged : pg <= n
        /\ Start(n, [pg \in 2 .. n |-> LogFSO(pg)])

Init ==
    /\ noPages = 1 /\ fso = [pg \in 2 .. 1 |-> 0] /\ pidx = {} /\ leaked = {}
    /\ pc = [p \in Proc |-> "idle"] /\ op = [p \in Proc |-> Idle] /\ taken = [p \in Proc |-> 0]

Step(p) ==
    \/ Select(p) \/ SelectNone(p) \/ AddNew(p) \/ GetPage(p) \/ GetPageFails(p)
    \/ Log(p) \/ LogFails(p) \/ PXInsert(p) \/ Add(p)

Next ==
    \/ \E p \in Proc, size \in Size : Insert(p, size)
    \/ \E p \in Proc : Step(p)
    \/ Reopen
    \/ Crash

Spec == Init /\ [][Next]_vars

-----------------------------------------------------------------------------
Held(p) == pc[p] \in {"new", "get", "log", "write", "add"}

TypeOK ==
    /\ noPages \in Nat \ {0} /\ fso \in [Page -> Nat]
    /\ pidx \subseteq [pgno : Page, free : Int]
    /\ pc \in [Proc -> {"idle", "select", "new", "get", "log", "write", "add"}]
    /\ op \in [Proc -> [size : Nat, try : Nat, pgno : Nat, free : Int]]
    /\ \A p \in Proc : op[p].try < Tries /\ (Held(p) => op[p].pgno \in Page)
    /\ taken \in [Proc -> Nat] /\ leaked \subseteq Page

\* Select takes a page out of the index and Insert puts it back once (data_manager.go:198),
\* so every page is in one place: one pair of the index or one inserter.  No page is
\* lost to inserts, and no two inserters write one page.
OnePlace ==
    /\ \A pg \in Page : (\E pr \in pidx : pr.pgno = pg) \/ (\E p \in Proc : Held(p) /\ op[p].pgno = pg)
    /\ \A pr, q \in pidx : pr.pgno = q.pgno => pr = q
    /\ \A p \in Proc : Held(p) => /\ \A pr \in pidx : pr.pgno # op[p].pgno
                                  /\ \A q \in Proc : Held(q) /\ op[q].pgno = op[p].pgno => p = q

\* The sizes Select has a larger class for.
Fitting(size) == Class(size) < NO_INTERVAL

\* The free space the index has on record is the page's, after any failure or restart
\* (data_manager.go:198), and a page selected for an item has room for it
\* (pindex.go:52), as long as no item of a size of the last class is inserted.
RoomForItem ==
    /\ \A pr \in pidx : pr.free = PXFreeSpace(pr.pgno)
    /\ (\A size \in Size : Fitting(size)) =>
         /\ \A pg \in Page : fso[pg] <= PAGE_SIZE
         /\ \A p \in Proc : pc[p] \in {"get", "log", "write"} =>
                              fso[op[p].pgno] + op[p].size <= PAGE_SIZE

\* Insert gives up with ErrBusy (data_manager.go:194) only when other inserters have
\* selected pages Tries - 1 times during the call: alone it never does.
BusyOnlyByOthers ==
    \A p \in Proc : pc[p] = "new" /\ op[p].try + 1 = Tries => taken[p] >= Tries - 1

\* "Select" chooses a fitting page ("适当的Pgno", pindex.go:24).  The code does not keep
\* this for the sizes of the last class, which has no class above it.
SelectFits ==
    \A p \in Proc : pc[p] = "write" => fso[op[p].pgno] + op[p].size <= PAGE_SIZE
====

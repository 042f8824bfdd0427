# WisDB in TLA+

Specifications of WisDB from the client's prompt down to the log file, the TLC
configurations that check them, and TLAPS proofs of the most important results.
Paths of source files are relative to `src/main/backend/` unless they say
otherwise. `PROJECT.json` maps every definition to the lines it models and lists,
line by line, the hazards the properties are about.

## 1. The system

WisDB is a single-node relational database written in Go.

    shell, round tripper -> transporter -> server/executor -> parser -> TBM (tables)
                                                                       |        \
                                                                       SM        IM (B+ trees)
                                                                      /  \      /
                                                                    TM     DM
                                                               .xid file   pages, WAL, recovery
                                                                           (pcacher, cacher, logger, pindex)

| part | state | what makes it hard | module |
|---|---|---|---|
| lock table `sm/locktable` | five maps under one mutex | the maps are redundant and must agree; a deadlock search on every wait | `LockTable`, `DeadlockSearch` |
| SM `sm` | active transactions `tc`, snapshots, XMIN/XMAX of rows | `sm.lock` is given up between deciding and acting; waits in the middle of `Delete` | `SerializabilityManager` |
| row statements `tbm/table.go` | uuids found earlier, rows read one by one | other transactions run between two rows | `Table` |
| query evaluation `tbm/table.go`, `field.go` | rows, indexes, hidden row index | key ranges at 0 and at the largest key, paging, aggregates, statements that fail midway | `Query` |
| catalogue `tbm/table_manager.go`, `utils/booter` | `tc`, `xtc`, chain of entries, boot file | the chain belongs to transactions, the boot file does not | `Catalog` |
| B+ tree `im` | nodes in data items, root in a boot item | a lock per node only; the root replaced concurrently; splits that fail | `BPlusTree` implements `Index` |
| DM and recovery `dm` | data pages, page 1's shutdown mark, log | write-ahead order, crashes at any point, recovery included | `Recovery` |
| page index `dm/pindex`, `DM.Insert` | pages by class of free space | pages travel between the index and inserters; class boundaries; five tries | `PageIndex` |
| page cache `dm/pcacher`, `utils/cacher` | handles, reference counts, loads, dirty pages | loads and write-backs without the lock | `Cacher`, `PageCache` implements `PageStore` |
| log `dm/logger`, TM `tm` | log file, xid file | several writes and syncs per operation, two files that must agree | `Logger`, `TransactionManager`, `Durability` |
| parser `parser` | position in the text | loops that end on a token; optional clauses | `Parser` |
| server, executor, client `server`, `cmd`, `src/main/client` | connections, transactions, one pending request | lost answers, retries, shutdown | `Session` |

## 2. Modules

`MC`*X* gives *X* its sets for TLC; *X*`Proofs` holds theorems. The compositions:

* `DeadlockSearch` extends `LockTable`: it runs `Add` with `hasDeadLock` and `dfs`
  one call at a time and implements `LockTable`, whose `Add` is one step.
* `SerializabilityManager` instantiates `LockTable`; `Table` extends
  `SerializabilityManager`. So a statement in `Table` waits in the real queues.
* `PageCache` extends `Cacher` and implements `PageStore`.
* `Durability` extends `TransactionManager` and instantiates `Logger`, with one
  crash for both files and the part of recovery that ends the losers.
* `BPlusTree` implements `Index`, what `Query` takes an index to do.

An operator whose comment begins with *Mutant* or *As* is a deliberately wrong
variant of the definition that follows it. `PROJECT.json` pairs each with the
property that it breaks: evidence that the property depends on what the code does.

### How state and steps correspond to the code

*LockTable, DeadlockSearch.* A variable per map; a missing key is `{}`, `<<>>`,
`NoXID` or `NoUID`. `token` is the unread element of the channel that `Add`
returned, `done` the transactions `Remove` was called for, `hung` records that an
`Add` entered the loop of `removeFromList` that does not advance: it then keeps
`lt.lock` and nothing else can happen. In `LockTable`, `hasDeadLock` is the
existence of a set of transactions that wait for each other and contains a key of
`x2u`; `DeadlockSearch` walks as the code does, in any order of the map.

*SerializabilityManager.* A step is what a goroutine does between two acquisitions
of `sm.lock`, or one call it makes outside it. `Delete` is `DeleteAcquire` (up to
the wait on the channel) and `DeleteFinish` (from the wake-up on). `Commit` is
`CommitStart` (leaves `sm.tc`), `ReleaseLocks` (`lt.Remove`), `MarkCommitted`
(`TM.Commit`); `abort` has the same three parts, and the automatic abort keeps the
transaction in `sm.tc`. `Read` changes nothing and is the operator `Sees`.
Visibility is translated function by function. Payloads are left out.

*Table.* A statement is its kind, the one or two key ranges of its WHERE clause, the
uuids still to do and where it stands in the loop body; each call of SM is a step,
so that other transactions run between the read of a row, its deletion and the
insertion of its new version. The uuids are those the index holds when the
statement begins, range after range; ranges may overlap. `origin` says which row a
version is of, and the history variable `asOf` what was current when a transaction
began. A transaction runs one statement (`Plans` says which); when it has returned,
also by failing, the user or the executor commits or aborts.

*Query.* One transaction at a time. `rows` are the stored versions, `idx` and
`rowIndex` what was entered into the trees. `Change` runs a whole INSERT, UPDATE or
DELETE, also one that fails at any row, and it is then committed or aborted; `Read`
plans and evaluates a read. Keys are numbers below `KeyMod`, in place of 2^64, and
the arithmetic wraps there, also that of `offset + limit`, after which the slice
expression of `limitEntries` may panic.

*Catalog.* `entries` is the append-only store of table and field metadata, each
with its XMIN; `boot` and `tmp` are the booter's two files. A session's statement
moves through the calls it makes: the insertions of `CreateTable` and of the
rebuilt chain, the write of the temporary file, the rename, the end of the
transaction. A crash may come between any two. A power failure may also bring back
the boot file from before the last rename (`stale`), since `booter.Update` does not
sync the directory. Restart loads the chain; an entry it cannot see is the panic of
`LoadTable`. At the start some tables exist and the creation of the others was cut
off by a crash (`Made`). `dropper` is the transaction of the Drop that wrote the
chain in use, `torn` that a Drop failed midway. Show changes nothing and is the
operator `Shown`.

*BPlusTree, Index.* What a method does to one node under its item's lock is a step:
`Descend`, `MoveRight`, `Enter`, `EnterSplit`, `UpdateRoot`, and for a search the
walk along the leaves. `LoadFails` and `SplitFails` are DM errors; a crash ends the
calls. `Index` has a set of pairs, insertions that take effect at one moment of
the call, and searches that return at least what was there when they began.

*Cacher, PageCache, PageStore.* A client is one use of a resource from `Get` to
`Release`. The load runs outside the lock and may fail. Reference counts wrap
modulo `RefMod` as the code's modulo 2^32. The refinement maps the content of a
page to the cached copy's if there is one, else to the file's.

*PageIndex.* `pidx` is the set of pairs in the lists of `pindex.go`, `fso` the free
space offset of each page. `Insert` selects, creates a page when there is none,
reads the page, logs, writes and gives the page back with the space it has left,
a step each; reading and logging may fail. `leaked` are pages whose reference
an early return keeps.

*TransactionManager, Logger, Durability.* Each `WriteAt` and each `Sync` is a step;
every method holds one mutex per file. A crash keeps or loses what was not synced,
and of a record any beginning. Sizes are in bytes, records have one length, and the
checksum over n records is written n. `Durability` adds who wrote each record and
`undo`, the losers recovery has collected and not yet aborted.

*Recovery.* A data item is its valid flag, XMIN and XMAX; a page is a row of slots
with its free space offset. `Insert` and the update of XMAX are two steps each
(log/page and page/log, in the code's orders), commit and abort are `Leave` and
`Mark`, and write-back, `Close` (mark, log, pages), crash and the phases of `Open`
(truncate, redo record by record, collect, undo record by record, abort) are
actions. The log and the status file are durable in one step here; `Durability`
looks inside. `Close` stops nobody: calls run on between its steps, and from
`lg.Close` on an insertion fails and a deletion goes unlogged. A crash inside the
write of a page may leave a free space offset of `TornFSO`: 0, that of an empty page,
one just past the page, or one far past it, such as 0xFFFF. Three simplifications:
items have one size; SUPER_XID inserts but does not update; and transactions run at
read committed, the default, where a deletion replaces more than at repeatable read.

*Parser.* A text is a sequence of tokens; every function of `parser.go` is an
action or a few, one token each, told apart by `pc`. `stat` is the statement built
so far. The tokener's automaton is abstracted to what `Peek` returns. Numbers wrap
modulo `IntMod`, in place of 2^64, as in `utilsStrToInt`.

*Session.* A shell, up to `MaxConns` connections one after the other, and a server
goroutine for each. `sh` is where the shell stands (`prompt`, `send`, `wait`,
`failed`, `dial`), `rt` the receive loop and `recvCh` of a connection, `req` and
`rep` what is on the wire, `srv` a goroutine in `serve` with its executor, `tx` the
transactions with the lines executed in each. A statement runs in the connection's
transaction or in one of its own, and may hang: wait for a lock of another
connection, which may never come, or run into one of the endless loops of section
5. Connections break with messages on them; both ends then notice. A signal stops
the server in the order of `openDB` (listener, page 1's mark, log, pages, exit)
while connections are served, and it may die at any point of this. What was active
at the exit stays active (`left`), and what was written behind the log's back may
be lost (`late`).

## 3. Runs

| run | instance | distinct states | question |
|---|---|---|---|
| `locks` | 4 transactions, 4 entries | 168,322 | do the maps stay consistent, and is the search right and enough? |
| `sm` | 3 transactions besides the creator, both levels, 1 row and room for another | 1,073,521 | which isolation guarantees hold? |
| `table` | 2 or 3 transactions of one statement each, 2 rows, both levels | 303,184 | what do concurrent statements do to rows, and do they return? |
| `page_cache` | 3 uses, 2 pages, 2 contents, room for 1 | 58,348 | sharing, counting, wake-up; refinement of `PageStore` |
| `durability` | 3 transactions, 3 records, 3 crashes | 770,661 | do the two files agree after any crash? |
| `recovery` | 2 transactions and SUPER_XID, 1 data page of 2 slots, 4 records, 2 crashes or shutdowns | 1,958,402 | are commits kept and losers undone? |
| `page_index` | 2 inserters, 2 sizes, up to 4 pages, 3 tries | 1,160,814 | is every page in one place and large enough? |
| `btree` | 2 processes over trees of one and of two levels, nodes of at most 3 sons | 84,446 | do concurrent inserts and searches implement an index? |
| `parser` | every statement form and every text one edit away | 127,062 | is the grammar accepted, and what is dropped of other texts? |
| `query` | 3 schemas, 4 entries, up to 3 rows, 2 changes, every WHERE form | 1,710,822 | are answers and changes those the statement means? |
| `catalog` | 2 sessions, 3 tables, 2 transactions, 10 entries | 993,035 | does the catalogue survive crashes, failures and aborts? |
| `session` | 4 scripts of up to 3 lines, 3 connections, 4 transactions, 2 faults | 325,193 | what may retry and restart do to a user's lines? |

Properties:

* `locks`: `WaitMapsAgree` (channel, edge, queue position and owner agree; it
  includes what `dfs` asserts), `NoRegisteredDeadlock` (no cycle through a registered
  holder), `ImplementsLockTable` (the search answers as the atomic `Add` does).
* `sm`: `RunningDeleterOwnsRow`; `SnapshotStable` and `OverwriteOnlyInWindow` say
  when a repeatable-read view or the first-updater rule can be disturbed;
  `LockProtocol` says that SM's steps are steps or stutters of `LockTable`.
* `table`: `RowsSurvive` (no committed sequence of updates loses a row),
  `MultipliedOnlyByRaces` (a row gets two versions only by an update that deleted
  nothing or by a second deleter of one version), `ReadsItsSnapshot` (a repeatable
  read returns what was current when its transaction began, once for each range that
  holds it), `StatementsReturn` (unless stranded by the lock table).
* `page_cache`: `UsersShareCopy`, `CountExact`, `SubscribersWoken`, and the
  refinement `CacheIsCoherent`.
* `durability`: `OutcomeIsDurable`, `LogIsSound` (acknowledged records are kept and the
  next one goes behind the last), `CommitIsDurable` (a commit on disk has all its
  records on disk), `LosersAreEnded`, `XidsAreFresh`.
* `recovery`: `CommittedSurvives`, `LosersAreUndone`, `LoggedBeforeWritten`,
  `SlotsGivenOnce`. All except pages with a free space offset below the data area and
  a `Close` that overtook a call or was cut by a crash; the first two also marks that
  a second deleter replaced.
* `page_index`: `OnePlace`, `RoomForItem` (as long as no item has a size of the last
  class).
* `btree`: `WellFormed` (leaves in order and below the split size, separators right, so
  that no reader lands to the right of its key), `CallsReturn`, and the refinement `ImplementsIndex`,
  which includes that a search returns no row twice.
* `parser`: `NothingDropped` (the statement says all that an accepted text says, if
  the text has no empty quotes, its numbers are positive and fit, and it does not end
  inside an ORDER BY, LIMIT or OFFSET), `ParsesGrammar`.
* `query`: `AnswersRight` (rows, pages and aggregates) and `ChangesAreExact`, both
  against the plain meaning of the statement, for the WHERE clauses the planner
  handles (`Answerable`): by an index, `=`, `<` and `>` on a number, `=` on a string
  that shares its hash with none, one field per clause, and for reads ranges that do
  not overlap; without an index, any comparison.
* `catalog`: `CatalogAgrees` (the chain from the boot file is `tc`, and Show shows
  each table once), `CrashIsAtomic` (a crash leaves the catalogue from before or
  after the statement, a power failure perhaps that before the last rename),
  `PanicsOnlyAfterDrop` (only if the Drop that wrote the chain did not commit). The
  first two except the time after a Drop that failed midway.
* `session`: `LinesAccounted` (a line takes effect at most twice and gets its own
  answer), `CommitIsWhole`, `OrphansEnd` (except for statements that hang and
  transactions a shutdown left), `PromptReturns` (except behind a hung statement and
  in the window of `NeverStuck`).

Each module also has its type invariant, and some of them smaller properties that the
proofs establish (section 4). They hold in these instances too, and a configuration
takes them as further INVARIANTs.

Bounds. Three contenders are the fewest for a queue with a second waiter and for a
hand-over followed by another wait; with four, `locks` has cycles beside chains. In
`table`, two statements over two rows lock them in opposite orders (`OR` with the
ranges exchanged), which is how two updates deadlock; a third transaction queues
behind them, or writes the row that two others read and write.
Two crashes allow a crash in the middle of recovery and the recovery after it; with
two files the third crash hits the second recovery. Two slots allow an insertion
before and one after a crash in the same page; four log records hold an insertion
and an update by each of two transactions. Three tables make a chain whose rewrite
has a first, a middle and a last entry; ten entries hold the six of the start and
a Drop or two Creates more. Nodes of at most three sons split after
few insertions; seven keys make an inner root that splits under two further ones.
Pages of 14 bytes in classes of 3 have every kind of boundary those of 8192 in
classes of 204 have, a last class included. Keys 0 to 7 and uint32 values 0 to 3
have 0, 1, the largest and the overflow of both widths. Two faults break the first
connection and the one dialled for the retry, or are a signal and a death inside the
shutdown. With `IntMod` 64 the texts have a number that wraps to a negative one and
one that wraps to 0. `MaxLog`, `MaxRecords`, `MaxCrashes`, `MaxStops`, `MaxXID`, `MaxPages`, `MaxEntries`, `MaxRows`, `MaxBulk`, `MaxChanges`, `MaxIndex`,
`MaxConns` and `MaxFaults` only stop counters.

Symmetry is used for the transactions and entries of `locks`, the sessions of
`catalog` and the inserters of `page_index`; none of these runs has a liveness
property. Deadlock checking is off where everything may
legitimately be over: all transactions ended, the text parsed, a script played, a
bound reached, or a file rejected.

Fairness. `table`: weak fairness of a goroutine's own steps (Go schedules runnable
goroutines), and of the commit or abort that the user or `server.serve` at the end of
the connection sends. `page_cache`: the steps inside `Get`; a load returns.
`btree`: each process inside a call. `session`: the shell, the receive loop of the
current connection and the server's goroutines run, a broken connection is noticed
by both ends and a dial succeeds while the server is up. A statement may hang and
need never go on; nothing forces a fault, a signal, a restart or the user.

## 4. Proofs

TLAPS checks, for every value of the constants:

| module | theorems |
|---|---|
| `LockTableProofs` | `TypeCorrect`, `RegisteredOwned`, `WaitMaps`, `OwnersKeepEntries`, `RegisteredHoldersNeverDeadlock` |
| `DeadlockSearchProofs` | `SearchIsRight`, `SearchRefines` (`SearchSpec => ImplementsLockTable`), `SearchPreventsDeadlock` |
| `SerializabilityManagerProofs` | `SMTypeCorrect`, `KeepsLockProtocol`, `DeletersOwnRows`, `DoomedStayDoomed`, `NoDirtyWrites` |
| `CacherProofs` | `UsersAlwaysShareCopy`, `CountIsExact`, `WaitersAreServed` |
| `PageIndexProofs` | `PagesInOnePlace`, `SelectedPageHasRoom`, `BusyMeansContended` |
| `DurabilityProofs` | `OutcomesAreDurable`, `LogStaysSound`, `CommitsAreDurable`, `RecoveryEndsLosers`, `XidsNeverReused`, `RecoveryReadsAll` |

Those without a counterpart among the runs' properties: `RegisteredOwned` (an entry
listed in `x2u` is owned in `u2x`), `OwnersKeepEntries` (an owner loses an entry only
in its own `Remove`), `SearchIsRight`, `DoomedStayDoomed` (a doomed transaction never
commits), `NoDirtyWrites`, `WaitersAreServed` (who waits for a load has a loader),
`BusyMeansContended` (`DM.Insert` gives up only after others selected
pages as often as it tried) and
`RecoveryReadsAll` (replay reaches the end of the log).

Assumptions are those of the modules: "none" values are not members of the sets they
complete, bounds are natural numbers, sets of clients are finite, an empty page
belongs to the last class, a record is longer than its header, and the count
modulus exceeds the number of clients. TLC evaluates them in the runs.

*Lock table.* The invariant is `TypeOK`, `RegisteredIsOwned`, `WaitMapsAgree` and,
until an `Add` hangs, `QueuedOrDone`: who stands in a queue either still waits or
is over. Without it a popped queue entry could belong to a transaction that left
without ending and queued again, and `WaitMapsAgree` would not survive the next
`Add`. The deadlock theorem adds that a cycle made by a step must use the edge
the step added, and `Add` keeps that edge only after the search has answered no; a
hand-over removes edges, and the heir does not wait, so it is on no cycle.

*Search.* The invariant describes the nodes by their stamps: those of earlier stamps
lead to no cycle, those of the present stamp form the path from the present root
to the present node. The refinement follows: while the search runs the maps do not
change, and the step that keeps or takes back the edge is `LockTable`'s `Add` with
the search's answer, which is right. What is proved of `LockTable` then holds of
the table with the real search.

*SM.* `SMInv` is `TypeOK`, the lock table's invariant, `PointOK` (what each control
point implies about `tc`, `err`, the lock table and the status),
`xmax <= xidCounter`, and `RunningDeleterOwnsRow`. `PointOK` ties a goroutine's
position to the lock table: a transaction with a channel or an unread token is
inside `Delete`, the token's owner owns the entry it asked for, and one that
`lt.Remove` was called for adds nothing any more.

*Cacher.* `IInv` adds to the three properties what each control point of `Get` and
`Release` implies about the maps: who loads is registered in `getting`, who uses
holds the handle in the cache. The counts are cardinalities, so each step cites how
the set of users changes by one member.

*Page index.* `IInv` is `TypeOK`, `OnePlace`, `RoomForItem` and `Remembers`: the free
space that an inserter carries, or that the index lists, is what the page has. It
is needed because `Select` decides by the listed value.

*Durability.* `IInv` is the invariant of the xid file (header, status bytes and the
durable copy differ by at most the one write in progress), that of the log
(records, checksum, offset and cached size per control point), and what joins them:
every record's writer is begun, and it is running, ended, or recovery will find it.
`CommitIsDurable` follows as a commit starts only when no record of the
transaction is unacknowledged.

Only model-checked: everything with fairness (the provers have no rule for it); what
the recursive or folded algorithms compute (`Query`, `Parser`); the refinements
`CacheIsCoherent` and `ImplementsIndex`; `SnapshotStable`, `OverwriteOnlyInWindow`;
and the properties of `Table`, `Recovery`, `BPlusTree`, `Catalog` and `Session`.


## 5. Statements the code does not keep

The modules state sentences of the docs and comments that the models refute. To see
a trace, give the configuration named here that definition as its only INVARIANT or
PROPERTY (P).

| definition | configuration | what happens |
|---|---|---|
| `RemoveForgetsXid`, `NoDeadlock` | `DeadlockSearch.cfg` | a hand-over is not listed in `x2u`: the entry leaks, and a cycle of such holders is not found (inside SM: `NoDeadlock` in `SM.cfg` with `Rows <- MCRows`, `Levels <- ReadCommittedOnly`) |
| `AddReturns` | `DeadlockSearch.cfg` | a refused `Add` behind another waiter spins with `lt.lock` and `sm.lock` held |
| `NoLostUpdate` | `SM.cfg` | `Commit` releases the locks before the status byte is written, the reverse of the readme's order; a second repeatable-read `Delete` of the row passes every test in between |
| `DeleteReturns` (P) | `SM.cfg`, `FairSpec` | the leaked entry again: the next waiter waits for ever |
| `RepeatableRead` (P) | `SM.cfg` | a transaction begun between `delete(sm.tc)` and `TM.Commit` of another sees its effect appear later |
| `CommittedDeleteIsFinal` | `SM.cfg` | at read committed a `Delete` that waited replaces a committed mark |
| `UpdateReplaces` | `Table.cfg` | `Update` ignores that `Delete` deleted nothing and inserts: two updates of a row leave two rows |
| `ReadsEachRowOnce` | `Table.cfg` | a repeatable read returns two versions of one row, made by such a race before it began or by a deletion in the commit window |
| `OpenSucceeds` | `Durability.cfg` | crash between status byte and header in `Begin`: `ErrBadXIDFile` |
| `LogOpens` | `Durability.cfg` | crash between the record and the checksum: `ErrBadLogFile` at this and every later start |
| `ReplayDoesNotPanic` | `Durability.cfg` | `fileSize` is stale after a tail of more than 8 bytes was cut; `Recovery` panics |
| `LastDeletionSurvives` | `Recovery.cfg` | undoing a transaction that had released its locks erases a later committed deletion |
| `CommittedRowsSurvive` | `Recovery.cfg` | crash between page 1's clean mark and the write-back of the pages in `Close` |
| `FSORepaired` | `Recovery.cfg` | a damaged free space offset is not replaced, because the log's value is compared with itself |
| `OpensAfterTornFSO` | `Recovery.cfg` | with one far past the page, such as the comment's 0xFFFF, `pindex.Add` has no class for the page and panics |
| `ItemsStayApart` | `Recovery.cfg` | with one of 0 the next insertion is written over the offset itself |
| `SelectFits` | `PageIndex.cfg` with `PAGE_SIZE = 11`, `NO_INTERVAL = 3`, `PX_OF_DATA = 1`, `Size = {1, 10}` | for sizes of the last class `Select` does not move up a class and offers too little |
| `DuplicatesFound` | `BPlusTree.cfg` | `SearchNext` goes right of equal keys: those left of a split are not found |
| `RootIsComplete` | `BPlusTree.cfg` | the split of an inner node is not returned to the caller: the root never gets a third level, and searches go along siblings |
| `ParseReturns` (P) | `Parser.cfg` | the index list of `create` ends in the text: the loop appends empty names for ever |
| `TailIsRead`, `TableIsNamed` | `Parser.cfg` | a quoted empty text counts as the end of the statement, and as a name |
| `OrderAfterWhere` | `Parser.cfg` | after a WHERE with two conditions ORDER BY and LIMIT are refused |
| `LimitIsKept` | `Parser.cfg` | `limit 0` is the statement without a limit, which returns every row; a number too large wraps |
| `UnderscoresInNames` | `Parser.cfg` | the tokener ends a name at an underscore and then fails |
| `BothFieldsCount` | `Query.cfg` | with an index on the first field, the second condition is taken for one on that field |
| `ComparesByIndex` | `Query.cfg` | on an indexed field `>=`, `<=` and `!=` are the range of key 0 |
| `UnionHasNoDoubles` | `Query.cfg` | `OR` with overlapping ranges returns a row in both of them twice |
| `StringsByOrder` | `Query.cfg` | `<` and `>` on an indexed string compare hashes |
| `PagesReturn` | `Query.cfg` | `offset + limit` wraps and the slice expression panics |
| `CountsAField` | `Query.cfg` | `count(field)` prints nothing |
| `OpensAgain` | `Catalog.cfg` | `Drop` rewrites the chain for the user's transaction and the boot file at once; after an abort or a crash the next start panics |
| `UncommittedNotInTc` | `Catalog.cfg` | `Create` enters the table in `tc` at once |
| `FailedDropChangesNothing` | `Catalog.cfg` | `Drop` takes the table out of `tc` and then fails: the chain still has it, and a table created under its name is twice in the chain, of which a restart loads the old one |
| `UpdateLasts` (P) | `Catalog.cfg` | the booter's rename is not followed by a sync of the directory |
| `NeverStuck` | `Session.cfg` | the receive loop ends between two calls; a send that the kernel still takes is then waited for in vain |
| `NoTransactionsRemain` | `Session.cfg` | `Start` returns when the listener closes and DM is closed under running connections |
| `WritesAreKept` | `Session.cfg` | so a deletion can succeed with the log closed, and a death inside `dm.Close` loses what was not flushed while the mark says that nothing is to recover |
| `BlockIsAtomic` | `Session.cfg` | a line of an explicit transaction is sent again on a new connection and committed by itself |

Where such a statement and a passing property are about the same thing, the property
names the situation as its exception: `hung`, `Stranded` and `heirs` (lock table),
`Straddles` (SM), `blind`, a second deleter and `window` (`Table`), `mode = "bad"`
(log), `overwritten`, `overtaken` and `low` (`Recovery`), `Fitting`
(`PageIndex`), `Alone` (`Index`), `Answerable`, `Overlaps` and `torn` (`Query`), the premises of
`NothingDropped`, `torn`, `stale` and `dropper` (`Catalog`), `late`, `left`, `hung` and
`Stuck` (`Session`). Outside its exceptions a property holds in its instance. An
exception can cover more than the defect it was made for, and the models leave out
what section 6 lists; so the properties do not say that the code has no other defect.

One error path has no definition: `openDB` (`cmd/launcher.go:138`) ignores the error
of `tm.Open` and goes on with a nil transaction manager, so that a rejected xid file
(`OpenSucceeds`) ends in a nil dereference at the first use of the manager.
`Durability` stops at the rejected file.

## 6. Not modelled

* Framing and byte encoding of packages and rows, and the hash of strings: pure
  functions without state, which unit tests fit better. `Session` takes whole
  packages; `Query` takes the hash as any function.
* Line editing, history, colours, command-line flags, log messages, the help texts of
  `cmd/template.go`: terminal I/O.
* Failing writes of pages, of the log in `After` (other than to a closed log) and of the
  xid file while the database runs: what is in the file after one is unknown. (`PageIndex` has failing
  reads and log writes of `DM.Insert`, `Cacher` failing loads, `BPlusTree` and
  `Catalog` failing insertions.) Three hazards in `PROJECT.json` have no property of
  a run: the page write, the log write in `After`, and the loop of `removeFromList`.
* Connections that are gone without either end noticing: neither the client nor the
  server sets a deadline, so `Session` would say only that both wait.
* Statements longer than one per transaction in `Table`, and several clients in
  `Session`: another client is there only in what it makes a statement wait for.
* `Logger.Truncate`, which nothing calls, and `mock_tm.go`, a test double.
* One model of the whole: the modules meet at the interfaces named in section 2, and
  a run over all of them would be out of TLC's reach.

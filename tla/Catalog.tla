------------------------------- MODULE Catalog -------------------------------
(* backend/tbm/table_manager.go: which tables exist.  The                     *)
(* tables form a chain of metadata entries whose head is in the booter's      *)
(* file; tc and xtc are its image in memory.  Sessions (server/executor.go)   *)
(* create and drop tables in transactions of their own or in explicit ones;   *)
(* the machine may stop at any step and is then opened again.                 *)
EXTENDS Naturals, SequencesExt

CONSTANTS Session,     \* connections, each with an executor
          Tables,      \* table names, in their order: 1 .. n
          Targets,     \* those that statements create and drop
          Made,        \* how many of them, from 1, there may be at the start
          MaxXID,      \* bound on the transactions
          MaxEntries   \* bound on the metadata entries ever inserted

ASSUME CatalogAssumption ==
  /\ MaxXID \in Nat /\ MaxEntries \in Nat
  /\ Tables = 1..Cardinality(Tables) /\ 2 * Cardinality(Tables) <= MaxEntries
  /\ Targets \subseteq Tables /\ Made \subseteq Tables

XID == 1..MaxXID
SUPER_XID == 0
NilUUID == 0
NoTable == [self |-> NilUUID, field |-> NilUUID]

VARIABLES exe,       \* session -> its executor and the statement it executes
          holder,    \* the session that holds tbm.lock
          tc,        \* name -> [self, field], the table in memory
          xtc,       \* xid -> the tables it created: [name, field]
          entries,   \* uuid -> metadata: [kind, name, next, field, xmin]
          boot,      \* the uuid in the booter's file
          tmp,       \* the uuid in its .tmp file (NoFile: there is none)
          status,    \* xid -> its byte in the xid file, durable (TransactionManager.tla)
          doomed,    \* transactions SM has aborted by itself
          phase,     \* "serving", "recovering", "down", "panic"
          dropper,   \* history: the xid of the Drop that wrote the chain in use, or 0
          stale,     \* history: the catalog before the last rename
          torn,      \* history: a Drop failed after it changed tc, and tc is not the chain
          expect     \* history: what tc may be after the crash

NoFile == MaxEntries + 1
NoSession == 0

diskVars == <<entries, boot, tmp>>
memVars == <<holder, tc, xtc, doomed>>
history == <<dropper, stale, torn, expect>>
vars == <<status, exe, memVars, diskVars, phase, history>>

Idle(x) == [at |-> "idle", stmt |-> "none", name |-> 0, xid |-> x, auto |-> FALSE,
            err |-> FALSE, todo |-> <<>>, head |-> NilUUID, field |-> NilUUID]

UUID == 1..MaxEntries

TypeOK ==
  /\ status \in [XID -> {"none", "active", "committed", "aborted"}]
  /\ holder \in Session \cup {NoSession}
  /\ \A t \in Tables : tc[t] # NoTable => /\ tc[t].self \in DOMAIN entries
                                          /\ entries[tc[t].self].name = t
                                          /\ entries[tc[t].field].kind = "field"
  /\ \A u \in DOMAIN entries : entries[u].next < u /\ entries[u].xmin \in 0..MaxXID
  /\ boot \in 0..MaxEntries /\ tmp \in 0..NoFile
  /\ \A s \in Session : exe[s].xid \in 0..MaxXID /\ exe[s].auto \in BOOLEAN
  /\ doomed \subseteq XID

Fields(c) == [t \in Tables |-> c[t].field]

(* createDB, after which every table was created in turn, the ones beyond    *)
(* `made' in vain: a crash stopped them just before the booter's Update.      *)
Init ==
  /\ status = [x \in XID |-> "none"]
  /\ exe = [s \in Session |-> Idle(0)]
  /\ holder = NoSession
  /\ xtc = [x \in XID |-> <<>>]
  /\ \E made \in Made :
       /\ tc = [t \in Tables |-> IF t <= made THEN [self |-> 2 * t, field |-> 2 * t - 1] ELSE NoTable]
       /\ entries = [u \in 1..(2 * Cardinality(Tables)) |->
            IF u % 2 = 1
              THEN [kind |-> "field", name |-> (u + 1) \div 2, next |-> NilUUID,
                    field |-> NilUUID, xmin |-> SUPER_XID]
              ELSE [kind |-> "table", name |-> u \div 2, next |-> IF u <= 2 * made THEN u - 2 ELSE 2 * made,
                    field |-> u - 1, xmin |-> SUPER_XID]]
       /\ boot = 2 * made
  /\ tmp = NoFile /\ doomed = {} /\ phase = "serving"
  /\ dropper = 0 /\ torn = FALSE /\ expect = {}
  /\ stale = [boot |-> boot, fields |-> Fields(tc), dropper |-> 0, torn |-> FALSE]
-----------------------------------------------------------------------------
(* Where session s is. *)
At(s, at) == phase = "serving" /\ exe[s].at = at
Runs(s, at, stmt) == At(s, at) /\ exe[s].stmt = stmt
Goto(s, at) == exe' = [exe EXCEPT ![s].at = at]

(* execute2 returns to Execute, or to its deferred end of the transaction. *)
Return(s, err) ==
  exe' = [exe EXCEPT ![s] =
    IF exe[s].auto THEN [Idle(@.xid) EXCEPT !.at = "end", !.auto = TRUE, !.err = err]
                   ELSE Idle(@.xid)]

End(x, st) == status' = [status EXCEPT ![x] = st]

(* TBM.Begin. *)
Begin(x) ==
  /\ status[x] = "none" /\ \A y \in XID : y < x => status[y] # "none"
  /\ End(x, "active")

BeginStatement(s) ==
  /\ At(s, "idle") /\ exe[s].xid = 0
  /\ \E x \in XID : Begin(x) /\ exe' = [exe EXCEPT ![s] = Idle(x)]
  /\ UNCHANGED <<memVars, diskVars, phase, history>>

(* commit and abort.  SM refuses to commit a doomed transaction, which stays *)
(* the session's; it has been aborted already.  A session that disconnects   *)
(* inside a transaction does what abort does.                                *)
EndStatement(s, commit) ==
  LET x == exe[s].xid IN
  /\ At(s, "idle") /\ x # 0
  /\ IF x \in doomed THEN UNCHANGED status
                     ELSE End(x, IF commit THEN "committed" ELSE "aborted")
  /\ exe' = [exe EXCEPT ![s] = Idle(IF commit /\ x \in doomed THEN x ELSE 0)]
  /\ UNCHANGED <<memVars, diskVars, phase, history>>

(* execute2: a statement gets a transaction of its own if there is none, *)
execute2(s, stmt, t) ==
  LET start == [Idle(exe[s].xid) EXCEPT !.at = "run", !.stmt = stmt, !.name = t] IN
  /\ At(s, "idle")
  /\ IF exe[s].xid # 0
       THEN exe' = [exe EXCEPT ![s] = start] /\ UNCHANGED status
       ELSE \E x \in XID : /\ Begin(x)
                           /\ exe' = [exe EXCEPT ![s] = [start EXCEPT !.xid = x, !.auto = TRUE]]
  /\ UNCHANGED <<memVars, diskVars, phase, history>>

(* which its defer ends. *)
execute2End(s) ==
  LET x == exe[s].xid IN
  /\ At(s, "end")
  /\ IF x \in doomed THEN UNCHANGED status
                     ELSE End(x, IF exe[s].err THEN "aborted" ELSE "committed")
  /\ exe' = [exe EXCEPT ![s] = Idle(0)]
  /\ UNCHANGED <<memVars, diskVars, phase, history>>

(* A statement on rows.  It may fail, for want of the table or of a value    *)
(* that fits; a conflict makes SM abort the transaction.                     *)
RowStatement(s) ==
  /\ Runs(s, "run", "row")
  /\ \/ /\ \E err \in {TRUE, exe[s].xid \in doomed} : Return(s, err)
        /\ UNCHANGED <<status, doomed>>
     \/ /\ exe[s].xid \notin doomed
        /\ End(exe[s].xid, "aborted") /\ doomed' = doomed \cup {exe[s].xid}
        /\ Return(s, TRUE)
  /\ UNCHANGED <<holder, tc, xtc, diskVars, phase, history>>

(* What Show prints: the tables this transaction created, then the others.   *)
(* It changes nothing, so it is no action: ShowsEachOnce asks for it in every *)
(* state in which Show can have the lock.                                     *)
Shown(x) ==
  LET own == {e.name : e \in Range(xtc[x])}
      rest == SetToSeq({t \in Tables \ own : tc[t] # NoTable})
  IN  [i \in DOMAIN xtc[x] |-> xtc[x][i].field] \o [i \in DOMAIN rest |-> tc[rest[i]].field]
-----------------------------------------------------------------------------
Insert(e) == entries' = Append(entries, e)
Room == Len(entries) < MaxEntries

(* DM.Insert failed (ErrBusy), or SM.Insert returned the transaction's error. *)
Fails(s) == holder' = NoSession /\ Return(s, TRUE)

(* Create: a name in use is refused; else CreateTable, under the lock. *)
Create(s) ==
  /\ Runs(s, "run", "create") /\ holder = NoSession
  /\ IF tc[exe[s].name] # NoTable
       THEN Return(s, TRUE) /\ UNCHANGED holder
       ELSE Goto(s, "field") /\ holder' = s
  /\ UNCHANGED <<status, tc, xtc, doomed, diskVars, phase, history>>

(* CreateField writes its metadata for SUPER_XID; one field stands for all. *)
CreateField(s) ==
  /\ At(s, "field")
  /\ \/ /\ Room
        /\ Insert([kind |-> "field", name |-> exe[s].name, next |-> NilUUID,
                   field |-> NilUUID, xmin |-> SUPER_XID])
        /\ exe' = [exe EXCEPT ![s].at = "persist", ![s].field = Len(entries) + 1]
        /\ UNCHANGED holder
     \/ Fails(s) /\ UNCHANGED entries
  /\ UNCHANGED <<status, tc, xtc, doomed, boot, tmp, phase, history>>

(* Mutant of CreateTable: the metadata is the transaction's, as the rows are. *)
CreateTableOwn(s) ==
  /\ At(s, "persist")
  /\ \/ /\ Room
        /\ Insert([kind |-> "table", name |-> exe[s].name, next |-> boot,
                   field |-> exe[s].field, xmin |-> exe[s].xid])
        /\ exe' = [exe EXCEPT ![s].at = "boot", ![s].head = Len(entries) + 1]
        /\ UNCHANGED holder
     \/ Fails(s) /\ UNCHANGED entries
  /\ UNCHANGED <<status, tc, xtc, doomed, boot, tmp, phase, history>>

(* CreateTable's persistSelf: in front of the chain, for SUPER_XID. *)
CreateTable(s) ==
  /\ At(s, "persist")
  /\ \/ /\ Room
        /\ Insert([kind |-> "table", name |-> exe[s].name, next |-> boot,
                   field |-> exe[s].field, xmin |-> SUPER_XID])
        /\ exe' = [exe EXCEPT ![s].at = "boot", ![s].head = Len(entries) + 1]
        /\ UNCHANGED holder
     \/ Fails(s) /\ UNCHANGED entries
  /\ UNCHANGED <<status, tc, xtc, doomed, boot, tmp, phase, history>>

Names == SetToSortSeq({t \in Tables : tc[t] # NoTable}, LAMBDA a, b : a < b)

(* Drop: out of tc and of every list in xtc at once, then rebuildTableChain. *)
Drop(s) ==
  LET t == exe[s].name IN
  /\ Runs(s, "run", "drop") /\ holder = NoSession
  /\ IF tc[t] = NoTable
       THEN Return(s, TRUE) /\ UNCHANGED <<holder, tc, xtc>>
       ELSE /\ tc' = [tc EXCEPT ![t] = NoTable]
            /\ xtc' = [x \in XID |-> SelectSeq(xtc[x], LAMBDA e : e.name # t)]
            /\ holder' = s
            /\ exe' = [exe EXCEPT ![s].at = "rebuild", ![s].field = tc[t].field,
                                  ![s].todo = SelectSeq(Names, LAMBDA n : n # t)]
  /\ UNCHANGED <<status, doomed, diskVars, phase, history>>

(* Mutant of Rebuild: next is not advanced. *)
RebuildNilNext(s) ==
  LET t == Last(exe[s].todo) IN
  /\ At(s, "rebuild") /\ exe[s].todo # <<>>
  /\ \/ /\ Room /\ exe[s].xid \notin doomed
        /\ Insert([kind |-> "table", name |-> t, next |-> NilUUID,
                   field |-> tc[t].field, xmin |-> exe[s].xid])
        /\ tc' = [tc EXCEPT ![t].self = Len(entries) + 1]
        /\ exe' = [exe EXCEPT ![s].todo = Front(@), ![s].head = Len(entries) + 1]
        /\ UNCHANGED <<holder, torn>>
     \/ Fails(s) /\ torn' = TRUE /\ UNCHANGED <<entries, tc>>
  /\ UNCHANGED <<status, xtc, doomed, boot, tmp, phase, dropper, stale, expect>>

(* rebuildTableChain: the last table of the list gets a new entry, for the   *)
(* xid of the Drop.                                                          *)
Rebuild(s) ==
  LET t == Last(exe[s].todo) IN
  /\ At(s, "rebuild") /\ exe[s].todo # <<>>
  /\ \/ /\ Room /\ exe[s].xid \notin doomed
        /\ Insert([kind |-> "table", name |-> t, next |-> exe[s].head,
                   field |-> tc[t].field, xmin |-> exe[s].xid])
        /\ tc' = [tc EXCEPT ![t].self = Len(entries) + 1]
        /\ exe' = [exe EXCEPT ![s].todo = Front(@), ![s].head = Len(entries) + 1]
        /\ UNCHANGED <<holder, torn>>
     \/ Fails(s) /\ torn' = TRUE /\ UNCHANGED <<entries, tc>>
  /\ UNCHANGED <<status, xtc, doomed, boot, tmp, phase, dropper, stale, expect>>

(* Mutant of WriteTmp: the file itself is truncated and written. *)
WriteTmpInPlace(s) ==
  /\ At(s, "boot") \/ (At(s, "rebuild") /\ exe[s].todo = <<>>)
  /\ tmp' = exe[s].head /\ boot' = NilUUID
  /\ Goto(s, "rename")
  /\ UNCHANGED <<status, memVars, entries, phase, history>>

(* booter.Update: the .tmp file is written and synced ... *)
WriteTmp(s) ==
  /\ At(s, "boot") \/ (At(s, "rebuild") /\ exe[s].todo = <<>>)
  /\ tmp' = exe[s].head
  /\ Goto(s, "rename")
  /\ UNCHANGED <<status, memVars, entries, boot, phase, history>>

(* ... and renamed.  What Create then does in memory goes with it: a crash   *)
(* loses it in any case.                                                     *)
Rename(s) ==
  LET t == exe[s].name
      made == exe[s].stmt = "create" IN
  /\ At(s, "rename")
  /\ boot' = tmp /\ tmp' = NoFile
  /\ tc' = IF made THEN [tc EXCEPT ![t] = [self |-> exe[s].head, field |-> exe[s].field]] ELSE tc
  /\ xtc' = IF made THEN [xtc EXCEPT ![exe[s].xid] = Append(@, [name |-> t, field |-> exe[s].field])]
                    ELSE xtc
  /\ holder' = NoSession
  /\ dropper' = IF made THEN dropper ELSE IF tmp = NilUUID THEN 0 ELSE exe[s].xid
  /\ stale' = [boot |-> boot, dropper |-> dropper, torn |-> torn,
               fields |-> IF made THEN Fields(tc) ELSE [Fields(tc) EXCEPT ![t] = exe[s].field]]
  /\ torn' = (torn /\ made)
  /\ Return(s, FALSE)
  /\ UNCHANGED <<status, entries, doomed, phase, expect>>
-----------------------------------------------------------------------------
(* The machine stops.  The statement that holds tbm.lock is done or not.     *)
(* booter.Update does not sync the directory: a power failure can bring back *)
(* the file from before the last rename (bound: no older one).               *)
Crash ==
  /\ phase \in {"serving", "recovering"}
  /\ exe' = [s \in Session |-> Idle(0)]
  /\ holder' = NoSession
  /\ tc' = [t \in Tables |-> NoTable] /\ xtc' = [x \in XID |-> <<>>]
  /\ doomed' = {} /\ phase' = "down"
  /\ \/ /\ UNCHANGED <<boot, dropper, torn>>
        /\ expect' = IF phase = "recovering" THEN expect
                     ELSE IF holder = NoSession THEN {Fields(tc)}
                     ELSE {[Fields(tc) EXCEPT ![exe[holder].name] = f] : f \in {NilUUID, exe[holder].field}}
     \/ /\ phase = "serving"
        /\ boot' = stale.boot /\ dropper' = stale.dropper
        /\ expect' = {stale.fields} /\ torn' = stale.torn
  /\ UNCHANGED <<status, entries, tmp, stale>>

(* tm.Open and dm.Open; recovery aborts the transactions it finds active. *)
Restart ==
  /\ phase = "down"
  /\ status' = [x \in XID |-> IF status[x] = "active" THEN "aborted" ELSE status[x]]
  /\ phase' = "recovering"
  /\ UNCHANGED <<exe, memVars, diskVars, history>>

(* The entries from the booter's uuid on. *)
Chain ==
  LET from[u \in 0..Len(entries)] == IF u = NilUUID THEN <<>> ELSE <<u>> \o from[entries[u].next]
  IN  from[boot]

(* SM.Read by SUPER_XID, at read committed. *)
Visible(u) == entries[u].xmin = SUPER_XID \/ status[entries[u].xmin] = "committed"

(* The table the chain holds under a name; of two, the later in the chain. *)
Loaded(t) ==
  LET at == {i \in DOMAIN Chain : entries[Chain[i]].name = t}
  IN  IF at = {} THEN NoTable
      ELSE LET u == Chain[Max(at)] IN [self |-> u, field |-> entries[u].field]

(* tbm.Open: the .tmp file is removed; loadTables walks the chain, LoadTable *)
(* asserting that it can see each entry and its fields.                      *)
loadTables ==
  /\ phase = "recovering"
  /\ tmp' = NoFile
  /\ IF \A i \in DOMAIN Chain : Visible(Chain[i]) /\ Visible(entries[Chain[i]].field)
       THEN tc' = [t \in Tables |-> Loaded(t)] /\ phase' = "serving"
       ELSE phase' = "panic" /\ UNCHANGED tc
  /\ expect' = {}
  /\ torn' = (torn /\ \E i, j \in DOMAIN Chain :
                        i # j /\ entries[Chain[i]].name = entries[Chain[j]].name)
  /\ stale' = [boot |-> boot, fields |-> Fields(tc'), dropper |-> dropper, torn |-> torn']
  /\ UNCHANGED <<status, exe, holder, xtc, doomed, entries, boot, dropper>>

SessionStep(s) ==
  \/ RowStatement(s)
  \/ Create(s) \/ CreateField(s) \/ CreateTable(s)
  \/ Drop(s) \/ Rebuild(s) \/ WriteTmp(s) \/ Rename(s)
  \/ execute2End(s)

Statements == {<<"row", 0>>} \cup ({"create", "drop"} \X Targets)

Next ==
  \/ \E s \in Session :
       \/ SessionStep(s)
       \/ BeginStatement(s) \/ \E commit \in BOOLEAN : EndStatement(s, commit)
       \/ \E st \in Statements : execute2(s, st[1], st[2])
  \/ Crash \/ Restart \/ loadTables

Spec == Init /\ [][Next]_vars
-----------------------------------------------------------------------------
(* Between two statements the chain on disk is the catalog in memory, table  *)
(* by table and entry by entry, whatever was created and dropped in whatever *)
(* transactions, unless a Drop failed midway (table_manager.go:206).         *)
ChainIsCatalog ==
  phase = "serving" /\ holder = NoSession /\ ~torn =>
    /\ {Chain[i] : i \in DOMAIN Chain} = {tc[t].self : t \in Tables} \ {NilUUID}
    /\ \A t \in Tables : Loaded(t) = tc[t]

(* Show (table_manager.go:235) prints every table once, with the fields it   *)
(* has now, to every transaction.                                            *)
ShowsEachOnce ==
  holder = NoSession => \A x \in XID :
    /\ Len(Shown(x)) = Cardinality({t \in Tables : tc[t] # NoTable})
    /\ Range(Shown(x)) = {tc[t].field : t \in Tables} \ {NilUUID}

(* The chain the booter's file begins, tc, and what Show prints to anybody,  *)
(* are the same tables.                                                      *)
CatalogAgrees == ChainIsCatalog /\ ShowsEachOnce

(* A Drop that returned an error has changed nothing.  The code does not     *)
(* keep this: Drop takes the table out of tc first, and persistSelf may fail *)
(* (table_manager.go:194 and :223).  A table created under the name is then  *)
(* twice in the chain, and a restart loads the old one.                      *)
FailedDropChangesNothing ==
  phase = "serving" /\ holder = NoSession =>
    \A t \in Tables : Loaded(t).field = tc[t].field

(* Create and Drop are atomic with respect to a crash: the tables loaded     *)
(* afterwards are those before or those after the statement it hit, with     *)
(* their own fields; or, when the last rename of the booter had not reached  *)
(* the disk, those before it.  What a Drop that failed midway leaves is      *)
(* excepted (see FailedDropChangesNothing).                                  *)
CrashIsAtomic ==
  [][phase = "recovering" /\ phase' = "serving" /\ ~torn => Fields(tc') \in expect]_vars

(* booter.go:23, an atomic Update: what it has written stays.  The code does *)
(* not keep this at a power failure (booter.go:96 syncs no directory).       *)
UpdateLasts == [][phase' = "down" => boot' = boot]_vars

(* LoadTable's assertion (table.go:46) fails at a restart only if the Drop   *)
(* that wrote the chain in the booter's file did not commit; never because   *)
(* of Create, whose metadata is SUPER_XID's (table.go:124), nor of a crash   *)
(* inside Drop, nor of an earlier Drop.                                      *)
PanicsOnlyAfterDrop ==
  phase = "panic" => dropper # 0 /\ status[dropper] # "committed"

(* table.go:124, metadata is written for SUPER_XID "so that Undo does not    *)
(* destroy the table structure": a database opens again.  The code does not  *)
(* keep this.                                                                *)
OpensAgain == phase # "panic"

(* table_manager.go:240, a table whose transaction has not committed "is not *)
(* in tc".  The code does not keep this.                                     *)
UncommittedNotInTc ==
  \A s \in Session : exe[s].xid # 0 /\ holder = NoSession =>
    \A i \in DOMAIN xtc[exe[s].xid] : tc[xtc[exe[s].xid][i].name] = NoTable
=============================================================================

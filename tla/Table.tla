-------------------------------- MODULE Table --------------------------------
(* backend/tbm/table.go over backend/sm: the statements of concurrent         *)
(* transactions, row by row.  A statement first searches an index for uuids   *)
(* (Query.tla says which ones); what it then finds under them depends on what *)
(* the others do between its calls of SM.Read, SM.Delete and SM.Insert.  A    *)
(* new version enters the indexes in the step that inserts it: until its      *)
(* transaction commits nobody else can see it.                                *)
EXTENDS SerializabilityManager, SequencesExt

CONSTANT Plans   \* which statements run: functions from XID to Stmts

(* One statement a transaction.  ranges are the rows an index range holds,    *)
(* two of them for an OR, which may overlap (parseWhere, table.go:319).       *)
Stmts == [kind : {"none", "read", "update", "delete"}, level : Levels,
          ranges : Seq(SUBSET Rows)]

ASSUME PlansAssumption == \A plan \in Plans : \A x \in XID : plan[x] \in Stmts

VARIABLES plan,    \* xid -> the statement its client sends
          st,      \* xid -> its statement: [at, todo]
          result,  \* xid -> the versions its Read returned
          origin,  \* version -> the row it is a version of
          blind,   \* history: xids that inserted a version and deleted none for it
          asOf,    \* history: xid -> [current, window], what its Begin met
          heirs    \* history: xids that were handed an entry by a Remove

tableVars == <<plan, st, result, origin, blind, asOf, heirs>>
vars == <<smVars, tableVars>>

Ats == {"begin", "next", "delete", "waiting", "insert", "end", "failed"}

TableTypeOK ==
  /\ TypeOK
  /\ plan \in Plans
  /\ \A x \in XID : st[x].at \in Ats
  /\ \A x \in XID : Range(st[x].todo) \cup Range(result[x]) \subseteq inserted
  /\ origin \in [UID -> Rows \cup {NilUUID}]
  /\ \A u \in UID : origin[u] # NilUUID <=> u \in inserted
  /\ blind \subseteq XID /\ heirs \subseteq XID
  /\ asOf \in [XID -> [current : SUBSET UID, window : SUBSET XID]]

TableInit ==
  /\ Init
  /\ plan \in Plans
  /\ st = [x \in XID |-> [at |-> "begin", todo |-> <<>>]]
  /\ result = [x \in XID |-> <<>>]
  /\ origin = [u \in UID |-> IF u \in Rows THEN u ELSE NilUUID]
  /\ blind = {} /\ heirs = {}
  /\ asOf = [x \in XID |-> [current |-> {}, window |-> {}]]
-----------------------------------------------------------------------------
(* What a statement that begins now sees of a row. *)
Versions(r) ==
  {u \in inserted : /\ origin[u] = r /\ IsCommitted(xmin[u])
                    /\ xmax[u] = SUPER_XID \/ ~IsCommitted(xmax[u])}

BeginTx(x) ==
  /\ plan[x].kind # "none"
  /\ Begin(x, plan[x].level)
  /\ asOf' = [asOf EXCEPT ![x] = [current |-> UNION {Versions(r) : r \in Rows},
                                  window |-> {y \in XID : Committing(y)}]]
  /\ UNCHANGED <<plan, st, result, origin, blind, heirs>>

(* The uuids an index holds for a range, from the lowest up. *)
Found(range) == SetToSortSeq({u \in inserted : origin[u] \in range}, <)

(* parseWhere: the uuids of the one range or of both, one after the other. *)
Search(x) ==
  LET uuids == FlattenSeq([i \in DOMAIN plan[x].ranges |-> Found(plan[x].ranges[i])])
  IN  /\ Running(x) /\ st[x].at = "begin"
      /\ st' = [st EXCEPT ![x] = [at |-> IF uuids = <<>> THEN "end" ELSE "next", todo |-> uuids]]
      /\ UNCHANGED <<smVars, plan, result, origin, blind, asOf, heirs>>

InStmt(x, kind, at) == Running(x) /\ plan[x].kind = kind /\ st[x].at = at
Current(x) == Head(st[x].todo)
Goto(x, at) == [st EXCEPT ![x].at = at]

(* On to the next uuid; after the last one the statement returns. *)
Skip(x) ==
  [st EXCEPT ![x] = [at |-> IF Len(@.todo) = 1 THEN "end" ELSE "next", todo |-> Tail(@.todo)]]

(* Mutant of ReadRow: the latest committed entry, at either level. *)
ReadRowLatest(x) ==
  /\ InStmt(x, "read", "next")
  /\ result' = [result EXCEPT ![x] = IF readCommitted(x, Current(x)) THEN Append(@, Current(x)) ELSE @]
  /\ st' = Skip(x)
  /\ UNCHANGED <<smVars, plan, origin, blind, asOf, heirs>>

(* The loop of Read: SM.Read, and the entry if there is one. *)
ReadRow(x) ==
  /\ InStmt(x, "read", "next")
  /\ result' = [result EXCEPT ![x] = IF Sees(x, Current(x)) THEN Append(@, Current(x)) ELSE @]
  /\ st' = Skip(x)
  /\ UNCHANGED <<smVars, plan, origin, blind, asOf, heirs>>

(* Mutant of UpdateRead: the version found is left undeleted. *)
UpdateReadKeeps(x) ==
  /\ InStmt(x, "update", "next")
  /\ st' = IF Sees(x, Current(x)) THEN Goto(x, "insert") ELSE Skip(x)
  /\ UNCHANGED <<smVars, plan, result, origin, blind, asOf, heirs>>

(* The loop of Update: SM.Read ... *)
UpdateRead(x) ==
  /\ InStmt(x, "update", "next")
  /\ st' = IF Sees(x, Current(x)) THEN Goto(x, "delete") ELSE Skip(x)
  /\ UNCHANGED <<smVars, plan, result, origin, blind, asOf, heirs>>

(* SM.Delete has returned without an error.  Delete counts the row; Update    *)
(* goes on whatever it answered.                                              *)
AfterDelete(x) == IF plan[x].kind = "update" THEN Goto(x, "insert") ELSE Skip(x)

(* ... then SM.Delete, as in the loop of Delete.  An entry that is not        *)
(* visible any more makes it return false at once.                            *)
DeleteCall(x) ==
  /\ InStmt(x, "update", "delete") \/ InStmt(x, "delete", "next")
  /\ \/ /\ DeleteAcquire(x, Current(x))
        /\ st' = Goto(x, "waiting")
        /\ UNCHANGED blind
     \/ /\ ~Sees(x, Current(x))
        /\ st' = AfterDelete(x)
        /\ blind' = IF plan[x].kind = "update" THEN blind \cup {x} ELSE blind
        /\ UNCHANGED smVars
  /\ UNCHANGED <<plan, result, origin, asOf, heirs>>

(* Mutant of UpdateInsert: nothing is inserted. *)
UpdateInsertNone(x) ==
  /\ InStmt(x, "update", "insert")
  /\ st' = Skip(x)
  /\ UNCHANGED <<smVars, plan, result, origin, blind, asOf, heirs>>

(* SM.Insert of the new version, and its index entries. *)
UpdateInsert(x) ==
  LET u == Cardinality(inserted) + 1 IN
  /\ InStmt(x, "update", "insert")
  /\ Insert(x, u) /\ origin' = [origin EXCEPT ![u] = origin[Current(x)]]
  /\ st' = Skip(x)
  /\ UNCHANGED <<plan, result, blind, asOf, heirs>>

(* COMMIT and ABORT come when the statement has returned. *)
Returned(x) == st[x].at \in {"end", "failed"}
Commit(x) == Returned(x) /\ CommitStart(x) /\ UNCHANGED tableVars
Abort(x) == Returned(x) /\ AbortStart(x) /\ UNCHANGED tableVars

(* The rest of SM.Delete, SM.Commit and SM.Abort.  A statement goes on when   *)
(* its SM.Delete returns, and fails with the error of a doomed transaction.   *)
SMStep(x) ==
  /\ Step(x)
  /\ st' = IF Returned(x) \/ pc'[x] # "idle" THEN st
           ELSE IF x \in err THEN Goto(x, "failed") ELSE AfterDelete(x)
  /\ heirs' = IF x \in done' \ done THEN heirs \cup LT!Heirs(x) ELSE heirs
  /\ UNCHANGED <<plan, result, origin, blind, asOf>>

TableStep(x) ==
  \/ ReadRow(x) \/ UpdateRead(x) \/ DeleteCall(x) \/ UpdateInsert(x) \/ SMStep(x)

TableNext ==
  \E x \in XID :
    \/ BeginTx(x) \/ Search(x)
    \/ Commit(x) \/ Abort(x)
    \/ TableStep(x)

TableSpec == TableInit /\ [][TableNext]_vars

(* Goroutines are scheduled.  A client whose statement has returned ends its  *)
(* transaction in the end; when its connection closes the executor does so    *)
(* (server/executor.go:34).  Transaction 1 is over.                           *)
TableFairSpec == TableSpec /\ \A x \in XID \ {1} : WF_vars(TableStep(x) \/ Abort(x))
-----------------------------------------------------------------------------
(* Update deletes a version and inserts one in the same transaction           *)
(* (table.go:210): whatever commits, aborts or is doomed in between, a row    *)
(* is gone only when a DELETE that met it has committed.                      *)
RowsSurvive ==
  \A r \in Rows :
    \/ Versions(r) # {}
    \/ \E u \in inserted, x \in XID : /\ origin[u] = r /\ x \in deleters[u]
                                      /\ IsCommitted(x) /\ plan[x].kind = "delete"

(* A row has two current versions only if a second transaction deleted a      *)
(* version whose deleter committed, or one inserted its own without deleting  *)
(* any (table.go:241 drops the answer of SM.Delete).                          *)
MultipliedOnlyByRaces ==
  \A r \in Rows : Cardinality(Versions(r)) > 1 =>
    \/ \E x \in blind : IsCommitted(x)
    \/ \E u \in inserted : /\ origin[u] = r /\ Cardinality(deleters[u]) > 1
                           /\ \E x \in deleters[u] : IsCommitted(x)

(* A READ at repeatable read (table.go:276) returns the versions that were    *)
(* current when its transaction began, each once for every range of its WHERE *)
(* clause that holds it, although others update and commit while it walks its *)
(* uuids.  Two kinds of version are excepted: one written or deleted by a     *)
(* transaction that was then between lt.Remove and its status byte, and one   *)
(* that was deleted and comes back when a second deleter replaces the mark.   *)
ReadsItsSnapshot ==
  \A x \in XID : plan[x].kind = "read" /\ plan[x].level = 1 /\ st[x].at = "end" =>
    \A u \in inserted :
      LET wanted == IF u \in asOf[x].current
                      THEN {i \in DOMAIN plan[x].ranges : origin[u] \in plan[x].ranges[i]} ELSE {}
      IN  \/ Cardinality({i \in DOMAIN result[x] : result[x][i] = u}) = Cardinality(wanted)
          \/ asOf[x].window \cap (deleters[u] \cup {xmin[u]}) # {}
          \/ u \notin asOf[x].current /\ Cardinality(deleters[u]) > 1

(* x waits, directly or through the waits of others, for transactions nobody  *)
(* wakes: an ended one that owns an entry it was handed by a Remove           *)
(* (lock_table.go:124 does not list it in x2u), or a circle with such an heir.*)
Stranded(x) ==
  \E S \in SUBSET XID :
    /\ x \in S
    /\ \A y \in S : xwaitu[y] # NilUUID /\ u2x[xwaitu[y]] \in S \cup (done \cap heirs)
    /\ \E y \in S : u2x[xwaitu[y]] \in heirs

(* Every statement returns, by finishing or by failing, also when rows are    *)
(* locked in opposite orders, as long as every client ends its transaction.   *)
(* Two cases are excepted, both of the lock table: a stranded wait, and an    *)
(* Add that spins in removeFromList with both locks (lock_table.go:184).      *)
StatementsReturn ==
  \A x \in XID \ {1} : st[x].at = "next" ~> Returned(x) \/ hung \/ Stranded(x)

(* "Delete the original entry" (table.go:241, 删除原来的entry): an update     *)
(* replaces the version, so that a row has one.  The code does not keep this. *)
UpdateReplaces == \A r \in Rows : Cardinality(Versions(r)) <= 1

(* readme.md:88, "snapshot isolation": a repeatable READ returns at most       *)
(* one version of a row.  The code does not keep this.                        *)
ReadsEachRowOnce ==
  \A x \in XID : plan[x].level = 1 /\ Len(plan[x].ranges) = 1 =>
    \A i, j \in DOMAIN result[x] : origin[result[x][i]] = origin[result[x][j]] => i = j
=============================================================================

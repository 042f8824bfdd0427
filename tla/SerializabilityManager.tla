----------------------- MODULE SerializabilityManager -----------------------
(* backend/sm: multi-version entries, two isolation levels and row locks.    *)
(* A transaction is one goroutine; what a method does between two            *)
(* acquisitions of sm.lock is one step, and so is each call it makes outside *)
(* sm.lock (lt.Remove, TM.Commit, TM.Abort).  Composes LockTable and the     *)
(* status bytes of backend/tm.                                               *)
EXTENDS Naturals, Sequences

CONSTANTS MaxXID,  \* bound on the transactions ever begun
          UID,     \* entries that can exist
          Rows,    \* the entries transaction 1 created and committed before
          Levels   \* isolation levels in use: 0 read committed, 1 repeatable read

SUPER_XID == 0
NilUUID == 0
XID == 1..MaxXID

ASSUME MaxXIDAssumption == MaxXID \in Nat \ {0}
ASSUME UIDAssumption == UID \subseteq Nat \ {NilUUID}
ASSUME RowsAssumption == Rows \subseteq UID
ASSUME LevelsAssumption == Levels \subseteq {0, 1}

VARIABLES x2u, u2x, wait, waitCh, xwaitu, token, done, hung,  \* sm.lt
          status,        \* the transaction's byte of the xid file
          xidCounter,    \* last xid handed out
          tc,            \* sm.tc: transactions not yet committed or aborted
          level,         \* t.Level
          snapshot,      \* t.snapshot
          err,           \* transactions with t.Err # nil
          autoAbortted,  \* t.AutoAbortted
          inserted,      \* uids of stored entries
          xmin, xmax,    \* header of an entry
          pc, arg,       \* where xid's goroutine is, and the uid of its Delete
          deleters       \* history: transactions whose Delete(uid) returned true

LT == INSTANCE LockTable WITH NoXID <- SUPER_XID, NoUID <- NilUUID

lockVars == <<x2u, u2x, wait, waitCh, xwaitu, token, done, hung>>
txVars == <<status, xidCounter, tc, level, snapshot, err, autoAbortted>>
entryVars == <<inserted, xmin, xmax, deleters>>
smVars == <<lockVars, txVars, entryVars, pc, arg>>

Status == {"none", "active", "committed", "aborted"}
Points == {"idle", "deleting", "spinning", "autoRemove", "autoMark", "commitRemove",
           "commitMark", "abortRemove", "abortMark", "end"}

TypeOK ==
  /\ LT!TypeOK
  /\ status \in [XID -> Status]
  /\ xidCounter \in 1..MaxXID
  /\ tc \in SUBSET XID
  /\ level \in [XID -> {0, 1}]
  /\ snapshot \in [XID -> SUBSET XID]
  /\ err \in SUBSET XID
  /\ autoAbortted \in SUBSET XID
  /\ inserted \in SUBSET UID
  /\ xmin \in [UID -> XID \cup {SUPER_XID}]
  /\ xmax \in [UID -> XID \cup {SUPER_XID}]
  /\ deleters \in [UID -> SUBSET XID]
  /\ pc \in [XID -> Points]
  /\ arg \in [XID -> UID \cup {NilUUID}]

(* Transaction 1 inserted Rows and committed. *)
Init ==
  /\ LT!Init
  /\ status = [x \in XID |-> IF x = 1 THEN "committed" ELSE "none"]
  /\ xidCounter = 1
  /\ tc = {}
  /\ level = [x \in XID |-> 0]
  /\ snapshot = [x \in XID |-> {}]
  /\ err = {}
  /\ autoAbortted = {}
  /\ inserted = Rows
  /\ xmin = [u \in UID |-> IF u \in Rows THEN 1 ELSE SUPER_XID]
  /\ xmax = [u \in UID |-> SUPER_XID]
  /\ deleters = [u \in UID |-> {}]
  /\ pc = [x \in XID |-> IF x = 1 THEN "end" ELSE "idle"]
  /\ arg = [x \in XID |-> NilUUID]
-----------------------------------------------------------------------------
IsCommitted(x) == x = SUPER_XID \/ (x \in XID /\ status[x] = "committed")

(* t.InSnapShot answers no for SUPER_XID, which tc and snapshots leave out here. *)
InSnapShot(t, x) == x \in snapshot[t]

(* Mutant of IsVersionSkip: only younger deleters count. *)
IsVersionSkipYounger(t, u) ==
  level[t] # 0 /\ IsCommitted(xmax[u]) /\ xmax[u] > t

IsVersionSkip(t, u) ==
  /\ level[t] # 0
  /\ IsCommitted(xmax[u])
  /\ xmax[u] > t \/ InSnapShot(t, xmax[u])

readCommitted(t, u) ==
  \/ xmin[u] = t /\ xmax[u] = SUPER_XID
  \/ /\ IsCommitted(xmin[u])
     /\ \/ xmax[u] = SUPER_XID
        \/ xmax[u] # t /\ ~IsCommitted(xmax[u])

(* Mutant of repeatableRead: the snapshot is not asked about the creator. *)
repeatableReadNoSnapshot(t, u) ==
  \/ xmin[u] = t /\ xmax[u] = SUPER_XID
  \/ /\ IsCommitted(xmin[u]) /\ xmin[u] < t
     /\ \/ xmax[u] = SUPER_XID
        \/ /\ xmax[u] # t
           /\ ~IsCommitted(xmax[u]) \/ xmax[u] > t \/ InSnapShot(t, xmax[u])

repeatableRead(t, u) ==
  \/ xmin[u] = t /\ xmax[u] = SUPER_XID
  \/ /\ IsCommitted(xmin[u]) /\ xmin[u] < t /\ ~InSnapShot(t, xmin[u])
     /\ \/ xmax[u] = SUPER_XID
        \/ /\ xmax[u] # t
           /\ ~IsCommitted(xmax[u]) \/ xmax[u] > t \/ InSnapShot(t, xmax[u])

IsVisible(t, u) ==
  IF level[t] = 0 THEN readCommitted(t, u) ELSE repeatableRead(t, u)

(* Mutant of Sees: a doomed transaction goes on reading. *)
SeesDoomed(x, u) == u \in inserted /\ IsVisible(x, u)

(* Whether Read(x, u) returns the entry; it changes no state, and a doomed   *)
(* transaction only gets t.Err. *)
Sees(x, u) == x \notin err /\ u \in inserted /\ IsVisible(x, u)
-----------------------------------------------------------------------------
(* x runs no method and may call one that starts by taking sm.lock. *)
Running(x) == pc[x] = "idle" /\ x \in tc /\ ~hung

goto(x, p) == pc' = [pc EXCEPT ![x] = p]

(* newTransaction copies the keys of sm.tc when the level is not 0. *)
Begin(x, l) ==
  /\ ~hung
  /\ x = xidCounter + 1
  /\ xidCounter' = x
  /\ status' = [status EXCEPT ![x] = "active"]
  /\ level' = [level EXCEPT ![x] = l]
  /\ snapshot' = [snapshot EXCEPT ![x] = IF l = 0 THEN {} ELSE tc]
  /\ tc' = tc \cup {x}
  /\ UNCHANGED <<lockVars, err, autoAbortted, entryVars, pc, arg>>

Insert(x, u) ==
  /\ Running(x) /\ x \notin err
  /\ u \notin inserted
  /\ inserted' = inserted \cup {u}
  /\ xmin' = [xmin EXCEPT ![u] = x]
  /\ xmax' = [xmax EXCEPT ![u] = SUPER_XID]
  /\ UNCHANGED <<lockVars, txVars, deleters, pc, arg>>

(* Delete up to the wait on the channel.  An entry that is not visible ends  *)
(* the call with nothing changed. *)
DeleteAcquire(x, u) ==
  /\ Running(x)
  /\ Sees(x, u)
  /\ \/ /\ LT!AddHeld(x, u) \/ LT!AddFree(x, u) \/ LT!AddWait(x, u)
        /\ goto(x, "deleting")
        /\ UNCHANGED err
     \/ /\ LT!AddRefuse(x, u)
        /\ goto(x, IF hung' THEN "spinning" ELSE "autoRemove")
        /\ err' = IF hung' THEN err ELSE err \cup {x}
  /\ arg' = [arg EXCEPT ![x] = u]
  /\ UNCHANGED <<status, xidCounter, tc, level, snapshot, autoAbortted, entryVars>>

(* Mutant of DeleteFinish: the channel is only polled. *)
DeleteFinishNoWait(x) ==
  LET u == arg[x] IN
  /\ pc[x] = "deleting" /\ ~hung
  /\ LT!Receive(x) \/ (x \notin token /\ UNCHANGED lockVars)
  /\ goto(x, "idle")
  /\ xmax' = [xmax EXCEPT ![u] = x]
  /\ deleters' = [deleters EXCEPT ![u] = @ \cup {x}]
  /\ UNCHANGED <<txVars, inserted, xmin, arg>>

(* Delete after the channel gave its token. *)
DeleteFinish(x) ==
  LET u == arg[x] IN
  /\ pc[x] = "deleting" /\ ~hung
  /\ LT!Receive(x)
  /\ IF x \in err \/ xmax[u] = x
       THEN goto(x, "idle") /\ UNCHANGED <<err, xmax, deleters>>
       ELSE IF IsVersionSkip(x, u)
         THEN goto(x, "autoRemove") /\ err' = err \cup {x} /\ UNCHANGED <<xmax, deleters>>
         ELSE /\ goto(x, "idle")
              /\ xmax' = [xmax EXCEPT ![u] = x]
              /\ deleters' = [deleters EXCEPT ![u] = @ \cup {x}]
              /\ UNCHANGED err
  /\ UNCHANGED <<status, xidCounter, tc, level, snapshot, autoAbortted, inserted, xmin, arg>>

(* Commit and Abort first leave sm.tc under sm.lock. *)
CommitStart(x) ==
  /\ Running(x) /\ x \notin err
  /\ tc' = tc \ {x}
  /\ goto(x, "commitRemove")
  /\ UNCHANGED <<lockVars, status, xidCounter, level, snapshot, err, autoAbortted, entryVars, arg>>

AbortStart(x) ==
  /\ Running(x)
  /\ tc' = tc \ {x}
  /\ goto(x, IF x \in autoAbortted THEN "end" ELSE "abortRemove")
  /\ UNCHANGED <<lockVars, status, xidCounter, level, snapshot, err, autoAbortted, entryVars, arg>>

(* lt.Remove, on the way out of Commit, Abort or a failed Delete. *)
ReleaseLocks(x) ==
  /\ \/ pc[x] = "commitRemove" /\ goto(x, "commitMark")
     \/ pc[x] = "abortRemove" /\ goto(x, "abortMark")
     \/ pc[x] = "autoRemove" /\ goto(x, "autoMark")
  /\ LT!Remove(x)
  /\ UNCHANGED <<txVars, entryVars, arg>>

(* TM.Commit and TM.Abort write the status byte. *)
MarkCommitted(x) ==
  /\ pc[x] = "commitMark" /\ goto(x, "end")
  /\ status' = [status EXCEPT ![x] = "committed"]
  /\ UNCHANGED <<lockVars, xidCounter, tc, level, snapshot, err, autoAbortted, entryVars, arg>>

MarkAborted(x) ==
  /\ \/ pc[x] = "abortMark" /\ goto(x, "end") /\ UNCHANGED autoAbortted
     \/ pc[x] = "autoMark" /\ goto(x, "idle") /\ autoAbortted' = autoAbortted \cup {x}
  /\ status' = [status EXCEPT ![x] = "aborted"]
  /\ UNCHANGED <<lockVars, xidCounter, tc, level, snapshot, err, entryVars, arg>>

Step(x) ==
  \/ DeleteFinish(x)
  \/ ReleaseLocks(x)
  \/ MarkCommitted(x)
  \/ MarkAborted(x)

Next ==
  \E x \in XID :
    \/ \E l \in Levels : Begin(x, l)
    \/ \E u \in UID : Insert(x, u) \/ DeleteAcquire(x, u)
    \/ CommitStart(x)
    \/ AbortStart(x)
    \/ Step(x)

Spec == Init /\ [][Next]_smVars

(* Goroutines are scheduled, and every client ends its transaction in the    *)
(* end: server.serve aborts it when the connection closes.                   *)
FairSpec ==
  /\ Spec
  /\ \A x \in XID : WF_smVars(Step(x)) /\ WF_smVars(AbortStart(x))
-----------------------------------------------------------------------------
(* Delete: the deletion mark of a transaction that is still running is       *)
(* protected by that transaction's row lock, also after the lock was handed  *)
(* over by a Remove.                                                         *)
RunningDeleterOwnsRow ==
  \A u \in UID : xmax[u] \in tc \ err => u2x[u] = xmax[u]

(* No dirty write at either level: SetXMAX replaces another transaction's    *)
(* mark only after that transaction entered its commit or was doomed.        *)
NoDirtyWrite ==
  [][\A u \in UID :
       xmax[u] # SUPER_XID /\ xmax'[u] # xmax[u] => xmax[u] \notin tc \ err]_smVars

(* x left sm.tc to commit and has not written its status byte yet. *)
Committing(x) == pc[x] \in {"commitRemove", "commitMark"}

(* y was Committing when x began: it is older, unfinished or committed since,*)
(* and missing from x's snapshot.                                            *)
Straddles(y, x) == y < x /\ y \notin snapshot[x]

(* Repeatable read: what a running level-1 transaction sees of the entries   *)
(* other transactions write changes only when a transaction that straddled   *)
(* its Begin writes its status byte, or when a third one replaces a          *)
(* committed mark: one at read committed, where Delete tests nothing after   *)
(* the wait, or one whose own Begin the mark's transaction straddled.        *)
SnapshotStable ==
  [][\A x \in (tc \ err) \cap (tc \ err)', u \in UID :
       level[x] = 1 /\ Sees(x, u)' # Sees(x, u) =>
         \/ xmin'[u] = x \/ xmax'[u] = x
         \/ \E y \in XID : Straddles(y, x) /\ pc[y] = "commitMark" /\ pc'[y] = "end"
         \/ \E y, z \in XID : /\ xmax[u] = y /\ IsCommitted(y) /\ xmax'[u] = z
                              /\ level[z] = 0 \/ Straddles(y, z)]_smVars

(* First updater wins, up to the commit window: a level-1 transaction        *)
(* replaces the mark of a transaction that will commit or has committed only *)
(* while that one is between lt.Remove and TM.Commit, or if it straddled.    *)
OverwriteOnlyInWindow ==
  [][\A x \in XID, u \in UID :
       level[x] = 1 /\ xmax[u] \in XID \ {x} /\ xmax'[u] = x =>
         LET y == xmax[u] IN
         \/ pc[y] \in {"abortMark", "autoMark", "commitMark"}
         \/ status[y] = "aborted"
         \/ status[y] = "committed" /\ Straddles(y, x)]_smVars

(* A transaction doomed by ErrCannotSR never commits. *)
DoomedNeverCommits ==
  \A x \in err : status[x] # "committed" /\ ~Committing(x)

(* readme.md:114, "no timeout needed": a waiting Delete returns. *)
DeleteReturns ==
  \A x \in XID : pc[x] = "deleting" ~> pc[x] # "deleting"

(* The manager keeps to the lock table's protocol: a transaction adds only   *)
(* when it does not wait, and never after its Remove, although an aborted    *)
(* transaction stays in sm.tc and its client may go on calling.              *)
LockProtocol == [][LT!Next]_lockVars

(* readme.md:88, repeatable read "detects version skips and aborts the       *)
(* writer": no two committed transactions deleted the same entry.            *)
NoLostUpdate ==
  \A u \in UID : \A x, y \in deleters[u] :
    IsCommitted(x) /\ IsCommitted(y) => x = y

(* doc/architecture.md:23, "snapshot isolation": what a running level-1      *)
(* transaction sees changes only by its own writes.                          *)
RepeatableRead ==
  [][\A x \in (tc \ err) \cap (tc \ err)', u \in UID :
       level[x] = 1 /\ Sees(x, u)' # Sees(x, u) => xmin'[u] = x \/ xmax'[u] = x]_smVars

(* mvcc_test.go:122, "old version should be invisible after T1 committed     *)
(* delete": an entry stays deleted once one of its deleters committed.       *)
CommittedDeleteIsFinal ==
  \A u \in UID : (\E y \in deleters[u] : IsCommitted(y)) =>
    \A x \in tc : level[x] = 0 => ~Sees(x, u)

(* readme.md:114, DFS deadlock detection, "transactions are aborted          *)
(* automatically, no timeout needed": nobody waits in a circle.              *)
NoDeadlock == LT!NoDeadlock
=============================================================================

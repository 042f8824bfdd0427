-------------------- MODULE SerializabilityManagerProofs --------------------
(* Machine-checked proofs about SerializabilityManager, for any number of    *)
(* transactions and entries.                                                 *)
EXTENDS SerializabilityManager, TLAPS

USE MaxXIDAssumption, UIDAssumption, RowsAssumption, LevelsAssumption

LTP == INSTANCE LockTableProofs WITH NoXID <- SUPER_XID, NoUID <- NilUUID

LEMMA Constants == SUPER_XID \notin XID /\ NilUUID \notin UID
  BY DEF SUPER_XID, XID, NilUUID

(* LT and LTP instantiate the same definitions. *)
LEMMA SameAdd ==
  ASSUME NEW x \in XID, NEW u \in UID
  PROVE  LT!Add(x, u) => LTP!Add(x, u)
<1>1. \A xw : LT!hasDeadLock(xw) <=> LTP!hasDeadLock(xw)
  BY DEF LT!hasDeadLock, LTP!hasDeadLock, LT!Closed, LTP!Closed
<1> QED
  BY <1>1 DEF LT!Add, LTP!Add, LT!AddHeld, LTP!AddHeld, LT!AddFree, LTP!AddFree,
     LT!AddWait, LTP!AddWait, LT!AddRefuse, LTP!AddRefuse

LEMMA SameRemove ==
  ASSUME LTP!IInv, NEW x \in XID
  PROVE  LT!Remove(x) => LTP!Remove(x)
<1>1. \A u \in UID : LT!Waiting(u) = LTP!Waiting(u)
  BY DEF LT!Waiting, LTP!Waiting
<1>2. \A u \in UID : LT!First(u) = LTP!First(u)
  BY <1>1 DEF LT!First, LTP!First
<1>3. \A u \in UID : LT!Heir(u) = LTP!Heir(u) /\ LT!Rest(u) = LTP!Rest(u)
  BY <1>1, <1>2 DEF LT!Heir, LTP!Heir, LT!Rest, LTP!Rest
<1>4. LT!Heirs(x) = LTP!Heirs(x)
  <2>1. x2u[x] \subseteq UID
    BY DEF LTP!IInv, LTP!TypeOK
  <2> QED
    BY <1>3, <2>1 DEF LT!Heirs, LTP!Heirs
<1> QED
  BY <1>3, <1>4 DEF LT!Remove, LTP!Remove

LEMMA LockStep ==
  ASSUME LTP!IInv, [LT!Next]_lockVars
  PROVE LTP!IInv'
<1>1. [LTP!Next]_(LTP!ltVars)
  <2>1. LT!Next => LTP!Next
    BY SameAdd, SameRemove DEF LT!Next, LTP!Next, LT!Receive, LTP!Receive
  <2> QED
    BY <2>1 DEF lockVars, LTP!ltVars
<1> QED
  BY <1>1, LTP!NextIInv, Constants
-----------------------------------------------------------------------------
(* Where a goroutine is fixes what it holds and waits for. *)
PointOK(x) ==
  /\ x \in waitCh => pc[x] = "deleting" /\ arg[x] = xwaitu[x]
  /\ x \in token => pc[x] = "deleting" /\ u2x[arg[x]] = x /\ x \notin waitCh
  /\ pc[x] = "deleting" => x \in tc \ err /\ arg[x] \in UID
  /\ pc[x] \in {"autoRemove", "autoMark"} => x \in err
  /\ pc[x] \in {"commitRemove", "commitMark"} => x \notin tc \cup err
  /\ pc[x] \in {"abortRemove", "abortMark", "end"} => x \notin tc
  /\ x \in done => pc[x] \in {"idle", "autoMark", "commitMark", "abortMark", "end"}
  /\ x \in done /\ pc[x] = "idle" => x \in autoAbortted
  /\ x \in done => x \notin tc \ err
  /\ x > xidCounter => pc[x] = "idle" /\ x \notin tc \cup err \cup done
  /\ status[x] = "committed" => x \notin err /\ pc[x] = "end"

SMInv ==
  /\ TypeOK
  /\ LTP!IInv
  /\ \A x \in XID : PointOK(x)
  /\ \A u \in UID : xmax[u] <= xidCounter
  /\ RunningDeleterOwnsRow

LEMMA InitSMInv == Init => SMInv
<1> SUFFICES ASSUME Init PROVE SMInv
  OBVIOUS
<1>1. LTP!IInv
  <2>1. LTP!Init
    BY DEF Init, LT!Init, LTP!Init
  <2> QED
    BY <2>1, LTP!InitIInv, Constants
<1>2. LT!TypeOK
  BY <1>1 DEF LTP!IInv, LTP!TypeOK, LT!TypeOK
<1>3. 1 \in XID /\ XID \subseteq Nat
  BY DEF XID
<1>4. TypeOK
  BY <1>2, <1>3 DEF Init, TypeOK, Status, Points, XID
<1>5. \A x \in XID : PointOK(x)
  BY <1>3 DEF Init, PointOK, LT!Init, SUPER_XID
<1>6. \A u \in UID : xmax[u] <= xidCounter
  BY DEF Init, SUPER_XID
<1>7. RunningDeleterOwnsRow
  BY DEF Init, RunningDeleterOwnsRow
<1> QED
  BY <1>1, <1>4, <1>5, <1>6, <1>7 DEF SMInv
-----------------------------------------------------------------------------
LEMMA LockTypes == LTP!IInv => LT!TypeOK
  BY DEF LTP!IInv, LTP!TypeOK, LT!TypeOK

LEMMA XIDNat == XID \subseteq Nat /\ SUPER_XID \notin XID /\ SUPER_XID = 0
  BY DEF XID, SUPER_XID

(* Steps that do not touch the lock table. *)
LEMMA NoLockStep ==
  ASSUME SMInv, UNCHANGED lockVars
  PROVE  LTP!IInv' /\ LT!TypeOK' /\ UNCHANGED <<u2x, waitCh, xwaitu, token, done, hung>>
<1>1. LTP!IInv'
  BY LockStep DEF SMInv
<1>2. (LTP!IInv => LT!TypeOK)'
  BY LockTypes, PTL
<1> QED
  BY <1>1, <1>2 DEF lockVars

LEMMA BeginSMInv ==
  ASSUME SMInv, NEW x \in XID, NEW l \in Levels, Begin(x, l)
  PROVE  SMInv'
<1>1. LTP!IInv' /\ LT!TypeOK' /\ UNCHANGED <<u2x, waitCh, xwaitu, token, done, hung>>
  BY NoLockStep DEF Begin
<1>2. /\ x = xidCounter + 1 /\ xidCounter' = x /\ xidCounter \in Nat
      /\ status' = [status EXCEPT ![x] = "active"] /\ tc' = tc \cup {x}
      /\ UNCHANGED <<err, autoAbortted, inserted, xmin, xmax, deleters, pc, arg>>
  BY DEF Begin, entryVars, SMInv, TypeOK
<1>3. TypeOK'
  <2>1. level' \in [XID -> {0, 1}] /\ snapshot' \in [XID -> SUBSET XID]
    BY DEF Begin, SMInv, TypeOK
  <2>2. status' \in [XID -> Status] /\ xidCounter' \in 1..MaxXID /\ tc' \in SUBSET XID
    BY <1>2 DEF SMInv, TypeOK, Status, XID
  <2> QED
    BY <1>1, <1>2, <2>1, <2>2 DEF SMInv, TypeOK
<1>4. \A y \in XID : PointOK(y)'
  <2> TAKE y \in XID
  <2>1. PointOK(y) /\ PointOK(x) /\ y \in Nat /\ status \in [XID -> Status]
    BY XIDNat DEF SMInv, TypeOK
  <2>2. CASE y = x
    BY <1>1, <1>2, <2>1, <2>2 DEF PointOK, XID
  <2>3. CASE y # x
    BY <1>1, <1>2, <2>1, <2>3 DEF PointOK
  <2> QED
    BY <2>2, <2>3
<1>5. \A u \in UID : xmax'[u] <= xidCounter' /\ xmax'[u] # x
  <2>1. \A u \in UID : xmax[u] \in Nat /\ xmax[u] <= xidCounter
    <3>1. xmax \in [UID -> XID \cup {SUPER_XID}] /\ \A u \in UID : xmax[u] <= xidCounter
      BY DEF SMInv, TypeOK
    <3>2. XID \cup {SUPER_XID} \subseteq Nat
      BY XIDNat
    <3> QED
      BY <3>1, <3>2
  <2> QED
    BY <1>2, <2>1
<1>6. RunningDeleterOwnsRow'
  BY <1>1, <1>2, <1>5 DEF SMInv, RunningDeleterOwnsRow
<1> QED
  BY <1>1, <1>3, <1>4, <1>5, <1>6 DEF SMInv

LEMMA InsertSMInv ==
  ASSUME SMInv, NEW x \in XID, NEW u \in UID, Insert(x, u)
  PROVE  SMInv'
<1>1. LTP!IInv' /\ LT!TypeOK' /\ UNCHANGED <<u2x, waitCh, xwaitu, token, done, hung>>
  BY NoLockStep DEF Insert
<1>2. /\ xmax' = [xmax EXCEPT ![u] = SUPER_XID] /\ UNCHANGED <<txVars, deleters, pc, arg>>
      /\ inserted' = inserted \cup {u} /\ xmin' = [xmin EXCEPT ![u] = x]
  BY DEF Insert
<1>3. TypeOK'
  BY <1>1, <1>2 DEF SMInv, TypeOK, txVars
<1>4. \A y \in XID : PointOK(y)'
  BY <1>1, <1>2 DEF SMInv, PointOK, txVars
<1>5. \A v \in UID : xmax'[v] <= xidCounter'
  BY <1>2, XIDNat DEF SMInv, TypeOK, txVars
<1>6. RunningDeleterOwnsRow'
  BY <1>1, <1>2, XIDNat DEF SMInv, TypeOK, RunningDeleterOwnsRow, txVars
<1> QED
  BY <1>1, <1>3, <1>4, <1>5, <1>6 DEF SMInv

(* Commit and Abort up to the release of sm.lock. *)
LEMMA EndStartSMInv ==
  ASSUME SMInv, NEW x \in XID, CommitStart(x) \/ AbortStart(x)
  PROVE  SMInv'
<1> DEFINE p == IF CommitStart(x) THEN "commitRemove"
                ELSE IF x \in autoAbortted THEN "end" ELSE "abortRemove"
<1>1. LTP!IInv' /\ LT!TypeOK' /\ UNCHANGED <<u2x, waitCh, xwaitu, token, done, hung>>
  BY NoLockStep DEF CommitStart, AbortStart
<1>2. /\ pc[x] = "idle" /\ x \in tc /\ tc' = tc \ {x}
      /\ UNCHANGED <<status, xidCounter, level, snapshot, err, autoAbortted, entryVars, arg>>
  BY DEF CommitStart, AbortStart, Running
<1>3. /\ pc' = [pc EXCEPT ![x] = p] /\ p \in {"commitRemove", "abortRemove", "end"}
      /\ p = "commitRemove" => x \notin err
      /\ p = "abortRemove" => x \notin autoAbortted
  BY DEF CommitStart, AbortStart, goto
<1> HIDE DEF p
<1>4. TypeOK'
  BY <1>1, <1>2, <1>3 DEF SMInv, TypeOK, entryVars, Points
<1>5. \A y \in XID : PointOK(y)'
  <2> TAKE y \in XID
  <2>1. PointOK(y) /\ pc \in [XID -> Points]
    BY DEF SMInv, TypeOK
  <2>2. CASE y = x
    BY <1>1, <1>2, <1>3, <2>1, <2>2 DEF PointOK
  <2>3. CASE y # x
    BY <1>1, <1>2, <1>3, <2>1, <2>3 DEF PointOK
  <2> QED
    BY <2>2, <2>3
<1>6. RunningDeleterOwnsRow' /\ \A u \in UID : xmax'[u] <= xidCounter'
  BY <1>1, <1>2 DEF SMInv, RunningDeleterOwnsRow, entryVars
<1> QED
  BY <1>1, <1>4, <1>5, <1>6 DEF SMInv

(* The status byte. *)
LEMMA MarkSMInv ==
  ASSUME SMInv, NEW x \in XID, MarkCommitted(x) \/ MarkAborted(x)
  PROVE  SMInv'
<1>1. LTP!IInv' /\ LT!TypeOK' /\ UNCHANGED <<u2x, waitCh, xwaitu, token, done, hung>>
  BY NoLockStep DEF MarkCommitted, MarkAborted
<1>2. UNCHANGED <<xidCounter, tc, level, snapshot, err, entryVars, arg>>
  BY DEF MarkCommitted, MarkAborted
<1>3. \/ /\ pc[x] = "commitMark" /\ pc' = [pc EXCEPT ![x] = "end"]
         /\ status' = [status EXCEPT ![x] = "committed"] /\ UNCHANGED autoAbortted
      \/ /\ pc[x] = "abortMark" /\ pc' = [pc EXCEPT ![x] = "end"]
         /\ status' = [status EXCEPT ![x] = "aborted"] /\ UNCHANGED autoAbortted
      \/ /\ pc[x] = "autoMark" /\ pc' = [pc EXCEPT ![x] = "idle"]
         /\ status' = [status EXCEPT ![x] = "aborted"] /\ autoAbortted' = autoAbortted \cup {x}
  BY DEF MarkCommitted, MarkAborted, goto
<1>4. TypeOK'
  BY <1>1, <1>2, <1>3 DEF SMInv, TypeOK, entryVars, Points, Status
<1>5. \A y \in XID : PointOK(y)'
  <2> TAKE y \in XID
  <2>1. PointOK(y) /\ pc \in [XID -> Points] /\ status \in [XID -> Status]
    BY DEF SMInv, TypeOK
  <2>2. CASE y = x
    BY <1>1, <1>2, <1>3, <2>1, <2>2 DEF PointOK
  <2>3. CASE y # x
    BY <1>1, <1>2, <1>3, <2>1, <2>3 DEF PointOK
  <2> QED
    BY <2>2, <2>3
<1>6. RunningDeleterOwnsRow' /\ \A u \in UID : xmax'[u] <= xidCounter'
  BY <1>1, <1>2 DEF SMInv, RunningDeleterOwnsRow, entryVars
<1> QED
  BY <1>1, <1>4, <1>5, <1>6 DEF SMInv

(* Delete up to the channel: the lock table keeps its invariant because x    *)
(* neither waits nor was removed; only a free entry changes its owner.       *)
LEMMA DeleteAcquireSMInv ==
  ASSUME SMInv, NEW x \in XID, NEW u \in UID, DeleteAcquire(x, u)
  PROVE  SMInv' /\ LT!Next
<1>1. /\ pc[x] = "idle" /\ x \in tc \ err /\ PointOK(x)
      /\ arg' = [arg EXCEPT ![x] = u]
      /\ UNCHANGED <<status, xidCounter, tc, level, snapshot, autoAbortted, entryVars>>
      /\ pc \in [XID -> Points] /\ arg \in [XID -> UID \cup {NilUUID}]
  BY DEF DeleteAcquire, Running, Sees, SMInv, TypeOK
<1>2. x \notin done \cup waitCh \cup token
  BY <1>1 DEF PointOK
<1>3. LT!Add(x, u)
  BY DEF DeleteAcquire, LT!Add
<1>4. LT!Next
  BY <1>2, <1>3 DEF LT!Next
<1>5. LTP!IInv' /\ LT!TypeOK'
  <2>1. LTP!IInv'
    BY <1>4, LockStep DEF SMInv
  <2>2. (LTP!IInv => LT!TypeOK)'
    BY LockTypes, PTL
  <2> QED
    BY <2>1, <2>2
<1>6. /\ done' = done
      /\ \A v \in UID : u2x[v] # SUPER_XID => u2x'[v] = u2x[v]
      /\ \A y \in XID \ {x} : /\ y \in waitCh' <=> y \in waitCh
                              /\ y \in token' <=> y \in token
                              /\ xwaitu'[y] = xwaitu[y]
  BY <1>3 DEF LT!Add, LT!AddHeld, LT!AddFree, LT!AddWait, LT!AddRefuse, SMInv, TypeOK, LT!TypeOK
<1>7. \/ /\ LT!AddHeld(x, u) \/ LT!AddFree(x, u) \/ LT!AddWait(x, u)
         /\ pc' = [pc EXCEPT ![x] = "deleting"] /\ err' = err
      \/ /\ LT!AddRefuse(x, u)
         /\ \/ pc' = [pc EXCEPT ![x] = "spinning"] /\ err' = err
            \/ pc' = [pc EXCEPT ![x] = "autoRemove"] /\ err' = err \cup {x}
  BY DEF DeleteAcquire, goto
<1>8. TypeOK'
  BY <1>1, <1>5, <1>7 DEF SMInv, TypeOK, entryVars, Points
<1>9. PointOK(x)'
  <2>1. /\ x \in waitCh' => LT!AddWait(x, u) /\ xwaitu'[x] = u
        /\ x \in token' => /\ LT!AddHeld(x, u) \/ LT!AddFree(x, u)
                           /\ u2x'[u] = x /\ x \notin waitCh'
    BY <1>2, <1>3 DEF LT!Add, LT!AddHeld, LT!AddFree, LT!AddWait, LT!AddRefuse,
         SMInv, TypeOK, LT!TypeOK, LTP!IInv, LTP!RegisteredIsOwned
  <2>2. /\ x \in waitCh' \cup token' => pc'[x] = "deleting"
        /\ pc'[x] \in {"deleting", "spinning", "autoRemove"}
        /\ pc'[x] = "deleting" => err' = err
        /\ pc'[x] = "autoRemove" => x \in err'
    BY <1>1, <1>2, <1>7 DEF LT!AddRefuse
  <2>3. arg'[x] = u
    BY <1>1
  <2>4. x \notin done' /\ ~(x > xidCounter') /\ status'[x] # "committed"
    BY <1>1, <1>2, <1>6 DEF PointOK
  <2> QED
    BY <1>1, <2>1, <2>2, <2>3, <2>4 DEF PointOK
<1>10. \A y \in XID \ {x} : PointOK(y)'
  <2> TAKE y \in XID \ {x}
  <2>1. PointOK(y) /\ pc'[y] = pc[y] /\ arg'[y] = arg[y] /\ (y \in err' <=> y \in err)
    BY <1>1, <1>7 DEF SMInv
  <2>2. y \in token => u2x'[arg[y]] = y
    BY <1>6, <2>1, XIDNat DEF PointOK
  <2>3. /\ y \in waitCh' <=> y \in waitCh
        /\ y \in token' <=> y \in token
        /\ xwaitu'[y] = xwaitu[y] /\ done' = done
    BY <1>6
  <2>4. UNCHANGED <<status, xidCounter, tc, autoAbortted>>
    BY <1>1
  <2>5. /\ y \in waitCh' => pc'[y] = "deleting" /\ arg'[y] = xwaitu'[y]
        /\ y \in token' => pc'[y] = "deleting" /\ u2x'[arg'[y]] = y /\ y \notin waitCh'
    BY <2>1, <2>2, <2>3 DEF PointOK
  <2>6. /\ pc'[y] = "deleting" => y \in tc' \ err' /\ arg'[y] \in UID
        /\ y \in done' => y \notin tc' \ err'
        /\ y \in tc' \cup err' \cup done' <=> y \in tc \cup err \cup done
        /\ y \in tc' \cup err' <=> y \in tc \cup err
    BY <2>1, <2>3, <2>4 DEF PointOK
  <2> QED
    BY <2>1, <2>3, <2>4, <2>5, <2>6 DEF PointOK
<1>11. RunningDeleterOwnsRow'
  <2> SUFFICES ASSUME NEW v \in UID, xmax'[v] \in tc' \ err'
               PROVE  u2x'[v] = xmax'[v]
    BY DEF RunningDeleterOwnsRow
  <2>1. xmax[v] \in tc \ err /\ xmax'[v] = xmax[v]
    BY <1>1, <1>7 DEF entryVars
  <2>2. u2x[v] = xmax[v] /\ xmax[v] \in XID
    BY <2>1 DEF SMInv, RunningDeleterOwnsRow, TypeOK
  <2> QED
    BY <1>6, <2>1, <2>2, XIDNat
<1> QED
  BY <1>1, <1>4, <1>5, <1>8, <1>9, <1>10, <1>11 DEF SMInv, entryVars

(* Delete after the channel: the token proves that x owns the entry. *)
LEMMA DeleteFinishSMInv ==
  ASSUME SMInv, NEW x \in XID, DeleteFinish(x)
  PROVE  SMInv' /\ LT!Next
<1> DEFINE u == arg[x]
<1>1. /\ pc[x] = "deleting" /\ PointOK(x) /\ LT!Receive(x)
      /\ UNCHANGED <<status, xidCounter, tc, level, snapshot, autoAbortted, inserted, xmin, arg>>
      /\ pc \in [XID -> Points] /\ xmax \in [UID -> XID \cup {SUPER_XID}]
      /\ deleters \in [UID -> SUBSET XID]
  BY DEF DeleteFinish, SMInv, TypeOK
<1>2. /\ x \in token /\ token' = token \ {x}
      /\ UNCHANGED <<x2u, u2x, wait, waitCh, xwaitu, done, hung>>
  BY <1>1 DEF LT!Receive
<1>3. x \notin done /\ x \in tc \ err /\ u \in UID /\ u2x[u] = x /\ ~(x > xidCounter)
      /\ status[x] # "committed"
  BY <1>1, <1>2 DEF PointOK
<1>4. LT!Next
  BY <1>1, <1>3 DEF LT!Next
<1>5. LTP!IInv' /\ LT!TypeOK'
  <2>1. LTP!IInv'
    BY <1>4, LockStep DEF SMInv
  <2>2. (LTP!IInv => LT!TypeOK)'
    BY LockTypes, PTL
  <2> QED
    BY <2>1, <2>2
<1>6. \/ pc' = [pc EXCEPT ![x] = "idle"] /\ UNCHANGED <<err, xmax, deleters>>
      \/ /\ pc' = [pc EXCEPT ![x] = "autoRemove"] /\ err' = err \cup {x}
         /\ UNCHANGED <<xmax, deleters>>
      \/ /\ pc' = [pc EXCEPT ![x] = "idle"] /\ xmax' = [xmax EXCEPT ![u] = x] /\ err' = err
         /\ deleters' = [deleters EXCEPT ![u] = @ \cup {x}]
  BY DEF DeleteFinish, goto
<1> HIDE DEF u
<1>7. TypeOK'
  BY <1>1, <1>3, <1>5, <1>6 DEF SMInv, TypeOK, Points
<1>8. x \notin waitCh
  BY <1>1, <1>2 DEF PointOK
<1>9. PointOK(x)'
  <2>1. pc'[x] \in {"idle", "autoRemove"} /\ (pc'[x] = "autoRemove" => x \in err')
    BY <1>1, <1>6
  <2>2. x \notin waitCh' /\ x \notin token' /\ x \notin done'
    BY <1>2, <1>3, <1>8
  <2>3. ~(x > xidCounter') /\ status'[x] # "committed"
    BY <1>1, <1>3
  <2> QED
    BY <2>1, <2>2, <2>3 DEF PointOK
<1>10. \A y \in XID \ {x} : PointOK(y)'
  <2> TAKE y \in XID \ {x}
  <2>1. PointOK(y) /\ pc'[y] = pc[y] /\ arg' = arg /\ (y \in err' <=> y \in err)
    BY <1>1, <1>6 DEF SMInv
  <2>2. (y \in token' <=> y \in token) /\ UNCHANGED <<u2x, waitCh, xwaitu, done>>
    BY <1>2
  <2>3. UNCHANGED <<status, xidCounter, tc, autoAbortted>>
    BY <1>1
  <2> QED
    BY <2>1, <2>2, <2>3 DEF PointOK
<1>11. RunningDeleterOwnsRow'
  BY <1>1, <1>2, <1>3, <1>6 DEF SMInv, RunningDeleterOwnsRow
<1>12. \A v \in UID : xmax'[v] <= xidCounter'
  <2>1. x <= xidCounter
    BY <1>3, XIDNat DEF SMInv, TypeOK
  <2> QED
    BY <1>1, <1>3, <1>6, <2>1 DEF SMInv
<1> QED
  BY <1>4, <1>5, <1>7, <1>9, <1>10, <1>11, <1>12 DEF SMInv

(* lt.Remove: x is not running any more, so no running deleter loses its     *)
(* row; an heir gets the entry its Delete waits for.                         *)
LEMMA ReleaseLocksSMInv ==
  ASSUME SMInv, NEW x \in XID, ReleaseLocks(x)
  PROVE  SMInv' /\ LT!Next
<1>1. /\ LT!Remove(x) /\ PointOK(x) /\ UNCHANGED <<txVars, entryVars, arg>>
      /\ \/ pc[x] = "commitRemove" /\ pc' = [pc EXCEPT ![x] = "commitMark"]
         \/ pc[x] = "abortRemove" /\ pc' = [pc EXCEPT ![x] = "abortMark"]
         \/ pc[x] = "autoRemove" /\ pc' = [pc EXCEPT ![x] = "autoMark"]
      /\ pc \in [XID -> Points]
  BY DEF ReleaseLocks, goto, SMInv, TypeOK
<1>2. x \notin done /\ x \notin waitCh /\ x \notin token /\ x \notin tc \ err
  BY <1>1 DEF PointOK
<1>3. LT!Next
  BY <1>1, <1>2 DEF LT!Next
<1>4. LTP!IInv' /\ LT!TypeOK'
  <2>1. LTP!IInv'
    BY <1>3, LockStep DEF SMInv
  <2>2. (LTP!IInv => LT!TypeOK)'
    BY LockTypes, PTL
  <2> QED
    BY <2>1, <2>2
<1>5. /\ u2x' = [u \in UID |-> IF u \in x2u[x] THEN LTP!Heir(u) ELSE u2x[u]]
      /\ waitCh' = waitCh \ (LTP!Heirs(x) \cup {x})
      /\ xwaitu' = [y \in XID |-> IF y \in LTP!Heirs(x) \cup {x} THEN NilUUID ELSE xwaitu[y]]
      /\ token' = token \cup LTP!Heirs(x)
      /\ done' = done \cup {x}
  BY <1>1, SameRemove DEF LTP!Remove, SMInv
<1>6. \A u \in x2u[x] : u \in UID /\ u2x[u] = x
  BY DEF SMInv, LTP!IInv, LTP!TypeOK, LTP!RegisteredIsOwned
<1>7. \A y \in LTP!Heirs(x) : y \in waitCh /\ y # x /\ u2x'[xwaitu[y]] = y
  <2> SUFFICES ASSUME NEW y \in LTP!Heirs(x)
               PROVE  y \in waitCh /\ y # x /\ u2x'[xwaitu[y]] = y
    OBVIOUS
  <2>1. PICK u \in x2u[x] : y = LTP!Heir(u) /\ y # SUPER_XID
    BY DEF LTP!Heirs
  <2>2. u \in UID
    BY <1>6
  <2>3. y \in waitCh /\ xwaitu[y] = u
    BY <2>1, <2>2, LTP!HeirWaited, Constants DEF SMInv, LTP!IInv
  <2> QED
    BY <1>2, <1>5, <2>1, <2>2, <2>3
<1>8. TypeOK'
  BY <1>1, <1>4 DEF SMInv, TypeOK, txVars, entryVars, Points
<1>9. PointOK(x)'
  <2>1. /\ x \notin waitCh' /\ x \notin token' /\ ~(x > xidCounter') /\ status'[x] # "committed"
    BY <1>1, <1>2, <1>5, <1>7 DEF txVars, PointOK
  <2>2. \/ pc[x] = "commitRemove" /\ pc'[x] = "commitMark"
        \/ pc[x] = "abortRemove" /\ pc'[x] = "abortMark"
        \/ pc[x] = "autoRemove" /\ pc'[x] = "autoMark"
    BY <1>1
  <2>3. tc' = tc /\ err' = err
    BY <1>1 DEF txVars
  <2> QED
    BY <1>1, <1>2, <2>1, <2>2, <2>3 DEF PointOK
<1>10. \A y \in XID \ {x} : PointOK(y)'
  <2> TAKE y \in XID \ {x}
  <2>1. PointOK(y) /\ pc'[y] = pc[y] /\ arg' = arg /\ (y \in done' <=> y \in done)
    BY <1>1, <1>5 DEF SMInv
  <2>2. UNCHANGED <<status, xidCounter, tc, err, autoAbortted>>
    BY <1>1 DEF txVars
  <2>3. y \in waitCh' => pc'[y] = "deleting" /\ arg'[y] = xwaitu'[y]
    BY <1>5, <2>1 DEF PointOK
  <2>4. y \in token' => pc'[y] = "deleting" /\ u2x'[arg'[y]] = y /\ y \notin waitCh'
    <3>1. CASE y \in LTP!Heirs(x)
      BY <1>5, <1>7, <2>1, <3>1 DEF PointOK
    <3>2. CASE y \notin LTP!Heirs(x) /\ y \in token
      <4>1. pc[y] = "deleting" /\ u2x[arg[y]] = y /\ y \notin waitCh /\ arg[y] \in UID
        BY <2>1, <3>2 DEF PointOK
      <4>2. arg[y] \notin x2u[x]
        BY <1>6, <4>1
      <4> QED
        BY <1>5, <2>1, <4>1, <4>2
    <3> QED
      BY <1>5, <3>1, <3>2
  <2> QED
    BY <2>1, <2>2, <2>3, <2>4 DEF PointOK
<1>11. RunningDeleterOwnsRow'
  BY <1>1, <1>2, <1>5, <1>6 DEF SMInv, RunningDeleterOwnsRow, txVars, entryVars
<1> QED
  BY <1>1, <1>3, <1>4, <1>8, <1>9, <1>10, <1>11 DEF SMInv, txVars, entryVars

(* Every step keeps the invariant and is a step of the lock table's spec. *)
LEMMA NextSMInv == SMInv /\ [Next]_smVars => SMInv' /\ [LT!Next]_lockVars
<1> SUFFICES ASSUME SMInv, [Next]_smVars PROVE SMInv' /\ [LT!Next]_lockVars
  OBVIOUS
<1>1. CASE UNCHANGED smVars
  <2>1. UNCHANGED lockVars /\ UNCHANGED <<txVars, entryVars, pc, arg>>
    BY <1>1 DEF smVars
  <2>2. LTP!IInv' /\ LT!TypeOK' /\ UNCHANGED <<u2x, waitCh, xwaitu, token, done, hung>>
    BY <2>1, NoLockStep
  <2>3. TypeOK' /\ \A x \in XID : PointOK(x)'
    BY <2>1, <2>2 DEF SMInv, TypeOK, PointOK, txVars, entryVars
  <2> QED
    BY <2>1, <2>2, <2>3 DEF SMInv, RunningDeleterOwnsRow, txVars, entryVars
<1>2. ASSUME NEW x \in XID, NEW l \in Levels, Begin(x, l)
      PROVE  SMInv' /\ [LT!Next]_lockVars
  BY <1>2, BeginSMInv DEF Begin
<1>3. ASSUME NEW x \in XID, NEW u \in UID, Insert(x, u) \/ DeleteAcquire(x, u)
      PROVE  SMInv' /\ [LT!Next]_lockVars
  BY <1>3, InsertSMInv, DeleteAcquireSMInv DEF Insert
<1>4. ASSUME NEW x \in XID, CommitStart(x) \/ AbortStart(x)
      PROVE  SMInv' /\ [LT!Next]_lockVars
  BY <1>4, EndStartSMInv DEF CommitStart, AbortStart
<1>5. ASSUME NEW x \in XID, Step(x)
      PROVE  SMInv' /\ [LT!Next]_lockVars
  BY <1>5, DeleteFinishSMInv, ReleaseLocksSMInv, MarkSMInv DEF Step, MarkCommitted, MarkAborted
<1> QED
  BY <1>1, <1>2, <1>3, <1>4, <1>5 DEF Next

LEMMA SMInvariance == Spec => []SMInv
<1>1. Init => SMInv
  BY InitSMInv
<1>2. SMInv /\ [Next]_smVars => SMInv'
  BY NextSMInv
<1> QED
  BY <1>1, <1>2, PTL DEF Spec
-----------------------------------------------------------------------------
(* An entry that is not stored carries no mark, and Delete is about a stored *)
(* entry.                                                                    *)
StoredOnly ==
  /\ \A u \in UID : u \notin inserted => xmax[u] = SUPER_XID
  /\ \A x \in XID : pc[x] = "deleting" => arg[x] \in inserted

LEMMA NextStoredOnly ==
  ASSUME SMInv, StoredOnly, [Next]_smVars
  PROVE  StoredOnly'
<1> USE DEF StoredOnly, goto
<1>0. /\ pc \in [XID -> Points] /\ arg \in [XID -> UID \cup {NilUUID}]
      /\ xmax \in [UID -> XID \cup {SUPER_XID}] /\ inserted \subseteq UID
  BY DEF SMInv, TypeOK
<1>1. CASE UNCHANGED smVars
  BY <1>1 DEF smVars, entryVars
<1>2. ASSUME NEW x \in XID, NEW l \in Levels, Begin(x, l) PROVE StoredOnly'
  BY <1>2 DEF Begin, entryVars
<1>3. ASSUME NEW x \in XID, NEW u \in UID, Insert(x, u) PROVE StoredOnly'
  BY <1>0, <1>3 DEF Insert
<1>4. ASSUME NEW x \in XID, NEW u \in UID, DeleteAcquire(x, u) PROVE StoredOnly'
  BY <1>0, <1>4 DEF DeleteAcquire, Sees, entryVars
<1>5. ASSUME NEW x \in XID, CommitStart(x) \/ AbortStart(x) PROVE StoredOnly'
  BY <1>0, <1>5 DEF CommitStart, AbortStart, entryVars
<1>6. ASSUME NEW x \in XID, DeleteFinish(x) PROVE StoredOnly'
  BY <1>0, <1>6 DEF DeleteFinish
<1>7. ASSUME NEW x \in XID, ReleaseLocks(x) \/ MarkCommitted(x) \/ MarkAborted(x)
      PROVE  StoredOnly'
  BY <1>0, <1>7 DEF ReleaseLocks, MarkCommitted, MarkAborted, entryVars
<1> QED
  BY <1>1, <1>2, <1>3, <1>4, <1>5, <1>6, <1>7 DEF Next, Step

LEMMA StoredOnlyInvariance == Spec => []StoredOnly
<1>1. Init => StoredOnly
  BY DEF Init, StoredOnly
<1>2. SMInv /\ StoredOnly /\ [Next]_smVars => StoredOnly'
  BY NextStoredOnly
<1> QED
  BY <1>1, <1>2, SMInvariance, PTL DEF Spec
-----------------------------------------------------------------------------
(* The manager's state keeps its types. *)
THEOREM SMTypeCorrect == Spec => []TypeOK
<1>1. SMInv => TypeOK
  BY DEF SMInv
<1> QED
  BY <1>1, SMInvariance, PTL

(* SM calls Add and Remove only as the lock table's specification allows, so *)
(* what is proved of that specification holds of the table inside SM.        *)
THEOREM KeepsLockProtocol == Spec => LockProtocol
<1>1. SMInv /\ [Next]_smVars => [LT!Next]_lockVars
  BY NextSMInv
<1> QED
  BY <1>1, SMInvariance, PTL DEF Spec, LockProtocol

(* The mark of a running transaction is covered by its row lock. *)
THEOREM DeletersOwnRows == Spec => []RunningDeleterOwnsRow
<1>1. SMInv => RunningDeleterOwnsRow
  BY DEF SMInv
<1> QED
  BY <1>1, SMInvariance, PTL

(* A doomed transaction never commits. *)
THEOREM DoomedStayDoomed == Spec => []DoomedNeverCommits
<1>1. SMInv => DoomedNeverCommits
  BY DEF SMInv, DoomedNeverCommits, PointOK, Committing, TypeOK
<1> QED
  BY <1>1, SMInvariance, PTL

(* At either isolation level, the deletion mark of a running transaction is  *)
(* never replaced by another transaction.                                    *)
THEOREM NoDirtyWrites == Spec => NoDirtyWrite
<1> DEFINE Clean == \A u \in UID :
                      xmax[u] # SUPER_XID /\ xmax'[u] # xmax[u] => xmax[u] \notin tc \ err
<1>1. SMInv /\ StoredOnly /\ [Next]_smVars => [Clean]_smVars
  <2> SUFFICES ASSUME SMInv, StoredOnly, Next PROVE Clean
    OBVIOUS
  <2>0. xmax \in [UID -> XID \cup {SUPER_XID}]
    BY DEF SMInv, TypeOK
  <2>1. ASSUME NEW x \in XID, DeleteFinish(x) PROVE Clean
    <3>1. pc[x] = "deleting" /\ x \in token /\ u2x[arg[x]] = x
      BY <2>1 DEF DeleteFinish, LT!Receive, SMInv, PointOK
    <3>2. \A u \in UID : xmax'[u] # xmax[u] => u = arg[x] /\ xmax[u] # x
      BY <2>0, <2>1 DEF DeleteFinish
    <3> QED
      BY <3>1, <3>2 DEF SMInv, RunningDeleterOwnsRow
  <2>2. ASSUME NEW x \in XID, NEW u \in UID, Insert(x, u) PROVE Clean
    BY <2>0, <2>2 DEF Insert, StoredOnly
  <2>3. ASSUME UNCHANGED xmax PROVE Clean
    BY <2>3
  <2> QED
    BY <2>1, <2>2, <2>3 DEF Next, Step, Begin, DeleteAcquire, CommitStart, AbortStart,
         ReleaseLocks, MarkCommitted, MarkAborted, entryVars
<1> QED
  BY <1>1, SMInvariance, StoredOnlyInvariance, PTL DEF Spec, NoDirtyWrite
=============================================================================

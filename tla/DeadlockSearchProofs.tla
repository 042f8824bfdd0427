------------------------ MODULE DeadlockSearchProofs ------------------------
(* hasDeadLock answers right on every wait-for graph, of any size, and so the *)
(* lock table that searches step by step implements LockTable.                *)
EXTENDS DeadlockSearch, LockTableProofs, TLAPS

USE NoXIDAssumption, NoUIDAssumption

(* Waits, the caller's included, are for owned entries. *)
GraphOK ==
  /\ x2u \in [XID -> SUBSET UID]
  /\ u2x \in [UID -> XID \cup {NoXID}]
  /\ graph \in [XID -> UID \cup {NoUID}]
  /\ \A x \in XID : graph[x] # NoUID => u2x[graph[x]] \in XID

(* x runs into no cycle. *)
Safe(x) == \A S \in SUBSET XID : Closed(S, graph) => x \notin S

OnPath(x) == xidStamp[x] = stamp

(* What earlier searches stamped, and what a search that returned false      *)
(* stamped, runs into no cycle.                                              *)
StampedIsSafe ==
  answer # "true" =>
    \A x \in XID : xidStamp[x] # 0 /\ (xid = NoXID \/ ~OnPath(x)) => Safe(x)

(* The running search stamped a path that starts at a key and leads to xid. *)
PathLeads ==
  xid # NoXID =>
    /\ \E k \in Keys : k = xid \/ OnPath(k)
    /\ \A x \in XID : OnPath(x) =>
         /\ graph[x] # NoUID
         /\ u2x[graph[x]] = xid \/ OnPath(u2x[graph[x]])
         /\ \A S \in SUBSET XID : Closed(S, graph) /\ x \in S => xid \in S

KeysReached == answer # "true" => \A k \in Keys \ todo : xidStamp[k] # 0 \/ k = xid

SInv ==
  /\ SearchTypeOK
  /\ GraphOK
  /\ stamp > 0 /\ \A x \in XID : xidStamp[x] <= stamp
  /\ StampedIsSafe
  /\ PathLeads
  /\ KeysReached /\ todo \subseteq Keys
  /\ answer # "none" => xid = NoXID
  /\ answer = "false" => todo = {}
  /\ answer = "true" => hasDeadLock(graph)
-----------------------------------------------------------------------------
(* A new search starts with no node of its own stamp. *)
LEMMA NextKeySInv ==
  ASSUME SInv, NextKey
  PROVE  SInv'
<1>1. PICK x \in todo :
        /\ todo' = todo \ {x}
        /\ IF xidStamp[x] > 0 THEN UNCHANGED <<stamp, xid>>
                              ELSE stamp' = stamp + 1 /\ xid' = x
  BY DEF NextKey
<1>2. /\ x \in XID /\ answer = "none" /\ xid = NoXID /\ answer' = answer
      /\ xidStamp' = xidStamp /\ UNCHANGED <<x2u, u2x, caller, target, graph>>
  BY DEF NextKey, SInv, SearchTypeOK, ltVars, graph
<1>3. GraphOK' /\ (\A y \in XID : Safe(y)' <=> Safe(y)) /\ Keys' = Keys
  BY <1>2 DEF SInv, GraphOK, Safe, Closed, Keys
<1>4. CASE xidStamp[x] > 0
  <2>1. xidStamp[x] # 0 /\ UNCHANGED <<stamp, xid>>
    BY <1>1, <1>2, <1>4 DEF SInv, SearchTypeOK
  <2>2. SearchTypeOK'
    BY <1>1, <1>2, <2>1 DEF SInv, SearchTypeOK
  <2>3. StampedIsSafe' /\ PathLeads'
    BY <1>2, <1>3, <2>1 DEF SInv, StampedIsSafe, PathLeads, OnPath
  <2>4. KeysReached'
    BY <1>1, <1>2, <1>3, <2>1 DEF SInv, KeysReached
  <2> QED
    BY <1>1, <1>2, <1>3, <2>1, <2>2, <2>3, <2>4 DEF SInv
<1>5. CASE ~(xidStamp[x] > 0)
  <2>1. stamp' = stamp + 1 /\ xid' = x /\ stamp \in Nat /\ xidStamp \in [XID -> Nat]
    BY <1>1, <1>5 DEF SInv, SearchTypeOK
  <2>2. \A y \in XID : xidStamp'[y] < stamp' /\ ~OnPath(y)'
    BY <1>2, <2>1 DEF SInv, OnPath
  <2>3. SearchTypeOK' /\ stamp' > 0 /\ \A y \in XID : xidStamp'[y] <= stamp'
    BY <1>1, <1>2, <2>1, <2>2 DEF SInv, SearchTypeOK
  <2>4. StampedIsSafe'
    BY <1>2, <1>3, <2>2 DEF SInv, StampedIsSafe
  <2>5. PathLeads'
    <3>1. x \in Keys'
      BY <1>1, <1>3 DEF SInv
    <3> QED
      BY <2>1, <2>2, <3>1 DEF PathLeads
  <2>6. KeysReached'
    <3>1. Keys \subseteq XID
      BY DEF Keys
    <3> QED
      BY <1>1, <1>2, <1>3, <2>1, <3>1 DEF SInv, KeysReached
  <2> QED
    BY <1>1, <1>2, <1>3, <2>3, <2>4, <2>5, <2>6 DEF SInv
<1> QED
  BY <1>4, <1>5

LEMMA NoKeyLeftSInv ==
  ASSUME SInv, NoKeyLeft
  PROVE  SInv'
<1>1. /\ answer = "none" /\ xid = NoXID /\ todo = {} /\ answer' = "false"
      /\ UNCHANGED <<x2u, u2x, caller, target, graph, todo, xidStamp, stamp, xid>>
  BY DEF NoKeyLeft, ltVars, graph
<1>2. GraphOK' /\ (\A y \in XID : Safe(y)' <=> Safe(y)) /\ Keys' = Keys
  BY <1>1 DEF SInv, GraphOK, Safe, Closed, Keys
<1>3. SearchTypeOK' /\ PathLeads' /\ KeysReached'
  BY <1>1, <1>2 DEF SInv, SearchTypeOK, PathLeads, KeysReached
<1>4. StampedIsSafe'
  BY <1>1, <1>2 DEF SInv, StampedIsSafe
<1> QED
  BY <1>1, <1>2, <1>3, <1>4 DEF SInv

(* The walk met its own stamp: the path is a closed set.  It met an older    *)
(* one: nothing on the path is in a closed set.                              *)
LEMMA dfsSeenSInv ==
  ASSUME SInv, dfsSeen
  PROVE  SInv'
<1>1. /\ answer = "none" /\ xid # NoXID /\ xid \in XID /\ xidStamp[xid] # 0 /\ xid' = NoXID
      /\ answer' = IF xidStamp[xid] = stamp THEN "true" ELSE "none"
      /\ UNCHANGED <<x2u, u2x, caller, target, graph, todo, xidStamp, stamp>>
  BY DEF dfsSeen, ltVars, graph, SInv, SearchTypeOK
<1>2. GraphOK' /\ (\A y \in XID : Safe(y)' <=> Safe(y)) /\ Keys' = Keys
  BY <1>1 DEF SInv, GraphOK, Safe, Closed, Keys
<1>3. SearchTypeOK' /\ PathLeads'
  BY <1>1 DEF SInv, SearchTypeOK, PathLeads
<1>4. KeysReached'
  BY <1>1, <1>2 DEF SInv, KeysReached
<1>5. StampedIsSafe'
  <2> SUFFICES ASSUME xidStamp[xid] # stamp, NEW x \in XID, xidStamp[x] # 0
               PROVE  Safe(x)
    BY <1>1, <1>2 DEF StampedIsSafe
  <2>1. Safe(xid)
    BY <1>1 DEF SInv, StampedIsSafe, OnPath
  <2>2. CASE OnPath(x)
    BY <1>1, <2>1, <2>2 DEF SInv, PathLeads, Safe
  <2>3. CASE ~OnPath(x)
    BY <1>1, <2>3 DEF SInv, StampedIsSafe
  <2> QED
    BY <2>2, <2>3
<1>6. ASSUME xidStamp[xid] = stamp PROVE hasDeadLock(graph)'
  <2> DEFINE S == {x \in XID : OnPath(x)}
  <2>1. xid \in S
    BY <1>1, <1>6 DEF OnPath
  <2>2. \A x \in S : graph[x] # NoUID /\ u2x[graph[x]] \in S
    BY <1>1, <2>1 DEF SInv, PathLeads, GraphOK
  <2>3. Closed(S, graph)
    BY <2>1, <2>2 DEF Closed
  <2>4. \E k \in S : x2u[k] # {}
    BY <1>1, <2>1 DEF SInv, PathLeads, Keys
  <2>5. hasDeadLock(graph)
    BY <2>3, <2>4 DEF hasDeadLock
  <2> QED
    BY <1>1, <2>5 DEF hasDeadLock, Closed
<1> QED
  BY <1>1, <1>2, <1>3, <1>4, <1>5, <1>6 DEF SInv

(* The walk goes on to the owner, or ends at a transaction that runs. *)
LEMMA dfsWalkSInv ==
  ASSUME SInv, dfsWalk
  PROVE  SInv'
<1>1. /\ answer = "none" /\ xid # NoXID /\ xid \in XID /\ xidStamp[xid] = 0
      /\ xidStamp' = [xidStamp EXCEPT ![xid] = stamp]
      /\ xid' = IF graph[xid] = NoUID THEN NoXID ELSE u2x[graph[xid]]
      /\ UNCHANGED <<x2u, u2x, caller, target, graph, todo, stamp, answer>>
      /\ stamp \in Nat /\ stamp > 0 /\ xidStamp \in [XID -> Nat]
  BY DEF dfsWalk, ltVars, graph, SInv, SearchTypeOK
<1>2. GraphOK' /\ (\A y \in XID : Safe(y)' <=> Safe(y)) /\ Keys' = Keys
  BY <1>1 DEF SInv, GraphOK, Safe, Closed, Keys
<1>3. SearchTypeOK' /\ \A x \in XID : xidStamp'[x] <= stamp'
  BY <1>1 DEF SInv, SearchTypeOK, GraphOK
<1>4. KeysReached'
  <2>1. Keys \subseteq XID
    BY DEF Keys
  <2> QED
    BY <1>1, <1>2, <2>1 DEF SInv, KeysReached
<1>5. \A x \in XID : OnPath(x)' <=> OnPath(x) \/ x = xid
  BY <1>1 DEF OnPath
<1>6. StampedIsSafe'
  <2> SUFFICES ASSUME NEW x \in XID, xidStamp'[x] # 0, xid' = NoXID \/ ~OnPath(x)'
               PROVE  Safe(x)
    BY <1>2 DEF StampedIsSafe
  <2>1. CASE ~OnPath(x)'
    BY <1>1, <1>5, <2>1 DEF SInv, StampedIsSafe
  <2>2. CASE OnPath(x)'
    <3>1. graph[xid] = NoUID
      BY <1>1, <2>2 DEF SInv, GraphOK
    <3>2. Safe(xid)
      BY <3>1 DEF Safe, Closed
    <3>3. CASE x = xid
      BY <3>2, <3>3
    <3>4. CASE x # xid
      BY <1>1, <1>5, <2>2, <3>2, <3>4 DEF SInv, PathLeads, Safe
    <3> QED
      BY <3>3, <3>4
  <2> QED
    BY <2>1, <2>2
<1>7. PathLeads'
  <2> SUFFICES ASSUME xid' # NoXID PROVE PathLeads'
    BY DEF PathLeads
  <2>1. graph[xid] # NoUID /\ xid' = u2x[graph[xid]] /\ xid' \in XID
    BY <1>1 DEF SInv, GraphOK
  <2>2. \E k \in Keys : OnPath(k)'
    <3>1. Keys \subseteq XID
      BY DEF Keys
    <3> QED
      BY <1>1, <1>5, <3>1 DEF SInv, PathLeads
  <2>3. ASSUME NEW x \in XID, OnPath(x)'
        PROVE  /\ graph[x] # NoUID
               /\ u2x[graph[x]] = xid' \/ OnPath(u2x[graph[x]])'
               /\ \A S \in SUBSET XID : Closed(S, graph) /\ x \in S => xid' \in S
    <3>1. CASE x = xid
      BY <2>1, <3>1 DEF Closed
    <3>2. CASE x # xid
      <4>1. OnPath(x) /\ graph[x] # NoUID /\ u2x[graph[x]] \in XID
        BY <1>1, <1>5, <2>3, <3>2 DEF SInv, PathLeads, GraphOK
      <4>2. OnPath(u2x[graph[x]])'
        BY <1>1, <1>5, <4>1 DEF SInv, PathLeads
      <4>3. ASSUME NEW S \in SUBSET XID, Closed(S, graph), x \in S PROVE xid' \in S
        <5>1. xid \in S
          BY <1>1, <4>1, <4>3 DEF SInv, PathLeads
        <5> QED
          BY <2>1, <4>3, <5>1 DEF Closed
      <4> QED
        BY <4>1, <4>2, <4>3
    <3> QED
      BY <3>1, <3>2
  <2>4. \A S : Closed(S, graph)' <=> Closed(S, graph)
    BY <1>1 DEF Closed
  <2> QED
    BY <1>1, <1>2, <2>2, <2>3, <2>4 DEF PathLeads
<1> QED
  BY <1>1, <1>2, <1>3, <1>4, <1>6, <1>7 DEF SInv

LEMMA RightWhenDone == SInv => AnswerIsRight
<1> SUFFICES ASSUME SInv, answer = "false", hasDeadLock(graph) PROVE FALSE
  BY DEF SInv, AnswerIsRight
<1>1. PICK S \in SUBSET XID : Closed(S, graph) /\ \E k \in S : x2u[k] # {}
  BY DEF hasDeadLock
<1>2. PICK k \in S : k \in Keys
  BY <1>1 DEF Keys
<1>3. xid = NoXID /\ xidStamp[k] # 0
  BY <1>2 DEF SInv, KeysReached
<1> QED
  BY <1>1, <1>2, <1>3 DEF SInv, StampedIsSafe, Safe
-----------------------------------------------------------------------------
(* The Add that holds lt.lock could still take either of LockTable's ways. *)
CallerOK ==
  /\ caller \in XID \ done /\ caller \notin waitCh \cup token
  /\ target \in UID /\ target \notin x2u[caller] /\ u2x[target] # NoXID
  /\ ~hung

FInv ==
  /\ IInv
  /\ SearchTypeOK
  /\ caller = NoXID => answer = "none"
  /\ caller # NoXID => CallerOK /\ SInv

LEMMA InitFInv == SearchInit => FInv
BY InitIInv DEF SearchInit, FInv, SearchTypeOK

LEMMA AddSearchFInv ==
  ASSUME FInv, NEW x \in XID \ done, x \notin waitCh \cup token,
         NEW u \in UID, AddSearch(x, u)
  PROVE  CallerOK' /\ SInv' /\ UNCHANGED ltVars
<1>1. /\ caller' = x /\ target' = u /\ todo' = Keys /\ stamp' = 1 /\ xid' = NoXID
      /\ xidStamp' = [y \in XID |-> 0] /\ answer' = "none"
      /\ u \notin x2u[x] /\ u2x[u] # NoXID /\ ~hung /\ x # NoXID
      /\ UNCHANGED <<x2u, u2x, wait, waitCh, xwaitu, token, done, hung>>
  BY DEF AddSearch, ltVars
<1>2. CallerOK'
  BY <1>1 DEF CallerOK
<1>3. graph' = [xwaitu EXCEPT ![x] = u]
  BY <1>1 DEF graph
<1>4. GraphOK'
  <2>1. /\ x2u \in [XID -> SUBSET UID] /\ u2x \in [UID -> XID \cup {NoXID}]
        /\ xwaitu \in [XID -> UID \cup {NoUID}]
    BY DEF FInv, IInv, TypeOK
  <2>2. \A y \in XID : xwaitu[y] # NoUID => u2x[xwaitu[y]] # NoXID
    BY DEF FInv, IInv, WaitMapsAgree
  <2>3. graph' \in [XID -> UID \cup {NoUID}]
    BY <1>3, <2>1
  <2>4. ASSUME NEW y \in XID, graph'[y] # NoUID PROVE u2x[graph'[y]] \in XID
    <3>1. CASE y = x
      BY <1>1, <1>3, <2>1, <3>1
    <3>2. CASE y # x
      BY <1>3, <2>1, <2>2, <2>4, <3>2
    <3> QED
      BY <3>1, <3>2
  <2> QED
    BY <1>1, <2>1, <2>3, <2>4 DEF GraphOK
<1>5. SearchTypeOK' /\ Keys' = Keys
  BY <1>1 DEF SearchTypeOK, Keys
<1>6. SInv'
  BY <1>1, <1>4, <1>5 DEF SInv, StampedIsSafe, PathLeads, KeysReached
<1> QED
  BY <1>1, <1>2, <1>6 DEF ltVars

(* The steps of the search keep what the caller knew. *)
LEMMA SearchStepFInv ==
  ASSUME FInv, NextKey \/ NoKeyLeft \/ dfsSeen \/ dfsWalk
  PROVE  caller # NoXID /\ CallerOK' /\ SInv' /\ UNCHANGED ltVars /\ caller' = caller
<1>1. caller # NoXID /\ UNCHANGED <<ltVars, caller, target>>
  BY DEF NextKey, NoKeyLeft, dfsSeen, dfsWalk
<1>2. CallerOK'
  BY <1>1 DEF FInv, CallerOK, ltVars
<1>3. SInv'
  BY <1>1, NextKeySInv, NoKeyLeftSInv, dfsSeenSInv, dfsWalkSInv DEF FInv
<1> QED
  BY <1>1, <1>2, <1>3

(* What Add does with the answer is what LockTable's Add does. *)
LEMMA AddEndStep ==
  ASSUME FInv, AddKeep \/ AddTakeBack
  PROVE  Next /\ caller' = NoXID /\ answer' = "none" /\ SearchTypeOK'
<1>1. caller # NoXID /\ CallerOK /\ SInv
  BY DEF FInv, AddKeep, AddTakeBack
<1>2. graph = [xwaitu EXCEPT ![caller] = target]
  BY <1>1 DEF graph
<1>3. caller' = NoXID /\ answer' = "none" /\ SearchTypeOK'
  BY DEF AddKeep, AddTakeBack, Unlock, SearchTypeOK
<1>4. CASE AddKeep
  <2>1. ~hasDeadLock(graph)
    BY <1>1, <1>4, RightWhenDone DEF AddKeep, AnswerIsRight
  <2>2. xwaitu' = graph /\ u2x' = u2x /\ x2u' = x2u
    BY <1>2, <1>4 DEF AddKeep
  <2>3. ~hasDeadLock(xwaitu')
    BY <2>1, <2>2
  <2>4. AddWait(caller, target)
    BY <1>1, <1>4, <2>3 DEF AddKeep, AddWait, CallerOK
  <2> QED
    BY <1>1, <1>3, <2>4 DEF Next, Add, CallerOK
<1>5. CASE AddTakeBack
  <2>1. hasDeadLock([xwaitu EXCEPT ![caller] = target])
    BY <1>1, <1>2, <1>5, RightWhenDone DEF AddTakeBack, AnswerIsRight
  <2>2. AddRefuse(caller, target)
    BY <1>1, <1>5, <2>1 DEF AddTakeBack, AddRefuse, CallerOK
  <2> QED
    BY <1>1, <1>3, <2>2 DEF Next, Add, CallerOK
<1> QED
  BY <1>4, <1>5

(* Whatever the search does, the lock table only makes LockTable's steps. *)
LEMMA NextFInv ==
  ASSUME FInv, [SearchNext]_allVars
  PROVE  FInv' /\ [Next]_ltVars
<1>1. CASE UNCHANGED allVars
  <2>1. UNCHANGED <<ltVars, searchVars, graph>>
    BY <1>1 DEF allVars, ltVars, searchVars, graph
  <2>2. IInv'
    BY <2>1, NextIInv DEF FInv
  <2>3. CallerOK => CallerOK'
    BY <2>1 DEF CallerOK, ltVars, searchVars
  <2>4. SInv => SInv'
    BY <2>1 DEF ltVars, searchVars, SInv, SearchTypeOK, GraphOK, StampedIsSafe, PathLeads,
                KeysReached, Safe, OnPath, Keys, Closed, hasDeadLock
  <2> QED
    BY <2>1, <2>2, <2>3, <2>4 DEF FInv, SearchTypeOK, searchVars
<1>2. CASE NextKey \/ NoKeyLeft \/ dfsSeen \/ dfsWalk
  <2>1. caller # NoXID /\ CallerOK' /\ SInv' /\ UNCHANGED ltVars /\ caller' = caller
    BY <1>2, SearchStepFInv
  <2>2. IInv'
    BY <2>1, NextIInv DEF FInv
  <2> QED
    BY <2>1, <2>2 DEF FInv, SInv
<1>3. CASE AddKeep \/ AddTakeBack
  <2>1. Next /\ caller' = NoXID /\ answer' = "none" /\ SearchTypeOK'
    BY <1>3, AddEndStep
  <2>2. IInv'
    BY <2>1, NextIInv DEF FInv
  <2> QED
    BY <2>1, <2>2 DEF FInv
<1>4. ASSUME NEW x \in XID \ done, NEW u \in UID, x \notin waitCh \cup token, AddSearch(x, u)
      PROVE  FInv' /\ UNCHANGED ltVars
  <2>1. CallerOK' /\ SInv' /\ UNCHANGED ltVars
    BY <1>4, AddSearchFInv
  <2>2. IInv' /\ caller' # NoXID
    BY <1>4, <2>1, NextIInv DEF FInv, AddSearch
  <2> QED
    BY <2>1, <2>2 DEF FInv, SInv
<1>5. ASSUME NEW x \in XID \ done, Receive(x), UNCHANGED searchVars
      PROVE  FInv' /\ Next
  <2>1. Next
    BY <1>5 DEF Next
  <2>2. IInv'
    BY <2>1, NextIInv DEF FInv
  <2>3. /\ token' \subseteq token
        /\ UNCHANGED <<x2u, u2x, wait, waitCh, xwaitu, done, hung, graph, caller, target,
                       todo, xidStamp, stamp, xid, answer>>
    BY <1>5 DEF Receive, searchVars, graph
  <2>4. CallerOK => CallerOK'
    BY <2>3 DEF CallerOK
  <2>5. SInv => SInv'
    BY <2>3 DEF SInv, SearchTypeOK, GraphOK, StampedIsSafe, PathLeads, KeysReached, Safe,
                OnPath, Keys, Closed, hasDeadLock
  <2> QED
    BY <2>1, <2>2, <2>3, <2>4, <2>5 DEF FInv, SearchTypeOK
<1>6. ASSUME NEW x \in XID \ done, caller = NoXID, UNCHANGED searchVars,
             \/ x \notin waitCh \cup token /\ \E u \in UID : AddHeld(x, u) \/ AddFree(x, u)
             \/ Remove(x)
      PROVE  FInv' /\ Next
  <2>1. Next
    BY <1>6 DEF Next, Add
  <2>2. IInv'
    BY <2>1, NextIInv DEF FInv
  <2> QED
    BY <1>6, <2>1, <2>2 DEF FInv, SearchTypeOK, searchVars
<1> QED
  BY <1>1, <1>2, <1>3, <1>4, <1>5, <1>6 DEF SearchNext, SearchStep

LEMMA SearchInvariance == SearchSpec => []FInv
<1>1. SearchInit => FInv
  BY InitFInv
<1>2. FInv /\ [SearchNext]_allVars => FInv'
  BY NextFInv
<1> QED
  BY <1>1, <1>2, PTL DEF SearchSpec
-----------------------------------------------------------------------------
(* Whatever the lock table and the order in which the map is ranged over,    *)
(* hasDeadLock returns true iff a registered holder runs into a cycle.       *)
THEOREM SearchIsRight == SearchSpec => []AnswerIsRight
<1>1. FInv => AnswerIsRight
  BY RightWhenDone DEF FInv, AnswerIsRight
<1> QED
  BY <1>1, SearchInvariance, PTL

(* The lock table of lock_table.go, whose Add runs dfs over the map, makes   *)
(* only the steps of the one whose Add knows whether there is a cycle.       *)
THEOREM SearchRefines == SearchSpec => ImplementsLockTable
<1>1. SearchInit => Init
  BY DEF SearchInit
<1>2. FInv /\ [SearchNext]_allVars => [Next]_ltVars
  BY NextFInv
<1> QED
  BY <1>1, <1>2, SearchInvariance, PTL DEF SearchSpec, Spec, ImplementsLockTable

(* So no cycle of waits ever contains a registered holder, with the search   *)
(* as it is coded.                                                           *)
THEOREM SearchPreventsDeadlock == SearchSpec => []NoRegisteredDeadlock
BY SearchRefines, RegisteredHoldersNeverDeadlock, PTL DEF ImplementsLockTable
=============================================================================

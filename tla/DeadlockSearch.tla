--------------------------- MODULE DeadlockSearch ---------------------------
(* The lock table with the cycle search of lock_table.go, hasDeadLock and     *)
(* dfs, call by call: the body of hasDeadLock's loop and each call of dfs is  *)
(* one step.  Add holds lt.lock while it searches, so nothing moves but the   *)
(* channels.  Go ranges over lt.x2u in any order.                             *)
EXTENDS LockTable

VARIABLES caller,    \* the xid whose Add searches (NoXID: lt.lock is free)
          target,    \* the uid it asks for
          todo,      \* keys of lt.x2u the loop has not reached
          xidStamp,  \* xid -> stamp (0: no key)
          stamp,
          xid,       \* argument of the running dfs (NoXID: in the loop)
          answer     \* what hasDeadLock returned ("none" while it runs)

searchVars == <<caller, target, todo, xidStamp, stamp, xid, answer>>
allVars == <<ltVars, searchVars>>

Keys == {x \in XID : x2u[x] # {}}

(* Mutant of graph: the search runs before the edge is in lt.xwaitu. *)
graphLateEdge == xwaitu

(* lt.xwaitu with the edge that Add has entered. *)
graph == IF caller = NoXID THEN xwaitu ELSE [xwaitu EXCEPT ![caller] = target]

SearchTypeOK ==
  /\ caller \in XID \cup {NoXID} /\ target \in UID \cup {NoUID}
  /\ todo \in SUBSET XID
  /\ xidStamp \in [XID -> Nat]
  /\ stamp \in Nat
  /\ xid \in XID \cup {NoXID}
  /\ answer \in {"none", "true", "false"}

SearchInit ==
  /\ Init
  /\ caller = NoXID /\ target = NoUID
  /\ todo = {}
  /\ xidStamp = [x \in XID |-> 0]
  /\ stamp = 0
  /\ xid = NoXID
  /\ answer = "none"
-----------------------------------------------------------------------------
(* Mutant of AddSearch: the caller's own entries are not looked up first. *)
AddSearchOwn(x, u) ==
  /\ caller = NoXID /\ ~hung
  /\ u2x[u] # NoXID
  /\ caller' = x /\ target' = u
  /\ todo' = Keys
  /\ xidStamp' = [y \in XID |-> 0]
  /\ stamp' = 1
  /\ xid' = NoXID
  /\ answer' = "none"
  /\ UNCHANGED ltVars

(* Add enters the edge and calls hasDeadLock. *)
AddSearch(x, u) ==
  /\ caller = NoXID /\ ~hung
  /\ u \notin x2u[x]
  /\ u2x[u] # NoXID
  /\ caller' = x /\ target' = u
  /\ todo' = Keys
  /\ xidStamp' = [y \in XID |-> 0]
  /\ stamp' = 1
  /\ xid' = NoXID
  /\ answer' = "none"
  /\ UNCHANGED ltVars

(* hasDeadLock: one iteration, up to the call of dfs. *)
NextKey ==
  /\ caller # NoXID /\ answer = "none" /\ xid = NoXID
  /\ \E x \in todo :
       /\ todo' = todo \ {x}
       /\ IF xidStamp[x] > 0
            THEN UNCHANGED <<stamp, xid>>
            ELSE stamp' = stamp + 1 /\ xid' = x
  /\ UNCHANGED <<ltVars, caller, target, xidStamp, answer>>

(* hasDeadLock: the loop is over. *)
NoKeyLeft ==
  /\ caller # NoXID /\ answer = "none" /\ xid = NoXID /\ todo = {}
  /\ answer' = "false"
  /\ UNCHANGED <<ltVars, caller, target, todo, xidStamp, stamp, xid>>

(* dfs returns: xid has a stamp already, this search's or an earlier one's. *)
dfsSeen ==
  /\ caller # NoXID /\ answer = "none" /\ xid # NoXID
  /\ xidStamp[xid] # 0
  /\ answer' = IF xidStamp[xid] = stamp THEN "true" ELSE "none"
  /\ xid' = NoXID
  /\ UNCHANGED <<ltVars, caller, target, todo, xidStamp, stamp>>

(* dfs stamps xid, and returns or calls itself for the owner it waits for. *)
dfsWalk ==
  /\ caller # NoXID /\ answer = "none" /\ xid # NoXID
  /\ xidStamp[xid] = 0
  /\ xidStamp' = [xidStamp EXCEPT ![xid] = stamp]
  /\ xid' = IF graph[xid] = NoUID THEN NoXID ELSE u2x[graph[xid]]
  /\ UNCHANGED <<ltVars, caller, target, todo, stamp, answer>>

Unlock ==
  /\ caller' = NoXID /\ target' = NoUID
  /\ todo' = {}
  /\ xidStamp' = [x \in XID |-> 0]
  /\ stamp' = 0
  /\ xid' = NoXID
  /\ answer' = "none"

(* hasDeadLock has returned: the edge is kept, *)
AddKeep ==
  /\ answer = "false"
  /\ xwaitu' = [xwaitu EXCEPT ![caller] = target]
  /\ wait' = [wait EXCEPT ![target] = Append(@, caller)]
  /\ waitCh' = waitCh \cup {caller}
  /\ Unlock
  /\ UNCHANGED <<x2u, u2x, token, done, hung>>

(* or taken back by removeFromList, which loops on a queue that was not empty. *)
AddTakeBack ==
  /\ answer = "true"
  /\ hung' = (wait[target] # <<>>)
  /\ wait' = IF hung' THEN [wait EXCEPT ![target] = Append(@, caller)] ELSE wait
  /\ Unlock
  /\ UNCHANGED <<x2u, u2x, waitCh, xwaitu, token, done>>

SearchStep == NextKey \/ NoKeyLeft \/ dfsSeen \/ dfsWalk \/ AddKeep \/ AddTakeBack

(* A receive from a channel needs no lock; the other calls wait for it. *)
SearchNext ==
  \/ SearchStep
  \/ \E x \in XID \ done :
       \/ x \notin waitCh \cup token /\ \E u \in UID : AddSearch(x, u)
       \/ Receive(x) /\ UNCHANGED searchVars
       \/ /\ caller = NoXID
          /\ \/ x \notin waitCh \cup token /\ \E u \in UID : AddHeld(x, u) \/ AddFree(x, u)
             \/ Remove(x)
          /\ UNCHANGED searchVars

SearchSpec == SearchInit /\ [][SearchNext]_allVars

-----------------------------------------------------------------------------
(* hasDeadLock answers exactly the question LockTable's Add asks: some       *)
(* transaction with a key in x2u runs into a cycle of waits.  Earlier stamps *)
(* prune the walk without hiding a cycle, in any order of the map.           *)
AnswerIsRight ==
  /\ answer = "true" => hasDeadLock(graph)
  /\ answer = "false" => ~hasDeadLock(graph)

(* The lock table whose Add searches step by step implements the one whose   *)
(* Add knows.                                                                *)
ImplementsLockTable == Spec
=============================================================================

------------------------------ MODULE LockTable ------------------------------
(* The lock table of backend/sm/locktable: who owns which entry, who waits   *)
(* for it, and the wait-for graph searched for a cycle whenever a waiting    *)
(* edge is added.  Every method runs under lt.lock, so each is one step.     *)
EXTENDS Naturals, Sequences

CONSTANTS XID,    \* transactions
          UID,    \* lockable entries
          NoXID,  \* "no entry" in a map to transactions
          NoUID   \* "no entry" in a map to uids

ASSUME NoXIDAssumption == NoXID \notin XID
ASSUME NoUIDAssumption == NoUID \notin UID

VARIABLES x2u,     \* uids registered as acquired by xid ({}: no key)
          u2x,     \* owner of uid
          wait,    \* uid -> queue of waiting xids (<<>>: no key)
          waitCh,  \* xids that have a channel in lt.waitCh
          xwaitu,  \* xid -> the uid it waits for
          token,   \* xids whose last returned channel holds an unread token
          done,    \* xids that Remove was called for: their transaction is over
          hung     \* an Add spins in removeFromList and never frees lt.lock

ltVars == <<x2u, u2x, wait, waitCh, xwaitu, token, done, hung>>

TypeOK ==
  /\ x2u \in [XID -> SUBSET UID]
  /\ u2x \in [UID -> XID \cup {NoXID}]
  /\ wait \in [UID -> Seq(XID)]
  /\ waitCh \in SUBSET XID
  /\ xwaitu \in [XID -> UID \cup {NoUID}]
  /\ token \in SUBSET XID
  /\ done \in SUBSET XID
  /\ hung \in BOOLEAN

Init ==
  /\ x2u = [x \in XID |-> {}]
  /\ u2x = [u \in UID |-> NoXID]
  /\ wait = [u \in UID |-> <<>>]
  /\ waitCh = {}
  /\ xwaitu = [x \in XID |-> NoUID]
  /\ token = {}
  /\ done = {}
  /\ hung = FALSE
------------------------------------------------------------------------------
(* A set of transactions each waiting for an entry owned inside the set.  In *)
(* the wait-for graph a transaction has at most one successor, so the walk   *)
(* of dfs from xid meets a node twice iff xid is in some closed set.         *)
Closed(S, xw) ==
  /\ S # {}
  /\ \A x \in S : xw[x] # NoUID /\ u2x[xw[x]] \in S

(* hasDeadLock starts dfs only at the keys of x2u. *)
hasDeadLock(xw) ==
  \E S \in SUBSET XID : Closed(S, xw) /\ \E x \in S : x2u[x] # {}

(* Add: the first two returns, with a channel that already holds a token. *)
AddHeld(x, u) ==
  /\ ~hung
  /\ u \in x2u[x]
  /\ token' = token \cup {x}
  /\ UNCHANGED <<x2u, u2x, wait, waitCh, xwaitu, done, hung>>

AddFree(x, u) ==
  /\ ~hung
  /\ u \notin x2u[x]
  /\ u2x[u] = NoXID
  /\ u2x' = [u2x EXCEPT ![u] = x]
  /\ x2u' = [x2u EXCEPT ![x] = @ \cup {u}]
  /\ token' = token \cup {x}
  /\ UNCHANGED <<wait, waitCh, xwaitu, done, hung>>

(* Add: the edge is kept and the caller gets an empty channel. *)
AddWait(x, u) ==
  /\ ~hung
  /\ u \notin x2u[x]
  /\ u2x[u] # NoXID
  /\ xwaitu' = [xwaitu EXCEPT ![x] = u]
  /\ ~hasDeadLock(xwaitu')
  /\ wait' = [wait EXCEPT ![u] = Append(@, x)]
  /\ waitCh' = waitCh \cup {x}
  /\ UNCHANGED <<x2u, u2x, token, done, hung>>

(* Add: the edge closes a cycle and is taken back.  removeFromList compares  *)
(* only the front of the queue: it finds the xid just pushed to the back iff *)
(* the queue was empty, and otherwise loops on that front for ever.          *)
AddRefuse(x, u) ==
  /\ ~hung
  /\ u \notin x2u[x]
  /\ u2x[u] # NoXID
  /\ hasDeadLock([xwaitu EXCEPT ![x] = u])
  /\ hung' = (wait[u] # <<>>)
  /\ wait' = IF hung' THEN [wait EXCEPT ![u] = Append(@, x)] ELSE wait
  /\ UNCHANGED <<x2u, u2x, waitCh, xwaitu, token, done>>

Add(x, u) == AddHeld(x, u) \/ AddFree(x, u) \/ AddWait(x, u) \/ AddRefuse(x, u)
------------------------------------------------------------------------------
(* selectNewXID pops the queue up to the first xid that still has a channel. *)
Waiting(u) == {i \in DOMAIN wait[u] : wait[u][i] \in waitCh}

First(u) == CHOOSE i \in Waiting(u) : \A j \in Waiting(u) : i <= j

Heir(u) == IF Waiting(u) = {} THEN NoXID ELSE wait[u][First(u)]

Rest(u) ==
  IF Waiting(u) = {} THEN <<>> ELSE SubSeq(wait[u], First(u) + 1, Len(wait[u]))

(* The transactions that receive an entry when xid x releases its own. *)
Heirs(x) == {Heir(u) : u \in x2u[x]} \ {NoXID}

(* Mutant of Remove: selectNewXID leaves the heir's edge in xwaitu. *)
RemoveKeepEdge(x) ==
  /\ ~hung
  /\ u2x' = [u \in UID |-> IF u \in x2u[x] THEN Heir(u) ELSE u2x[u]]
  /\ wait' = [u \in UID |-> IF u \in x2u[x] THEN Rest(u) ELSE wait[u]]
  /\ waitCh' = waitCh \ (Heirs(x) \cup {x})
  /\ xwaitu' = [xwaitu EXCEPT ![x] = NoUID]
  /\ x2u' = [x2u EXCEPT ![x] = {}]
  /\ token' = token \cup Heirs(x)
  /\ done' = done \cup {x}
  /\ UNCHANGED hung

(* Mutant of Remove: selectNewXID does not answer on the heir's channel. *)
RemoveSilent(x) ==
  /\ ~hung
  /\ u2x' = [u \in UID |-> IF u \in x2u[x] THEN Heir(u) ELSE u2x[u]]
  /\ wait' = [u \in UID |-> IF u \in x2u[x] THEN Rest(u) ELSE wait[u]]
  /\ waitCh' = waitCh \ (Heirs(x) \cup {x})
  /\ xwaitu' = [y \in XID |-> IF y \in Heirs(x) \cup {x} THEN NoUID ELSE xwaitu[y]]
  /\ x2u' = [x2u EXCEPT ![x] = {}]
  /\ done' = done \cup {x}
  /\ UNCHANGED <<token, hung>>

(* Remove hands every uid registered for xid to the next waiter.  The heir's *)
(* own x2u list is not touched.  A waiter queues for one uid, so handing     *)
(* over all the uids at once equals the loop's one by one.                   *)
Remove(x) ==
  /\ ~hung
  /\ u2x' = [u \in UID |-> IF u \in x2u[x] THEN Heir(u) ELSE u2x[u]]
  /\ wait' = [u \in UID |-> IF u \in x2u[x] THEN Rest(u) ELSE wait[u]]
  /\ waitCh' = waitCh \ (Heirs(x) \cup {x})
  /\ xwaitu' = [y \in XID |-> IF y \in Heirs(x) \cup {x} THEN NoUID ELSE xwaitu[y]]
  /\ x2u' = [x2u EXCEPT ![x] = {}]
  /\ token' = token \cup Heirs(x)
  /\ done' = done \cup {x}
  /\ UNCHANGED hung

(* The caller's <-ch. *)
Receive(x) ==
  /\ x \in token
  /\ token' = token \ {x}
  /\ UNCHANGED <<x2u, u2x, wait, waitCh, xwaitu, done, hung>>

(* A transaction is one goroutine: it adds only when it is not blocked on a  *)
(* channel.  Remove may find it waiting, as TestLockTable2 does.             *)
Next ==
  \E x \in XID \ done :
    \/ x \notin waitCh \cup token /\ \E u \in UID : Add(x, u)
    \/ Receive(x)
    \/ Remove(x)

Spec == Init /\ [][Next]_ltVars
------------------------------------------------------------------------------
(* Add/Remove: an entry listed in x2u[x] is owned by x in u2x, so Remove     *)
(* never takes away an entry that belongs to another transaction.            *)
RegisteredIsOwned ==
  \A x \in XID : \A u \in x2u[x] : u2x[u] = x

(* The maps about waiting agree: a transaction has a channel iff it has an   *)
(* edge, it stands in the queue of exactly that uid and stands there once,   *)
(* and the uid has an owner, which is what dfs asserts (lock_table.go:89).   *)
WaitMapsAgree ==
  /\ \A x \in XID : x \in waitCh <=> xwaitu[x] # NoUID
  /\ \A x \in waitCh : /\ u2x[xwaitu[x]] # NoXID
                       /\ \E i \in DOMAIN wait[xwaitu[x]] : wait[xwaitu[x]][i] = x
  /\ \A u \in UID : \A i \in DOMAIN wait[u] :
       wait[u][i] \in waitCh =>
         /\ xwaitu[wait[u][i]] = u
         /\ \A j \in DOMAIN wait[u] : wait[u][j] = wait[u][i] => i = j

(* The cycle search is complete for the holders it starts from: between two  *)
(* calls no cycle of waits contains a transaction that has a key in x2u.     *)
NoRegisteredDeadlock ==
  ~ hasDeadLock(xwaitu)

(* Mutual exclusion over time: the owner of an entry changes only by the     *)
(* owner's own Remove; no Add and no other Remove takes an entry from it.    *)
NoStealing ==
  [][\A u \in UID :
       u2x[u] # NoXID /\ u2x'[u] # u2x[u] => u2x[u] \in done' \ done]_ltVars

(* lock_table.go:18, "Remove removes all of xid from the lock table": a      *)
(* transaction that was removed owns nothing.                                *)
RemoveForgetsXid ==
  \A u \in UID : u2x[u] \notin done

(* lock_table.go:2, "each time an edge is added, deadlock detection runs":   *)
(* between two calls no set of transactions waits in a circle.               *)
NoDeadlock ==
  \A S \in SUBSET XID : ~ Closed(S, xwaitu)

(* lock_table.go:15, "if Add returns false there is a deadlock": Add returns *)
(* also when it finds one.                                                   *)
AddReturns ==
  ~ hung
==============================================================================

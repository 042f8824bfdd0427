--------------------------- MODULE LockTableProofs ---------------------------
(* Machine-checked proofs about LockTable, for any sets of transactions and  *)
(* entries.                                                                  *)
EXTENDS LockTable, WellFoundedInduction, TLAPS

USE NoXIDAssumption, NoUIDAssumption

(* Every queued transaction waits, or ended while it waited. *)
QueuedOrDone ==
  \A u \in UID : \A i \in DOMAIN wait[u] : wait[u][i] \in waitCh \cup done

(* The inductive invariant.  A spinning Add has left its edge half removed,  *)
(* and nothing moves any more.                                               *)
IInv ==
  /\ TypeOK
  /\ RegisteredIsOwned
  /\ WaitMapsAgree
  /\ ~hung => QueuedOrDone
------------------------------------------------------------------------------
(* A non-empty set of naturals has a least element. *)
LEMMA LeastElement ==
  ASSUME NEW S \in SUBSET Nat, S # {}
  PROVE  \E i \in S : \A j \in S : i <= j
<1> DEFINE R == {p \in Nat \X Nat : p[1] < p[2]}
<1>1. IsWellFoundedOn(R, Nat)
  BY NatLessThanWellFounded DEF OpToRel
<1>2. PICK i \in S : \A j \in S : <<j, i>> \notin R
  BY <1>1, WFMin
<1>3. \A j \in S : ~(j < i)
  BY <1>2
<1> QED
  BY <1>3

(* selectNewXID: the queue is cut after the first position that waits. *)
LEMMA FirstIsLeast ==
  ASSUME TypeOK, NEW u \in UID, Waiting(u) # {}
  PROVE  /\ First(u) \in Waiting(u)
         /\ First(u) \in 1..Len(wait[u])
         /\ \A j \in Waiting(u) : First(u) <= j
<1>1. Waiting(u) \subseteq 1..Len(wait[u]) /\ Len(wait[u]) \in Nat
  BY DEF TypeOK, Waiting
<1>2. \E i \in Waiting(u) : \A j \in Waiting(u) : i <= j
  BY <1>1, LeastElement
<1> QED
  BY <1>1, <1>2 DEF First

(* What the queue left by selectNewXID holds. *)
LEMMA RestOfQueue ==
  ASSUME TypeOK, NEW u \in UID
  PROVE  /\ Rest(u) \in Seq(XID)
         /\ \A i \in DOMAIN Rest(u) :
              /\ Waiting(u) # {}
              /\ First(u) + i \in DOMAIN wait[u]
              /\ Rest(u)[i] = wait[u][First(u) + i]
         /\ \A j \in Waiting(u) : j # First(u) =>
              /\ j - First(u) \in DOMAIN Rest(u)
              /\ Rest(u)[j - First(u)] = wait[u][j]
<1>1. CASE Waiting(u) = {}
  BY <1>1 DEF Rest
<1>2. CASE Waiting(u) # {}
  <2> DEFINE f == First(u)
             n == Len(wait[u])
  <2>1. f \in 1..n /\ n \in Nat /\ \A j \in Waiting(u) : f <= j
    BY <1>2, FirstIsLeast DEF TypeOK
  <2>2. Rest(u) = SubSeq(wait[u], f + 1, n) /\ wait[u] \in Seq(XID)
    BY <1>2 DEF Rest, TypeOK
  <2>3. /\ Rest(u) \in Seq(XID)
        /\ Len(Rest(u)) = n - f
        /\ \A i \in 1..(n - f) : Rest(u)[i] = wait[u][f + i]
    BY <2>1, <2>2
  <2>4. DOMAIN wait[u] = 1..n /\ DOMAIN Rest(u) = 1..(n - f)
    BY <2>2, <2>3
  <2>5. \A j \in Waiting(u) : j \in 1..n
    BY <2>4 DEF Waiting
  <2> QED
    BY <1>2, <2>1, <2>3, <2>4, <2>5
<1> QED
  BY <1>1, <1>2

(* The heir of an entry is a transaction that waited for that entry. *)
LEMMA HeirWaited ==
  ASSUME TypeOK, WaitMapsAgree, NEW u \in UID
  PROVE  /\ Heir(u) \in XID \cup {NoXID}
         /\ Heir(u) # NoXID =>
              /\ Heir(u) \in waitCh /\ xwaitu[Heir(u)] = u
              /\ Waiting(u) # {} /\ First(u) \in DOMAIN wait[u]
              /\ Heir(u) = wait[u][First(u)]
         /\ Waiting(u) # {} => Heir(u) # NoXID
<1>1. CASE Waiting(u) = {}
  BY <1>1 DEF Heir
<1>2. CASE Waiting(u) # {}
  <2>1. First(u) \in DOMAIN wait[u] /\ wait[u][First(u)] \in waitCh
    BY <1>2, FirstIsLeast DEF Waiting
  <2> QED
    BY <1>2, <2>1 DEF Heir, WaitMapsAgree, TypeOK
<1> QED
  BY <1>1, <1>2
------------------------------------------------------------------------------
LEMMA InitIInv == Init => IInv
<1> SUFFICES ASSUME Init PROVE IInv
  OBVIOUS
<1>1. TypeOK
  <2>1. wait \in [UID -> Seq(XID)]
    <3>1. <<>> \in Seq(XID)
      OBVIOUS
    <3> QED
      BY <3>1 DEF Init
  <2>2. x2u \in [XID -> SUBSET UID]
    BY DEF Init
  <2> QED
    BY <2>1, <2>2 DEF Init, TypeOK
<1>2. RegisteredIsOwned
  BY DEF Init, RegisteredIsOwned
<1>3. \A u \in UID : DOMAIN wait[u] = {}
  <2>1. \A u \in UID : wait[u] = <<>>
    BY DEF Init
  <2> QED
    BY <2>1
<1>4. WaitMapsAgree
  BY <1>3 DEF Init, WaitMapsAgree
<1> QED
  BY <1>1, <1>2, <1>3, <1>4 DEF IInv, QueuedOrDone

LEMMA AddHeldIInv ==
  ASSUME IInv, NEW x \in XID, NEW u \in UID, AddHeld(x, u)
  PROVE  IInv'
  BY DEF AddHeld, IInv, TypeOK, RegisteredIsOwned, WaitMapsAgree, QueuedOrDone

(* An entry nobody owns has nobody waiting for it. *)
LEMMA AddFreeIInv ==
  ASSUME IInv, NEW x \in XID, NEW u \in UID, AddFree(x, u)
  PROVE  IInv'
<1>1. TypeOK'
  BY DEF AddFree, IInv, TypeOK
<1>2. RegisteredIsOwned'
  BY DEF AddFree, IInv, TypeOK, RegisteredIsOwned
<1>3. WaitMapsAgree'
  BY DEF AddFree, IInv, TypeOK, WaitMapsAgree
<1> QED
  BY <1>1, <1>2, <1>3 DEF AddFree, IInv, QueuedOrDone

(* The new waiter is at the end of one queue, and in no other place. *)
LEMMA AddWaitIInv ==
  ASSUME IInv, NEW x \in XID \ (done \cup waitCh), NEW u \in UID, AddWait(x, u)
  PROVE  IInv'
<1> DEFINE n == Len(wait[u])
<1>0. /\ TypeOK /\ n \in Nat
      /\ wait' = [wait EXCEPT ![u] = Append(@, x)]
      /\ wait'[u] = Append(wait[u], x)
      /\ DOMAIN wait[u] = 1..n /\ DOMAIN wait'[u] = 1..(n + 1)
      /\ wait'[u][n + 1] = x /\ \A i \in 1..n : wait'[u][i] = wait[u][i]
      /\ \A v \in UID \ {u} : wait'[v] = wait[v]
  BY DEF AddWait, IInv, TypeOK
<1>1. TypeOK'
  BY <1>0 DEF AddWait, TypeOK
<1>2. RegisteredIsOwned'
  BY DEF AddWait, IInv, RegisteredIsOwned
<1>3. \A v \in UID : \A i \in DOMAIN wait[v] : wait[v][i] # x
  BY DEF AddWait, IInv, QueuedOrDone
<1>4. WaitMapsAgree'
  <2>1. \A y \in XID : y \in waitCh' <=> xwaitu'[y] # NoUID
    BY DEF AddWait, IInv, TypeOK, WaitMapsAgree
  <2>2. \A y \in waitCh' : /\ u2x'[xwaitu'[y]] # NoXID
                           /\ \E i \in DOMAIN wait'[xwaitu'[y]] : wait'[xwaitu'[y]][i] = y
    <3> SUFFICES ASSUME NEW y \in waitCh'
                 PROVE  /\ u2x'[xwaitu'[y]] # NoXID
                        /\ \E i \in DOMAIN wait'[xwaitu'[y]] : wait'[xwaitu'[y]][i] = y
      OBVIOUS
    <3>1. CASE y = x
      <4>1. xwaitu'[y] = u /\ u2x'[u] # NoXID
        BY <3>1 DEF AddWait, IInv, TypeOK
      <4>2. n + 1 \in DOMAIN wait'[u] /\ wait'[u][n + 1] = y
        BY <1>0, <3>1
      <4> QED
        BY <4>1, <4>2
    <3>2. CASE y # x
      <4>1. y \in waitCh /\ xwaitu'[y] = xwaitu[y] /\ xwaitu[y] \in UID
        BY <3>2 DEF AddWait, IInv, TypeOK, WaitMapsAgree
      <4>2. PICK i \in DOMAIN wait[xwaitu[y]] : wait[xwaitu[y]][i] = y
        BY <4>1 DEF IInv, WaitMapsAgree
      <4>3. i \in DOMAIN wait'[xwaitu[y]] /\ wait'[xwaitu[y]][i] = y
        BY <1>0, <4>1, <4>2
      <4>4. u2x'[xwaitu[y]] # NoXID
        BY <4>1 DEF AddWait, IInv, WaitMapsAgree
      <4> QED
        BY <4>1, <4>3, <4>4
    <3> QED
      BY <3>1, <3>2
  <2>3. \A v \in UID : \A i \in DOMAIN wait'[v] :
          wait'[v][i] \in waitCh' =>
            /\ xwaitu'[wait'[v][i]] = v
            /\ \A j \in DOMAIN wait'[v] : wait'[v][j] = wait'[v][i] => i = j
    <3> SUFFICES ASSUME NEW v \in UID, NEW i \in DOMAIN wait'[v], wait'[v][i] \in waitCh'
                 PROVE  /\ xwaitu'[wait'[v][i]] = v
                        /\ \A j \in DOMAIN wait'[v] : wait'[v][j] = wait'[v][i] => i = j
      OBVIOUS
    <3>1. CASE v = u /\ i = n + 1
      BY <1>0, <1>3, <3>1 DEF AddWait, TypeOK
    <3>2. CASE ~(v = u /\ i = n + 1)
      <4>1. i \in DOMAIN wait[v] /\ wait'[v][i] = wait[v][i] /\ wait[v][i] # x
        BY <1>0, <1>3, <3>2
      <4>2. wait[v][i] \in waitCh
        BY <4>1 DEF AddWait
      <4>3. xwaitu'[wait[v][i]] = v
        BY <4>1, <4>2 DEF AddWait, IInv, TypeOK, WaitMapsAgree
      <4>4. \A j \in DOMAIN wait[v] : wait[v][j] = wait[v][i] => i = j
        BY <4>1, <4>2 DEF IInv, WaitMapsAgree
      <4> QED
        BY <1>0, <4>1, <4>3, <4>4
    <3> QED
      BY <3>1, <3>2
  <2> QED
    BY <2>1, <2>2, <2>3 DEF WaitMapsAgree
<1>5. ~hung' => QueuedOrDone'
  BY <1>0 DEF AddWait, IInv, QueuedOrDone
<1> QED
  BY <1>1, <1>2, <1>4, <1>5 DEF IInv

(* A refused edge is taken back, or left in the queue of a hung table. *)
LEMMA AddRefuseIInv ==
  ASSUME IInv, NEW x \in XID \ (done \cup waitCh), NEW u \in UID, AddRefuse(x, u)
  PROVE  IInv'
<1>1. CASE ~hung'
  <2>1. wait' = wait /\ hung' = hung
    BY <1>1 DEF AddRefuse, IInv, TypeOK
  <2> QED
    BY <2>1 DEF AddRefuse, IInv, TypeOK, RegisteredIsOwned, WaitMapsAgree, QueuedOrDone
<1>2. CASE hung'
  <2> DEFINE n == Len(wait[u])
  <2>0. /\ n \in Nat /\ hung' \in BOOLEAN
        /\ wait' = [wait EXCEPT ![u] = Append(@, x)]
        /\ DOMAIN wait[u] = 1..n /\ DOMAIN wait'[u] = 1..(n + 1)
        /\ wait'[u][n + 1] = x /\ \A i \in 1..n : wait'[u][i] = wait[u][i]
        /\ \A v \in UID \ {u} : wait'[v] = wait[v]
    BY <1>2 DEF AddRefuse, IInv, TypeOK
  <2>1. TypeOK'
    BY <2>0 DEF AddRefuse, IInv, TypeOK
  <2>2. RegisteredIsOwned'
    BY DEF AddRefuse, IInv, RegisteredIsOwned
  <2>3. \A y \in waitCh : \E i \in DOMAIN wait'[xwaitu[y]] : wait'[xwaitu[y]][i] = y
    <3> SUFFICES ASSUME NEW y \in waitCh
                 PROVE  \E i \in DOMAIN wait'[xwaitu[y]] : wait'[xwaitu[y]][i] = y
      OBVIOUS
    <3>1. xwaitu[y] \in UID
      BY DEF IInv, TypeOK, WaitMapsAgree
    <3>2. PICK i \in DOMAIN wait[xwaitu[y]] : wait[xwaitu[y]][i] = y
      BY DEF IInv, WaitMapsAgree
    <3> QED
      BY <2>0, <3>1, <3>2
  <2>4. \A v \in UID : \A i \in DOMAIN wait'[v] :
          wait'[v][i] \in waitCh => i \in DOMAIN wait[v] /\ wait'[v][i] = wait[v][i]
    BY <2>0
  <2>5. WaitMapsAgree'
    BY <2>3, <2>4 DEF AddRefuse, IInv, WaitMapsAgree
  <2> QED
    BY <1>2, <2>1, <2>2, <2>5 DEF IInv
<1> QED
  BY <1>1, <1>2

LEMMA ReceiveIInv ==
  ASSUME IInv, NEW x \in XID, Receive(x)
  PROVE  IInv'
  BY DEF Receive, IInv, TypeOK, RegisteredIsOwned, WaitMapsAgree, QueuedOrDone

(* A waiter that is not chosen stays in the cut queue, and the entry it      *)
(* waits for has a new owner.                                                *)
LEMMA RemoveIInv ==
  ASSUME IInv, NEW x \in XID, Remove(x)
  PROVE  IInv'
<1>0. /\ TypeOK /\ WaitMapsAgree /\ RegisteredIsOwned
      /\ \A u \in UID : Heir(u) \in XID \cup {NoXID} /\ Rest(u) \in Seq(XID)
      /\ Heirs(x) \subseteq XID
      /\ \A u \in x2u[x] : u \in UID /\ u2x[u] = x
  BY HeirWaited, RestOfQueue DEF IInv, Heirs, RegisteredIsOwned, TypeOK
<1>1. TypeOK'
  BY <1>0 DEF Remove, TypeOK
<1>2. RegisteredIsOwned'
  <2> SUFFICES ASSUME NEW y \in XID, NEW u \in x2u'[y]
               PROVE  u2x'[u] = y
    BY DEF RegisteredIsOwned
  <2>1. y # x /\ u \in x2u[y] /\ u \in UID /\ u2x[u] = y
    BY <1>0 DEF Remove, TypeOK, RegisteredIsOwned
  <2> QED
    BY <1>0, <2>1 DEF Remove
<1>3. \A y \in waitCh' : y \in waitCh /\ y \notin Heirs(x) /\ y # x /\ xwaitu'[y] = xwaitu[y]
  BY <1>0 DEF Remove, TypeOK
<1>4. \A y \in XID : y \in waitCh' <=> xwaitu'[y] # NoUID
  BY <1>0 DEF Remove, WaitMapsAgree
<1>5. \A y \in waitCh' : /\ u2x'[xwaitu'[y]] # NoXID
                         /\ \E i \in DOMAIN wait'[xwaitu'[y]] : wait'[xwaitu'[y]][i] = y
  <2> SUFFICES ASSUME NEW y \in waitCh'
               PROVE  /\ u2x'[xwaitu'[y]] # NoXID
                      /\ \E i \in DOMAIN wait'[xwaitu'[y]] : wait'[xwaitu'[y]][i] = y
    OBVIOUS
  <2> DEFINE u == xwaitu[y]
  <2>1. y \in waitCh /\ y \notin Heirs(x) /\ xwaitu'[y] = u /\ u \in UID /\ u2x[u] # NoXID
    BY <1>0, <1>3 DEF TypeOK, WaitMapsAgree
  <2>2. PICK i \in DOMAIN wait[u] : wait[u][i] = y
    BY <1>0, <2>1 DEF WaitMapsAgree
  <2>3. CASE u \notin x2u[x]
    BY <2>1, <2>2, <2>3 DEF Remove
  <2>4. CASE u \in x2u[x]
    <3>1. i \in Waiting(u)
      BY <2>1, <2>2 DEF Waiting
    <3>2. Heir(u) # NoXID /\ Heir(u) = wait[u][First(u)]
      BY <1>0, <2>1, <3>1, HeirWaited
    <3>3. Heir(u) \in Heirs(x)
      BY <2>4, <3>2 DEF Heirs
    <3>4. i # First(u)
      BY <2>1, <2>2, <3>2, <3>3
    <3>5. i - First(u) \in DOMAIN Rest(u) /\ Rest(u)[i - First(u)] = y
      BY <1>0, <2>1, <2>2, <3>1, <3>4, RestOfQueue
    <3>6. wait'[u] = Rest(u) /\ u2x'[u] = Heir(u)
      BY <2>1, <2>4 DEF Remove
    <3> QED
      BY <2>1, <3>2, <3>5, <3>6
  <2> QED
    BY <2>3, <2>4
<1>6. \A u \in UID : \A i \in DOMAIN wait'[u] :
        \E k \in DOMAIN wait[u] :
          /\ wait'[u][i] = wait[u][k]
          /\ k = IF u \in x2u[x] THEN First(u) + i ELSE i
  <2> SUFFICES ASSUME NEW u \in UID, NEW i \in DOMAIN wait'[u]
               PROVE  \E k \in DOMAIN wait[u] :
                        /\ wait'[u][i] = wait[u][k]
                        /\ k = IF u \in x2u[x] THEN First(u) + i ELSE i
    OBVIOUS
  <2>1. CASE u \in x2u[x]
    <3>1. wait'[u] = Rest(u)
      BY <2>1 DEF Remove
    <3> QED
      BY <1>0, <2>1, <3>1, RestOfQueue
  <2>2. CASE u \notin x2u[x]
    BY <2>2 DEF Remove
  <2> QED
    BY <2>1, <2>2
<1>7. \A u \in UID : \A i \in DOMAIN wait'[u] :
        wait'[u][i] \in waitCh' =>
          /\ xwaitu'[wait'[u][i]] = u
          /\ \A j \in DOMAIN wait'[u] : wait'[u][j] = wait'[u][i] => i = j
  <2> SUFFICES ASSUME NEW u \in UID, NEW i \in DOMAIN wait'[u], wait'[u][i] \in waitCh'
               PROVE  /\ xwaitu'[wait'[u][i]] = u
                      /\ \A j \in DOMAIN wait'[u] : wait'[u][j] = wait'[u][i] => i = j
    OBVIOUS
  <2>1. PICK k \in DOMAIN wait[u] : /\ wait'[u][i] = wait[u][k]
                                    /\ k = IF u \in x2u[x] THEN First(u) + i ELSE i
    BY <1>6
  <2>2. wait[u][k] \in waitCh /\ xwaitu'[wait[u][k]] = xwaitu[wait[u][k]]
    BY <1>3, <2>1
  <2>3. xwaitu'[wait'[u][i]] = u
    BY <1>0, <2>1, <2>2 DEF WaitMapsAgree
  <2>4. ASSUME NEW j \in DOMAIN wait'[u], wait'[u][j] = wait'[u][i]
        PROVE  i = j
    <3>1. PICK m \in DOMAIN wait[u] : /\ wait'[u][j] = wait[u][m]
                                      /\ m = IF u \in x2u[x] THEN First(u) + j ELSE j
      BY <1>6
    <3>2. k = m
      BY <1>0, <2>1, <2>2, <2>4, <3>1 DEF WaitMapsAgree
    <3>3. DOMAIN wait'[u] \subseteq Nat
      BY <1>1 DEF TypeOK
    <3>4. CASE u \in x2u[x]
      <4>1. wait'[u] = Rest(u)
        BY <3>4 DEF Remove
      <4>2. First(u) \in Nat
        BY <1>0, <4>1, FirstIsLeast, RestOfQueue DEF TypeOK
      <4> QED
        BY <2>1, <3>1, <3>2, <3>3, <3>4, <4>2
    <3> QED
      BY <2>1, <3>1, <3>2, <3>4
  <2> QED
    BY <2>3, <2>4
<1>8. WaitMapsAgree'
  BY <1>4, <1>5, <1>7 DEF WaitMapsAgree
<1>9. QueuedOrDone'
  <2> SUFFICES ASSUME NEW u \in UID, NEW i \in DOMAIN wait'[u]
               PROVE  wait'[u][i] \in waitCh' \cup done'
    BY DEF QueuedOrDone
  <2> DEFINE y == wait'[u][i]
  <2>1. PICK k \in DOMAIN wait[u] : /\ y = wait[u][k]
                                    /\ k = IF u \in x2u[x] THEN First(u) + i ELSE i
    BY <1>6
  <2>2. y \in waitCh \cup done
    BY <2>1 DEF Remove, IInv, QueuedOrDone
  <2>3. ASSUME y \in waitCh, y \in Heirs(x)
        PROVE  FALSE
    <3>1. PICK v \in x2u[x] : y = Heir(v) /\ Heir(v) # NoXID
      BY <2>3 DEF Heirs
    <3>2. /\ v \in UID /\ xwaitu[y] = v /\ y = wait[v][First(v)]
          /\ First(v) \in DOMAIN wait[v] /\ Waiting(v) # {}
      BY <1>0, <3>1, HeirWaited
    <3>3. u = v
      BY <1>0, <2>1, <2>3, <3>2 DEF WaitMapsAgree
    <3>4. k = First(u)
      BY <1>0, <2>1, <2>3, <3>2, <3>3 DEF WaitMapsAgree
    <3>5. wait'[u] = Rest(u)
      BY <3>1, <3>3 DEF Remove
    <3>6. First(u) \in Nat /\ i \in Nat \ {0}
      BY <1>0, <3>2, <3>3, <3>5, FirstIsLeast, RestOfQueue DEF TypeOK
    <3> QED
      BY <2>1, <3>1, <3>3, <3>4, <3>6
  <2> QED
    BY <2>2, <2>3 DEF Remove
<1> QED
  BY <1>1, <1>2, <1>8, <1>9 DEF IInv

(* The stuttering steps and the composition of Next. *)
LEMMA NextIInv == IInv /\ [Next]_ltVars => IInv'
<1> SUFFICES ASSUME IInv, [Next]_ltVars PROVE IInv'
  OBVIOUS
<1>1. CASE UNCHANGED ltVars
  BY <1>1 DEF ltVars, IInv, TypeOK, RegisteredIsOwned, WaitMapsAgree, QueuedOrDone
<1>2. ASSUME NEW x \in XID \ done, x \notin waitCh \cup token, NEW u \in UID, Add(x, u)
      PROVE  IInv'
  BY <1>2, AddHeldIInv, AddFreeIInv, AddWaitIInv, AddRefuseIInv DEF Add
<1>3. ASSUME NEW x \in XID \ done, Receive(x) PROVE IInv'
  BY <1>3, ReceiveIInv
<1>4. ASSUME NEW x \in XID \ done, Remove(x) PROVE IInv'
  BY <1>4, RemoveIInv
<1> QED
  BY <1>1, <1>2, <1>3, <1>4 DEF Next

LEMMA Invariance == Spec => []IInv
<1>1. Init => IInv
  BY InitIInv
<1>2. IInv /\ [Next]_ltVars => IInv'
  BY NextIInv
<1> QED
  BY <1>1, <1>2, PTL DEF Spec
------------------------------------------------------------------------------
(* The maps keep their types. *)
THEOREM TypeCorrect == Spec => []TypeOK
<1>1. IInv => TypeOK
  BY DEF IInv
<1> QED
  BY <1>1, Invariance, PTL

(* Add, Remove: an entry registered for a transaction is owned by it. *)
THEOREM RegisteredOwned == Spec => []RegisteredIsOwned
<1>1. IInv => RegisteredIsOwned
  BY DEF IInv
<1> QED
  BY <1>1, Invariance, PTL

(* The waiting maps agree; in particular dfs's assertion never fails. *)
THEOREM WaitMaps == Spec => []WaitMapsAgree
<1>1. IInv => WaitMapsAgree
  BY DEF IInv
<1> QED
  BY <1>1, Invariance, PTL

(* An owner loses an entry only by its own Remove. *)
THEOREM OwnersKeepEntries == Spec => NoStealing
<1> DEFINE Keeps == \A u \in UID :
                      u2x[u] # NoXID /\ u2x'[u] # u2x[u] => u2x[u] \in done' \ done
<1>1. IInv /\ [Next]_ltVars => [Keeps]_ltVars
  <2> SUFFICES ASSUME IInv, Next PROVE Keeps
    OBVIOUS
  <2>1. PICK x \in XID \ done : \/ \E u \in UID : Add(x, u)
                                \/ Receive(x)
                                \/ Remove(x)
    BY DEF Next
  <2>2. ASSUME NEW u \in UID, Add(x, u) PROVE Keeps
    BY <2>2 DEF Add, AddHeld, AddFree, AddWait, AddRefuse, IInv, TypeOK
  <2>3. CASE Receive(x)
    BY <2>3 DEF Receive
  <2>4. CASE Remove(x)
    BY <2>4 DEF Remove, IInv, RegisteredIsOwned
  <2> QED
    BY <2>1, <2>2, <2>3, <2>4
<1> QED
  BY <1>1, Invariance, PTL DEF Spec, NoStealing
------------------------------------------------------------------------------
(* A step that leaves x2u, u2x and xwaitu alone closes no cycle. *)
LEMMA SameGraph ==
  ASSUME NoRegisteredDeadlock, UNCHANGED <<x2u, u2x, xwaitu>>
  PROVE  NoRegisteredDeadlock'
  BY DEF NoRegisteredDeadlock, hasDeadLock, Closed

(* A cycle among registered holders can only be closed by a new waiting      *)
(* edge: who acquires a free entry does not wait and nobody waits for that   *)
(* entry, and who inherits one by Remove has just stopped waiting.           *)
LEMMA NextNoRegisteredDeadlock ==
  ASSUME IInv, NoRegisteredDeadlock, [Next]_ltVars
  PROVE  NoRegisteredDeadlock'
<1>1. CASE UNCHANGED ltVars
  BY <1>1, SameGraph DEF ltVars
<1>2. ASSUME NEW x \in XID \ done, x \notin waitCh \cup token, NEW u \in UID, Add(x, u)
      PROVE  NoRegisteredDeadlock'
  <2>1. CASE AddHeld(x, u)
    BY <2>1, SameGraph DEF AddHeld
  <2>2. CASE AddFree(x, u)
    <3> SUFFICES ASSUME NEW S \in SUBSET XID, Closed(S, xwaitu)',
                        NEW y \in S, x2u'[y] # {}
                 PROVE  FALSE
      BY DEF NoRegisteredDeadlock, hasDeadLock
    <3>1. S # {} /\ \A z \in S : xwaitu[z] # NoUID /\ u2x'[xwaitu[z]] \in S
      BY <2>2 DEF AddFree, Closed
    <3>2. x \notin S
      BY <1>2, <3>1 DEF IInv, WaitMapsAgree
    <3>3. \A z \in S : xwaitu[z] \in UID /\ u2x[xwaitu[z]] # NoXID
      BY <3>1 DEF IInv, TypeOK, WaitMapsAgree
    <3>4. \A z \in S : u2x'[xwaitu[z]] = u2x[xwaitu[z]]
      BY <2>2, <3>3 DEF AddFree, IInv, TypeOK
    <3>5. Closed(S, xwaitu)
      BY <3>1, <3>4 DEF Closed
    <3>6. x2u[y] # {}
      BY <2>2, <3>2 DEF AddFree, IInv, TypeOK
    <3> QED
      BY <3>5, <3>6 DEF NoRegisteredDeadlock, hasDeadLock
  <2>3. CASE AddWait(x, u)
    BY <2>3 DEF AddWait, NoRegisteredDeadlock, hasDeadLock, Closed
  <2>4. CASE AddRefuse(x, u)
    BY <2>4, SameGraph DEF AddRefuse
  <2> QED
    BY <1>2, <2>1, <2>2, <2>3, <2>4 DEF Add
<1>3. ASSUME NEW x \in XID \ done, Receive(x) PROVE NoRegisteredDeadlock'
  BY <1>3, SameGraph DEF Receive
<1>4. ASSUME NEW x \in XID \ done, Remove(x) PROVE NoRegisteredDeadlock'
  <2> SUFFICES ASSUME NEW S \in SUBSET XID, Closed(S, xwaitu)',
                      NEW y \in S, x2u'[y] # {}
               PROVE  FALSE
    BY DEF NoRegisteredDeadlock, hasDeadLock
  <2>1. S # {} /\ \A z \in S : xwaitu'[z] # NoUID /\ u2x'[xwaitu'[z]] \in S
    BY DEF Closed
  <2>2. \A z \in S : z # x /\ z \notin Heirs(x) /\ xwaitu'[z] = xwaitu[z]
    BY <1>4, <2>1 DEF Remove
  <2>3. \A z \in S : xwaitu[z] \in UID
    BY <2>1, <2>2 DEF IInv, TypeOK
  <2>4. \A z \in S : xwaitu[z] \notin x2u[x]
    <3> SUFFICES ASSUME NEW z \in S, xwaitu[z] \in x2u[x] PROVE FALSE
      OBVIOUS
    <3>1. u2x'[xwaitu[z]] = Heir(xwaitu[z]) /\ u2x'[xwaitu[z]] \in S
      BY <1>4, <2>1, <2>2, <2>3 DEF Remove
    <3>2. Heir(xwaitu[z]) \in Heirs(x)
      BY <3>1 DEF Heirs
    <3> QED
      BY <2>2, <3>1, <3>2
  <2>5. \A z \in S : u2x'[xwaitu[z]] = u2x[xwaitu[z]]
    BY <1>4, <2>3, <2>4 DEF Remove
  <2>6. Closed(S, xwaitu)
    BY <2>1, <2>2, <2>5 DEF Closed
  <2>7. x2u[y] # {}
    BY <1>4, <2>2 DEF Remove, IInv, TypeOK
  <2> QED
    BY <2>6, <2>7 DEF NoRegisteredDeadlock, hasDeadLock
<1> QED
  BY <1>1, <1>2, <1>3, <1>4 DEF Next

(* Add's search keeps every transaction that registered an entry out of      *)
(* waiting cycles, for any number of transactions and entries.               *)
THEOREM RegisteredHoldersNeverDeadlock == Spec => []NoRegisteredDeadlock
<1>1. Init => NoRegisteredDeadlock
  BY DEF Init, NoRegisteredDeadlock, hasDeadLock, Closed
<1>2. IInv /\ NoRegisteredDeadlock /\ [Next]_ltVars => NoRegisteredDeadlock'
  BY NextNoRegisteredDeadlock
<1> QED
  BY <1>1, <1>2, Invariance, PTL DEF Spec
==============================================================================

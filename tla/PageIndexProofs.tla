--------------------------- MODULE PageIndexProofs ---------------------------
(***************************************************************************)
(* Proofs about PageIndex, for any inserters, sizes, number of pages and   *)
(* page layout that PageIndexAssumption allows.  IInv adds to the three    *)
(* invariants what an inserter remembers of the page it holds: the space   *)
(* on record, the length of its item and, while it selects, that a page    *)
(* it could have is in the index unless others have selected since.        *)
(***************************************************************************)
EXTENDS PageIndex, WellFoundedInduction, TLAPS

Enough(pr, size) == Class(pr.free) >= FirstClass(size)

Remembers(p) ==
  /\ pc[p] # "idle" => op[p].size \in Size /\ op[p].size <= PXMaxFreeSpace
  /\ pc[p] = "get" => op[p].free = PXFreeSpace(op[p].pgno)
  /\ pc[p] = "new" => fso[op[p].pgno] = PX_OF_DATA /\ taken[p] >= op[p].try
  /\ pc[p] = "select" => \/ taken[p] >= op[p].try
                         \/ taken[p] >= op[p].try - 1 /\ \E pr \in pidx : Enough(pr, op[p].size)

IInv == TypeOK /\ OnePlace /\ RoomForItem /\ \A p \in Proc : Remembers(p)

-----------------------------------------------------------------------------
(* Lemmas about the classes of pindex.go *)

\* Division by a positive number rounds down.
LEMMA DivNat ==
  ASSUME NEW t \in Nat \ {0}, NEW a \in Nat
  PROVE  a \div t \in Nat /\ a \div t <= a
  BY SMT

\* Division keeps the order of numbers.
LEMMA DivOrder ==
  ASSUME NEW t \in Nat \ {0}, NEW a \in Nat, NEW b \in Nat, b \div t < a \div t
  PROVE  b < a
  BY SMT

\* Division undoes a product.
LEMMA DivProduct ==
  ASSUME NEW t \in Nat \ {0}, NEW n \in Nat, NEW a \in Nat, n * t <= a
  PROVE  n <= a \div t
  BY SMT

\* The layout's constants are natural numbers in the order they have in a page.
LEMMA Layout ==
  /\ THRESHOLD \in Nat \ {0} /\ PAGE_SIZE \in Nat /\ PX_OF_DATA \in Nat \ {0}
  /\ NO_INTERVAL \in Nat \ {0} /\ PXMaxFreeSpace \in Nat /\ PXMaxFreeSpace < PAGE_SIZE
<1>1. PAGE_SIZE \in Nat /\ NO_INTERVAL \in Nat \ {0} /\ PX_OF_DATA \in Nat \ {0}
  BY PageIndexAssumption
<1>2. THRESHOLD \in Nat
  BY <1>1, DivNat DEF THRESHOLD
<1>3. THRESHOLD > 0 /\ NO_INTERVAL * THRESHOLD <= PXMaxFreeSpace
  BY PageIndexAssumption
<1>4. NO_INTERVAL * THRESHOLD \in Nat
  BY <1>1, <1>2
<1>. QED
  BY <1>1, <1>2, <1>3, <1>4 DEF PXMaxFreeSpace

\* The class of a space is a natural number.
LEMMA ClassNat ==
  ASSUME NEW a \in Nat PROVE Class(a) = a \div THRESHOLD /\ Class(a) \in Nat
  BY Layout, DivNat DEF Class

\* The class of any space is an integer.
LEMMA ClassInt ==
  ASSUME NEW a \in Int PROVE Class(a) \in Int
<1>1. CASE a >= 0
  BY <1>1, ClassNat
<1>2. CASE ~(a >= 0)
  <2>1. -a \in Nat
    BY <1>2
  <2>2. (-a) \div THRESHOLD \in Nat
    BY <2>1, Layout, DivNat
  <2>. QED
    BY <1>2, <2>2 DEF Class
<1>. QED
  BY <1>1, <1>2

\* A page that Select returns for a size with a class above it has room for the item.
LEMMA LargerClassFits ==
  ASSUME NEW size \in Nat, NEW free \in Nat, Fitting(size), Class(free) >= FirstClass(size)
  PROVE  size < free
<1>1. Class(size) < Class(free)
  BY ClassNat DEF FirstClass, Fitting
<1>. QED
  BY <1>1, ClassNat, DivOrder, Layout

\* An empty page is in a class that Select looks at, for every size Insert accepts.
LEMMA EmptyPageIsEnough ==
  ASSUME NEW size \in Nat, size <= PXMaxFreeSpace
  PROVE  Class(PXMaxFreeSpace) >= FirstClass(size)
<1>1. Class(PXMaxFreeSpace) \in Nat /\ Class(size) \in Nat
  BY ClassNat, Layout
<1>2. CASE Class(size) < NO_INTERVAL
  <2>1. NO_INTERVAL <= PXMaxFreeSpace \div THRESHOLD
    BY DivProduct, Layout, PageIndexAssumption
  <2>. QED
    BY <1>1, <1>2, <2>1, Layout, ClassNat DEF FirstClass
<1>3. CASE ~(Class(size) < NO_INTERVAL)
  <2>1. Class(PXMaxFreeSpace) < Class(size) => PXMaxFreeSpace < size
    BY DivOrder, ClassNat, Layout
  <2>. QED
    BY <1>1, <1>3, <2>1, Layout DEF FirstClass
<1>. QED
  BY <1>2, <1>3

-----------------------------------------------------------------------------
(* IInv is an invariant *)

LEMMA InitIInv == Init => IInv
  BY PageIndexAssumption
     DEF Init, IInv, TypeOK, OnePlace, RoomForItem, Remembers, Page, Held, Idle

\* Opening rebuilds the index from the pages, whatever the inserters held.
LEMMA StartIInv ==
  ASSUME NEW n \in Nat \ {0}, NEW offset \in [2 .. n -> Nat], Start(n, offset),
         (\A size \in Size : Fitting(size)) => \A pg \in 2 .. n : offset[pg] <= PAGE_SIZE
  PROVE  IInv'
<1>1. TypeOK'
  <2>1. pidx' \subseteq [pgno : Page', free : Int]
    BY Layout DEF Start, fillPindex, Page
  <2>2. op' \in [Proc -> [size : Nat, try : Nat, pgno : Nat, free : Int]]
    BY DEF Start, Idle
  <2>3. \A p \in Proc : op'[p].try < Tries /\ ~Held(p)'
    BY PageIndexAssumption DEF Start, Idle, Held
  <2>. QED
    BY <2>1, <2>2, <2>3 DEF Start, TypeOK, Page
<1>2. OnePlace'
  <2>1. Page' = 2 .. n /\ pidx' = {[pgno |-> pg, free |-> PAGE_SIZE - offset[pg]] : pg \in 2 .. n}
    BY DEF Start, fillPindex, Page
  <2>2. \A p \in Proc : ~Held(p)'
    BY DEF Start, Held
  <2>3. ASSUME NEW pg \in 2 .. n PROVE \E pr \in pidx' : pr.pgno = pg
    <3>. DEFINE new == [pgno |-> pg, free |-> PAGE_SIZE - offset[pg]]
    <3>1. new \in pidx' /\ new.pgno = pg
      BY <2>1
    <3>. QED
      BY <3>1
  <2>4. \A pr \in pidx' : pr = [pgno |-> pr.pgno, free |-> PAGE_SIZE - offset[pr.pgno]]
    BY <2>1
  <2>. QED
    BY <2>1, <2>2, <2>3, <2>4 DEF OnePlace
<1>3. RoomForItem'
  BY DEF Start, fillPindex, RoomForItem, Page, PXFreeSpace
<1>4. \A p \in Proc : Remembers(p)'
  BY DEF Start, Remembers
<1>. QED
  BY <1>1, <1>2, <1>3, <1>4 DEF IInv

\* When Select finds nothing, no pair of the index is in a class it looks at: one in the
\* lowest of those classes would do.
LEMMA NoneSelectable ==
  ASSUME TypeOK, NEW size \in Nat, Selectable(size) = {}
  PROVE  ~\E pr \in pidx : Enough(pr, size)
<1>. SUFFICES ASSUME NEW pr \in pidx, Enough(pr, size) PROVE FALSE
  OBVIOUS
<1>. DEFINE T == {Class(q.free) : q \in {r \in pidx : Enough(r, size)}}
            R == OpToRel(<, Nat)
<1>1. FirstClass(size) \in Nat
  BY ClassNat DEF FirstClass
<1>2. \A q \in pidx : Class(q.free) \in Int
  BY ClassInt DEF TypeOK
<1>3. T \subseteq Nat
  BY <1>1, <1>2 DEF Enough
<1>4. Class(pr.free) \in T
  OBVIOUS
<1>5. \E c \in T : \A d \in T : ~(<<d, c>> \in R)
  <2>. HIDE DEF T, R
  <2>1. IsWellFoundedOn(R, Nat)
    BY NatLessThanWellFounded, Zenon DEF R
  <2>. QED
    BY <1>3, <1>4, <2>1, WFMin
<1>6. PICK c \in T : \A d \in T : c <= d
  <2>1. \A c, d \in Nat : d < c => <<d, c>> \in R
    <3>1. \A c, d \in Nat : <<d, c>>[1] = d /\ <<d, c>>[2] = c /\ <<d, c>> \in Nat \X Nat
      OBVIOUS
    <3>. QED
      BY <3>1, Zenon DEF OpToRel
  <2>2. \E c \in T : \A d \in T : ~(d < c)
    <3>. HIDE DEF T, R
    <3>. QED
      BY <1>3, <1>5, <2>1, Zenon
  <2>. HIDE DEF T
  <2>. QED
    BY <1>3, <2>2, SMT
<1>7. PICK q \in pidx : Enough(q, size) /\ Class(q.free) = c
  OBVIOUS
<1>8. q \in Selectable(size)
  BY <1>6, <1>7 DEF Selectable, Enough
<1>. QED
  BY <1>8

(* The three ways a step of an inserter p can move a page *)

Others(p) == \A q \in Proc \ {p} : op'[q] = op[q] /\ pc'[q] = pc[q]

\* A page leaves the index for an inserter that held none.
LEMMA TakePage ==
  ASSUME OnePlace, NEW p \in Proc, ~Held(p), Held(p)', Others(p), Page' = Page,
         NEW pr \in pidx, pidx' = pidx \ {pr}, op'[p].pgno = pr.pgno
  PROVE  OnePlace'
<1>1. \A q \in Proc \ {p} : (Held(q)' <=> Held(q)) /\ op'[q] = op[q]
  BY DEF Others, Held
<1>2. \A pg \in Page : (\E r \in pidx' : r.pgno = pg) \/ (\E q \in Proc : Held(q)' /\ op'[q].pgno = pg)
  <2>. TAKE pg \in Page
  <2>1. CASE pg = pr.pgno
    BY <2>1
  <2>2. CASE pg # pr.pgno /\ \E r \in pidx : r.pgno = pg
    BY <2>2
  <2>3. CASE \E q \in Proc : Held(q) /\ op[q].pgno = pg
    BY <2>3, <1>1
  <2>. QED
    BY <2>1, <2>2, <2>3 DEF OnePlace
<1>3. \A r, t \in pidx' : r.pgno = t.pgno => r = t
  BY DEF OnePlace
<1>4. \A q \in Proc : Held(q)' => \A r \in pidx' : r.pgno # op'[q].pgno
  BY <1>1 DEF OnePlace
<1>5. \A q, t \in Proc : Held(q)' /\ Held(t)' /\ op'[q].pgno = op'[t].pgno => q = t
  BY <1>1 DEF OnePlace
<1>. QED
  BY <1>2, <1>3, <1>4, <1>5 DEF OnePlace

\* A page an inserter held goes back to the index.
LEMMA PutPage ==
  ASSUME OnePlace, NEW p \in Proc, Held(p), ~Held(p)', Others(p), Page' = Page,
         NEW free, pidx' = pidx \cup {[pgno |-> op[p].pgno, free |-> free]}
  PROVE  OnePlace'
<1>. DEFINE new == [pgno |-> op[p].pgno, free |-> free]
<1>1. \A q \in Proc \ {p} : (Held(q)' <=> Held(q)) /\ op'[q] = op[q]
  BY DEF Others, Held
<1>0. new.pgno = op[p].pgno /\ pidx' = pidx \cup {new}
  OBVIOUS
<1>. HIDE DEF new
<1>2. \A pg \in Page : (\E r \in pidx' : r.pgno = pg) \/ (\E q \in Proc : Held(q)' /\ op'[q].pgno = pg)
  <2>. TAKE pg \in Page
  <2>1. CASE pg = op[p].pgno
    BY <2>1, <1>0
  <2>2. CASE \E r \in pidx : r.pgno = pg
    BY <2>2, <1>0
  <2>3. CASE \E q \in Proc \ {p} : Held(q) /\ op[q].pgno = pg
    BY <2>3, <1>1
  <2>. QED
    BY <2>1, <2>2, <2>3 DEF OnePlace
<1>3. \A r, t \in pidx' : r.pgno = t.pgno => r = t
  BY <1>0 DEF OnePlace
<1>4. \A q \in Proc : Held(q)' => \A r \in pidx' : r.pgno # op'[q].pgno
  BY <1>0, <1>1 DEF OnePlace
<1>5. \A q, t \in Proc : Held(q)' /\ Held(t)' /\ op'[q].pgno = op'[t].pgno => q = t
  BY <1>1 DEF OnePlace
<1>. QED
  BY <1>2, <1>3, <1>4, <1>5 DEF OnePlace

\* No page moves.
LEMMA KeepPages ==
  ASSUME OnePlace, NEW p \in Proc, Held(p)' <=> Held(p), Others(p), Page' = Page,
         pidx' = pidx, Held(p) => op'[p].pgno = op[p].pgno
  PROVE  OnePlace'
<1>1. \A q \in Proc : (Held(q)' <=> Held(q)) /\ (Held(q) => op'[q].pgno = op[q].pgno)
  BY DEF Others, Held
<1>. QED
  BY <1>1 DEF OnePlace

\* What the other inserters remember outlasts a step that only adds to the index and
\* leaves their pages alone.
LEMMA OthersRemember ==
  ASSUME \A q \in Proc : Remembers(q), NEW p \in Proc, Others(p), pidx \subseteq pidx',
         \A q \in Proc \ {p} : /\ taken'[q] = taken[q]
                               /\ Held(q) => fso'[op[q].pgno] = fso[op[q].pgno]
  PROVE  \A q \in Proc \ {p} : Remembers(q)'
  BY DEF Others, Remembers, Held, PXFreeSpace

\* Every step of an inserter keeps IInv.
LEMMA StepIInv ==
  ASSUME IInv, NEW p \in Proc, (\E size \in Size : Insert(p, size)) \/ Step(p)
  PROVE  IInv'
<1>. USE DEF IInv
<1>0. Tries \in Nat \ {0} /\ Size \subseteq Nat
  BY PageIndexAssumption
<1>1. CASE \E size \in Size : Insert(p, size)
  <2>0. PICK size \in Size : Insert(p, size)
    BY <1>1
  <2>. USE <2>0 DEF Insert, At
  <2>1. TypeOK'
    BY <1>0 DEF TypeOK, Page, Held, Idle
  <2>2. OnePlace'
    BY DEF TypeOK, OnePlace, Page, Held, Idle
  <2>3. RoomForItem'
    BY DEF TypeOK, RoomForItem, Page, PXFreeSpace
  <2>4. \A q \in Proc : Remembers(q)'
    BY <1>0 DEF TypeOK, Remembers, PXFreeSpace, Idle
  <2>. QED
    BY <2>1, <2>2, <2>3, <2>4
<1>2. CASE Select(p)
  <2>0. PICK pr \in Selectable(op[p].size) :
          /\ pidx' = pidx \ {pr}
          /\ op' = [op EXCEPT ![p].pgno = pr.pgno, ![p].free = pr.free]
    BY <1>2 DEF Select
  <2>a. pr \in pidx /\ pr \in [pgno : Page, free : Int] /\ Class(pr.free) >= FirstClass(op[p].size)
    BY <2>0 DEF Selectable, TypeOK
  <2>b. Page' = Page /\ noPages' = noPages /\ fso' = fso /\ leaked' = leaked
    BY <1>2 DEF Select, Page
  <2>c. op'[p].pgno = pr.pgno /\ op'[p].free = pr.free /\ op'[p].size = op[p].size /\ op'[p].try = op[p].try
    BY <2>0, <2>a DEF TypeOK
  <2>d. Others(p)
    BY <1>2, <2>0 DEF Select, At, TypeOK, Others
  <2>e. pc[p] = "select" /\ pc'[p] = "get"
    BY <1>2 DEF Select, At, TypeOK
  <2>f. taken' \in [Proc -> Nat]
    BY <1>0, <1>2 DEF Select, TypeOK
  <2>1. TypeOK'
    <3>1. op' \in [Proc -> [size : Nat, try : Nat, pgno : Nat, free : Int]]
      <4>1. pr.pgno \in Nat /\ pr.free \in Int
        BY <2>a DEF TypeOK, Page
      <4>. QED
        BY <2>0, <4>1 DEF TypeOK
    <3>2. \A q \in Proc : op'[q].try < Tries /\ (Held(q)' => op'[q].pgno \in Page)
      <4>1. op'[p].try < Tries /\ op'[p].pgno \in Page
        BY <2>a, <2>c DEF TypeOK
      <4>2. \A q \in Proc \ {p} : op'[q].try < Tries /\ (Held(q)' => op'[q].pgno \in Page)
        BY <2>d DEF TypeOK, Held, Others
      <4>. QED
        BY <4>1, <4>2
    <3>. QED
      BY <1>2, <2>0, <2>b, <2>f, <3>1, <3>2 DEF TypeOK, Select, At
  <2>2. OnePlace'
    BY <2>0, <2>a, <2>b, <2>c, <2>d, <2>e, TakePage DEF Held
  <2>3. RoomForItem'
    <3>1. (\A s \in Size : Fitting(s)) => fso[pr.pgno] + op[p].size <= PAGE_SIZE
      <4>. SUFFICES ASSUME \A s \in Size : Fitting(s)
                    PROVE  fso[pr.pgno] + op[p].size <= PAGE_SIZE
        OBVIOUS
      <4>1. op[p].size \in Size /\ op[p].size \in Nat
        BY <1>0, <2>e DEF Remembers
      <4>2. pr.free = PAGE_SIZE - fso[pr.pgno] /\ fso[pr.pgno] \in Nat /\ fso[pr.pgno] <= PAGE_SIZE
        BY <2>a DEF RoomForItem, PXFreeSpace, TypeOK
      <4>3. pr.free \in Nat
        BY <4>2, Layout
      <4>. QED
        BY <4>1, <4>2, <4>3, <2>a, LargerClassFits, Layout
    <3>. QED
      BY <2>0, <2>a, <2>b, <2>c, <2>d, <2>e, <3>1 DEF RoomForItem, PXFreeSpace, Others
  <2>4. \A q \in Proc : Remembers(q)'
    <3>1. Remembers(p)'
      BY <2>a, <2>b, <2>c, <2>e DEF Remembers, RoomForItem, PXFreeSpace
    <3>2. ASSUME NEW q \in Proc, q # p PROVE Remembers(q)'
      <4>1. op'[q] = op[q] /\ pc'[q] = pc[q] /\ taken[q] \in Nat /\ op[q].try \in Nat /\ op[q].try < Tries
        BY <2>d, <3>2 DEF TypeOK, Others
      <4>2. /\ taken'[q] \in Nat /\ taken'[q] >= taken[q]
            /\ pc[q] = "select" => taken'[q] >= op[q].try \/ taken'[q] >= taken[q] + 1
        BY <1>0, <1>2, <3>2, <4>1 DEF Select
      <4>. QED
        BY <2>b, <4>1, <4>2 DEF Remembers, PXFreeSpace
    <3>. QED
      BY <3>1, <3>2
  <2>. QED
    BY <2>1, <2>2, <2>3, <2>4
<1>3. CASE SelectNone(p)
  <2>. DEFINE n == noPages + 1
  <2>a. /\ Page' = Page \cup {n} /\ n \notin Page /\ n \in Nat /\ noPages' = n
        /\ pidx' = pidx /\ leaked' = leaked /\ taken' = taken
    BY <1>3 DEF SelectNone, Page, TypeOK
  <2>b. fso' \in [Page' -> Nat] /\ fso'[n] = PX_OF_DATA /\ \A pg \in Page : fso'[pg] = fso[pg]
    BY <1>3, <2>a, Layout DEF SelectNone, Page, TypeOK
  <2>c. /\ pc[p] = "select" /\ pc' = [pc EXCEPT ![p] = "new"] /\ op' = [op EXCEPT ![p].pgno = n]
        /\ Selectable(op[p].size) = {}
    BY <1>3 DEF SelectNone, At
  <2>d. Others(p) /\ pc'[p] = "new" /\ op'[p].pgno = n /\ op'[p].size = op[p].size /\ op'[p].try = op[p].try
    BY <2>c DEF Others, TypeOK
  <2>. HIDE DEF n
  <2>e. \A q \in Proc \ {p} : Held(q) => op[q].pgno \in Page
    BY DEF TypeOK
  <2>1. TypeOK'
    <3>1. op' \in [Proc -> [size : Nat, try : Nat, pgno : Nat, free : Int]]
      BY <2>a, <2>c DEF TypeOK
    <3>2. \A q \in Proc : op'[q].try < Tries /\ (Held(q)' => op'[q].pgno \in Page')
      BY <2>a, <2>d DEF TypeOK, Others, Held
    <3>3. pidx' \subseteq [pgno : Page', free : Int]
      BY <2>a DEF TypeOK
    <3>4. noPages' \in Nat \ {0}
      BY <1>3 DEF SelectNone, TypeOK
    <3>. QED
      BY <2>a, <2>b, <2>c, <3>1, <3>2, <3>3, <3>4 DEF TypeOK
  <2>2. OnePlace'
    <3>1. /\ ~Held(p) /\ Held(p)'
          /\ \A q \in Proc \ {p} : (Held(q)' <=> Held(q)) /\ op'[q] = op[q]
      BY <2>c, <2>d DEF Held, Others
    <3>2. \A pg \in Page' : \/ \E pr \in pidx' : pr.pgno = pg
                            \/ \E q \in Proc : Held(q)' /\ op'[q].pgno = pg
      BY <2>a, <2>d, <3>1 DEF OnePlace
    <3>3. \A pr \in pidx : pr.pgno # n
      BY <2>a DEF TypeOK
    <3>4. \A q \in Proc : Held(q)' => \A pr \in pidx' : pr.pgno # op'[q].pgno
      BY <2>a, <2>d, <3>1, <3>3 DEF OnePlace
    <3>5. \A q, t \in Proc : Held(q)' /\ Held(t)' /\ op'[q].pgno = op'[t].pgno => q = t
      BY <2>a, <2>d, <2>e, <3>1 DEF OnePlace
    <3>. QED
      BY <2>a, <3>2, <3>4, <3>5 DEF OnePlace
  <2>3. RoomForItem'
    <3>1. \A pr \in pidx' : pr.free = PXFreeSpace(pr.pgno)'
      BY <2>a, <2>b DEF RoomForItem, PXFreeSpace, TypeOK
    <3>2. PX_OF_DATA <= PAGE_SIZE
      BY Layout DEF PXMaxFreeSpace
    <3>. QED
      BY <2>a, <2>b, <2>d, <2>e, <3>1, <3>2 DEF RoomForItem, Others, Held
  <2>4. \A q \in Proc : Remembers(q)'
    <3>1. Remembers(p)'
      <4>1. ~\E pr \in pidx : Enough(pr, op[p].size)
        BY <2>c, NoneSelectable DEF TypeOK
      <4>. QED
        BY <2>a, <2>b, <2>c, <2>d, <4>1 DEF Remembers
    <3>. QED
      BY <2>a, <2>b, <2>d, <2>e, <3>1, OthersRemember
  <2>. QED
    BY <2>1, <2>2, <2>3, <2>4
<1>4. CASE AddNew(p) \/ GetPageFails(p) \/ Add(p)
  <2>. DEFINE new == [pgno |-> op[p].pgno, free |-> PXFreeSpace(op[p].pgno)]
  <2>a. /\ Held(p) /\ op[p].pgno \in Page
        /\ pc' = [pc EXCEPT ![p] = pc'[p]] /\ pc'[p] \in {"idle", "select"}
        /\ Page' = Page /\ noPages' = noPages /\ fso' = fso /\ leaked' = leaked
    BY <1>4 DEF AddNew, GetPageFails, Add, At, Held, Page, TypeOK
  <2>b. pidx' = pidx \cup {new}
    <3>1. CASE AddNew(p)
      <4>1. pc[p] = "new" /\ PXMaxFreeSpace = PXFreeSpace(op[p].pgno)
        BY <3>1 DEF AddNew, At, Remembers, PXFreeSpace, PXMaxFreeSpace
      <4>. QED
        BY <3>1, <4>1 DEF AddNew
    <3>2. CASE GetPageFails(p)
      BY <3>2 DEF GetPageFails, At, Remembers
    <3>3. CASE Add(p)
      BY <3>3 DEF Add
    <3>. QED
      BY <1>4, <3>1, <3>2, <3>3
  <2>c. \/ op' = [op EXCEPT ![p] = Idle] /\ taken' = [taken EXCEPT ![p] = 0] /\ pc'[p] = "idle"
        \/ /\ op' = [op EXCEPT ![p].try = @ + 1, ![p].pgno = 0] /\ taken' = taken
           /\ AddNew(p) /\ op[p].try + 1 # Tries
    BY <1>4 DEF AddNew, GetPageFails, Add, At, Leave, LastTry, TypeOK
  <2>d. Others(p) /\ ~Held(p)' /\ \A q \in Proc \ {p} : taken'[q] = taken[q]
    BY <2>a, <2>c DEF Others, Held, TypeOK
  <2>e. PXFreeSpace(op[p].pgno) \in Int /\ fso[op[p].pgno] \in Nat
    BY <2>a, Layout DEF PXFreeSpace, TypeOK
  <2>1. TypeOK'
    <3>1. op' \in [Proc -> [size : Nat, try : Nat, pgno : Nat, free : Int]]
      BY <2>c DEF TypeOK, Idle
    <3>2. op'[p].try < Tries
      <4>1. op[p].try \in Nat /\ op[p].try < Tries
        BY DEF TypeOK
      <4>2. op'[p].try = 0 \/ (op'[p].try = op[p].try + 1 /\ op[p].try + 1 # Tries)
        BY <2>c DEF TypeOK, Idle
      <4>. QED
        BY <1>0, <4>1, <4>2
    <3>3. \A q \in Proc : op'[q].try < Tries /\ (Held(q)' => op'[q].pgno \in Page)
      BY <2>d, <3>2 DEF TypeOK, Others, Held
    <3>4. new \in [pgno : Page, free : Int]
      BY <2>a, <2>e
    <3>5. pidx' \subseteq [pgno : Page, free : Int]
      BY <2>b, <3>4 DEF TypeOK
    <3>6. taken' \in [Proc -> Nat]
      BY <2>c DEF TypeOK
    <3>. QED
      BY <2>a, <3>1, <3>3, <3>5, <3>6 DEF TypeOK
  <2>2. OnePlace'
    BY <2>a, <2>b, <2>d, PutPage
  <2>3. RoomForItem'
    <3>1. \A pr \in pidx' : pr.free = PXFreeSpace(pr.pgno)
      BY <2>b DEF RoomForItem
    <3>2. pc'[p] \notin {"get", "log", "write"}
      BY <2>a
    <3>. QED
      BY <2>a, <2>d, <3>1, <3>2 DEF RoomForItem, PXFreeSpace, Others
  <2>4. \A q \in Proc : Remembers(q)'
    <3>1. Remembers(p)'
      <4>1. CASE pc'[p] = "idle"
        BY <4>1 DEF Remembers
      <4>2. CASE pc'[p] # "idle"
        <5>1. /\ AddNew(p) /\ pc[p] = "new" /\ taken'[p] = taken[p]
              /\ op'[p].size = op[p].size /\ op'[p].try = op[p].try + 1
          BY <2>c, <4>2 DEF AddNew, At, TypeOK
        <5>2. op[p].size \in Size /\ op[p].size \in Nat /\ op[p].size <= PXMaxFreeSpace /\ taken[p] >= op[p].try
          BY <1>0, <5>1 DEF Remembers
        <5>3. new \in pidx' /\ new.free = PXMaxFreeSpace
          BY <2>b, <5>1 DEF Remembers, PXFreeSpace, PXMaxFreeSpace
        <5>4. Enough(new, op'[p].size)
          BY <5>1, <5>2, <5>3, EmptyPageIsEnough DEF Enough
        <5>5. taken[p] \in Nat /\ op[p].try \in Nat
          BY DEF TypeOK
        <5>. HIDE DEF new
        <5>. QED
          BY <2>a, <4>2, <5>1, <5>2, <5>3, <5>4, <5>5 DEF Remembers, Enough
      <4>. QED
        BY <4>1, <4>2
    <3>2. \A q \in Proc \ {p} : Remembers(q)'
      BY <2>a, <2>b, <2>d, OthersRemember
    <3>. QED
      BY <3>1, <3>2
  <2>. QED
    BY <2>1, <2>2, <2>3, <2>4
<1>5. CASE GetPage(p) \/ Log(p) \/ LogFails(p) \/ PXInsert(p)
  <2>a. /\ pc[p] \in {"get", "log", "write"} /\ pc' = [pc EXCEPT ![p] = pc'[p]] /\ pc'[p] \in {"log", "write", "add"}
        /\ Page' = Page /\ noPages' = noPages /\ pidx' = pidx /\ op' = op /\ taken' = taken
        /\ leaked' \subseteq leaked \cup {op[p].pgno}
    BY <1>5 DEF GetPage, Log, LogFails, PXInsert, At, Page, TypeOK
  <2>b. Held(p) /\ Held(p)' /\ Others(p) /\ op[p].pgno \in Page
    BY <2>a DEF Held, Others, TypeOK
  <2>c. /\ fso' \in [Page -> Nat]
        /\ \A pg \in Page : pg # op[p].pgno => fso'[pg] = fso[pg]
        /\ \/ fso' = fso /\ pc[p] # "write"
           \/ pc'[p] = "add" /\ pc[p] = "write" /\ fso'[op[p].pgno] = fso[op[p].pgno] + op[p].size
    BY <1>5, <2>b DEF GetPage, Log, LogFails, PXInsert, At, TypeOK
  <2>d. \A q \in Proc \ {p} : Held(q) => op[q].pgno # op[p].pgno /\ op[q].pgno \in Page
    BY <2>b DEF OnePlace, TypeOK
  <2>1. TypeOK'
    BY <2>a, <2>b, <2>c, <2>d DEF TypeOK, Held, Others
  <2>2. OnePlace'
    BY <2>a, <2>b, KeepPages
  <2>3. RoomForItem'
    <3>1. \A pr \in pidx : pr.pgno # op[p].pgno /\ pr.pgno \in Page
      BY <2>b DEF OnePlace, TypeOK
    <3>2. \A pr \in pidx' : pr.free = PXFreeSpace(pr.pgno)'
      BY <2>a, <2>c, <3>1 DEF RoomForItem, PXFreeSpace
    <3>3. ASSUME \A s \in Size : Fitting(s)
          PROVE  /\ \A pg \in Page : fso'[pg] <= PAGE_SIZE
                 /\ \A q \in Proc : pc'[q] \in {"get", "log", "write"} => fso'[op[q].pgno] + op[q].size <= PAGE_SIZE
      <4>1. fso'[op[p].pgno] <= PAGE_SIZE
        BY <2>a, <2>b, <2>c, <3>3 DEF RoomForItem
      <4>2. \A pg \in Page : fso'[pg] <= PAGE_SIZE
        BY <2>c, <3>3, <4>1 DEF RoomForItem
      <4>3. pc'[p] # "add" => fso'[op[p].pgno] + op[p].size <= PAGE_SIZE
        BY <2>a, <2>c, <3>3 DEF RoomForItem
      <4>4. \A q \in Proc \ {p} : pc'[q] \in {"get", "log", "write"} => fso'[op[q].pgno] + op[q].size <= PAGE_SIZE
        BY <2>b, <2>c, <2>d, <3>3 DEF RoomForItem, Others, Held
      <4>. QED
        BY <4>2, <4>3, <4>4
    <3>. QED
      BY <2>a, <3>2, <3>3 DEF RoomForItem
  <2>4. \A q \in Proc : Remembers(q)'
    <3>1. Remembers(p)'
      BY <2>a DEF Remembers
    <3>2. \A q \in Proc \ {p} : Remembers(q)'
      BY <2>a, <2>b, <2>c, <2>d, OthersRemember
    <3>. QED
      BY <3>1, <3>2
  <2>. QED
    BY <2>1, <2>2, <2>3, <2>4
<1>. QED
  BY <1>1, <1>2, <1>3, <1>4, <1>5 DEF Step

\* Opening after a clean end and recovery after a crash lead to a state as IInv describes.
LEMMA ReopenIInv == IInv /\ (Reopen \/ Crash) => IInv'
<1>1. ASSUME IInv, Reopen PROVE IInv'
  <2>1. noPages \in Nat \ {0} /\ fso \in [2 .. noPages -> Nat]
    BY <1>1 DEF IInv, TypeOK, Page
  <2>2. (\A size \in Size : Fitting(size)) => \A pg \in 2 .. noPages : fso[pg] <= PAGE_SIZE
    BY <1>1 DEF IInv, RoomForItem, Page
  <2>. QED
    BY <1>1, <2>1, <2>2, StartIInv DEF Reopen
<1>2. ASSUME IInv, Crash PROVE IInv'
  <2>1. \A pg \in Page : /\ LogFSO(pg) \in Nat
                         /\ (\A size \in Size : Fitting(size)) => LogFSO(pg) <= PAGE_SIZE
    <3>. TAKE pg \in Page
    <3>1. CASE Writing(pg) = {}
      BY <1>2, <3>1 DEF LogFSO, IInv, TypeOK, RoomForItem
    <3>2. CASE Writing(pg) # {}
      <4>. DEFINE w == CHOOSE p \in Writing(pg) : TRUE
      <4>1. w \in Writing(pg)
        BY <3>2
      <4>2. LogFSO(pg) = fso[pg] + op[w].size
        BY <3>2 DEF LogFSO
      <4>. HIDE DEF w
      <4>3. w \in Proc /\ pc[w] = "write" /\ op[w].pgno = pg
        BY <4>1 DEF Writing
      <4>. QED
        BY <1>2, <4>2, <4>3 DEF IInv, TypeOK, RoomForItem
    <3>. QED
      BY <3>1, <3>2
  <2>2. PICK n \in {1} \cup Logged : Start(n, [pg \in 2 .. n |-> LogFSO(pg)])
    BY <1>2 DEF Crash
  <2>3. n \in Nat \ {0} /\ 2 .. n \subseteq Page
    BY <1>2, <2>2 DEF Logged, Page, IInv, TypeOK
  <2>4. [pg \in 2 .. n |-> LogFSO(pg)] \in [2 .. n -> Nat]
    BY <2>1, <2>3
  <2>. QED
    BY <2>1, <2>2, <2>3, <2>4, StartIInv
<1>. QED
  BY <1>1, <1>2

LEMMA NextIInv == IInv /\ [Next]_vars => IInv'
<1>. SUFFICES ASSUME IInv, [Next]_vars PROVE IInv'
  OBVIOUS
<1>1. CASE UNCHANGED vars
  BY <1>1 DEF vars, IInv, TypeOK, OnePlace, RoomForItem, Remembers, Page, Held, PXFreeSpace, Enough
<1>. QED
  BY <1>1, StepIInv, ReopenIInv DEF Next

\* IInv implies the bound on the selections of others.
LEMMA IInvBusy == IInv => BusyOnlyByOthers
  BY PageIndexAssumption DEF IInv, TypeOK, Remembers, BusyOnlyByOthers

THEOREM Invariance == Spec => []IInv
  BY InitIInv, NextIInv, PTL DEF Spec

\* Every page is in one place, one pair of the index or one inserter, for any number of
\* inserters: no two write one page and none is lost to inserts (data_manager.go:198).
THEOREM PagesInOnePlace == Spec => []OnePlace
<1>1. IInv => OnePlace
  BY DEF IInv
<1>. QED
  BY <1>1, Invariance, PTL

\* The index has the page's space on record, and a selected page has room for the item,
\* for every page layout and all sizes with a class above them (pindex.go:52).
THEOREM SelectedPageHasRoom == Spec => []RoomForItem
<1>1. IInv => RoomForItem
  BY DEF IInv
<1>. QED
  BY <1>1, Invariance, PTL

\* ErrBusy takes Tries - 1 selections by others during the call (data_manager.go:194).
THEOREM BusyMeansContended == Spec => []BusyOnlyByOthers
  BY IInvBusy, Invariance, PTL
====

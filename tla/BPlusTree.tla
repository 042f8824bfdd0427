------------------------------ MODULE BPlusTree ------------------------------
(* backend/im: the B+ tree of an index, read and written concurrently.       *)
(* Nodes are data items; what a method does to one node under the item's     *)
(* lock is one step.  Nodes and the boot item are written under SUPER_XID,   *)
(* so recovery restores each as it was last logged: a crash ends the calls   *)
(* and leaves the nodes.  A split inserts the new node before the old one is *)
(* logged; a crash in between leaves a node nothing points to, which the     *)
(* model drops.  DM.Insert and DM.Read may fail (ErrBusy, a full cache).     *)
EXTENDS Naturals, Sequences, SequencesExt, FiniteSets

CONSTANTS Proc,    \* goroutines that use the tree
          MaxKey,  \* keys are 0..MaxKey; the code supports keys below INF
          Row,     \* uuids of rows, each inserted at most once
          Balance  \* _BALANCE_NUMBER

ASSUME BPlusTreeAssumption == MaxKey \in Nat /\ Balance \in Nat \ {0} /\ Row \subseteq Nat

NilUUID == 0
INF == MaxKey + 1
Key == 0..MaxKey

VARIABLES node,  \* uuid -> node; uuids are 1, 2, ... in the order of DM.Insert
          root,  \* what the boot item holds
          op,    \* process -> its call
          used   \* rows handed to Insert

btVars == <<node, root, op, used>>

Son == [key : 0..INF, son : Nat]
Node == [leaf : BOOLEAN, sib : Nat, sons : Seq(Son)]

(* pc "down": walking to a leaf and along the leaves; "up": entering the new *)
(* leaf in its parent; "root": about to replace the root.  root is the root  *)
(* the call started from, from the node where the level began (nodeUUID of   *)
(* searchLeaf and insert), parent the one of the level above.                *)
Idle == [pc |-> "idle"]
Over(pc) == [pc |-> pc, call |-> "insert"]   \* a search that fails returns no rows
Insertion(k, r) ==
  [pc |-> "down", call |-> "insert", root |-> root, at |-> root, from |-> root,
   parent |-> NilUUID, key |-> k, row |-> r, son |-> [key |-> k, son |-> r]]
Search(left, right, content) ==
  [pc |-> "down", call |-> "search", at |-> root, from |-> root, parent |-> NilUUID,
   key |-> left, right |-> right, out |-> <<>>, base |-> content]

TypeOK ==
  /\ node \in Seq(Node)
  /\ root \in DOMAIN node
  /\ \A p \in Proc :
       /\ op[p].pc \in {"idle", "down", "up", "root", "done", "failed"}
       /\ op[p].pc \in {"down", "up"} => op[p].at \in DOMAIN node
  /\ used \subseteq Row

(* Create, with newNilRootRaw. *)
Init ==
  /\ node = <<[leaf |-> TRUE, sib |-> NilUUID, sons |-> <<>>]>>
  /\ root = 1
  /\ op = [p \in Proc |-> Idle]
  /\ used = {}
------------------------------------------------------------------------------
(* The methods of a node. *)
noKeys(n) == Len(n.sons)

(* The index of the first son the test holds of, or past the last one. *)
Kth(n, Test(_)) ==
  LET i == SelectInSeq(n.sons, Test) IN IF i = 0 THEN noKeys(n) + 1 ELSE i

SearchNext(n, key) ==
  LET i == Kth(n, LAMBDA s : key < s.key) IN
  IF i > noKeys(n) THEN NilUUID ELSE n.sons[i].son

(* Mutant: the walk goes on only from a leaf cut by the range. *)
LeafSearchRangeStops(n, left, right) ==
  LET lo == Kth(n, LAMBDA s : s.key >= left)
      hi == Kth(n, LAMBDA s : s.key >= left /\ s.key > right)
  IN [rows |-> [i \in 1..(hi - lo) |-> n.sons[lo + i - 1].son],
      sibling |-> IF hi = noKeys(n) THEN n.sib ELSE NilUUID]

(* Rows in the range, and the sibling when the range may go on there. *)
LeafSearchRange(n, left, right) ==
  LET lo == Kth(n, LAMBDA s : s.key >= left)
      hi == Kth(n, LAMBDA s : s.key >= left /\ s.key > right)
  IN [rows |-> [i \in 1..(hi - lo) |-> n.sons[lo + i - 1].son],
      sibling |-> IF hi > noKeys(n) THEN n.sib ELSE NilUUID]

(* Mutant: the key goes behind the last one of a node that has a sibling. *)
BelongsRightNever(n, key) == FALSE

(* node.insert refuses a key past its last one when there is a sibling. *)
BelongsRight(n, key) ==
  Kth(n, LAMBDA s : s.key >= key) > noKeys(n) /\ n.sib # NilUUID

(* In an inner node the new son takes over the old key of son kth. *)
insert(n, s) ==
  LET kth == Kth(n, LAMBDA t : t.key >= s.key) IN
  IF n.leaf
    THEN [n EXCEPT !.sons = InsertAt(@, kth, s)]
    ELSE [n EXCEPT !.sons =
            InsertAt([@ EXCEPT ![kth].key = s.key], kth + 1, [@[kth] EXCEPT !.son = s.son])]

needSplit(n) == noKeys(n) = 2 * Balance

split(n, new) ==
  [left |-> [n EXCEPT !.sons = SubSeq(@, 1, Balance), !.sib = new],
   right |-> [n EXCEPT !.sons = SubSeq(@, Balance + 1, 2 * Balance)]]

newRootRaw(left, right, key) ==
  [leaf |-> FALSE, sib |-> NilUUID,
   sons |-> <<[key |-> key, son |-> left], [key |-> INF, son |-> right]>>]
------------------------------------------------------------------------------
(* The pairs in the tree. *)
Content ==
  {[key |-> s.key, row |-> s.son] :
     s \in UNION {ToSet(node[n].sons) : n \in {m \in DOMAIN node : node[m].leaf}}}

At(p) == node[op[p].at]
AtLeaf(p) == op[p].pc = "down" /\ At(p).leaf
Set(p, r) == op' = [op EXCEPT ![p] = r]

(* Insert and SearchRange read the root under bootLock. *)
StartInsert(p, k, r) ==
  /\ op[p] = Idle
  /\ r \notin used
  /\ Set(p, Insertion(k, r))
  /\ used' = used \cup {r}
  /\ UNCHANGED <<node, root>>

StartSearch(p, left, right) ==
  /\ op[p] = Idle
  /\ Set(p, Search(left, right, Content))
  /\ UNCHANGED <<node, root, used>>

(* searchNext: down to the son, or right along the inner nodes. *)
Descend(p) ==
  /\ op[p].pc = "down" /\ ~At(p).leaf
  /\ LET next == SearchNext(At(p), op[p].key) IN
     IF next = NilUUID
       THEN Set(p, [op[p] EXCEPT !.at = At(p).sib])
       ELSE Set(p, [op[p] EXCEPT !.parent = op[p].from, !.from = next, !.at = next])
  /\ UNCHANGED <<node, root, used>>

(* SearchRange at a leaf. *)
Scan(p) ==
  /\ AtLeaf(p) /\ op[p].call = "search"
  /\ LET found == LeafSearchRange(At(p), op[p].key, op[p].right) IN
     Set(p, IF found.sibling = NilUUID
              THEN [op[p] EXCEPT !.out = @ \o found.rows, !.pc = "done"]
              ELSE [op[p] EXCEPT !.out = @ \o found.rows, !.at = found.sibling])
  /\ UNCHANGED <<node, root, used>>

Inserts(p) == op[p].pc = "up" \/ (AtLeaf(p) /\ op[p].call = "insert")

(* insertAndSplit: right along the siblings, *)
MoveRight(p) ==
  /\ Inserts(p)
  /\ BelongsRight(At(p), op[p].son.key)
  /\ Set(p, [op[p] EXCEPT !.at = At(p).sib])
  /\ UNCHANGED <<node, root, used>>

(* the son is entered without a split, *)
Enter(p) ==
  LET n == insert(At(p), op[p].son) IN
  /\ Inserts(p)
  /\ ~BelongsRight(At(p), op[p].son.key)
  /\ ~needSplit(n)
  /\ node' = [node EXCEPT ![op[p].at] = n]
  /\ Set(p, Over("done"))
  /\ UNCHANGED <<root, used>>

(* or with one.  The new leaf goes into the parent, or makes a root when the *)
(* walk started at the leaf; insert drops what a split of the parent made.   *)
EnterSplit(p) ==
  LET new == Len(node) + 1
      halves == split(insert(At(p), op[p].son), new)
      up == [op[p] EXCEPT !.son = [key |-> halves.right.sons[1].key, son |-> new]] IN
  /\ Inserts(p)
  /\ ~BelongsRight(At(p), op[p].son.key)
  /\ needSplit(insert(At(p), op[p].son))
  /\ node' = Append([node EXCEPT ![op[p].at] = halves.left], halves.right)
  /\ Set(p, CASE op[p].pc = "up" -> Over("done")
              [] op[p].pc = "down" /\ op[p].parent = NilUUID -> [up EXCEPT !.pc = "root"]
              [] OTHER -> [up EXCEPT !.pc = "up", !.at = op[p].parent])
  /\ UNCHANGED <<root, used>>

(* loadNode failed, for want of room in DM's cache. *)
LoadFails(p) ==
  /\ op[p].pc \in {"down", "up"}
  /\ Set(p, Over("failed"))
  /\ UNCHANGED <<node, root, used>>

(* split's DM.Insert failed: UnBefore takes the son out again. *)
SplitFails(p) ==
  /\ Inserts(p)
  /\ ~BelongsRight(At(p), op[p].son.key)
  /\ needSplit(insert(At(p), op[p].son))
  /\ Set(p, Over("failed"))
  /\ UNCHANGED <<node, root, used>>

(* Mutant: a root that has changed is not accepted. *)
UpdateRootWaits(p) ==
  /\ op[p].pc = "root" /\ root = op[p].root
  /\ node' = Append(node, newRootRaw(root, op[p].son.son, op[p].son.key))
  /\ root' = Len(node')
  /\ Set(p, Over("done"))
  /\ UNCHANGED used

(* Insert after the split of the root, under bootLock. *)
UpdateRoot(p) ==
  /\ op[p].pc = "root"
  /\ \/ /\ root # op[p].root
        /\ Set(p, Over("done"))
        /\ UNCHANGED <<node, root>>
     \/ /\ root = op[p].root
        /\ node' = Append(node, newRootRaw(root, op[p].son.son, op[p].son.key))
        /\ root' = Len(node')
        /\ Set(p, Over("done"))
     \/ /\ root = op[p].root
        /\ Set(p, Over("failed"))
        /\ UNCHANGED <<node, root>>
  /\ UNCHANGED used

Return(p) ==
  /\ op[p].pc \in {"done", "failed"}
  /\ Set(p, Idle)
  /\ UNCHANGED <<node, root, used>>

Crash ==
  /\ op' = [p \in Proc |-> Idle]
  /\ UNCHANGED <<node, root, used>>

Step(p) ==
  \/ Descend(p) \/ Scan(p) \/ MoveRight(p) \/ Enter(p) \/ EnterSplit(p)
  \/ LoadFails(p) \/ SplitFails(p) \/ UpdateRoot(p) \/ Return(p)

Next ==
  \/ \E p \in Proc : \/ Step(p)
                     \/ \E k \in Key, r \in Row : StartInsert(p, k, r)
                     \/ \E left \in Key, right \in 0..INF : StartSearch(p, left, right)
  \/ Crash

Spec == Init /\ [][Next]_btVars

(* A goroutine inside a call is scheduled, and the items' locks are free in  *)
(* the end: they are held within one step only.                              *)
FairSpec == Spec /\ \A p \in Proc : WF_btVars(Step(p))
------------------------------------------------------------------------------
(* The leaves to the right of the first leaf, which is node 1 for ever. *)
Leaves == {n \in DOMAIN node : node[n].leaf}
Siblings(n) == {m \in DOMAIN node : node[m].sib = n}
KeysOf(n) == {node[n].sons[i].key : i \in 1..noKeys(node[n])}

(* The sibling links make one ordered list of all leaves that begins with    *)
(* node 1: every other leaf has one left neighbour, with smaller or equal    *)
(* keys and a key of its own, and none is as large as one about to split.    *)
LeavesInOrder ==
  /\ Siblings(1) = {}
  /\ \A n \in Leaves :
       /\ n # 1 => /\ Cardinality(Siblings(n) \cap Leaves) = 1
                  /\ \A m \in Siblings(n) : \A a \in KeysOf(m), b \in KeysOf(n) : a <= b
       /\ n # 1 \/ root # 1 => noKeys(node[n]) >= Balance
       /\ ~needSplit(node[n])
       /\ \A i \in 2..noKeys(node[n]) : node[n].sons[i - 1].key <= node[n].sons[i].key

(* The leaves to the left of leaf n hold keys up to sep at most: a walk that *)
(* looks for more than sep loses nothing by starting at n.  (n may hold keys *)
(* below sep: one that came over the sibling link after the split.)          *)
StartsAt(n, sep) == \A m \in Siblings(n) : \A a \in KeysOf(m) : a <= sep

(* The separators: in an inner node, the son behind a key starts at that     *)
(* key; the first son of a right half starts at the last key of the left     *)
(* half; an inner node is complete or has a sibling.  So a reader that       *)
(* follows any inner node, entered in the parent or not yet, never lands to  *)
(* the right of a key it looks for, and never runs past the last node.       *)
NeverOvershoots ==
  \A n \in DOMAIN node \ Leaves :
    LET sons == node[n].sons IN
    /\ \A i \in 2..Len(sons) : StartsAt(sons[i].son, sons[i - 1].key)
    /\ \A m \in Siblings(n) : StartsAt(sons[1].son, Last(node[m].sons).key)
    /\ node[n].sib = NilUUID => Last(sons).key = INF

(* The nodes are such a list and such separators between any two steps       *)
(* (insertAndSplit, node.go:188), whatever splits run at once or are cut     *)
(* short by a failed call of DM or a crash.                                  *)
WellFormed == LeavesInOrder /\ NeverOvershoots

(* The call of p as module Index sees it. *)
Call(p) ==
  CASE op[p].pc = "idle" -> [kind |-> "idle"]
    [] op[p].pc = "failed" -> [kind |-> "returned", ok |-> FALSE]
    [] op[p].pc # "idle" /\ op[p].call = "insert" ->
         IF op[p].pc = "done" THEN [kind |-> "returned", ok |-> TRUE]
         ELSE [kind |-> "insert", key |-> op[p].key, row |-> op[p].row]
    [] OTHER ->
         IF op[p].pc = "done" THEN [kind |-> "found", rows |-> op[p].out]
         ELSE [kind |-> "search", left |-> op[p].key, right |-> op[p].right, base |-> op[p].base]

I == INSTANCE Index WITH content <- Content, call <- [p \in Proc |-> Call(p)]

(* The tree implements Index: no concurrent split, failed insertion or crash *)
(* makes a search miss a pair that was there when it began (but see          *)
(* DuplicatesFound), shows one twice or one that is not there, or loses one; *)
(* an Insert that returns no error has inserted its pair.                    *)
ImplementsIndex == I!Spec

(* Every call returns: the walk to the right along siblings ends although    *)
(* other calls add siblings, and no call waits for another one's.            *)
CallsReturn == \A p \in Proc : op[p].pc # "idle" ~> op[p].pc = "idle"

(* node.go:153, LeafSearchRange "looks up the addresses that belong to       *)
(* [leftKey, rightKey]": a search for a key finds all rows that were there   *)
(* with it.                                                                  *)
DuplicatesFound ==
  \A p \in Proc : op[p].pc = "done" /\ op[p].call = "search" =>
    \A e \in op[p].base :
      op[p].key <= e.key /\ e.key <= op[p].right => e.row \in ToSet(op[p].out)

(* tree.go:206, insert "returns the node a split produced as well": with no  *)
(* call under way the root has no sibling beside it.                         *)
RootIsComplete ==
  (\A p \in Proc : op[p].pc = "idle") => node[root].sib = NilUUID
==============================================================================

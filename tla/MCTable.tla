------------------------------- MODULE MCTable -------------------------------
(* Table for TLC: transaction 1 created two rows; two or three others run one *)
(* statement each.                                                            *)
EXTENDS Table

TwoRows == {1, 2}
MCUID == 1..9
BothLevels == {0, 1}

Stmt(k, l, rs) == [kind |-> k, level |-> l, ranges |-> rs]
None == Stmt("none", 0, <<>>)
Update(l) == Stmt("update", l, <<{1}>>)
Delete(l) == Stmt("delete", l, <<{1}>>)

(* Two writers of one row beside a reader, begun in any order. *)
Reading ==
  LET reader == Stmt("read", 1, <<{1}>>)
  IN  UNION {{<<None, reader, a, b>>, <<None, a, reader, b>>, <<None, a, b, reader>>} :
               a \in {Update(0), Update(1)}, b \in {Update(0), Delete(1)}}

(* Three writers of one row: the second to wait is stranded. *)
Queueing == {<<None, a, Delete(0), Update(0)>> : a \in {Update(0), Update(1)}}

(* Two that lock two rows in opposite orders, and a third that queues. *)
Crossing ==
  {<<None, Stmt("delete", l, <<{1}, {2}>>), Stmt("delete", l, <<{2}, {1}>>),
     Stmt("delete", 0, <<{2}>>)>> : l \in {0, 1}}

(* Any two statements on both rows, by one range, two ranges, or two that     *)
(* overlap.                                                                   *)
Pairs ==
  LET any == {Stmt("read", 1, rs) : rs \in {<<{1, 2}>>, <<{2}, {1, 2}>>}}
               \cup {Stmt(k, l, rs) : k \in {"update", "delete"}, l \in {0, 1},
                                      rs \in {<<{1, 2}>>, <<{2}, {1}>>}}
  IN  {<<None, a, b, None>> : a, b \in any}

MCPlans == Reading \cup Queueing \cup Crossing \cup Pairs
=============================================================================

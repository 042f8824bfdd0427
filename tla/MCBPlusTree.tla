----------------------------- MODULE MCBPlusTree -----------------------------
(* BPlusTree for TLC.  One process first inserts the keys of one of Loads    *)
(* with rows of its own; then all of Proc take that load's fresh keys in     *)
(* turn and insert them, and search Ranges.                                  *)
EXTENDS BPlusTree, TLC

CONSTANTS Loads, Loader, Ranges

VARIABLE load  \* keys: still to load; fresh: to insert then

mcVars == <<btVars, load>>

MCInit == Init /\ load \in Loads

NextRow == Cardinality(used) + 1
Loaded == load.keys = <<>>

Loading ==
  \/ /\ op[Loader] = Idle
     /\ StartInsert(Loader, Head(load.keys), NextRow)
     /\ load' = [load EXCEPT !.keys = Tail(@)]
  \/ /\ op[Loader] # Idle
     /\ Descend(Loader) \/ MoveRight(Loader) \/ Enter(Loader) \/ EnterSplit(Loader)
        \/ (UpdateRoot(Loader) /\ op'[Loader].pc = "done") \/ Return(Loader)
     /\ UNCHANGED load

Running(p) == Loaded /\ Step(p) /\ UNCHANGED load

MCNext ==
  \/ ~Loaded /\ Loading
  \/ \E p \in Proc : Running(p)
  \/ /\ Loaded /\ load.fresh # <<>>
     /\ \E p \in Proc : StartInsert(p, Head(load.fresh), NextRow)
     /\ load' = [load EXCEPT !.fresh = Tail(@)]
  \/ /\ Loaded /\ UNCHANGED load
     /\ Crash \/ \E p \in Proc, range \in Ranges : StartSearch(p, range[1], range[2])

MCSpec ==
  /\ MCInit /\ [][MCNext]_mcVars
  /\ WF_mcVars(~Loaded /\ Loading) /\ \A p \in Proc : WF_mcVars(Running(p))

MCLoads ==
  [keys : {<<1, 2, 3>>}, fresh : {<<3, 2, 7>>}] \cup
  [keys : {<<1, 2, 3, 4, 5, 6, 7>>}, fresh : {<<3, 7>>, <<7, 3>>, <<7, 7>>}]
MCRanges == {<<3, 6>>, <<0, INF>>}
MCRow == 1..9
==============================================================================

-------------------------------- MODULE Index --------------------------------
(* What an index promises to the table manager: a set of (key, row) pairs    *)
(* that only grows, with concurrent insertions and range searches.  A search *)
(* is not atomic: it returns every pair that was there when it began and may *)
(* return pairs inserted meanwhile, each once.  A pair with the key the range begins    *)
(* with is promised only if no other pair has that key.  A call may fail.    *)
EXTENDS Naturals, FiniteSets, Functions

CONSTANT Proc

VARIABLES content,  \* the pairs: [key, row]
          call      \* process -> the call it is in

indexVars == <<content, call>>

Idle == [kind |-> "idle"]
Returned(ok) == [kind |-> "returned", ok |-> ok]

Init == content = {} /\ call = [p \in Proc |-> Idle]

Becomes(p, c) == call' = [call EXCEPT ![p] = c]

Start(p) ==
  /\ call[p] = Idle
  /\ \/ call'[p].kind = "insert"
     \/ call'[p].kind = "search" /\ call'[p].base = content
  /\ Becomes(p, call'[p])
  /\ UNCHANGED content

(* The pair appears at one moment of the call; the call that returns without *)
(* an error has put it there.                                                *)
Insert(p) ==
  /\ call[p].kind = "insert"
  /\ LET pair == [key |-> call[p].key, row |-> call[p].row] IN
     \/ /\ content' = content \cup {pair}
        /\ Becomes(p, Returned(TRUE)) \/ UNCHANGED call
     \/ pair \in content /\ Becomes(p, Returned(TRUE)) /\ UNCHANGED content
     \/ Becomes(p, Returned(FALSE)) /\ UNCHANGED content

Promised(c) ==
  LET Alone(e) == Cardinality({f \in content : f.key = e.key}) = 1 IN
  {e \in c.base : c.left <= e.key /\ e.key <= c.right /\ (e.key = c.left => Alone(e))}

Possible(c) == {e \in content : c.left <= e.key /\ e.key <= c.right}

Rows(pairs) == {e.row : e \in pairs}

Search(p) ==
  /\ call[p].kind = "search"
  /\ \/ call'[p] = Returned(FALSE)
     \/ /\ call'[p].kind = "found"
        /\ IsInjective(call'[p].rows)
        /\ Rows(Promised(call[p])) \subseteq Range(call'[p].rows)
        /\ Range(call'[p].rows) \subseteq Rows(Possible(call[p]))
  /\ Becomes(p, call'[p])
  /\ UNCHANGED content

Return(p) ==
  /\ call[p].kind \in {"returned", "found"}
  /\ Becomes(p, Idle)
  /\ UNCHANGED content

(* A crash ends every call and loses no pair. *)
Crash == call' = [p \in Proc |-> Idle] /\ UNCHANGED content

Next == Crash \/ \E p \in Proc : Start(p) \/ Insert(p) \/ Search(p) \/ Return(p)

Spec == Init /\ [][Next]_indexVars
==============================================================================

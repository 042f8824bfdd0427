------------------------------ MODULE MCParser ------------------------------
(* Parser for TLC: the texts of Statements, and every text one edit away:    *)
(* cut short, one token taken out, exchanged or put in.                      *)
EXTENDS Parser

Exp(f, op, v) == [field |-> f, op |-> op, value |-> v]
Wheres ==
  {[exps |-> <<>>, logic |-> ""], [exps |-> <<Exp("a", "<", "5")>>, logic |-> ""],
   [exps |-> <<Exp("a", "=", "x"), Exp("b", "!=", "5")>>, logic |-> "and"],
   [exps |-> <<Exp("b", ">=", "12"), Exp("a", ">", "5")>>, logic |-> "or"]}
With(s, w) == [s EXCEPT !.exps = w.exps, !.logic = w.logic]

Table(kind) == [Blank(kind) EXCEPT !.table = "t"]

Reads ==
  {[[Table("read") EXCEPT !.limit = l[1], !.offset = l[2]] EXCEPT !.order = o[1], !.desc = o[2]] :
     l \in {<<0, 0>>, <<5, 0>>, <<5, 12>>}, o \in {<<"", FALSE>>, <<"a", FALSE>>, <<"b", TRUE>>}}

Statements ==
  {Blank(k) : k \in {"begin", "commit", "abort", "show"}}
  \cup {[Blank("begin") EXCEPT !.rr = TRUE], Table("drop")}
  \cup {[Table("create") EXCEPT !.columns = c, !.index = x] :
          c \in {<<<<"a", "uint32">>>>, <<<<"a", "string">>, <<"b", "uint64">>>>},
          x \in {<<>>, <<"a">>, <<"b", "a">>}}
  \cup {[Table("insert") EXCEPT !.values = v] : v \in {<<"5">>, <<"x", "12">>}}
  \cup {[Table("insert") EXCEPT !.rows = r] : r \in {<<<<"5", "x">>>>, <<<<"5">>, <<"12">>>>}}
  \cup {With(Table("delete"), w) : w \in {v \in Wheres : v.exps # <<>>}}
  \cup {With([Table("update") EXCEPT !.set = "a", !.value = "5"], w) : w \in Wheres}
  \cup {[s EXCEPT !.fields = <<"*">>] : s \in Reads}
  \cup {With([s EXCEPT !.fields = <<"a">>], w) :
          s \in {r \in Reads : r.order # ""}, w \in {v \in Wheres : Len(v.exps) = 1}}
  \cup {With([r EXCEPT !.aggs = <<<<"count", "*">>, <<"sum", "a">>>>], w) :
          r \in {Table("read"), [Table("read") EXCEPT !.limit = 5], [Table("read") EXCEPT !.order = "a"]},
          w \in {v \in Wheres : Len(v.exps) = 1}}
  \cup {With([Table("read") EXCEPT !.fields = <<"a", "b">>], w) : w \in Wheres}

Grammar == {Text(s) : s \in Statements}

Edit == {"", Bad, ",", "(", "}", "t", "5", "0", "40", "64", "limit", "where", "select"}

Edited(t) ==
  {SubSeq(t, 1, i) : i \in 0..Len(t)}
  \cup {RemoveAt(t, i) : i \in 1..Len(t)}
  \cup {ReplaceAt(t, i, e) : i \in 1..Len(t), e \in Edit}
  \cup {InsertAt(t, i, e) : i \in 1..(Len(t) + 1), e \in Edit}

MCInputs == UNION {Edited(t) : t \in Grammar} \cup
            {<<"begin", "isolation", "level", "read", "committed">>,
             <<"select", "*", "from", "t", "order", "by", "a", "asc">>,
             <<"delete", "from", "t", "where", "a", "=", "5", "or", "b", "=", "5", "or", "c", "=", "5">>,
             <<"read", "*", "from", "t", "where", "a", "=", "5", "and", "b", "=", "5", "order", "by", "a">>}

(* Every text of the documented grammar is accepted, and read as the         *)
(* statement it is the text of.  Left out, because the code refuses them,    *)
(* are reads with two conditions and an order or limit clause (see           *)
(* OrderAfterWhere) and names with an underscore (see UnderscoresInNames);   *)
(* limits are positive and fit an int (see LimitIsKept).                     *)
ParsesGrammar ==
  input \in Grammar => result # "error" /\ (result = "ok" => Text(stat) = input)
=============================================================================

------------------------------- MODULE MCQuery -------------------------------
(***************************************************************************)
(* Query over keys 0 .. 7, uint32 values 0 .. 3 and three tables: a number  *)
(* indexed or not beside a number, and an indexed string whose hash orders *)
(* the texts otherwise than they are and gives two of them one key.        *)
(***************************************************************************)
EXTENDS Query

Field(n, t, i) == [name |-> n, type |-> t, indexed |-> i]

MCSchemas ==
    {<<Field("id", "uint64", TRUE), Field("age", "uint32", FALSE)>>,
     <<Field("id", "uint64", TRUE), Field("age", "uint32", TRUE)>>,
     <<Field("id", "string", TRUE), Field("age", "uint32", FALSE)>>}

MCHash == [n \in 0 .. 8 |-> IF n = 0 THEN 5 ELSE IF n = 8 THEN 5 ELSE n \div 2]

Entry(i, a) == [id |-> i, age |-> a]

MCEntries == {Entry(0, 3), Entry(1, 0), Entry(7, 3), Entry(6, 4)}

Exp(f, o, v) == [field |-> f, op |-> o, value |-> v]
One(e) == [exps |-> <<e>>, logic |-> ""]
Two(a, l, b) == [exps |-> <<a, b>>, logic |-> l]

IdExps == {Exp("id", o, v) : o \in {"<", "=", ">"}, v \in {0, 1, 6, 7}}
OtherExps == {Exp("id", "!=", 1), Exp("id", "<=", 1), Exp("id", ">=", 6), Exp("id", "=", 8),
              Exp("age", "<", 3), Exp("age", "=", 0), Exp("age", ">", 1), Exp("age", ">", 4),
              Exp("age", "<=", 1), Exp("age", ">=", 1), Exp("age", "!=", 3), Exp("none", "=", 0)}
Pairs == {<<Exp("id", o, 1), Exp("id", p, v)>> : o, p \in {"<", "=", ">"}, v \in {1, 7}}
           \cup {<<Exp("id", ">", 0), Exp("age", "<", 3)>>, <<Exp("age", "<", 3), Exp("id", "=", 1)>>,
                 <<Exp("age", ">=", 1), Exp("none", "=", 0)>>}

MCWheres ==
    {NoWhere} \cup {One(e) : e \in IdExps \cup OtherExps}
              \cup {Two(p[1], l, p[2]) : p \in Pairs, l \in {"and", "or"}}

NoAgg == [func |-> "", field |-> ""]
Tail0 == [order |-> "", desc |-> FALSE, limit |-> 0, offset |-> 0, agg |-> NoAgg]
Agg(f, n) == [Tail0 EXCEPT !.agg = [func |-> f, field |-> n]]
Page(n, d, l, o) == [Tail0 EXCEPT !.order = n, !.desc = d, !.limit = l, !.offset = o]

Tails ==
    {Agg("count", "*"), Agg("count", "id")}
      \cup {Agg(f, n) : f \in {"sum", "avg", "min", "max"}, n \in {"id", "age"}}
      \cup {Page(n, d, l, o) : n \in {"id", "none"}, d \in BOOLEAN, l \in 0 .. 2, o \in 0 .. 1}
      \cup {Page("id", FALSE, 3, 1), Page("id", FALSE, 1, -4)}

MCReads == (MCWheres \X {Tail0}) \cup ({NoWhere, One(Exp("age", ">", 0))} \X Tails)

MCChangeWheres ==
    {NoWhere, One(Exp("id", ">", 6)), One(Exp("age", "=", 3)), One(Exp("none", "=", 0)),
     Two(Exp("id", "<", 6), "or", Exp("id", ">", 0)), Two(Exp("id", ">", 0), "and", Exp("id", "<", 7))}
====

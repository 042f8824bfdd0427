------------------------------- MODULE Parser -------------------------------
(* backend/parser: a statement is parsed token by token.  The tokener gives  *)
(* words, numbers, symbols and quoted text; at the end of the text, and for  *)
(* a quoted empty text, Peek returns "".  A character the tokener does not   *)
(* know, or a quote that is not closed, is the token Bad: Peek returns an    *)
(* error and goes on doing so.                                               *)
EXTENDS Integers, Sequences, SequencesExt, TLC

CONSTANTS Inputs,   \* the texts, as sequences of tokens
          MaxIndex, \* bound on the index list of a create statement
          IntMod    \* 2^64, the numbers an int tells apart

ASSUME ParserAssumption == MaxIndex \in Nat /\ IntMod \in Nat \ {0} /\ IntMod % 2 = 0

VARIABLES input,  \* the text
          rest,   \* what has not been popped of it
          pc,     \* what the parser reads next
          stat,   \* the statement so far
          result  \* "none", "ok" or "error"

parserVars == <<input, rest, pc, stat, result>>

Bad == "bad"
Symbol == {">", "<", "=", "*", ",", "(", ")", "{", "}", "!"}
Number == ("0" :> 0) @@ ("5" :> 5) @@ ("12" :> 12) @@ ("40" :> 40) @@ ("64" :> 64)

(* The empty name is a name. *)
isName(t) == t \notin Symbol \cup {"0", "5"}
isType(t) == t \in {"uint32", "uint64", "string"}
isLogicOp(t) == t \in {"and", "or"}
isAggFunc(t) == t \in {"count", "sum", "avg", "min", "max"}

(* The digits are added up without a test for overflow. *)
Wrap(n) == ((n + IntMod \div 2) % IntMod) - IntMod \div 2
utilsStrToInt(t) == IF t = "" THEN 0 ELSE Wrap(Number[t])
IsInt(t) == t = "" \/ t \in DOMAIN Number

(* The structs of package statement in one record; kind is the type. *)
Blank(kind) ==
  [kind |-> kind, rr |-> FALSE, table |-> "", columns |-> <<>>, index |-> <<>>,
   set |-> "", value |-> "", values |-> <<>>, rows |-> <<>>, fields |-> <<>>, aggs |-> <<>>,
   exps |-> <<>>, logic |-> "", order |-> "", desc |-> FALSE, limit |-> 0, offset |-> 0]

TypeOK ==
  /\ \E i \in 0..Len(input) : rest = SubSeq(input, i + 1, Len(input))
  /\ result \in {"none", "ok", "error"}
  /\ DOMAIN stat = DOMAIN Blank("")
  /\ {stat.limit, stat.offset} \subseteq Int /\ {stat.rr, stat.desc} \subseteq BOOLEAN
  /\ Len(stat.exps) <= 2

Init ==
  /\ input \in Inputs /\ rest = input
  /\ pc = "start" /\ stat = Blank("") /\ result = "none"
-----------------------------------------------------------------------------
Peek == IF rest = <<>> THEN "" ELSE Head(rest)
Pop == rest' = IF rest = <<>> THEN rest ELSE Tail(rest)

Fail == result' = "error" /\ UNCHANGED <<rest, pc, stat>>

(* The token is popped and s is the statement now; or it is left there. *)
Put(s, next) == Pop /\ stat' = s /\ pc' = next /\ UNCHANGED result
Go(next) == Put(stat, next)
Leave(next) == pc' = next /\ UNCHANGED <<rest, stat, result>>

Want(token, next) == IF Peek = token THEN Go(next) ELSE Fail
Name(s, next) == IF isName(Peek) THEN Put(s, next) ELSE Fail

Eof == pc = "eof" /\ IF Peek = "" THEN Leave("end") ELSE Fail

(* Mutant: what follows the statement is not looked at. *)
ParseNoTail ==
  \/ /\ pc = "start"
     /\ CASE Peek \in {"begin", "create", "drop", "read", "insert", "delete", "update"} ->
               Put(Blank(Peek), Peek)
          [] Peek = "select" -> Put(Blank("read"), "read")
          [] Peek \in {"commit", "abort", "show"} -> Put(Blank(Peek), "eof")
          [] OTHER -> Fail
  \/ /\ pc = "end"
     /\ result' = "ok"
     /\ UNCHANGED <<rest, pc, stat>>

(* Parse: the first token, and the test that nothing follows the statement. *)
Parse ==
  \/ /\ pc = "start"
     /\ CASE Peek \in {"begin", "create", "drop", "read", "insert", "delete", "update"} ->
               Put(Blank(Peek), Peek)
          [] Peek = "select" -> Put(Blank("read"), "read")
          [] Peek \in {"commit", "abort", "show"} -> Put(Blank(Peek), "eof")
          [] OTHER -> Fail
  \/ /\ pc = "end"
     /\ result' = IF Peek \in {"", Bad} THEN "ok" ELSE "error"
     /\ UNCHANGED <<rest, pc, stat>>

parseBegin ==
  \/ pc = "begin" /\ IF Peek = "" THEN Leave("end") ELSE Want("isolation", "level")
  \/ pc = "level" /\ Want("level", "which")
  \/ pc = "which" /\ IF Peek = "repeatable" THEN Go("repeatable") ELSE Want("read", "committed")
  \/ pc = "committed" /\ Want("committed", "eof")
  \/ pc = "repeatable" /\ IF Peek = "read" THEN Put([stat EXCEPT !.rr = TRUE], "eof") ELSE Fail

parseDrop ==
  \/ pc = "drop" /\ Want("table", "dropName")
  \/ pc = "dropName" /\ Name([stat EXCEPT !.table = Peek], "eof")

(* An index list that is not closed: "" is a name, so the loop goes on for   *)
(* ever at the end of the text.                                              *)
parseCreate ==
  \/ pc = "create" /\ Want("table", "createName")
  \/ pc = "createName" /\ Name([stat EXCEPT !.table = Peek], "column")
  \/ /\ pc = "column"
     /\ IF Peek = "(" THEN Go("indexKey")
        ELSE Name([stat EXCEPT !.columns = Append(@, <<Peek>>)], "type")
  \/ /\ pc = "type"
     /\ IF isType(Peek)
          THEN Put([stat EXCEPT !.columns[Len(stat.columns)] = Append(@, Peek)], "columnEnd")
          ELSE Fail
  \/ /\ pc = "columnEnd"
     /\ CASE Peek = "," -> Go("column")
          [] Peek = "(" -> Go("indexKey")
          [] Peek = "" -> Leave("end")
          [] OTHER -> Fail
  \/ pc = "indexKey" /\ Want("index", "index")
  \/ /\ pc = "index"
     /\ IF Peek = ")" THEN Go("eof")
        ELSE /\ Len(stat.index) < MaxIndex
             /\ Name([stat EXCEPT !.index = Append(@, Peek)], "index")

parseInsert ==
  \/ pc = "insert" /\ Want("into", "insertName")
  \/ pc = "insertName" /\ Name([stat EXCEPT !.table = Peek], "values")
  \/ pc = "values" /\ Want("values", "first")
  \/ /\ pc = "first"
     /\ CASE Peek = "" -> Fail
          [] Peek = "{" -> Put([stat EXCEPT !.rows = <<(<<>>)>>], "row")
          [] OTHER -> Put([stat EXCEPT !.values = <<Peek>>], "value")
  \/ /\ pc = "value"
     /\ IF Peek = "" THEN Leave("end")
        ELSE Put([stat EXCEPT !.values = Append(@, Peek)], "value")

parseInsertBulk ==
  \/ /\ pc = "row"
     /\ CASE Peek = "" -> Fail
          [] Peek = "}" -> Go("rowEnd")
          [] Peek = "," -> Go("row")
          [] OTHER -> Put([stat EXCEPT !.rows[Len(stat.rows)] = Append(@, Peek)], "row")
  \/ /\ pc = "rowEnd"
     /\ IF Peek = "" THEN Leave("end") ELSE Want(",", "rowStart")
  \/ /\ pc = "rowStart"
     /\ IF Peek = "{" THEN Put([stat EXCEPT !.rows = Append(@, <<>>)], "row") ELSE Fail

parseDelete ==
  \/ pc = "delete" /\ Want("from", "deleteName")
  \/ pc = "deleteName" /\ Name([stat EXCEPT !.table = Peek], "where")

parseUpdate ==
  \/ pc = "update" /\ Put([stat EXCEPT !.table = Peek], "set")
  \/ pc = "set" /\ Want("set", "setField")
  \/ pc = "setField" /\ Put([stat EXCEPT !.set = Peek], "setEq")
  \/ pc = "setEq" /\ Want("=", "setValue")
  \/ pc = "setValue" /\ Put([stat EXCEPT !.value = Peek], "setEnd")
  \/ pc = "setEnd" /\ IF Peek = "" THEN Leave("end") ELSE Leave("where")
-----------------------------------------------------------------------------
(* parseRead: the fields and aggregates, *)
parseReadFields ==
  \/ /\ pc = "read"
     /\ IF Peek = "*" THEN Put([stat EXCEPT !.fields = <<"*">>], "from") ELSE Leave("field")
  \/ /\ pc = "field"
     /\ IF isAggFunc(Peek) THEN Put([stat EXCEPT !.aggs = Append(@, <<Peek>>)], "lparen")
        ELSE Name([stat EXCEPT !.fields = Append(@, Peek)], "comma")
  \/ pc = "lparen" /\ Want("(", "arg")
  \/ /\ pc = "arg"
     /\ LET with == [stat EXCEPT !.aggs[Len(stat.aggs)] = Append(@, Peek)] IN
        IF Peek = "*" /\ Last(stat.aggs) = <<"count">> THEN Put(with, "rparen")
        ELSE Name(with, "rparen")
  \/ pc = "rparen" /\ Want(")", "comma")
  \/ pc = "comma" /\ IF Peek = "," THEN Go("field") ELSE Leave("from")
  \/ pc = "from" /\ Want("from", "readName")
  \/ pc = "readName" /\ Name([stat EXCEPT !.table = Peek], "clauses")

(* and what follows the table.  A token that starts no clause is left for    *)
(* Parse's test.                                                             *)
parseReadClauses ==
  \/ /\ pc = "clauses"
     /\ Leave(CASE Peek = "" -> "end" [] Peek = "where" -> "where" [] OTHER -> "order")
  \/ pc = "order" /\ IF Peek = "order" THEN Go("by") ELSE Leave("limit")
  \/ pc = "by" /\ Want("by", "orderField")
  \/ pc = "orderField" /\ Name([stat EXCEPT !.order = Peek], "direction")
  \/ /\ pc = "direction"
     /\ CASE Peek = "desc" -> Put([stat EXCEPT !.desc = TRUE], "limit")
          [] Peek = "asc" -> Go("limit")
          [] OTHER -> Leave("limit")
  \/ pc = "limit" /\ IF Peek = "limit" THEN Go("limitValue") ELSE Leave("end")
  \/ /\ pc = "limitValue"
     /\ IF IsInt(Peek) THEN Put([stat EXCEPT !.limit = utilsStrToInt(Peek)], "offset") ELSE Fail
  \/ pc = "offset" /\ IF Peek = "offset" THEN Go("offsetValue") ELSE Leave("end")
  \/ /\ pc = "offsetValue"
     /\ IF IsInt(Peek) THEN Put([stat EXCEPT !.offset = utilsStrToInt(Peek)], "end") ELSE Fail

(* After one condition anything may follow, after two nothing. *)
parseWhere ==
  \/ pc = "where" /\ Want("where", "expField")
  \/ /\ pc = "logic"
     /\ IF isLogicOp(Peek) THEN Put([stat EXCEPT !.logic = Peek], "expField")
        ELSE Leave(IF stat.kind = "read" THEN "order" ELSE "end")
  \/ /\ pc = "whereEnd"
     /\ IF Peek = "" THEN Leave(IF stat.kind = "read" THEN "order" ELSE "end") ELSE Fail

WithEq == ("<" :> "<=") @@ (">" :> ">=") @@ ("!" :> "!=")

(* Mutant: an operator is one token. *)
parseSingleExprOneToken ==
  LET last == Len(stat.exps) IN
  \/ /\ pc = "expField"
     /\ Name([stat EXCEPT !.exps = Append(@, [field |-> Peek, op |-> "", value |-> ""])], "expOp")
  \/ /\ pc = "expOp"
     /\ IF Peek \in {"<", "=", ">"} THEN Put([stat EXCEPT !.exps[last].op = Peek], "expValue")
        ELSE Fail
  \/ /\ pc = "expValue"
     /\ Put([stat EXCEPT !.exps[last].value = Peek], IF last = 1 THEN "logic" ELSE "whereEnd")

parseSingleExpr ==
  LET last == Len(stat.exps) IN
  \/ /\ pc = "expField"
     /\ Name([stat EXCEPT !.exps = Append(@, [field |-> Peek, op |-> "", value |-> ""])], "expOp")
  \/ /\ pc = "expOp"
     /\ CASE Peek \in DOMAIN WithEq -> Put([stat EXCEPT !.exps[last].op = Peek], "expEq")
          [] Peek = "=" -> Put([stat EXCEPT !.exps[last].op = Peek], "expValue")
          [] OTHER -> Fail
  \/ /\ pc = "expEq"
     /\ CASE Peek = "=" -> Put([stat EXCEPT !.exps[last].op = WithEq[@]], "expValue")
          [] Peek # "=" /\ stat.exps[last].op = "!" -> Fail
          [] OTHER -> Leave("expValue")
  \/ /\ pc = "expValue"
     /\ Put([stat EXCEPT !.exps[last].value = Peek], IF last = 1 THEN "logic" ELSE "whereEnd")
-----------------------------------------------------------------------------
(* Only Parse's test and the one for "offset" ignore an error of Peek. *)
BadToken == Peek = Bad /\ pc \notin {"end", "offset"} /\ Fail

Step ==
  /\ result = "none"
  /\ \/ BadToken
     \/ /\ Peek # Bad \/ pc \in {"end", "offset"}
        /\ \/ Parse \/ Eof \/ parseBegin \/ parseDrop \/ parseCreate
           \/ parseInsert \/ parseInsertBulk \/ parseDelete \/ parseUpdate
           \/ parseReadFields \/ parseReadClauses \/ parseWhere \/ parseSingleExpr
  /\ UNCHANGED input

Spec == Init /\ [][Step]_parserVars

(* Parse runs in the goroutine of the connection. *)
FairSpec == Spec /\ WF_parserVars(Step)
-----------------------------------------------------------------------------
(* The text of a statement. *)
Opt(cond, tokens) == IF cond THEN tokens ELSE <<>>
Join(parts) ==
  FlattenSeq([i \in DOMAIN parts |-> IF i = 1 THEN parts[i] ELSE <<",">> \o parts[i]])
Digits(n) == CHOOSE t \in DOMAIN Number : Number[t] = n

Cond(e) ==
  <<e.field>> \o
  (IF e.op \in {"<", "=", ">"} THEN <<e.op>>
   ELSE <<CHOOSE o \in DOMAIN WithEq : WithEq[o] = e.op, "=">>) \o
  <<e.value>>

Where(s) ==
  Opt(s.exps # <<>>, <<"where">>) \o
  Opt(Len(s.exps) > 0, Cond(s.exps[1])) \o
  Opt(Len(s.exps) > 1, <<s.logic>> \o Cond(s.exps[2]))

Text(s) ==
  <<s.kind>> \o
  CASE s.kind = "begin" -> Opt(s.rr, <<"isolation", "level", "repeatable", "read">>)
    [] s.kind = "drop" -> <<"table", s.table>>
    [] s.kind = "create" ->
         <<"table", s.table>> \o Join(s.columns) \o
         Opt(s.index # <<>>, <<"(", "index">> \o s.index \o <<")">>)
    [] s.kind = "insert" ->
         <<"into", s.table, "values">> \o s.values \o
         Join([i \in DOMAIN s.rows |->
                 <<"{">> \o Join([j \in DOMAIN s.rows[i] |-> <<s.rows[i][j]>>]) \o <<"}">>])
    [] s.kind = "delete" -> <<"from", s.table>> \o Where(s)
    [] s.kind = "update" -> <<s.table, "set", s.set, "=", s.value>> \o Where(s)
    [] s.kind = "read" ->
         Join([i \in DOMAIN s.fields |-> <<s.fields[i]>>] \o
              [i \in DOMAIN s.aggs |-> <<s.aggs[i][1], "(", s.aggs[i][2], ")">>]) \o
         <<"from", s.table>> \o Where(s) \o
         Opt(s.order # "", <<"order", "by", s.order>> \o Opt(s.desc, <<"desc">>)) \o
         Opt(s.limit > 0, <<"limit", Digits(s.limit)>>) \o
         Opt(s.offset > 0, <<"offset", Digits(s.offset)>>)
    [] OTHER -> <<>>

(* The tokens that carry meaning: commas, brackets and asc do not, except as *)
(* values of an insert statement; nor does a name or value that is missing.  *)
Words(s, text) ==
  SelectSeq(text, LAMBDA t : t # "" /\ (s.values = <<>> => t \notin {",", "(", ")", "index", "asc"}))

(* The numbers after word, which starts a clause of a read. *)
Operands(word) ==
  {Number[input[i + 1]] : i \in {j \in 1..(Len(input) - 1) :
                                   input[j] = word /\ input[j + 1] \in DOMAIN Number}}

(* Parse and all it calls: an accepted statement says all that the text      *)
(* says, in that order and nothing else, whatever token of a text was        *)
(* dropped, doubled or exchanged: no condition, field or limit is skipped.   *)
(* Left out are texts with a lexical error, with a quoted empty text (see    *)
(* TailIsRead) or that end before the operand of a read's last clause, and   *)
(* limits and offsets that are 0 or too large for an int (see LimitIsKept).  *)
NothingDropped ==
  /\ result = "ok"
  /\ {"", Bad} \cap ToSet(input) = {}
  /\ Operands("limit") \cup Operands("offset") \subseteq 1..(IntMod \div 2 - 1)
  /\ Last(input) \notin {"by", "limit", "offset"}
  => IF stat.kind = "begin" THEN stat.rr <=> "repeatable" \in ToSet(input)
     ELSE Words(stat, Text(stat)) = Words(stat, [input EXCEPT ![1] = stat.kind])

(* readme.md:72, "every path returns an error": Parse returns.               *)
ParseReturns == <>(result # "none")

(* doc/sql-reference.md:85, "Limit the number of returned rows": the         *)
(* statement has the limit of the text, and not 0, which is how a statement  *)
(* without a limit looks (table.go:301).  The code does not keep this.       *)
LimitIsKept ==
  result = "ok" /\ stat.kind = "read" =>
    \A n \in Operands("limit") : stat.limit = n /\ n # 0

(* doc/sql-reference.md:25, "letters, digits, underscores": a table whose    *)
(* name has an underscore, where the tokener ends the word and then fails,   *)
(* can be dropped.  The code does not keep this.                             *)
UnderscoresInNames == input = <<"drop", "table", "t", Bad>> => result # "error"

(* parser.go:52, "unexpected token after statement": a statement is accepted *)
(* only when the whole text has been read.                                   *)
TailIsRead == result = "ok" => rest = <<>>

(* doc/sql-reference.md:28, create table <name> ...: a statement about a     *)
(* table names one.                                                          *)
TableIsNamed ==
  result = "ok" => stat.table # "" \/ stat.kind \in {"begin", "commit", "abort", "show"}

(* parser.go:52, "ORDER BY comes after WHERE": a text that is a where clause *)
(* of two conditions and an order clause is accepted.                        *)
OrderAfterWhere ==
  result = "error" => ~(pc = "whereEnd" /\ Len(rest) = 3 /\ rest[1] = "order" /\ rest[2] = "by")
=============================================================================

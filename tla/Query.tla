-------------------------------- MODULE Query --------------------------------
(***************************************************************************)
(* What a statement of package tbm answers: table.go and field.go read as  *)
(* algorithms over the rows of one table.  One transaction runs at a time  *)
(* (Table.tla has the interleavings), so a version of a row is live or     *)
(* not.  A B+ tree answers with the uuids entered under a key range, in    *)
(* key order: what Index.tla promises, as long as no node has split        *)
(* between equal keys (DuplicatesFound of BPlusTree.tla).                  *)
(*                                                                         *)
(* A value is a number below KeyMod (2^64).  The literal KeyMod stands for *)
(* a text that is no number.  A string is a number as well, ordered as the *)
(* texts are, and Hash is StrToUUID.                                       *)
(***************************************************************************)
EXTENDS Integers, Sequences, FiniteSets, SequencesExt, FiniteSetsExt

CONSTANTS
    KeyMod,      \* 2^64: the number of keys, the last one being utils.INF, and of ints
    Mod32,       \* 2^32
    Hash,        \* StrToUUID: text -> key
    Schemas,     \* the tables considered: sequences of fields
    Entries,     \* the rows an INSERT may name
    Texts,       \* the literals an UPDATE may write
    ChangeWheres,\* the WHERE clauses of UPDATE and DELETE
    Reads,       \* the reads: <<WHERE clause, tail>>
    MaxRows,     \* bound on the versions of rows
    MaxBulk,     \* bound on the rows of one INSERT
    MaxChanges   \* bound on the statements that write

ASSUME QueryAssumption ==
    /\ KeyMod \in Nat \ {0} /\ KeyMod % 2 = 0 /\ Mod32 \in 1 .. KeyMod
    /\ \A n \in DOMAIN Hash : Hash[n] \in 0 .. KeyMod - 1

VARIABLES
    fields,      \* t.fields: a sequence of [name, type, indexed]
    rows,        \* the stored versions: a sequence of [entry, live]
    idx,         \* field name -> the uuids entered into its tree
    rowIndex,    \* the uuids entered into the hidden row index
    torn,        \* rows of a failed statement that was committed all the same
    changes,     \* how many statements wrote
    out          \* what the last statement returned

vars == <<fields, rows, idx, rowIndex, torn, changes, out>>

INF == KeyMod - 1
Nothing == [kind |-> "none"]
Failed == [kind |-> "error"]
Panicked == [kind |-> "panic"]

Names(fs) == {fs[i].name : i \in DOMAIN fs}
HasField(n) == n \in Names(fields)
FieldOf(n) == fields[CHOOSE i \in DOMAIN fields : fields[i].name = n]
Live == {u \in DOMAIN rows : rows[u].live}

-----------------------------------------------------------------------------
(* field.go *)

StrToValueFails(f, text) ==
    CASE f.type = "uint32" -> text >= Mod32
      [] f.type = "uint64" -> text >= KeyMod
      [] f.type = "string" -> FALSE

ValueToUUID(f, v) == IF f.type = "string" THEN Hash[v] ELSE v

valueCompare(a, b) == IF a < b THEN -1 ELSE IF a > b THEN 1 ELSE 0

Empty == [left |-> 1, right |-> 0]

CalExpFails(f, e) == e.op \in {"<", "=", ">"} /\ StrToValueFails(f, e.value)

\* As CalExp, the decrement of a key 0 left to wrap around.
CalExpWraps(f, e) ==
    LET key == ValueToUUID(f, e.value)
    IN  CASE e.op = "<" -> [left |-> 0, right |-> (key + KeyMod - 1) % KeyMod]
          [] e.op = "=" -> [left |-> key, right |-> key]
          [] e.op = ">" -> [left |-> (key + 1) % KeyMod, right |-> INF]
          [] OTHER -> [left |-> 0, right |-> 0]

CalExp(f, e) ==
    LET key == ValueToUUID(f, e.value)
        next == (key + 1) % KeyMod
    IN  CASE e.op = "<" -> IF key > 0 THEN [left |-> 0, right |-> key - 1] ELSE Empty
          [] e.op = "=" -> [left |-> key, right |-> key]
          [] e.op = ">" -> IF next = 0 THEN Empty ELSE [left |-> next, right |-> INF]
          [] OTHER -> [left |-> 0, right |-> 0]

KeyOf(f, u) == ValueToUUID(f, rows[u].entry[f.name])

\* Equal keys come out latest first: node.insert puts a key before its equals.
Search(f, range) ==
    SetToSortSeq({u \in idx[f.name] : KeyOf(f, u) \in range.left .. range.right},
                 LAMBDA u, v : \/ KeyOf(f, u) < KeyOf(f, v)
                               \/ KeyOf(f, u) = KeyOf(f, v) /\ u > v)

AllRows == SetToSortSeq(rowIndex, <)

-----------------------------------------------------------------------------
(* table.go: which rows a WHERE clause names.  No clause is <<>>. *)

\* Every condition is taken for one on the field of the first.
calWhere(f, w) ==
    LET r == [i \in DOMAIN w.exps |-> CalExp(f, w.exps[i])]
    IN  IF w.logic = "and"
        THEN <<[left |-> Max({r[1].left, r[2].left}), right |-> Min({r[1].right, r[2].right})]>>
        ELSE r

matchSingleExp(entry, e) ==
    /\ HasField(e.field)
    /\ ~StrToValueFails(FieldOf(e.field), e.value)
    /\ LET cmp == valueCompare(entry[e.field], e.value)
       IN  CASE e.op = "="  -> cmp = 0
             [] e.op = "!=" -> cmp # 0
             [] e.op = "<"  -> cmp < 0
             [] e.op = "<=" -> cmp <= 0
             [] e.op = ">"  -> cmp > 0
             [] e.op = ">=" -> cmp >= 0
             [] OTHER -> FALSE

evaluateWhere(entry, w) ==
    \/ w.exps = <<>>
    \/ w.logic = "" /\ matchSingleExp(entry, w.exps[1])
    \/ w.logic = "and" /\ \A i \in DOMAIN w.exps : matchSingleExp(entry, w.exps[i])
    \/ w.logic = "or" /\ \E i \in DOMAIN w.exps : matchSingleExp(entry, w.exps[i])

fullScanFilter(w) ==
    SelectSeq(AllRows, LAMBDA u : rows[u].live /\ evaluateWhere(rows[u].entry, w))

ByIndex(w) == w.exps # <<>> /\ HasField(w.exps[1].field) /\ FieldOf(w.exps[1].field).indexed

parseWhereFails(w) ==
    /\ w.exps # <<>>
    /\ \/ ~HasField(w.exps[1].field)
       \/ /\ ByIndex(w)
          /\ \E i \in DOMAIN w.exps : CalExpFails(FieldOf(w.exps[1].field), w.exps[i])

parseWhere(w) ==
    IF w.exps = <<>> THEN AllRows
    ELSE LET f == FieldOf(w.exps[1].field)
         IN  IF ~f.indexed THEN fullScanFilter(w)
             ELSE FlattenSeq([i \in DOMAIN calWhere(f, w) |-> Search(f, calWhere(f, w)[i])])

-----------------------------------------------------------------------------
(* table.go: what a read makes of the rows *)

\* sort.Slice is not stable: any order of equal entries.  An unknown field
\* leaves the entries as they are.
sortEntries(entries, name, desc) ==
    IF ~HasField(name) THEN {entries}
    ELSE LET n == Len(entries)
             After(a, b) == IF desc THEN a[name] < b[name] ELSE a[name] > b[name]
             orders == {p \in [1 .. n -> 1 .. n] : Cardinality(Range(p)) = n}
             put(p) == [i \in 1 .. n |-> entries[p[i]]]
         IN  {s \in {put(p) : p \in orders} : \A i, j \in 1 .. n : i < j => ~After(s[i], s[j])}

\* The sum of two ints: the upper half of the numbers is negative.
Plus(a, b) == ((a + b + KeyMod \div 2) % KeyMod) - KeyMod \div 2

\* entries[offset:end] panics unless 0 <= offset <= end.
limitPanics(entries, limit, offset) ==
    offset < Len(entries) /\ (offset < 0 \/ Plus(offset, limit) < offset)

limitEntries(entries, limit, offset) ==
    IF offset >= Len(entries) THEN <<>>
    ELSE SubSeq(entries, offset + 1, Min({Plus(offset, limit), Len(entries)}))

\* The numbers an aggregate adds up: none for a string or an unknown field.
Numbers(entries, name) ==
    IF ~HasField(name) \/ FieldOf(name).type = "string" THEN <<>>
    ELSE [i \in DOMAIN entries |-> entries[i][name]]

MinVal(ns) == FoldLeft(LAMBDA a, b : Min({a, b}), INF, ns)

\* -1 is no text at all, which count of a field comes to.
computeAggregates(entries, agg) ==
    LET ns == Numbers(entries, agg.field)
        total == FoldLeft(LAMBDA a, b : (a + b) % KeyMod, 0, ns)
    IN  CASE agg.func = "count" -> IF agg.field = "*" THEN Len(entries) ELSE -1
          [] agg.func = "sum" -> total
          [] agg.func = "avg" -> IF entries = <<>> THEN 0 ELSE total \div Len(entries)
          [] agg.func = "min" -> IF entries = <<>> THEN 0 ELSE MinVal(ns)
          [] agg.func = "max" -> FoldLeft(LAMBDA a, b : Max({a, b}), 0, ns)

EntriesOf(uuids) ==
    LET live == SelectSeq(uuids, LAMBDA u : rows[u].live)
    IN  [i \in DOMAIN live |-> rows[live[i]].entry]

-----------------------------------------------------------------------------
(* The statements.  A statement that changes rows makes one write after the *)
(* other, each of which can fail; its transaction then commits or aborts.   *)

IndexedNames ==
    LET fs == SelectSeq(fields, LAMBDA f : f.indexed)
    IN  [i \in DOMAIN fs |-> fs[i].name]

InsertWrites == <<"row">> \o IndexedNames \o <<"rowIndex">>
UpdateWrites == <<"delete", "row", "rowIndex">> \o IndexedNames

\* done of the writes are made, row after row: write w of the k-th row is one
\* of them or not.
Made(writes, done, k, w) ==
    \E j \in DOMAIN writes : writes[j] = w /\ (k - 1) * Len(writes) + j <= done

\* As StaysLive, the marks of an aborted transaction left standing.
StaysLiveIfUnmarked(u, gone, commit) == rows[u].live /\ u \notin gone
\* The delete marks of a transaction count once it has committed.
StaysLive(u, gone, commit) == rows[u].live /\ ~(commit /\ u \in gone)

\* stop is the number of writes up to the first value that does not convert.
Change(olds, es, writes, stop, stmt) ==
    \E done \in 0 .. stop, commit \in BOOLEAN :
      LET ok    == done = Len(writes) * Max({Len(es), Len(olds)})
          added == {k \in DOMAIN es : Made(writes, done, k, "row")}
          uuid(k) == Len(rows) + k
          gone  == {olds[k] : k \in {k \in DOMAIN olds : Made(writes, done, k, "delete")}}
      IN  /\ rows' = [u \in DOMAIN rows |-> [rows[u] EXCEPT !.live = StaysLive(u, gone, commit)]]
                     \o [k \in 1 .. Cardinality(added) |-> [entry |-> es[k], live |-> commit]]
          /\ idx' = [f \in DOMAIN idx |-> idx[f] \cup {uuid(k) : k \in {k \in added : Made(writes, done, k, f)}}]
          /\ rowIndex' = rowIndex \cup {uuid(k) : k \in {k \in added : Made(writes, done, k, "rowIndex")}}
          /\ torn' = IF ok \/ ~commit THEN torn ELSE torn \cup {uuid(k) : k \in added}
          /\ changes < MaxChanges /\ changes' = changes + 1
          /\ out' = [stmt EXCEPT !.kind = IF ok THEN "changed" ELSE "halfway", !.commit = commit]
          /\ UNCHANGED fields

Stmt(verb, w, name, value, n) ==
    [kind |-> "changed", verb |-> verb, where |-> w, field |-> name, value |-> value,
     count |-> n, commit |-> FALSE]

NoWhere == [exps |-> <<>>, logic |-> ""]

\* A row with a value that does not convert; one of the wrong length fails likewise.
strToEntryFails(e) == \E i \in DOMAIN fields : StrToValueFails(fields[i], e[fields[i].name])

Insert(es) ==
    /\ out = Nothing /\ Len(rows) + Len(es) <= MaxRows
    /\ LET good == {n \in 0 .. Len(es) : \A k \in 1 .. n : ~strToEntryFails(es[k])}
       IN  Change(<<>>, es, InsertWrites, Max(good) * Len(InsertWrites),
                  Stmt("insert", NoWhere, "", 0, Len(es)))

\* A uuid that comes twice is not visible any more the second time.
FirstLive(uuids) ==
    SelectSeq([i \in DOMAIN uuids |-> IF \E j \in 1 .. i - 1 : uuids[j] = uuids[i]
                                      THEN 0 ELSE uuids[i]],
              LAMBDA u : u # 0 /\ rows[u].live)

Fail == out' = Failed /\ UNCHANGED <<fields, rows, idx, rowIndex, torn, changes>>

\* A search from key INF finds no child in a tree with inner nodes.
SearchMayFail(w) ==
    /\ ByIndex(w) /\ ~parseWhereFails(w)
    /\ LET r == calWhere(FieldOf(w.exps[1].field), w) IN \E i \in DOMAIN r : r[i].left = INF

Delete(w) ==
    /\ out = Nothing
    /\ \/ (parseWhereFails(w) \/ SearchMayFail(w)) /\ Fail
       \/ /\ ~parseWhereFails(w)
          /\ LET olds == FirstLive(parseWhere(w))
             IN  Change(olds, <<>>, <<"delete">>, Len(olds), Stmt("delete", w, "", 0, Len(olds)))

Update(w, name, text) ==
    /\ out = Nothing
    /\ \/ /\ \/ parseWhereFails(w) \/ SearchMayFail(w)
             \/ HasField(name) => StrToValueFails(FieldOf(name), text)
          /\ Fail
       \/ /\ ~parseWhereFails(w)
          /\ HasField(name) /\ ~StrToValueFails(FieldOf(name), text)
          /\ LET olds == FirstLive(parseWhere(w))
                 es == [k \in DOMAIN olds |-> [rows[olds[k]].entry EXCEPT ![name] = text]]
             IN  /\ Len(rows) + Len(es) <= MaxRows
                 /\ Change(olds, es, UpdateWrites, Len(es) * Len(UpdateWrites),
                           Stmt("update", w, name, text, Len(es)))

\* tail: the ORDER BY, LIMIT and OFFSET clauses and an aggregate, if any.
Read(w, tail) ==
    /\ out = Nothing
    /\ \/ (parseWhereFails(w) \/ SearchMayFail(w)) /\ Fail
       \/ /\ ~parseWhereFails(w)
          /\ LET entries == EntriesOf(parseWhere(w))
             IN  \E s \in IF tail.order = "" THEN {entries}
                          ELSE sortEntries(entries, tail.order, tail.desc) :
                   IF tail.limit > 0 /\ limitPanics(s, tail.limit, tail.offset) THEN out' = Panicked
                   ELSE LET page == IF tail.limit > 0 THEN limitEntries(s, tail.limit, tail.offset) ELSE s
                        IN  out' = [kind |-> "read", where |-> w, tail |-> tail, entries |-> page,
                                    value |-> IF tail.agg.func = "" THEN 0
                                              ELSE computeAggregates(page, tail.agg)]
          /\ UNCHANGED <<fields, rows, idx, rowIndex, torn, changes>>

\* The response is read, or after a panic the server started anew, and the next
\* statement may come.
Answered == out # Nothing /\ out' = Nothing /\ UNCHANGED <<fields, rows, idx, rowIndex, torn, changes>>

Init ==
    /\ fields \in Schemas
    /\ rows = <<>> /\ rowIndex = {} /\ torn = {} /\ changes = 0 /\ out = Nothing
    /\ idx = [n \in {fields[i].name : i \in {i \in DOMAIN fields : fields[i].indexed}} |-> {}]

Next ==
    \/ \E n \in 1 .. MaxBulk : \E es \in [1 .. n -> Entries] : Insert(es)
    \/ \E w \in ChangeWheres : Delete(w)
    \/ \E w \in ChangeWheres, name \in Names(fields) \cup {"none"}, text \in Texts : Update(w, name, text)
    \/ \E r \in Reads : Read(r[1], r[2])
    \/ Answered

Spec == Init /\ [][Next]_vars

-----------------------------------------------------------------------------
(* The reference: what the clauses mean *)

Rel(op, a, b) ==
    CASE op = "=" -> a = b [] op = "!=" -> a # b
      [] op = "<" -> a < b [] op = "<=" -> a <= b
      [] op = ">" -> a > b [] op = ">=" -> a >= b

Holds(entry, w) ==
    LET sat == {i \in DOMAIN w.exps : Rel(w.exps[i].op, entry[w.exps[i].field], w.exps[i].value)}
    IN  IF w.logic = "or" THEN sat # {} ELSE sat = DOMAIN w.exps

Named(w) == {u \in Live : Holds(rows[u].entry, w)}

WellTyped(w) ==
    \A i \in DOMAIN w.exps :
        HasField(w.exps[i].field) /\ ~StrToValueFails(FieldOf(w.exps[i].field), w.exps[i].value)

\* The clauses an index can answer: on its own field alone, with = > <, by order when
\* the key is the value and by equality when it is a hash without collisions.
Answerable(w) ==
    LET f == FieldOf(w.exps[1].field)
    IN  /\ WellTyped(w)
        /\ ByIndex(w) =>
             /\ \A i \in DOMAIN w.exps : w.exps[i].field = f.name /\ w.exps[i].op \in {"=", ">", "<"}
             /\ f.type = "string" =>
                  /\ w.logic # "and" /\ \A i \in DOMAIN w.exps : w.exps[i].op = "="
                  /\ \A i \in DOMAIN w.exps, u \in Live :
                       KeyOf(f, u) = Hash[w.exps[i].value] => rows[u].entry[f.name] = w.exps[i].value

\* The two ranges of an OR share a live row, which is then read twice.
Overlaps(w) ==
    /\ ByIndex(w) /\ w.logic = "or"
    /\ \E u \in Live : \A i \in DOMAIN w.exps :
         Rel(w.exps[i].op, rows[u].entry[w.exps[i].field], w.exps[i].value)

IsRead == out.kind = "read"

TypeOK ==
    /\ fields \in Schemas /\ Len(rows) <= MaxRows
    /\ \A u \in DOMAIN rows : \A i \in DOMAIN fields :
         ~StrToValueFails(fields[i], rows[u].entry[fields[i].name])
    /\ rowIndex \cup torn \subseteq DOMAIN rows
    /\ \A n \in DOMAIN idx : idx[n] \subseteq DOMAIN rows
    /\ out.kind \in {"none", "error", "panic", "changed", "halfway", "read"}

\* A read without LIMIT returns each live row its WHERE clause names, once; a row that
\* a failed and committed statement left without some of its index entries may be
\* missing.
RowsRight ==
    IsRead /\ out.tail.limit = 0 /\ Answerable(out.where) /\ ~Overlaps(out.where) =>
      \A e \in Entries \cup {rows[u].entry : u \in Live} :
        LET same == {u \in Named(out.where) : rows[u].entry = e}
        IN  Cardinality({i \in DOMAIN out.entries : out.entries[i] = e})
              \in Cardinality(same \ torn) .. Cardinality(same)

\* ORDER BY, LIMIT and OFFSET return the rows with the ranks
\* offset + 1 .. offset + limit among those the WHERE clause names, when the sum of the
\* two is an int and no row misses index entries.
PagesRight ==
    IsRead /\ torn = {} /\ out.tail.limit > 0 /\ HasField(out.tail.order)
           /\ out.tail.offset >= 0 /\ out.tail.offset + out.tail.limit < KeyMod \div 2
           /\ Answerable(out.where) /\ ~Overlaps(out.where) =>
      LET t == out.tail
          name == t.order
          n == Cardinality(Named(out.where))
          Before(a, b) == IF t.desc THEN a[name] > b[name] ELSE a[name] < b[name]
          Below(e) == Cardinality({u \in Named(out.where) : Before(rows[u].entry, e)})
          Above(e) == Cardinality({u \in Named(out.where) : Before(e, rows[u].entry)})
      IN  /\ Len(out.entries) = Max({0, Min({t.limit, n - t.offset})})
          /\ \A i \in DOMAIN out.entries :
               t.offset + i \in Below(out.entries[i]) + 1 .. n - Above(out.entries[i])

\* Over the numbers of a field min and max are members and bounds, sum is the sum
\* and avg lies between min and max, as long as the sum stays below 2^64.
AggregatesRight ==
    IsRead /\ out.tail.agg.func # "" /\ Numbers(out.entries, out.tail.agg.field) # <<>> =>
      LET ns == Numbers(out.entries, out.tail.agg.field)
          sum == FoldLeft(LAMBDA a, b : a + b, 0, ns)
          v == out.value
      IN  CASE out.tail.agg.func = "min" -> v \in Range(ns) /\ \A i \in DOMAIN ns : v <= ns[i]
            [] out.tail.agg.func = "max" -> v \in Range(ns) /\ \A i \in DOMAIN ns : v >= ns[i]
            [] out.tail.agg.func = "sum" -> sum < KeyMod => v = sum
            [] out.tail.agg.func = "avg" ->
                 sum < KeyMod => v \in Min(Range(ns)) .. Max(Range(ns))
            [] OTHER -> TRUE

\* A read answers what it says, after any changes, failed and aborted ones included:
\* the rows named, whether parseWhere (table.go:319) goes by ranges of an index or by
\* a scan; the page of them asked for (table.go:482 and :503); and the aggregate of
\* what computeAggregates (table.go:515) is given.  Left out, because the code answers
\* them otherwise, are clauses by an index that have >= <= or !=, a second field,
\* overlapping ranges, or strings that are ordered or share a hash (see
\* ComparesByIndex, BothFieldsCount, UnionHasNoDoubles and StringsByOrder), and limits
\* beyond an int (PagesReturn).
AnswersRight == RowsRight /\ PagesRight /\ AggregatesRight

\* A change is what its WHERE clause says (table.go:188 and :210), also when it fails
\* midway.  Aborted, it changes no live row.  Committed, it takes away only rows that
\* are named, and an UPDATE leaves each with the one field set and adds nothing else,
\* save for the row at which it failed; one that returned has taken all that are named
\* and counts them.  Excepted are rows an earlier failed statement left without index
\* entries, and the clauses by an index that AnswersRight leaves out.
ChangesAreExact ==
    [][LET live == {u \in DOMAIN rows' : rows'[u].live}
           named == Named(out'.where)
           gone == Live \ live
           new == live \ DOMAIN rows
           done == out'.kind = "changed"
           image(u) == [rows[u].entry EXCEPT ![out'.field] = out'.value]
           kept == {u \in gone : \E v \in new : rows'[v].entry = image(u)}
       IN  out'.kind \in {"changed", "halfway"} /\ Answerable(out'.where) =>
             IF ~out'.commit THEN live = Live
             ELSE /\ out'.verb = "insert" => gone = {} /\ (done => Cardinality(new) = out'.count)
                  /\ out'.verb # "insert" =>
                       /\ gone \subseteq named
                       /\ done => named \ torn \subseteq gone /\ out'.count = Cardinality(gone)
                  /\ out'.verb = "update" =>
                       /\ \A v \in new : \E u \in gone : rows'[v].entry = image(u)
                       /\ Cardinality(gone) - Cardinality(new) \in IF done THEN {0} ELSE {0, 1}
                       /\ Cardinality(gone \ kept) <= IF done THEN 0 ELSE 1]_vars

\* A read with no LIMIT and none of the exceptions but those of kind returns as many
\* rows as its clause names.
CountsRight(kind) ==
    IsRead /\ torn = {} /\ out.tail.limit = 0 /\ WellTyped(out.where) /\ kind =>
      Len(out.entries) = Cardinality(Named(out.where))

NoStrings == \A i \in DOMAIN fields : fields[i].type # "string"

\* readme.md:281 lists = > < >= <= and != as comparisons.  The code does not keep this
\* for a field with an index: CalExp gives the range [0, 0] for the last three.
ComparesByIndex == CountsRight(NoStrings /\ out.where.logic = "")

\* "read * from user where id = 1 and age < 30" (doc/sql-reference.md:69) returns the
\* rows both conditions name.  The code does not keep this: with an index on the
\* first field calWhere takes the second condition for one on the first field too.
BothFieldsCount ==
    CountsRight(/\ NoStrings /\ ~Overlaps(out.where)
                /\ \A i \in DOMAIN out.where.exps : out.where.exps[i].op \in {"=", ">", "<"})

\* readme.md:94: OR is turned into the union of the two ranges.  The code does not keep this:
\* parseWhere appends the second range to the first, so a row in both comes twice.
UnionHasNoDoubles ==
    CountsRight(/\ NoStrings /\ out.where.logic = "or"
                /\ \A i \in DOMAIN out.where.exps :
                     /\ out.where.exps[i].op \in {"=", ">", "<"}
                     /\ out.where.exps[i].field = out.where.exps[1].field)

\* "WHERE conditions use =, >, <" (doc/sql-reference.md:62), on strings too.  The code
\* does not keep this: the index of a string field is ordered by StrToUUID.
StringsByOrder ==
    CountsRight(out.where.logic = "" /\ out.where.exps # <<>>
                /\ out.where.exps[1].op \in {">", "<"})

\* readme.md:72, no panic, every path returns an error: so does a read with a LIMIT and
\* an OFFSET.  The code does not keep this: offset + limit wraps, and the slice
\* expression panics.
PagesReturn == out # Panicked

\* "count(field): Alias for count(*)" (doc/sql-reference.md).  The code does not keep
\* this: computeAggregates prints nothing for it.
CountsAField == IsRead /\ out.tail.agg.func = "count" => out.value = Len(out.entries)
====

------------------------------- MODULE Queries -------------------------------
(***************************************************************************)
(* A CRUD endpoint (src/handlers/crud.rs) and the statements its builders  *)
(* make (src/db/query), over one table that several requests use at once.  *)
(* Each statement is one step of the database; a list is two of them, and  *)
(* so is a creation on MySQL.                                              *)
(*                                                                         *)
(* A statement is kept as its conditions and its parameters. A condition   *)
(* names its operands by placeholder: on Postgres by the number that is    *)
(* written ($2), on the others by its place among the ?s. What an operand  *)
(* stands for is found only when the statement is run.                     *)
(*                                                                         *)
(* The columns id, owner and state stand for a key, a text that names a    *)
(* user and any other column; a value is a number or Null. Clauses of the  *)
(* configuration are comparisons joined by OR. A list may join one other   *)
(* table, on state; a line of it is the key of a row and that of a row of  *)
(* the other table, with Null for a row that is not there.                 *)
(***************************************************************************)
EXTENDS Naturals, FiniteSets, Sequences, SequencesExt, Sublists

CONSTANTS
  Callers,   \* the requests at a time
  Offers,    \* the endpoints: driver, pk, where, join, the table joined and so on
  Queried,   \* Queried[s][c]: what the caller c may ask of the endpoint s
  Rows,      \* the tables at the start
  Keys,      \* the keys that rows may have
  NewIds,    \* the keys that a table hands out
  Null,      \* no value, and no user
  Me,        \* the text ${request.user.id} in a body
  Junk,      \* a key in a path that is no number
  Wraps,     \* 2^64 as far as it matters: integers wrap there
  MaxCalls

VARIABLES
  setting,   \* the endpoint
  table,     \* from keys to rows
  used,      \* the keys that have been handed out
  calls,     \* each caller's request, how far it is and what came of it
  called     \* how many there have been

queryVars == <<setting, table, used, calls, called>>

Columns == {"id", "owner", "state"}
Verbs == {"list", "get_one", "create", "update", "delete"}
Idle == [step |-> "idle"]

ASSUME VerbsAssumption ==
  \A s \in Offers, c \in Callers : \A q \in Queried[s][c] : q.verb \in Verbs

\* Clauses are lists, and so are filters and their values; in and not_in have
\* at least one value, contains has one.
ASSUME ListsAssumption ==
  \A s \in Offers :
    /\ \A clause \in {s.where, s.updateWhere, s.deleteWhere} : clause \in Seq(Range(clause))
    /\ s.join \in {"none", "inner", "left", "right"}
    /\ s.pageSize \in Nat /\ s.maxPageSize \in Nat
    /\ \A c \in Callers : \A q \in Queried[s][c] : q.verb = "list" =>
         /\ q.filters \in Seq(Range(q.filters))
         /\ \A f \in Range(q.filters) :
              /\ f.op \in {"exists", "eq", "ne", "in", "not_in", "contains"}
              /\ f.values \in Seq(Range(f.values))
              /\ f.op # "exists" => f.values # <<>>
              /\ f.op = "contains" => Len(f.values) = 1
         /\ q.page \in Nat \cup {Null} /\ q.size \in Nat \cup {Null}

\* A row has its key in the column id, and there are fewer lines than an
\* offset can skip. A body names a key, nothing or the user.
ASSUME KeysAssumption ==
  /\ IsFiniteSet(Keys) /\ Wraps \in Nat
  /\ \A s \in Offers :
       LET lines == (Keys \cup {Null}) \X (DOMAIN s.joined \cup {Null})
       IN IsFiniteSet(lines) /\ Cardinality(lines) < Wraps \div 2
  /\ {Null, Me, Junk} \cap Keys = {} /\ NewIds \subseteq Keys
  /\ \A rows \in Rows : DOMAIN rows \subseteq Keys /\ \A k \in DOMAIN rows : rows[k].id = k
  /\ \A s \in Offers, c \in Callers : \A q \in Queried[s][c] :
       q.verb \in {"create", "update"} =>
         /\ q.by \in Keys \cup {Null}
         /\ q.body # Null /\ "id" \in DOMAIN q.body => q.body["id"] \in Keys \cup {Null, Me}

----------------------------------------------------------------------------
(* The builder: conditions, parameters and param_idx. *)

NewBuilder == [conditions |-> <<>>, params |-> <<>>, param_idx |-> 1]

Text(v) == [type |-> "text", value |-> v]

ColumnType(col) == IF col = "id" THEN setting.pk ELSE "text"

\* coerce_filter_value_by_type: a text that reads null is Null.
CoerceFilter(col, v) == [type |-> ColumnType(col), value |-> v]

\* The places of the next n placeholders when the first is written with the
\* number first. Every ? is written together with its parameter.
Placeholders(b, first, n) ==
  [i \in 1 .. n |-> IF setting.driver = "postgres" THEN first + i - 1 ELSE Len(b.params) + i]

Condition(op, col, at) == [op |-> op, col |-> col, at |-> at, value |-> Null, terms |-> <<>>]

\* Text of the statement itself, not a parameter.
Literal(op, col, v) == [op |-> op, col |-> col, at |-> <<>>, value |-> v, terms |-> <<>>]

Nowhere == Literal("false", "id", Null)

\* Comparisons joined by OR.
Grouped(terms) == [op |-> "any", col |-> "id", at |-> <<>>, value |-> Null, terms |-> terms]

\* resolve_single_key, and the default behind :-
Resolve(term, by) == IF by = Null /\ term.from = "default" THEN term.value ELSE by

Interpolated(clause) == Only(clause, {t \in Range(clause) : t.from # "literal"})

Unresolved(clause, by) == \E t \in Range(Interpolated(clause)) : Resolve(t, by) = Null

\* interpolate_where_clause: its placeholders are numbered from one.
InterpolateWhereClause(b, clause, by) ==
  LET keys == Interpolated(clause)
      at == Placeholders(b, 1, Len(keys))
      Nth(i) == Cardinality({j \in 1 .. i : clause[j].from # "literal"})
  IN [terms |-> [i \in DOMAIN clause |->
                   IF clause[i].from = "literal" THEN Literal("eq", clause[i].col, clause[i].value)
                   ELSE Condition("eq", clause[i].col, <<at[Nth(i)]>>)],
      params |-> [i \in DOMAIN keys |-> Text(Resolve(keys[i], by))]]

\* In a SELECT the clause is put into parentheses.
ApplyWhereClause(b, clause, by) ==
  LET wc == InterpolateWhereClause(b, clause, by)
  IN IF clause = <<>> THEN b
     ELSE [conditions |-> Append(b.conditions, Grouped(wc.terms)),
           params |-> b.params \o wc.params,
           param_idx |-> b.param_idx + Len(wc.params)]

\* What Postgres gets as text though it is pushed as a parameter too.
Inlined(f) == f.op = "contains" /\ f.col \in setting.json /\ setting.driver = "postgres"

BuildFilterCondition(b, f) ==
  IF Inlined(f) THEN Literal("eq", f.col, f.values[1])
  ELSE Condition(IF f.op = "contains" THEN "eq" ELSE f.op, f.col,
                 Placeholders(b, b.param_idx, Len(f.values)))

ApplyFilterExpression(b, f) ==
  IF f.op = "exists" THEN [b EXCEPT !.conditions = Append(@, Literal("exists", f.col, Null))]
  ELSE [conditions |-> Append(b.conditions, BuildFilterCondition(b, f)),
        params |-> b.params \o [i \in DOMAIN f.values |-> CoerceFilter(f.col, f.values[i])],
        param_idx |-> b.param_idx + Len(f.values)]

\* The filters in the order in which the hash map yields them.
ApplyFilters(b, filters) ==
  LET After[n \in 0 .. Len(filters)] ==
        IF n = 0 THEN b ELSE ApplyFilterExpression(After[n - 1], filters[n])
  IN After[Len(filters)]

\* coerce_pk_value, and the condition that is put in for a key that is none.
IsSentinel(pk) == setting.pk = "int" /\ pk = Junk

ApplyPkCondition(b, pk) ==
  IF IsSentinel(pk) THEN [b EXCEPT !.conditions = Append(@, Nowhere)]
  ELSE [conditions |-> Append(b.conditions, Condition("eq", "id", Placeholders(b, b.param_idx, 1))),
        params |-> Append(b.params, [type |-> setting.pk, value |-> pk]),
        param_idx |-> b.param_idx + 1]

Least(m, n) == IF m <= n THEN m ELSE n
AtLeastOne(n) == IF n = 0 THEN 1 ELSE n

\* apply_pagination; a page of 0 is the first.
PageSize(q) == Least(IF q.size = Null THEN setting.pageSize ELSE q.size, setting.maxPageSize)
PageOf(q) == AtLeastOne(IF q.page = Null THEN 1 ELSE q.page)

\* A mutant of Offset: the pages are counted from nought.
OffsetFromNought(q) == Least((PageOf(q) * PageSize(q)) % Wraps, Wraps \div 2 - 1)

\* A number that is too large for the database is cut off.
Offset(q) == Least(((PageOf(q) - 1) * PageSize(q)) % Wraps, Wraps \div 2 - 1)

SortField(q) ==
  IF q.sort # Null THEN q.sort ELSE IF setting.sortField = Null THEN "id" ELSE setting.sortField

Descending(q) == IF q.order = Null THEN setting.descending ELSE q.order = "desc"

\* apply_sorting: the column and the direction, or neither.
OrderBy(q) == IF setting.sorting THEN <<SortField(q), Descending(q)>> ELSE <<>>

\* build_select_list_count.
BuildCount(q) == ApplyFilters(ApplyWhereClause(NewBuilder, setting.where, q.by), q.filters)

Number(n) == [type |-> "int", value |-> n]

\* LIMIT and OFFSET have the placeholders after those of the conditions.
BuildSelectList(q) ==
  LET b == BuildCount(q)
  IN [conditions |-> b.conditions, order |-> OrderBy(q),
      limit |-> IF setting.pagination THEN Placeholders(b, b.param_idx, 2) ELSE <<>>,
      params |-> IF setting.pagination THEN b.params \o <<Number(PageSize(q)), Number(Offset(q))>>
                 ELSE b.params]

BuildSelectOne(q) == ApplyWhereClause(ApplyPkCondition(NewBuilder, q.pk), setting.where, q.by)

\* The clause of an UPDATE or a DELETE follows the key's condition, without
\* parentheses.
BuildWhere(b, clause, by) ==
  LET wc == InterpolateWhereClause(b, clause, by)
  IN IF clause = <<>> THEN [ored |-> <<b.conditions>>, params |-> b.params]
     ELSE [ored |-> <<Append(b.conditions, wc.terms[1])>>
                      \o [i \in 1 .. Len(clause) - 1 |-> <<wc.terms[i + 1]>>],
           params |-> b.params \o wc.params]

----------------------------------------------------------------------------
(* The database. *)

\* What an operand stands for.
Operands(c, params) ==
  IF c.at = <<>> THEN <<c.value>> ELSE [i \in DOMAIN c.at |-> params[c.at[i]].value]

Equal(v, w) == v # Null /\ w # Null /\ v = w

Holds(row, c, params) ==
  LET v == row[c.col]
      operands == Range(Operands(c, params))
  IN CASE c.op = "false" -> FALSE
       [] c.op = "exists" -> v # Null
       [] c.op \in {"eq", "in"} -> \E w \in operands : Equal(v, w)
       [] c.op \in {"ne", "not_in"} -> \A w \in operands : v # Null /\ w # Null /\ v # w
       [] c.op = "any" -> \E i \in DOMAIN c.terms :
            Equal(row[c.terms[i].col], Operands(c.terms[i], params)[1])

\* Postgres does not compare a column with a parameter of another type.
Mistyped(c, params) ==
  \E d \in {c} \cup Range(c.terms) : \E i \in DOMAIN d.at : params[d.at[i]].type # ColumnType(d.col)

Refused(ored, params) ==
  /\ setting.driver = "postgres"
  /\ \E i \in DOMAIN ored : \E c \in Range(ored[i]) : Mistyped(c, params)

Selected(rows, ored, params) ==
  {k \in DOMAIN rows : \E i \in DOMAIN ored : \A c \in Range(ored[i]) : Holds(rows[k], c, params)}

\* A row that an outer join does not find has no values.
RowAt(rows, k) == IF k = Null THEN [col \in Columns |-> Null] ELSE rows[k]

\* The lines of a list before WHERE (apply_joins): every pair that ON holds
\* of, and the rows of the one table or the other that have no partner.
Lines(rows) ==
  LET others == DOMAIN setting.joined
      Meet(k, o) == Equal(rows[k].state, setting.joined[o])
      pairs == {l \in (DOMAIN rows) \X others : Meet(l[1], l[2])}
  IN CASE setting.join = "none" -> (DOMAIN rows) \X {Null}
       [] setting.join = "inner" -> pairs
       [] setting.join = "left" ->
            pairs \cup {k \in DOMAIN rows : \A o \in others : ~Meet(k, o)} \X {Null}
       [] setting.join = "right" ->
            pairs \cup {Null} \X {o \in others : \A k \in DOMAIN rows : ~Meet(k, o)}

\* Null is the largest value for Postgres and the least for the others.
Lower(v, w) ==
  IF v = Null THEN w # Null /\ setting.driver # "postgres"
  ELSE IF w = Null THEN setting.driver = "postgres" ELSE v < w

SortsBefore(v, w, descending) == IF descending THEN Lower(w, v) ELSE Lower(v, w)

\* Lines that compare equal come in any order.
InOrder(rows, lines, order) ==
  order # <<>> => \A i, j \in DOMAIN lines :
    i < j => ~SortsBefore(RowAt(rows, lines[j][1])[order[1]], RowAt(rows, lines[i][1])[order[1]], order[2])

\* LIMIT n OFFSET o.
Part(lines, n, o) == SubSeq(lines, o + 1, Least(Len(lines), o + n))

\* The pages that the database may answer.
Pages(rows, b) ==
  LET found == {l \in Lines(rows) :
                  \A c \in Range(b.conditions) : Holds(RowAt(rows, l[1]), c, b.params)}
      orders == {lines \in SetToSeqs(found) : InOrder(rows, lines, b.order)}
  IN IF b.limit = <<>> THEN orders
     ELSE {Part(lines, b.params[b.limit[1]].value, b.params[b.limit[2]].value) : lines \in orders}

\* A mutant of LastInsertId: asked for on any connection, once others may
\* have inserted.
NewestId(k) == CHOOSE n \in used \cup {k} : \A m \in used : m <= n

\* Whether the database hands out the keys: serial and bigserial, and on
\* SQLite every INTEGER.
HandsOut == setting.pk = "int" /\ (setting.serial \/ setting.driver = "sqlite")

\* last_insert_id of the result of this INSERT, 0 without AUTO_INCREMENT.
LastInsertId(k) == IF HandsOut THEN k ELSE 0

----------------------------------------------------------------------------
(* The bodies of requests. *)

\* "*" is every column.
WritableFields == IF setting.writable = {"*"} THEN Columns ELSE setting.writable

InterpolateValue(v, by) == IF v = Me /\ by # Null THEN by ELSE v

\* validate_jsonb_body goes by the body as it was sent.
SchemaViolated(body) == "state" \in DOMAIN body /\ body["state"] \notin setting.schema

\* The columns of an INSERT with their values: the owner's is the server's.
Inserted(q) ==
  LET owned == setting.insertOwner /\ q.by # Null
      taken == {c \in DOMAIN q.body \cap WritableFields : ~(setting.insertOwner /\ c = "owner")}
  IN [c \in taken \cup (IF owned THEN {"owner"} ELSE {}) |->
        IF owned /\ c = "owner" THEN q.by ELSE InterpolateValue(q.body[c], q.by)]

\* The SET of an UPDATE.
Written(q) ==
  [c \in DOMAIN q.body \cap WritableFields |-> InterpolateValue(q.body[c], q.by)]

\* The parameters of SET, before those of WHERE.
SetParams(q) ==
  LET columns == Only(<<"id", "owner", "state">>, DOMAIN Written(q))
      Param(col) == [type |-> ColumnType(col), value |-> Written(q)[col]]
  IN [NewBuilder EXCEPT
        !.params = [i \in DOMAIN columns |-> Param(columns[i])],
        !.param_idx = Len(columns) + 1]

----------------------------------------------------------------------------
(* The handlers. *)

QueryInit ==
  /\ setting \in Offers
  /\ table \in Rows
  /\ used = DOMAIN table
  /\ calls = [c \in Callers |-> Idle]
  /\ called = 0

\* What a builder or a handler refuses before it has asked the database.
BadRequest(q) ==
  CASE q.verb = "list" ->
         \/ Unresolved(setting.where, q.by)
         \/ \E f \in Range(q.filters) : f.col \notin setting.filterable \cap Columns
         \/ setting.sorting /\ SortField(q) \notin setting.sortable \cap Columns
    [] q.verb = "get_one" -> Unresolved(setting.where, q.by)
    [] q.verb = "create" -> q.body = Null \/ SchemaViolated(q.body) \/ DOMAIN Inserted(q) = {}
    [] q.verb = "update" ->
         \/ q.body = Null \/ SchemaViolated(q.body) \/ DOMAIN Written(q) = {}
         \/ Unresolved(setting.updateWhere, q.by)
    [] q.verb = "delete" -> Unresolved(setting.deleteWhere, q.by)

Call(c, q) ==
  /\ calls[c].step \in {"idle", "done"}
  /\ called < MaxCalls
  /\ called' = called + 1
  /\ calls' = [calls EXCEPT ![c] =
       IF BadRequest(q) THEN [step |-> "done", ask |-> q, status |-> "bad_request"]
       ELSE [step |-> q.verb, ask |-> q, status |-> "none"]]
  /\ UNCHANGED <<setting, table, used>>

At(c, step) == calls[c].step = step

Done(c, status) == calls' = [calls EXCEPT ![c].step = "done", ![c].status = status]

\* Besides, the table as the statement found it and what it did.
DoneWith(c, status, touched) ==
  calls' = [calls EXCEPT ![c] =
    [step |-> "done", ask |-> @.ask, status |-> status, was |-> table, touched |-> touched]]

\* handle_list, the first statement.
ListPage(c) ==
  LET q == calls[c].ask  b == BuildSelectList(q)
  IN /\ At(c, "list")
     /\ IF Refused(<<b.conditions>>, b.params) THEN Done(c, "error")
        ELSE \E page \in Pages(table, b) :
               calls' = [calls EXCEPT ![c] =
                 [step |-> "count", ask |-> q, status |-> "none", page |-> page, listed |-> table]]
     /\ UNCHANGED <<setting, table, used, called>>

\* The second one, without joins: its failure is a total of nought.
ListCount(c) ==
  LET q == calls[c].ask  b == BuildCount(q)
      Total(n, status) ==
        calls' = [calls EXCEPT ![c] =
          [step |-> "done", ask |-> q, status |-> status, page |-> @.page,
           listed |-> @.listed, counted |-> table, total |-> n]]
  IN /\ At(c, "count")
     /\ \/ Total(Cardinality(Selected(table, <<b.conditions>>, b.params)), "listed")
        \/ Total(0, "uncounted")
     /\ UNCHANGED <<setting, table, used, called>>

\* handle_get_one; LIMIT 1 takes any of several.
GetOne(c) ==
  LET q == calls[c].ask  b == BuildSelectOne(q)
      found == Selected(table, <<b.conditions>>, b.params)
  IN /\ At(c, "get_one")
     /\ IF Refused(<<b.conditions>>, b.params) THEN Done(c, "error")
        ELSE IF found = {} THEN DoneWith(c, "not_found", {})
        ELSE \E k \in found : DoneWith(c, "ok", {k})
     /\ UNCHANGED <<setting, table, used, called>>

\* The keys an INSERT may get: the body's, else the next one.
KeysFor(values) ==
  IF "id" \in DOMAIN values THEN {values["id"]} \ (DOMAIN table \cup {Null, Me})
  ELSE IF HandsOut THEN {k \in NewIds \ used : \A n \in NewIds \ used : k <= n}
  ELSE {}

\* handle_create: with RETURNING the row comes with the INSERT.
Create(c) ==
  LET q == calls[c].ask  values == Inserted(q)
  IN /\ At(c, "create")
     /\ \/ KeysFor(values) = {} /\ Done(c, "error") /\ UNCHANGED <<table, used>>
        \/ \E k \in KeysFor(values) :
             /\ table' = [n \in DOMAIN table \cup {k} |->
                            IF n # k THEN table[n]
                            ELSE [col \in Columns |->
                                    IF col = "id" THEN k
                                    ELSE IF col \in DOMAIN values THEN values[col] ELSE Null]]
             /\ used' = used \cup {k}
             /\ calls' = [calls EXCEPT ![c] =
                  [step |-> IF setting.driver = "mysql" THEN "created" ELSE "done",
                   ask |-> q, status |-> "created", key |-> k, owner |-> table'[k].owner,
                   answer |-> {k}]]
     /\ UNCHANGED <<setting, called>>

\* The row by the last id. MySQL takes a text that is no number for 0.
FetchCreated(c) ==
  LET k == LastInsertId(calls[c].key)
      found == IF setting.pk = "int" THEN DOMAIN table \cap {k} ELSE DOMAIN table
  IN /\ At(c, "created")
     /\ \/ found = {} /\ calls' = [calls EXCEPT ![c].step = "done", ![c].answer = {}]
        \/ \E n \in found : calls' = [calls EXCEPT ![c].step = "done", ![c].answer = {n}]
     /\ UNCHANGED <<setting, table, used, called>>

\* handle_update and build_update: only update_where_clause goes with the key.
BuildUpdate(q) == BuildWhere(ApplyPkCondition(SetParams(q), q.pk), setting.updateWhere, q.by)

Update(c) ==
  LET q == calls[c].ask  b == BuildUpdate(q)  values == Written(q)
      touched == Selected(table, b.ored, b.params)
      rekeyed == "id" \in DOMAIN values /\ touched # {}
      conflict == rekeyed /\ (Cardinality(touched) > 1
                              \/ values["id"] \in (DOMAIN table \ touched) \cup {Null, Me})
      Key(k) == IF rekeyed /\ k \in touched THEN values["id"] ELSE k
      Row(k) == IF k \notin touched THEN table[k]
                ELSE [col \in Columns |-> IF col \in DOMAIN values THEN values[col] ELSE table[k][col]]
  IN /\ At(c, "update")
     /\ IF Refused(b.ored, b.params) \/ conflict THEN Done(c, "error") /\ UNCHANGED <<table, used>>
        ELSE /\ DoneWith(c, IF touched = {} THEN "not_found" ELSE "ok", touched)
             /\ table' = [n \in {Key(k) : k \in DOMAIN table} |->
                            Row(CHOOSE k \in DOMAIN table : Key(k) = n)]
             /\ used' = used \cup DOMAIN table'
     /\ UNCHANGED <<setting, called>>

\* A mutant of BuildDelete: by the key alone.
BuildDeleteByKey(q) == BuildWhere(ApplyPkCondition(NewBuilder, q.pk), <<>>, q.by)

\* handle_delete and build_delete.
BuildDelete(q) == BuildWhere(ApplyPkCondition(NewBuilder, q.pk), setting.deleteWhere, q.by)

Delete(c) ==
  LET q == calls[c].ask  b == BuildDelete(q)
      touched == Selected(table, b.ored, b.params)
  IN /\ At(c, "delete")
     /\ IF Refused(b.ored, b.params) THEN Done(c, "error") /\ UNCHANGED table
        ELSE /\ DoneWith(c, IF touched = {} THEN "not_found" ELSE "ok", touched)
             /\ table' = [k \in DOMAIN table \ touched |-> table[k]]
     /\ UNCHANGED <<setting, used, called>>

\* A statement fails of itself: the connection, the pool, a lock. What was
\* inserted before stays.
StatementFails(c) ==
  /\ calls[c].step \in {"list", "get_one", "create", "created", "update", "delete"}
  /\ Done(c, "error")
  /\ UNCHANGED <<setting, table, used, called>>

QueryNext ==
  \E c \in Callers :
    \/ \E q \in Queried[setting][c] : Call(c, q)
    \/ ListPage(c) \/ ListCount(c) \/ GetOne(c)
    \/ Create(c) \/ FetchCreated(c) \/ Update(c) \/ Delete(c)
    \/ StatementFails(c)

QuerySpec == QueryInit /\ [][QueryNext]_queryVars

----------------------------------------------------------------------------
(* What the configuration and the request mean, without placeholders. *)

ClauseAdmits(clause, by, row) ==
  clause = <<>> \/ \E t \in Range(clause) :
     Equal(row[t.col], IF t.from = "literal" THEN t.value ELSE Resolve(t, by))

FilterAdmits(f, row) ==
  LET v == row[f.col]  wanted == Range(f.values)
  IN CASE f.op = "exists" -> v # Null
       [] f.op \in {"eq", "in", "contains"} -> v # Null /\ v \in wanted
       [] f.op \in {"ne", "not_in"} -> v # Null /\ Null \notin wanted /\ v \notin wanted

IsMeant(row, q) ==
  ClauseAdmits(setting.where, q.by, row) /\ \A f \in Range(q.filters) : FilterAdmits(f, row)

Meant(rows, q) == {k \in DOMAIN rows : IsMeant(rows[k], q)}

Answered(c, status) == calls[c].step = "done" /\ calls[c].status = status

----------------------------------------------------------------------------
(* Properties. *)

\* A list is the page asked for of the lines, joined as often as there are
\* partners, whose row where_clause and the filters admit, in an order asked
\* for, whatever the driver, the order of the filters and what else goes on;
\* and its total is the number of such rows of the endpoint's own table a
\* moment later (handle_list, SelectBuilder). Excepted is an offset of 2^64 and
\* more.
ListIsExact ==
  \A c \in Callers :
    Answered(c, "listed") =>
      LET r == calls[c]  q == r.ask
          all == {l \in Lines(r.listed) : IsMeant(RowAt(r.listed, l[1]), q)}
          skipped == (PageOf(q) - 1) * PageSize(q)
      IN /\ r.total = Cardinality(Meant(r.counted, q))
         /\ (setting.pagination => skipped < Wraps) =>
              \E lines \in SetToSeqs(all) :
                   /\ InOrder(r.listed, lines, OrderBy(q))
                   /\ r.page = IF setting.pagination THEN Part(lines, PageSize(q), skipped) ELSE lines

\* On Postgres $1 is the first parameter of the statement, not of the clause.
Counted(clause) == setting.driver = "postgres" => Interpolated(clause) = <<>>

\* A request for one row touches the row with the key in its path if the
\* statement's own clause admits it for this user, and no row that the clause
\* does not admit; and no other row at all in a SELECT, which has the clause in
\* parentheses, and where the clause is one comparison. Behind the key's
\* condition in an UPDATE or a DELETE, an OR reaches other admitted rows
\* (build_select_one, build_update, build_delete).
TouchesTheAsked ==
  \A c \in Callers :
    (Answered(c, "ok") \/ Answered(c, "not_found")) =>
      LET r == calls[c]  q == r.ask
          clause == CASE q.verb = "get_one" -> setting.where
                      [] q.verb = "update" -> setting.updateWhere
                      [] q.verb = "delete" -> setting.deleteWhere
          admitted == {k \in DOMAIN r.was : ClauseAdmits(clause, q.by, r.was[k])}
          asked == {k \in admitted : k = q.pk}
      IN Counted(clause) =>
           /\ asked \subseteq r.touched /\ r.touched \subseteq admitted
           /\ q.verb = "get_one" \/ Len(clause) <= 1 => r.touched = asked

\* The row in the answer to a creation is the one that this request has
\* inserted, if it still exists and the database hands out the keys, and
\* with insert_owner it belongs to the user who asked (handle_create,
\* build_insert).
CreatedIsOwn ==
  \A c \in Callers :
    Answered(c, "created") =>
      /\ HandsOut => calls[c].answer \subseteq {calls[c].key}
      /\ setting.insertOwner => calls[c].owner = calls[c].ask.by
=============================================================================

----------------------------- MODULE Migration ------------------------------
(***************************************************************************)
(* Auto-migration (src/db/migration.rs): the order of the tables, the      *)
(* statements derived from what the database has, and the column of the    *)
(* media endpoints. The start-up and every reload run it, so that several  *)
(* migrations of one configuration may overlap, and each may be cut short  *)
(* by an error of the database or the end of its process. What the         *)
(* database has is all that the next one goes by.                          *)
(*                                                                         *)
(* A configuration is [driver, destructive, auto, tables, media]: tables   *)
(* is the sequence of the YAML file, each with its name, its database, its *)
(* columns in order and the names of the tables its foreign keys refer to. *)
(***************************************************************************)
EXTENDS Naturals, FiniteSets, Sequences, SequencesExt, Sublists

CONSTANTS
  Migrators,      \* the start-up of a server and its reloads
  Configurations, \* the configurations considered
  Existing,       \* what a table may have before the first migration
  Keyed,          \* the columns that are primary keys
  Required,       \* the columns that are NOT NULL and have no DEFAULT
  Indexed,        \* the columns that ask for an index
  Bound,          \* the columns that, where found, a constraint forbids to drop
  Clashes,        \* pairs of <<table, column>> whose indexes have one name
  MaxStarts       \* how many migrations there are in all

VARIABLES
  conf,      \* the configuration, the same for all of them
  schema,    \* <<database, name>> |-> the columns of the table, {} if absent
  indexes,   \* the columns that have an index, as <<table, column>>
  data,      \* the columns whose values are those from before, likewise
  first,     \* schema before the first migration
  migrators, \* m |-> where it is and what it still has to execute
  starts     \* how many have started

migrationVars == <<conf, schema, indexes, data, first, migrators, starts>>

TableConfig == [name : STRING, database : STRING, columns : Seq(STRING),
                references : Seq(STRING)]

\* A table of the configuration and its place in the database.
Place(t) == <<t.database, t.name>>

\* What the validators see to: tables have columns, each named once, and their
\* foreign keys refer to tables of the same database; and media endpoints name
\* tables of the file. Postgres drops even the last column of a table, and
\* a table without columns is no state of this model: what a destructive
\* migration finds there has one of the columns it declares.
ASSUME MigrationAssumption ==
  /\ \A c \in Configurations :
       /\ c.tables \in Seq(TableConfig)
       /\ \A i \in DOMAIN c.tables :
            /\ c.tables[i].columns # <<>> /\ IsInjective(c.tables[i].columns)
            /\ \A r \in ToSet(c.tables[i].references) :
                 \E j \in DOMAIN c.tables : Place(c.tables[j]) = <<c.tables[i].database, r>>
       /\ c.media \in Seq({Place(c.tables[i]) : i \in DOMAIN c.tables})
       /\ c.driver = "postgres" /\ c.destructive =>
            \A e \in Existing \ {{}} : \A i \in DOMAIN c.tables :
              e \cap ToSet(c.tables[i].columns) # {}
  /\ \A e \in Existing : IsFiniteSet(e)

----------------------------------------------------------------------------
(* sort_tables_topologically. *)

FilePath == "file_path"

Positions(c) == DOMAIN c.tables

\* table_map: of several tables with one name it keeps the last.
PositionOf(c, name) == Max({i \in Positions(c) : c.tables[i].name = name})

Names(c) == {c.tables[i].name : i \in Positions(c)}

\* deps, one for every foreign key to a table of the file, of all the tables
\* that share the position's name.
Deps(c, i) ==
  {d \in UNION {{j} \X DOMAIN c.tables[j].references : j \in Positions(c)} :
     /\ c.tables[d[1]].name = c.tables[i].name
     /\ c.tables[d[1]].references[d[2]] \in Names(c)}

\* A mutant of DepsOn: two foreign keys to one table are counted down as one.
DepsOnOnce(c, i, p) ==
  LET all == {d \in Deps(c, i) : PositionOf(c, c.tables[d[1]].references[d[2]]) = p}
  IN IF all = {} THEN {} ELSE {CHOOSE d \in all : TRUE}

DepsOn(c, i, p) ==
  {d \in Deps(c, i) : PositionOf(c, c.tables[d[1]].references[d[2]]) = p}

\* One turn of the loop: the part of queue not yet taken is sorted, so that a
\* set will do, and its least element is the next.
Turn(c, s) ==
  IF s.queue = {} THEN s
  ELSE LET p == Min(s.queue)
           degree == [i \in DOMAIN s.degree |-> s.degree[i] - Cardinality(DepsOn(c, i, p))]
       IN [degree |-> degree,
           queue  |-> (s.queue \ {p}) \cup
                        {i \in DOMAIN degree : degree[i] = 0 /\ s.degree[i] # 0},
           result |-> Append(s.result, p)]

Sorted(c) ==
  LET nodes == {PositionOf(c, n) : n \in Names(c)}
      degree == [i \in nodes |-> Cardinality(Deps(c, i))]
      After[n \in 0 .. Len(c.tables)] ==
        IF n = 0 THEN [degree |-> degree, queue |-> {i \in nodes : degree[i] = 0},
                       result |-> <<>>]
        ELSE Turn(c, After[n - 1])
  IN After[Len(c.tables)].result

Circular(c) == Len(Sorted(c)) # Len(c.tables)

----------------------------------------------------------------------------
(* The statements of a table and what they do to the database. *)

Statement(op, t, column) == [op |-> op, table |-> Place(t), column |-> column]

Statements(op, t, columns) == [i \in DOMAIN columns |-> Statement(op, t, columns[i])]

\* alter_existing_table's first loop.
Addable(existing, column) ==
  /\ column \notin existing
  /\ column \notin Keyed
  /\ column \notin Required

\* A mutant of Droppable: primary keys, which are never added, are dropped.
DroppableKeys(t, existing) ==
  IF conf.destructive THEN existing \ (ToSet(t.columns) \ Keyed) ELSE {}

\* alter_existing_table's second loop.
Droppable(t, existing) ==
  IF conf.destructive THEN existing \ ToSet(t.columns) ELSE {}

\* alter_existing_table: the statements follow from the columns read before
\* the first of them is executed.
AlterExistingTable(t, existing) ==
  Statements("add", t, Only(t.columns, {a \in ToSet(t.columns) : Addable(existing, a)})) \o
  Statements("drop", t, SetToSeq(Droppable(t, existing)))

ColumnStatements(t, existing) ==
  IF existing = {} THEN <<Statement("create", t, FilePath)>>
  ELSE AlterExistingTable(t, existing)

\* Mutants of ExistingIndexes: nobody asks, and the query is not limited to
\* the table.
NoExistingIndexes(t) == {}
IndexesOfAnyTable(t) ==
  IF conf.driver = "mysql" THEN {<<Place(t), i[2]>> : i \in indexes} ELSE {}

\* get_existing_indexes is asked for MySQL only.
ExistingIndexes(t) ==
  IF conf.driver = "mysql" THEN {i \in indexes : i[1] = Place(t)} ELSE {}

IndexStatements(t) ==
  LET wanted == {a \in Indexed \ Keyed : <<Place(t), a>> \notin ExistingIndexes(t)}
  IN Statements("index", t, Only(t.columns, wanted))

Declaration(place) ==
  conf.tables[CHOOSE i \in DOMAIN conf.tables : Place(conf.tables[i]) = place]

\* The other columns of the database whose index has the name of this one's,
\* idx_{table}_{column}: a_b.c and a.b_c share one. MySQL keeps the names of
\* each table apart.
Namesakes(t, a) ==
  IF conf.driver = "mysql" THEN {}
  ELSE {<<<<t[1], x[2][1]>>, x[2][2]>> :
          x \in {x \in Clashes : x[1] = <<t[2], a>> /\ <<t[1], x[2][1]>> \in DOMAIN schema}}

NameTaken(s) == Namesakes(s.table, s.column) \cap indexes # {}

\* What the database makes of a statement. CREATE TABLE is IF NOT EXISTS, and
\* so is CREATE INDEX but for MySQL; SQLite does not look at foreign keys;
\* MySQL in its default mode takes the "file_path" of ensure_media_columns for
\* a string and refuses the statement; the last column of a table stays, and
\* so does one that a primary key, UNIQUE, a foreign key or a view needs
\* (Bound) or, on SQLite, one that has an index.
Accepts(s) ==
  CASE s.op = "create" ->
         \/ conf.driver = "sqlite"
         \/ schema[s.table] # {}
         \/ \A r \in ToSet(Declaration(s.table).references) :
              schema[<<s.table[1], r>>] # {}
    [] s.op = "add" -> schema[s.table] # {} /\ s.column \notin schema[s.table]
    [] s.op = "add_media" ->
         conf.driver # "mysql" /\ schema[s.table] # {} /\ s.column \notin schema[s.table]
    [] s.op = "drop" ->
         /\ s.column \in schema[s.table] /\ schema[s.table] # {s.column}
         /\ s.column \notin Bound \cap first[s.table]
         /\ conf.driver = "sqlite" => <<s.table, s.column>> \notin indexes
    [] s.op = "index" ->
         \/ conf.driver = "sqlite" /\ NameTaken(s)
         \/ /\ s.column \in schema[s.table]
            /\ conf.driver = "mysql" => <<s.table, s.column>> \notin indexes

Perform(s) ==
  /\ schema' = [schema EXCEPT ![s.table] =
       CASE s.op = "create" -> IF @ # {} THEN @ ELSE ToSet(Declaration(s.table).columns)
         [] s.op \in {"add", "add_media"} -> @ \cup {s.column}
         [] s.op = "drop" -> @ \ {s.column}
         [] s.op = "index" -> @]
  /\ indexes' = CASE s.op = "index" /\ ~NameTaken(s) -> indexes \cup {<<s.table, s.column>>}
                  [] s.op = "drop" -> indexes \ {<<s.table, s.column>>}
                  [] OTHER -> indexes
  /\ data' = IF s.op = "drop" THEN data \ {<<s.table, s.column>>} ELSE data

----------------------------------------------------------------------------
(* A migration. *)

NotStarted == [pc |-> "ended", result |-> "none", order |-> <<>>, at |-> 0,
               left |-> <<>>, alone |-> TRUE, faultless |-> TRUE]

MigrationInit ==
  /\ conf \in Configurations
  /\ schema \in [{Place(conf.tables[i]) : i \in DOMAIN conf.tables} -> Existing]
  /\ first = schema
  /\ indexes \in SUBSET UNION {{t} \X schema[t] : t \in DOMAIN schema}
  /\ data = UNION {{<<t, a>> : a \in schema[t]} : t \in DOMAIN schema}
  /\ migrators = [m \in Migrators |-> NotStarted]
  /\ starts = 0

Running(m) == migrators[m].pc # "ended"

MigratorAt(m, pc) == migrators[m].pc = pc

\* The table a migration is at.
TableAt(m) == conf.tables[migrators[m].order[migrators[m].at]]

\* The next table of the order, if any, whose database has auto_migrate.
NextTable(r, n) ==
  LET rest == {k \in n .. Len(r.order) : conf.auto[conf.tables[r.order[k]].database]}
  IN IF rest = {} THEN Len(r.order) + 1 ELSE Min(rest)

\* After the last table come those of the media endpoints.
EnterTable(r, n) ==
  LET k == NextTable(r, n)
  IN IF k <= Len(r.order) THEN [r EXCEPT !.pc = "columns", !.at = k]
     ELSE [r EXCEPT !.pc = "media", !.at = 1]

MigrationEnds(m, result) ==
  migrators' = [migrators EXCEPT ![m].pc = "ended", ![m].result = result,
                                 ![m].left = <<>>, ![m].order = <<>>, ![m].at = 0]

\* run_migrations begins: it sorts, and refuses what it takes for a cycle.
StartMigration(m) ==
  /\ ~Running(m)
  /\ starts < MaxStarts
  /\ starts' = starts + 1
  /\ LET alone == \A o \in Migrators \ {m} : ~Running(o)
         begun == [NotStarted EXCEPT !.alone = alone, !.order = Sorted(conf)]
         others == [o \in Migrators |->
                      IF Running(o) THEN [migrators[o] EXCEPT !.alone = FALSE]
                      ELSE migrators[o]]
     IN migrators' = [others EXCEPT ![m] =
          IF Circular(conf) THEN [begun EXCEPT !.result = "failed", !.order = <<>>]
          ELSE EnterTable(begun, 1)]
  /\ UNCHANGED <<conf, schema, indexes, data, first>>

\* get_existing_columns.
Introspect(m) ==
  /\ MigratorAt(m, "columns")
  /\ migrators' = [migrators EXCEPT ![m].pc = "alter",
       ![m].left = ColumnStatements(TableAt(m), schema[Place(TableAt(m))])]
  /\ UNCHANGED <<conf, schema, indexes, data, first, starts>>

\* execute_raw of the next statement; an error ends the migration.
Execute(m) ==
  /\ migrators[m].pc \in {"alter", "index", "media"}
  /\ migrators[m].left # <<>>
  /\ LET s == Head(migrators[m].left)
     IN \/ /\ Accepts(s)
           /\ Perform(s)
           /\ migrators' = [migrators EXCEPT ![m].left = Tail(@)]
        \/ /\ ~Accepts(s)
           /\ MigrationEnds(m, "failed")
           /\ UNCHANGED <<schema, indexes, data>>
  /\ UNCHANGED <<conf, first, starts>>

\* The columns are done: the indexes of the table are looked up.
LookUpIndexes(m) ==
  /\ MigratorAt(m, "alter") /\ migrators[m].left = <<>>
  /\ migrators' = [migrators EXCEPT ![m].pc = "index",
       ![m].left = IndexStatements(TableAt(m))]
  /\ UNCHANGED <<conf, schema, indexes, data, first, starts>>

TableDone(m) ==
  /\ MigratorAt(m, "index") /\ migrators[m].left = <<>>
  /\ migrators' = [migrators EXCEPT ![m] = EnterTable(@, migrators[m].at + 1)]
  /\ UNCHANGED <<conf, schema, indexes, data, first, starts>>

\* ensure_media_columns asks for the column of the next media table.
EnsureMediaColumn(m) ==
  /\ MigratorAt(m, "media") /\ migrators[m].left = <<>>
  /\ migrators[m].at <= Len(conf.media)
  /\ LET t == conf.media[migrators[m].at]
     IN migrators' = [migrators EXCEPT ![m].at = @ + 1,
          ![m].left = IF FilePath \in schema[t] THEN <<>>
                      ELSE <<[op |-> "add_media", table |-> t, column |-> FilePath]>>]
  /\ UNCHANGED <<conf, schema, indexes, data, first, starts>>

MigrationDone(m) ==
  /\ MigratorAt(m, "media") /\ migrators[m].left = <<>>
  /\ migrators[m].at > Len(conf.media)
  /\ MigrationEnds(m, "done")
  /\ UNCHANGED <<conf, schema, indexes, data, first, starts>>

\* The database fails a statement or a query, or the process ends.
CutShort(m) ==
  /\ Running(m)
  /\ migrators' = [migrators EXCEPT ![m] = [NotStarted EXCEPT !.result = "failed",
                                              !.faultless = FALSE]]
  /\ UNCHANGED <<conf, schema, indexes, data, first, starts>>

MigrationStep(m) ==
  \/ StartMigration(m) \/ Introspect(m) \/ Execute(m) \/ LookUpIndexes(m)
  \/ TableDone(m) \/ EnsureMediaColumn(m) \/ MigrationDone(m) \/ CutShort(m)

MigrationNext == \E m \in Migrators : MigrationStep(m)

MigrationSpec == MigrationInit /\ [][MigrationNext]_migrationVars

----------------------------------------------------------------------------
(* Properties. *)

\* p refers to q by a foreign key.
Refers(p, q) == conf.tables[q].name \in ToSet(conf.tables[p].references)

\* The tables that p refers to.
ReferredBy(p) == {q \in Positions(conf) : Refers(p, q)}

\* p depends on what is in whatever has the tables that p refers to, and with
\* a table those that it refers to.
DependsOn(p, q) ==
  \A S \in SUBSET Positions(conf) :
    ReferredBy(p) \subseteq S /\ (\A o \in S : ReferredBy(o) \subseteq S) => q \in S

\* sort_tables_topologically refuses a configuration exactly when a table
\* depends on itself or two tables share a name; what it returns is the order
\* in which every table comes after those it refers to and, of the tables that
\* may come next, the first of the file does.
SortIsCanonical ==
  LET all == Positions(conf)
      order == Sorted(conf)
      before(i) == {order[j] : j \in 1 .. i - 1}
      ready(i) == {p \in all \ before(i) : ReferredBy(p) \subseteq before(i)}
  IN starts = 0 =>
     /\ Circular(conf) <=>
          \/ \E p, q \in all : p # q /\ conf.tables[p].name = conf.tables[q].name
          \/ \E p \in all : DependsOn(p, p)
     /\ ~Circular(conf) => \A i \in all : order[i] = Min(ready(i))

\* The tables migrations take care of.
Migrated == {t \in DOMAIN schema : conf.auto[t[1]]}

ColumnsOf(t) == ToSet(Declaration(t).columns)

\* However migrations overlap and whatever the interrupted ones left behind,
\* one that reports success leaves every table it takes care of with every
\* column that can be given to it, every index whose name is not another's
\* too, and the column of the media endpoints (which a destructive migration
\* that is under way or was cut short takes away if the YAML file does not
\* name it).
SuccessIsWhole ==
  (\E m \in Migrators : migrators[m].result = "done") =>
    /\ \A t \in Migrated :
         /\ schema[t] # {}
         /\ \A a \in ColumnsOf(t) :
              /\ first[t] = {} \/ Addable({}, a) => a \in schema[t]
              /\ a \in Indexed \ Keyed => <<t, a>> \in indexes \/ Namesakes(t, a) # {}
    /\ \A t \in ToSet(conf.media) :
         \/ FilePath \in schema[t]
         \/ conf.destructive /\ t \in Migrated /\ FilePath \notin ColumnsOf(t)

\* The values in a column are lost only where the database allows it and the
\* YAML file does not name the column, whichever migrations overlap.
DeclaredDataKept ==
  \A t \in DOMAIN schema : \A a \in first[t] :
    \/ <<t, a>> \in data
    \/ conf.destructive /\ t \in Migrated /\ a \notin ColumnsOf(t)

\* A column that no migration gives to a table it was missing from.
Withheld(t, a) == first[t] # {} /\ a \notin first[t] /\ ~Addable({}, a)

\* What no start can repair: an order that is refused; a media table that
\* nobody creates; an index on a column that is withheld; a table to be left
\* without a column; a column to be dropped that a constraint or, on SQLite,
\* an index holds, which stays as it cannot be dropped; and on MySQL the
\* column of the media endpoints, unless it stays where it was found or comes
\* with those the YAML file names.
Hopeless ==
  \/ Circular(conf)
  \/ \E t \in ToSet(conf.media) \ Migrated : first[t] = {}
  \/ \E t \in Migrated : \E a \in ColumnsOf(t) \cap Indexed : a \notin Keyed /\ Withheld(t, a)
  \/ conf.destructive /\ \E t \in Migrated : \A a \in ColumnsOf(t) : Withheld(t, a)
  \/ /\ conf.destructive
     /\ \E t \in Migrated :
          \/ \E a \in first[t] \cap Bound : a \notin ColumnsOf(t)
          \/ conf.driver = "sqlite" /\ \E i \in indexes : i[1] = t /\ i[2] \notin ColumnsOf(t)
  \/ /\ conf.driver = "mysql"
     /\ \E t \in ToSet(conf.media) :
          IF t \in Migrated /\ FilePath \in ColumnsOf(t) THEN Withheld(t, FilePath)
          ELSE FilePath \notin first[t] \/ (conf.destructive /\ t \in Migrated)

\* A migration that nothing overlaps and no fault hits does not trip over
\* what earlier ones, finished, failed or cut short at any statement, left
\* behind: it fails only for what was hopeless from the start.
RestartHeals ==
  \A m \in Migrators :
    migrators[m].result = "failed" /\ migrators[m].alone /\ migrators[m].faultless
      => Hopeless
=============================================================================

------------------------------ MODULE Migration -----------------------------
(***************************************************************************)
(* examples/historical_migration/migrate.py: runs of main() that migrate   *)
(* one SQLite database in batches, one transaction each.  SQLite is        *)
(* modelled by what migrate.py relies on: BEGIN IMMEDIATE admits one       *)
(* writer, a commit is durable and atomic, and a rollback, or the death of *)
(* the writer, leaves the last commit.                                     *)
(***************************************************************************)
EXTENDS Naturals, FiniteSets

CONSTANTS Customers, Orders,   \* the primary keys, disjoint
          Owner,               \* orders.customer_id
          Assigned,            \* the rows with an assignment persisted beforehand
          Misdated,            \* the rows with a created_ms that no UUIDv7 can carry
          BatchSize,
          Runs,                \* the invocations of main()
          Limited,             \* those with --max-batches 1
          MaxMishaps           \* bound: statements that fail and processes that die

Nobody == "nobody"

ASSUME MigrationAssumption ==
  /\ Customers \subseteq Nat /\ Orders \subseteq Nat
  /\ Customers \cap Orders = {}
  /\ Owner \in [Orders -> Customers]
  /\ Assigned \subseteq Customers \cup Orders
  /\ Misdated \subseteq (Customers \cup Orders) \ Assigned
  /\ BatchSize \in Nat \ {0}
  /\ Nobody \notin Runs /\ Limited \subseteq Runs
  /\ MaxMishaps \in Nat

Rows == Customers \cup Orders
NoId == <<>>

\* An identifier is the row whose timestamp it carries and a random part.
Ids(r) == {<<r, n>> : n \in 0 .. 2}

\* uuid7_at: a random part that the row has not had before.
NewId(database, r) ==
  CHOOSE id \in Ids(r) : id \notin {database.uuid[r], database.mapped[r], <<r, 0>>}

VARIABLES database,    \* the last commit: uuid, customer_uuid and id_map
          misdated,    \* the rows whose created_ms is still out of range
          writer,      \* the run whose transaction is open, or Nobody
          working,     \* the database as the open transaction sees it
          todo,        \* the statements the transaction has still to execute
          at,          \* where each run is, one of Places
          seen,        \* the identifiers that each run's last verify() has read
          mishaps      \* how many statements failed or processes died

vars == <<database, misdated, writer, working, todo, at, seen, mishaps>>

\* In main(); loading and writing are in migrate_batch, and the last verify() is
\* about to read what the place is named for.
Places == {"down", "looping", "loading", "writing",
           "relationships", "customers", "orders", "id_map", "done"}

NothingSeen == [r \in Rows |-> NoId]

Init ==
  /\ database = [uuid    |-> [r \in Rows |-> NoId],
                 foreign |-> [o \in Orders |-> NoId],
                 mapped  |-> [r \in Rows |-> IF r \in Assigned THEN <<r, 0>> ELSE NoId]]
  /\ misdated = Misdated
  /\ writer = Nobody
  /\ working = database
  /\ todo = {}
  /\ at = [w \in Runs |-> "down"]
  /\ seen = [w \in Runs |-> NothingSeen]
  /\ mishaps = 0

\* Slip: the schema is created anew, and the mappings are lost.
StartRecreating(w) ==
  /\ at[w] = "down" /\ writer = Nobody
  /\ at' = [at EXCEPT ![w] = "looping"]
  /\ database' = [database EXCEPT !.mapped = [r \in Rows |-> NoId]]
  /\ working' = database'
  /\ UNCHANGED <<misdated, writer, todo, seen, mishaps>>

\* main() starts: initialize() waits for the write lock, and with rows in the
\* database it changes nothing.
Start(w) ==
  /\ at[w] = "down" /\ writer = Nobody
  /\ at' = [at EXCEPT ![w] = "looping"]
  /\ UNCHANGED <<database, misdated, writer, working, todo, seen, mishaps>>

Begin(w) ==
  /\ at[w] = "looping" /\ writer = Nobody
  /\ writer' = w
  /\ working' = database
  /\ at' = [at EXCEPT ![w] = "loading"]
  /\ UNCHANGED <<database, misdated, todo, seen, mishaps>>

\* BEGIN IMMEDIATE stands outside the try: "database is locked" ends the run.
Locked(w) ==
  /\ at[w] = "looping" /\ writer # Nobody
  /\ at' = [at EXCEPT ![w] = "down"]
  /\ UNCHANGED <<database, misdated, writer, working, todo, seen, mishaps>>

\* The transaction ends, and with it the statements that were left.
EndTransaction(w, next) ==
  /\ writer' = Nobody
  /\ working' = database'
  /\ todo' = {}
  /\ at' = [at EXCEPT ![w] = next]
  /\ UNCHANGED seen

\* Slip: the except clause commits what has been written so far.
RaiseCommitting(w) ==
  /\ database' = working
  /\ UNCHANGED misdated
  /\ EndTransaction(w, "down")

\* Slip: the exception leaves the transaction open.
RaiseInTransaction(w) ==
  /\ at' = [at EXCEPT ![w] = "down"]
  /\ UNCHANGED <<database, misdated, writer, working, todo, seen>>

\* rollback() and raise: main() closes the connection and exits.
Raise(w) ==
  /\ UNCHANGED <<database, misdated>>
  /\ EndTransaction(w, "down")

(***************************************************************************)
(* One batch.                                                              *)
(***************************************************************************)
\* SELECT ... WHERE uuid IS NULL ORDER BY id LIMIT batch_size
Chunk ==
  LET unmigrated == {c \in Customers : working.uuid[c] = NoId}
  IN  {c \in unmigrated : Cardinality({d \in unmigrated : d < c}) < BatchSize}

OrdersOf(cs) == {o \in Orders : Owner[o] \in cs}
Missing(rows) == {r \in rows : working.mapped[r] = NoId}

\* uuid7_at_many refuses the whole batch for one bad timestamp, and a persisted
\* identifier must carry its row's timestamp.
Refused(rows) ==
  \/ Missing(rows) \cap misdated # {}
  \/ \E r \in rows \ Missing(rows) : working.mapped[r] \notin Ids(r)

\* A row's identifier is the one that id_map has, or is made now.
Statement(table, r) ==
  [table |-> table, row |-> r,
   id |-> IF working.mapped[r] = NoId THEN NewId(working, r) ELSE working.mapped[r]]

Statements(cs) ==
  {Statement("id_map", r) : r \in Missing(cs \cup OrdersOf(cs))}
    \cup {Statement("customers", c) : c \in cs}
    \cup {Statement("orders", o) : o \in OrdersOf(cs)}

\* Slip: the orders are updated before the customers they refer to.
StageOrdersFirst(s) ==
  CASE s.table = "id_map" -> IF s.row \in Customers THEN 1 ELSE 2
    [] s.table = "customers" -> 4
    [] s.table = "orders" -> 3

\* The mappings first, then the customers, then the orders that refer to them.
Stage(s) ==
  CASE s.table = "id_map" -> IF s.row \in Customers THEN 1 ELSE 2
    [] s.table = "customers" -> 3
    [] s.table = "orders" -> 4

\* Customers go by id, and orders by customer and id.
CustomerOf(r) == IF r \in Orders THEN Owner[r] ELSE r
Precedes(s, t) ==
  \/ Stage(s) < Stage(t)
  \/ /\ Stage(s) = Stage(t)
     /\ \/ CustomerOf(s.row) < CustomerOf(t.row)
        \/ CustomerOf(s.row) = CustomerOf(t.row) /\ s.row < t.row

\* Nothing left to migrate: the loop of main() ends.
LoadNothing(w) ==
  /\ at[w] = "loading" /\ Chunk = {}
  /\ UNCHANGED <<database, misdated, mishaps>>
  /\ EndTransaction(w, "relationships")

Load(w) ==
  /\ at[w] = "loading" /\ Chunk # {}
  /\ ~Refused(Chunk \cup OrdersOf(Chunk))
  /\ todo' = Statements(Chunk)
  /\ at' = [at EXCEPT ![w] = "writing"]
  /\ UNCHANGED <<database, misdated, writer, working, seen, mishaps>>

LoadRefused(w) ==
  /\ at[w] = "loading" /\ Chunk # {}
  /\ Refused(Chunk \cup OrdersOf(Chunk))
  /\ Raise(w)
  /\ UNCHANGED mishaps

\* What a statement writes; an order's customer_uuid is its customer's mapping.
Written(s) ==
  CASE s.table = "id_map" -> [working EXCEPT !.mapped[s.row] = s.id]
    [] s.table = "customers" -> [working EXCEPT !.uuid[s.row] = s.id]
    [] s.table = "orders" ->
         [working EXCEPT !.uuid[s.row] = s.id,
                         !.foreign[s.row] = working.mapped[Owner[s.row]]]

\* REFERENCES customers(uuid), checked after every statement.
ForeignKeysHold(d) ==
  \A o \in Orders : d.foreign[o] # NoId => \E c \in Customers : d.uuid[c] = d.foreign[o]

Execute(w) ==
  /\ at[w] = "writing"
  /\ \E s \in todo :
       /\ \A t \in todo \ {s} : Precedes(s, t)
       /\ IF ForeignKeysHold(Written(s))
          THEN /\ working' = Written(s)
               /\ todo' = todo \ {s}
               /\ UNCHANGED <<database, misdated, writer, at, seen>>
          ELSE Raise(w)
  /\ UNCHANGED mishaps

(***************************************************************************)
(* verify(): the relationships agree, every identifier carries its row's   *)
(* timestamp, and id_map has the migrated rows and no others.              *)
(***************************************************************************)
RelationshipsHold(d) ==
  /\ ForeignKeysHold(d)
  /\ \A o \in Orders : /\ d.foreign[o] = d.uuid[Owner[o]]
                       /\ d.uuid[o] = NoId <=> d.uuid[Owner[o]] = NoId

Stamped(d, rows) == \A r \in rows : d.uuid[r] # NoId => d.uuid[r] \in Ids(r)

Verified(d) == /\ RelationshipsHold(d)
               /\ Stamped(d, Rows)
               /\ d.mapped = d.uuid

Commit(w) ==
  /\ at[w] = "writing" /\ todo = {}
  /\ IF Verified(working)
     THEN /\ database' = working
          /\ EndTransaction(w, IF w \in Limited THEN "relationships" ELSE "looping")
          /\ UNCHANGED misdated
     ELSE Raise(w)
  /\ UNCHANGED mishaps

(***************************************************************************)
(* After the last batch main() verifies once more, outside a transaction:  *)
(* every read of verify() sees the commits of other runs up to then.       *)
(***************************************************************************)
CheckRelationships(w) ==
  /\ at[w] = "relationships"
  /\ at' = [at EXCEPT ![w] = IF RelationshipsHold(database) THEN "customers" ELSE "down"]
  /\ UNCHANGED <<database, misdated, writer, working, todo, seen, mishaps>>

ReadTable(w, table, rows, next) ==
  /\ at[w] = table
  /\ IF Stamped(database, rows)
     THEN /\ seen' = [seen EXCEPT ![w] =
                        [r \in Rows |-> IF r \in rows THEN database.uuid[r] ELSE @[r]]]
          /\ at' = [at EXCEPT ![w] = next]
     ELSE /\ seen' = [seen EXCEPT ![w] = NothingSeen]
          /\ at' = [at EXCEPT ![w] = "down"]
  /\ UNCHANGED <<database, misdated, writer, working, todo, mishaps>>

ReadRows(w) == \/ ReadTable(w, "customers", Customers, "orders")
               \/ ReadTable(w, "orders", Orders, "id_map")

\* id_map is compared with the rows as they were read: a batch that another run
\* has committed in between is a mismatch, and ends this run.
Report(w) ==
  /\ at[w] = "id_map"
  /\ at' = [at EXCEPT ![w] = IF database.mapped = seen[w] THEN "done" ELSE "down"]
  /\ seen' = [seen EXCEPT ![w] = NothingSeen]
  /\ UNCHANGED <<database, misdated, writer, working, todo, mishaps>>

\* A statement fails, or the process dies, anywhere inside the transaction.
Mishap(w) ==
  /\ writer = w
  /\ mishaps < MaxMishaps
  /\ mishaps' = mishaps + 1
  /\ Raise(w)

\* Somebody corrects a timestamp; source writes are paused during a batch.
Correct ==
  /\ writer = Nobody
  /\ \E r \in misdated : misdated' = misdated \ {r}
  /\ UNCHANGED <<database, writer, working, todo, at, seen, mishaps>>

Step(w) ==
  \/ Start(w) \/ Begin(w) \/ Locked(w)
  \/ LoadNothing(w) \/ Load(w) \/ LoadRefused(w)
  \/ Execute(w) \/ Commit(w)
  \/ CheckRelationships(w) \/ ReadRows(w) \/ Report(w)

Next == Correct \/ \E w \in Runs : Step(w) \/ Mishap(w)

(***************************************************************************)
(* A run goes on until it ends, one that ended in an error is started      *)
(* again, and a bad timestamp is corrected between two batches.            *)
(***************************************************************************)
Fairness == SF_vars(Correct) /\ \A w \in Runs : WF_vars(Step(w))

Spec == Init /\ [][Next]_vars /\ Fairness
-----------------------------------------------------------------------------
\* The types, and the place of the transaction: it is open exactly while its run
\* is in migrate_batch, and outside it nothing is left of what it wrote.
TypeOK ==
  LET States == [uuid    : [Rows -> (UNION {Ids(r) : r \in Rows}) \cup {NoId}],
                 foreign : [Orders -> (UNION {Ids(r) : r \in Rows}) \cup {NoId}],
                 mapped  : [Rows -> (UNION {Ids(r) : r \in Rows}) \cup {NoId}]]
  IN  /\ database \in States /\ working \in States
      /\ misdated \subseteq Misdated
      /\ writer \in Runs \cup {Nobody}
      /\ at \in [Runs -> Places]
      /\ seen \in [Runs -> [Rows -> (UNION {Ids(r) : r \in Rows}) \cup {NoId}]]
      /\ mishaps \in 0 .. MaxMishaps
      /\ \A w \in Runs : writer = w <=> at[w] \in {"loading", "writing"}
      /\ writer = Nobody => working = database /\ todo = {}

Promise == INSTANCE Backfill WITH uuid <- database.uuid, reserved <- database.mapped

\* What is durable is a migration of whole families, one commit at a time:
\* a customer and all its orders at once, every row for good, under the
\* identifier that had been persisted for it if there was one.
WholeFamilies == Promise!Spec

\* In every committed state an order refers to its own customer, by the new
\* identifiers exactly as by the old keys.
RelationshipsAgree ==
  \A o \in Orders : /\ database.foreign[o] = database.uuid[Owner[o]]
                    /\ database.uuid[o] = NoId <=> database.uuid[Owner[o]] = NoId

\* However often runs fail, die, and block each other, all rows are migrated in
\* the end, with the assignments that had been persisted.
Completes ==
  <>[](\A r \in Rows : /\ database.uuid[r] # NoId
                       /\ r \in Assigned => database.uuid[r] = <<r, 0>>)
=============================================================================

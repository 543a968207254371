-------------------------- MODULE Migration_proofs --------------------------
(***************************************************************************)
(* What the historical migration leaves durable, for any customers and     *)
(* orders, batch size, runs and mishaps.  That it completes is left to     *)
(* TLC.                                                                    *)
(***************************************************************************)
EXTENDS Migration, TLAPS

AllIds == (UNION {Ids(r) : r \in Rows}) \cup {NoId}
States == [uuid : [Rows -> AllIds], foreign : [Orders -> AllIds], mapped : [Rows -> AllIds]]
StatementsOf(rows) == [table : {"id_map", "customers", "orders"}, row : rows, id : AllIds]

(***************************************************************************)
(* The invariant.                                                          *)
(***************************************************************************)
\* A migrated row has the identifier that id_map has for it.
MappedInv == \A r \in Rows : database.uuid[r] # NoId => database.mapped[r] = database.uuid[r]

\* An open transaction has changed nothing that is durable, and will not.
WorkingInv ==
  /\ \A r \in Rows :
       /\ database.uuid[r] # NoId => working.uuid[r] = database.uuid[r]
       /\ database.mapped[r] # NoId => working.mapped[r] = database.mapped[r]
  /\ \A w \in Runs : at[w] = "loading" => working = database

TodoInv ==
  /\ todo \subseteq StatementsOf(Rows)
  /\ \A s \in todo :
       /\ s.table = "id_map" => database.mapped[s.row] = NoId
       /\ s.table # "id_map" => database.uuid[s.row] = NoId
       /\ s.table = "orders" => s.row \in Orders

IInv == TypeOK /\ RelationshipsAgree /\ MappedInv /\ WorkingInv /\ TodoInv

(***************************************************************************)
(* The operators.                                                          *)
(***************************************************************************)
LEMMA TypeOKStates ==
  TypeOK => /\ database \in States /\ working \in States
            /\ misdated \subseteq Misdated /\ writer \in Runs \cup {Nobody}
            /\ at \in [Runs -> Places] /\ seen \in [Runs -> [Rows -> AllIds]]
            /\ mishaps \in 0 .. MaxMishaps
            /\ \A w \in Runs : writer = w <=> at[w] \in {"loading", "writing"}
            /\ writer = Nobody => working = database /\ todo = {}
BY DEF TypeOK, States, AllIds

\* There is always an identifier that an unmapped row has not had before.
LEMMA NewIdIsNew ==
  ASSUME NEW d, NEW r \in Rows, d.mapped[r] = NoId
  PROVE  NewId(d, r) \in Ids(r)
<1>1. <<r, 1>> \in Ids(r) /\ <<r, 2>> \in Ids(r)
  BY DEF Ids
<1>2. /\ <<r, 1>> # <<r, 2>> /\ <<r, 1>> # <<r, 0>> /\ <<r, 2>> # <<r, 0>>
      /\ <<r, 1>> # NoId /\ <<r, 2>> # NoId
  BY DEF NoId
<1>3. \E id \in Ids(r) : id \notin {d.uuid[r], d.mapped[r], <<r, 0>>}
  BY <1>1, <1>2
<1>4. QED  BY <1>3 DEF NewId

LEMMA StatementIsTyped ==
  ASSUME working \in States, NEW r \in Rows, NEW table \in {"id_map", "customers", "orders"}
  PROVE  /\ Statement(table, r) \in StatementsOf(Rows)
         /\ Statement(table, r).table = table /\ Statement(table, r).row = r
<1> DEFINE id == IF working.mapped[r] = NoId THEN NewId(working, r) ELSE working.mapped[r]
<1>1. id \in AllIds
  BY NewIdIsNew DEF States, AllIds
<1>2. Statement(table, r) = [table |-> table, row |-> r, id |-> id]
  BY DEF Statement
<1> HIDE DEF id
<1>3. QED  BY <1>1, <1>2 DEF StatementsOf

LEMMA Families ==
  /\ Orders \subseteq Rows /\ Customers \subseteq Rows
  /\ \A o \in Orders : Owner[o] \in Customers /\ Owner[o] \in Rows
  /\ \A r \in Rows : r \in Orders <=> r \notin Customers
  /\ Nobody \notin Runs
BY MigrationAssumption DEF Rows

LEMMA ChunkIsUnmigrated ==
  Chunk \subseteq Customers /\ \A c \in Chunk : working.uuid[c] = NoId
BY DEF Chunk

\* A statement writes its own row, and an order's reference to its customer.
LEMMA WrittenRow ==
  ASSUME working \in States, NEW s \in StatementsOf(Rows), s.table = "orders" => s.row \in Orders
  PROVE  /\ Written(s) \in States
         /\ \A r \in Rows :
              /\ Written(s).mapped[r] =
                   IF s.table = "id_map" /\ r = s.row THEN s.id ELSE working.mapped[r]
              /\ Written(s).uuid[r] =
                   IF s.table # "id_map" /\ r = s.row THEN s.id ELSE working.uuid[r]
<1>1. s.row \in Rows /\ s.id \in AllIds /\ s.table \in {"id_map", "customers", "orders"}
  BY DEF StatementsOf
<1>2. /\ working.uuid \in [Rows -> AllIds] /\ working.mapped \in [Rows -> AllIds]
      /\ working.foreign \in [Orders -> AllIds]
  BY DEF States
<1>3. CASE s.table = "id_map"
  <2> DEFINE m == [working.mapped EXCEPT ![s.row] = s.id]
  <2>1. m \in [Rows -> AllIds] /\ \A r \in Rows : m[r] = IF r = s.row THEN s.id ELSE working.mapped[r]
    BY <1>1, <1>2
  <2>2. Written(s) = [working EXCEPT !.mapped = m]
    BY <1>3 DEF Written
  <2> HIDE DEF m
  <2>3. Written(s) \in States /\ Written(s).mapped = m /\ Written(s).uuid = working.uuid
    BY <2>1, <2>2 DEF States
  <2>4. QED  BY <1>3, <2>1, <2>3
<1>4. CASE s.table # "id_map"
  <2> DEFINE u == [working.uuid EXCEPT ![s.row] = s.id]
  <2>1. u \in [Rows -> AllIds] /\ \A r \in Rows : u[r] = IF r = s.row THEN s.id ELSE working.uuid[r]
    BY <1>1, <1>2
  <2>2. /\ Written(s) \in States /\ Written(s).uuid = u
        /\ Written(s).mapped = working.mapped
    <3>1. CASE s.table = "customers"
      <4>1. Written(s) = [working EXCEPT !.uuid = u]
        BY <3>1 DEF Written
      <4> HIDE DEF u
      <4>2. QED  BY <2>1, <4>1 DEF States
    <3>2. CASE s.table = "orders"
      <4> DEFINE x == working.mapped[Owner[s.row]]
                 f == [working.foreign EXCEPT ![s.row] = x]
      <4>1. x \in AllIds
        BY <1>2, <3>2, Families
      <4> HIDE DEF x
      <4>2. f \in [Orders -> AllIds]
        BY <1>2, <4>1
      <4>3. Written(s) = [working EXCEPT !.uuid = u, !.foreign = f]
        BY <3>2 DEF Written, x
      <4> HIDE DEF u, f
      <4>4. QED  BY <2>1, <4>2, <4>3 DEF States
    <3>3. QED  BY <1>1, <1>4, <3>1, <3>2
  <2> HIDE DEF u
  <2>3. QED  BY <1>4, <2>1, <2>2
<1>5. QED  BY <1>3, <1>4

(***************************************************************************)
(* The steps.                                                              *)
(***************************************************************************)
LEMMA InitInv == Init => IInv /\ Promise!Init
<1> SUFFICES ASSUME Init PROVE IInv /\ Promise!Init
  OBVIOUS
<1> DEFINE u == [r \in Rows |-> NoId]
           f == [o \in Orders |-> NoId]
           m == [r \in Rows |-> IF r \in Assigned THEN <<r, 0>> ELSE NoId]
<1>1. u \in [Rows -> AllIds] /\ f \in [Orders -> AllIds] /\ m \in [Rows -> AllIds]
  <2>1. NoId \in AllIds /\ \A r \in Rows : <<r, 0>> \in AllIds
    BY DEF AllIds, Ids
  <2>2. QED  BY <2>1
<1>2. database = [uuid |-> u, foreign |-> f, mapped |-> m]
  BY DEF Init
<1>3. (\A r \in Rows : u[r] = NoId) /\ (\A o \in Orders : f[o] = NoId)
  OBVIOUS
<1>4. u = [r \in Rows |-> NoId]
  OBVIOUS
<1> HIDE DEF u, f, m
<1>5. /\ database \in States
      /\ database.uuid = u /\ database.foreign = f /\ database.mapped = m
  BY <1>1, <1>2 DEF States
<1>6. TypeOK
  <2>1. seen \in [Runs -> [Rows -> AllIds]] /\ at \in [Runs -> Places]
    BY DEF Init, NothingSeen, AllIds, Places
  <2>2. \A w \in Runs : writer # w /\ at[w] = "down"
    BY MigrationAssumption DEF Init
  <2>3. QED  BY <1>5, <2>1, <2>2, MigrationAssumption DEF Init, TypeOK, States, AllIds
<1>7. RelationshipsAgree /\ MappedInv
  BY <1>3, <1>5, Families DEF RelationshipsAgree, MappedInv
<1>8. WorkingInv /\ TodoInv
  BY <1>3, <1>5, MigrationAssumption DEF Init, WorkingInv, TodoInv
<1>9. Promise!Init
  BY <1>1, <1>4, <1>5 DEF Promise!Init, Promise!Rows, Promise!NoId, Rows, NoId, AllIds
<1>10. QED  BY <1>6, <1>7, <1>8, <1>9 DEF IInv

\* The transaction ends as it should: nothing is left of it but what is durable.
LEMMA EndsClean ==
  ASSUME TypeOK, NEW w \in Runs, writer = w, NEW next \in {"down", "looping", "relationships"},
         EndTransaction(w, next), database' \in States, misdated' \subseteq Misdated,
         mishaps' \in 0 .. MaxMishaps
  PROVE  TypeOK' /\ WorkingInv' /\ TodoInv'
<1>1. /\ writer' = Nobody /\ working' = database' /\ todo' = {}
      /\ at' = [at EXCEPT ![w] = next] /\ UNCHANGED seen
      /\ next \in Places \ {"loading", "writing"}
  BY DEF EndTransaction, Places
<1>2. /\ at \in [Runs -> Places]
      /\ \A v \in Runs : v # w => at[v] \notin {"loading", "writing"}
      /\ Nobody \notin Runs
  BY TypeOKStates, Families
<1>3. /\ at' \in [Runs -> Places]
      /\ \A v \in Runs : at'[v] \notin {"loading", "writing"}
  BY <1>1, <1>2
<1>4. TypeOK'
  <2>1. \A v \in Runs : writer' # v
    BY <1>1, <1>2
  <2>2. seen' \in [Runs -> [Rows -> AllIds]]
    BY <1>1, TypeOKStates
  <2>3. QED  BY <1>1, <1>3, <2>1, <2>2 DEF TypeOK, States, AllIds
<1>5. WorkingInv' /\ TodoInv'
  BY <1>1, <1>3 DEF WorkingInv, TodoInv
<1>6. QED  BY <1>4, <1>5

\* A step that changes nothing durable changes nothing that Backfill sees.
LEMMA NothingDurable ==
  ASSUME IInv, UNCHANGED database
  PROVE  RelationshipsAgree' /\ MappedInv' /\ UNCHANGED Promise!absVars
BY DEF IInv, RelationshipsAgree, MappedInv, Promise!absVars

Seen == [Promise!Next]_(Promise!absVars)

LEMMA RaiseKeeps ==
  ASSUME IInv, NEW w \in Runs, writer = w, Raise(w), mishaps' \in 0 .. MaxMishaps
  PROVE  IInv' /\ Seen
<1>1. UNCHANGED <<database, misdated>> /\ EndTransaction(w, "down")
  BY DEF Raise
<1>2. TypeOK /\ database' \in States /\ misdated' \subseteq Misdated
  BY <1>1, TypeOKStates DEF IInv
<1>3. QED  BY <1>1, <1>2, EndsClean, NothingDurable DEF IInv, Seen

\* What the last verify() has read are identifiers.
LEMMA SeenIsTyped ==
  ASSUME TypeOK, NEW w \in Runs, CheckRelationships(w) \/ ReadRows(w) \/ Report(w)
  PROVE  seen' \in [Runs -> [Rows -> AllIds]]
<1>1. /\ seen \in [Runs -> [Rows -> AllIds]] /\ database.uuid \in [Rows -> AllIds]
      /\ NothingSeen \in [Rows -> AllIds]
  BY TypeOKStates DEF States, AllIds, NothingSeen
<1>2. PICK f \in [Rows -> AllIds] : seen' = [seen EXCEPT ![w] = f] \/ seen' = seen
  <2>1. CASE CheckRelationships(w)
    BY <1>1, <2>1 DEF CheckRelationships
  <2>2. CASE ReadRows(w)
    <3>1. PICK table, rows, next : ReadTable(w, table, rows, next)
      BY <2>2 DEF ReadRows
    <3> DEFINE read == [r \in Rows |-> IF r \in rows THEN database.uuid[r] ELSE seen[w][r]]
    <3>2. read \in [Rows -> AllIds]
      BY <1>1
    <3>3. seen' = [seen EXCEPT ![w] = read] \/ seen' = [seen EXCEPT ![w] = NothingSeen]
      BY <1>1, <3>1 DEF ReadTable
    <3> HIDE DEF read
    <3>4. QED  BY <1>1, <3>2, <3>3
  <2>3. CASE Report(w)
    BY <1>1, <2>3 DEF Report
  <2>4. QED  BY <2>1, <2>2, <2>3
<1>3. QED  BY <1>1, <1>2

\* A step of a run that is not in a transaction, and begins none.
LEMMA OutsideKeeps ==
  ASSUME IInv, NEW w \in Runs,
         Start(w) \/ Locked(w) \/ CheckRelationships(w) \/ ReadRows(w) \/ Report(w)
  PROVE  IInv' /\ Seen
<1> DEFINE Outside == Places \ {"loading", "writing"}
<1>1. PICK next \in Outside :
        /\ at' = [at EXCEPT ![w] = next] /\ at[w] \in Outside
        /\ UNCHANGED <<database, misdated, writer, working, todo, mishaps>>
  <2>1. CASE Start(w) \/ Locked(w)
    BY <2>1 DEF Start, Locked, Places
  <2>2. CASE CheckRelationships(w) \/ Report(w)
    BY <2>2 DEF CheckRelationships, Report, Places
  <2>3. CASE ReadRows(w)
    BY <2>3 DEF ReadRows, ReadTable, Places
  <2>4. QED  BY <2>1, <2>2, <2>3
<1>2. seen' \in [Runs -> [Rows -> AllIds]]
  <2>1. CASE Start(w) \/ Locked(w)
    BY <2>1, TypeOKStates DEF Start, Locked, IInv
  <2>2. QED  BY <2>1, SeenIsTyped DEF IInv
<1>3. /\ at' \in [Runs -> Places]
      /\ \A v \in Runs : /\ at[v] = "loading" <=> at'[v] = "loading"
                         /\ at[v] = "writing" <=> at'[v] = "writing"
  BY <1>1, TypeOKStates DEF IInv
<1>4. TypeOK'
  BY <1>1, <1>2, <1>3 DEF IInv, TypeOK, AllIds
<1>5. WorkingInv' /\ TodoInv'
  BY <1>1, <1>3 DEF IInv, WorkingInv, TodoInv
<1>6. QED  BY <1>1, <1>4, <1>5, NothingDurable DEF IInv, Seen

LEMMA BeginKeeps ==
  ASSUME IInv, NEW w \in Runs, Begin(w)
  PROVE  IInv' /\ Seen
<1>1. /\ at' = [at EXCEPT ![w] = "loading"] /\ writer = Nobody /\ writer' = w
      /\ working' = database /\ todo = {}
      /\ UNCHANGED <<database, misdated, todo, seen, mishaps>>
  BY TypeOKStates DEF Begin, IInv
<1>2. /\ at \in [Runs -> Places]
      /\ \A v \in Runs : at[v] \notin {"loading", "writing"}
      /\ Nobody \notin Runs
  BY <1>1, TypeOKStates, Families DEF IInv
<1>3. /\ at' \in [Runs -> Places]
      /\ \A v \in Runs : writer' = v <=> at'[v] \in {"loading", "writing"}
  BY <1>1, <1>2 DEF Places
<1>4. TypeOK'
  BY <1>1, <1>2, <1>3 DEF IInv, TypeOK
<1>5. WorkingInv' /\ TodoInv'
  BY <1>1 DEF IInv, WorkingInv, TodoInv
<1>6. QED  BY <1>1, <1>4, <1>5, NothingDurable DEF IInv, Seen

LEMMA CorrectKeeps ==
  ASSUME IInv, Correct
  PROVE  IInv' /\ Seen
<1>1. /\ misdated' \subseteq misdated
      /\ UNCHANGED <<database, writer, working, todo, at, seen, mishaps>>
  BY DEF Correct
<1>2. TypeOK'
  BY <1>1 DEF IInv, TypeOK
<1>3. WorkingInv' /\ TodoInv'
  BY <1>1 DEF IInv, WorkingInv, TodoInv
<1>4. QED  BY <1>1, <1>2, <1>3, NothingDurable DEF IInv, Seen

\* The batch: customers that are not migrated, and so their orders are not.
LEMMA LoadKeeps ==
  ASSUME IInv, NEW w \in Runs, Load(w)
  PROVE  IInv' /\ Seen
<1>1. /\ at[w] = "loading" /\ todo' = Statements(Chunk)
      /\ at' = [at EXCEPT ![w] = "writing"]
      /\ UNCHANGED <<database, misdated, writer, working, seen, mishaps>>
  BY DEF Load
<1>2. working = database /\ writer = w /\ database \in States
  BY <1>1, TypeOKStates DEF IInv, WorkingInv
<1>3. /\ at' \in [Runs -> Places]
      /\ \A v \in Runs : /\ at'[v] \in {"loading", "writing"} <=> at[v] \in {"loading", "writing"}
                         /\ at'[v] = "loading" => at[v] = "loading"
  BY <1>1, TypeOKStates DEF IInv, Places
<1>4. TypeOK'
  BY <1>1, <1>2, <1>3, Families DEF IInv, TypeOK
<1>5. WorkingInv'
  BY <1>1, <1>3 DEF IInv, WorkingInv
<1>6. ASSUME NEW s \in Statements(Chunk)
      PROVE  /\ s \in StatementsOf(Rows)
             /\ s.table = "id_map" => database.mapped[s.row] = NoId
             /\ s.table # "id_map" => database.uuid[s.row] = NoId
             /\ s.table = "orders" => s.row \in Orders
  <2>1. CASE \E r \in Missing(Chunk \cup OrdersOf(Chunk)) : s = Statement("id_map", r)
    <3>1. PICK r \in Missing(Chunk \cup OrdersOf(Chunk)) : s = Statement("id_map", r)
      BY <2>1
    <3>2. r \in Rows /\ working.mapped[r] = NoId
      BY ChunkIsUnmigrated, Families DEF Missing, OrdersOf
    <3>3. QED  BY <1>2, <3>1, <3>2, StatementIsTyped
  <2>2. CASE \E c \in Chunk : s = Statement("customers", c)
    BY <1>2, <2>2, StatementIsTyped, ChunkIsUnmigrated, Families
  <2>3. CASE \E o \in OrdersOf(Chunk) : s = Statement("orders", o)
    <3>1. PICK o \in OrdersOf(Chunk) : s = Statement("orders", o)
      BY <2>3
    <3>2. o \in Orders /\ o \in Rows /\ database.uuid[Owner[o]] = NoId
      BY <1>2, ChunkIsUnmigrated, Families DEF OrdersOf
    <3>3. database.uuid[o] = NoId
      BY <3>2 DEF IInv, RelationshipsAgree
    <3>4. QED  BY <1>2, <3>1, <3>2, <3>3, StatementIsTyped
  <2>4. QED  BY <2>1, <2>2, <2>3 DEF Statements
<1>7. TodoInv'
  BY <1>1, <1>6 DEF TodoInv, StatementsOf, AllIds
<1>8. QED  BY <1>1, <1>4, <1>5, <1>7, NothingDurable DEF IInv, Seen

LEMMA LoadedKeeps ==
  ASSUME IInv, NEW w \in Runs, LoadNothing(w) \/ LoadRefused(w)
  PROVE  IInv' /\ Seen
<1>1. writer = w /\ mishaps' \in 0 .. MaxMishaps /\ TypeOK /\ database \in States
      /\ misdated \subseteq Misdated
  BY TypeOKStates DEF LoadNothing, LoadRefused, IInv
<1>2. CASE LoadRefused(w)
  BY <1>1, <1>2, RaiseKeeps DEF LoadRefused
<1>3. CASE LoadNothing(w)
  <2>1. UNCHANGED <<database, misdated>> /\ EndTransaction(w, "relationships")
    BY <1>3 DEF LoadNothing
  <2>2. QED  BY <1>1, <2>1, EndsClean, NothingDurable DEF IInv, Seen
<1>4. QED  BY <1>2, <1>3

LEMMA ExecuteKeeps ==
  ASSUME IInv, NEW w \in Runs, Execute(w)
  PROVE  IInv' /\ Seen
<1>1. /\ at[w] = "writing" /\ writer = w /\ UNCHANGED mishaps /\ mishaps \in 0 .. MaxMishaps
      /\ working \in States /\ w # Nobody
  BY TypeOKStates, Families DEF Execute, IInv
<1>2. CASE Raise(w)
  BY <1>1, <1>2, RaiseKeeps
<1>3. CASE ~ Raise(w)
  <2>1. PICK s \in todo :
          /\ working' = Written(s) /\ todo' = todo \ {s}
          /\ UNCHANGED <<database, misdated, writer, at, seen>>
    BY <1>3 DEF Execute
  <2>2. /\ s \in StatementsOf(Rows)
        /\ s.table = "id_map" => database.mapped[s.row] = NoId
        /\ s.table # "id_map" => database.uuid[s.row] = NoId
        /\ s.table = "orders" => s.row \in Orders
    BY <2>1 DEF IInv, TodoInv
  <2>3. /\ working' \in States
        /\ \A r \in Rows :
             /\ working'.mapped[r] =
                  IF s.table = "id_map" /\ r = s.row THEN s.id ELSE working.mapped[r]
             /\ working'.uuid[r] =
                  IF s.table # "id_map" /\ r = s.row THEN s.id ELSE working.uuid[r]
    BY <1>1, <2>1, <2>2, WrittenRow
  <2>4. \A v \in Runs : at[v] # "loading"
    BY <1>1, TypeOKStates DEF IInv
  <2>5. TypeOK'
    BY <1>1, <2>1, <2>3 DEF IInv, TypeOK, States, AllIds
  <2>6. WorkingInv'
    BY <2>1, <2>2, <2>3, <2>4 DEF IInv, WorkingInv
  <2>7. TodoInv'
    BY <2>1 DEF IInv, TodoInv, StatementsOf, AllIds
  <2>8. QED  BY <2>1, <2>5, <2>6, <2>7, NothingDurable DEF IInv, Seen
<1>4. QED  BY <1>2, <1>3

\* A commit migrates the families of the customers that it gives an identifier.
LEMMA CommitKeeps ==
  ASSUME IInv, NEW w \in Runs, Commit(w)
  PROVE  IInv' /\ Seen
<1>1. /\ writer = w /\ UNCHANGED mishaps /\ mishaps \in 0 .. MaxMishaps
      /\ working \in States /\ misdated \subseteq Misdated
  BY TypeOKStates DEF Commit, IInv
<1>2. CASE ~ Verified(working)
  BY <1>1, <1>2, RaiseKeeps DEF Commit
<1>3. CASE Verified(working)
  <2>1. PICK next \in {"relationships", "looping"} :
          /\ database' = working /\ EndTransaction(w, next) /\ UNCHANGED misdated
    BY <1>3 DEF Commit
  <2>2. TypeOK' /\ WorkingInv' /\ TodoInv'
    BY <1>1, <2>1, EndsClean DEF IInv
  <2>3. /\ \A o \in Orders : /\ database'.foreign[o] = database'.uuid[Owner[o]]
                             /\ database'.uuid[o] = NoId <=> database'.uuid[Owner[o]] = NoId
        /\ \A r \in Rows : /\ database'.uuid[r] # NoId => database'.uuid[r] \in Ids(r)
                           /\ database'.mapped[r] = database'.uuid[r]
    BY <1>3, <2>1, Families DEF Verified, RelationshipsHold, Stamped
  <2>4. RelationshipsAgree' /\ MappedInv'
    BY <2>3 DEF RelationshipsAgree, MappedInv
  <2>5. \A r \in Rows :
          /\ database.uuid[r] # NoId => /\ database'.uuid[r] = database.uuid[r]
                                        /\ database.mapped[r] = database.uuid[r]
          /\ database.mapped[r] # NoId => database'.mapped[r] = database.mapped[r]
    BY <2>1 DEF IInv, WorkingInv, MappedInv
  <2> DEFINE cs == {c \in Customers : database.uuid[c] = NoId /\ database'.uuid[c] # NoId}
             rows == UNION {Promise!Family(c) : c \in cs}
  <2>6. \A r \in Rows :
          r \in rows <=> database.uuid[r] = NoId /\ database'.uuid[r] # NoId
    <3>1. ASSUME NEW c \in Customers
          PROVE  c \in rows <=> c \in cs
      BY <3>1, Families DEF Promise!Family
    <3>2. ASSUME NEW o \in Orders
          PROVE  o \in rows <=> Owner[o] \in cs
      BY <3>2, Families DEF Promise!Family
    <3>3. \A o \in Orders : /\ database.uuid[o] = NoId <=> database.uuid[Owner[o]] = NoId
                            /\ database'.uuid[o] = NoId <=> database'.uuid[Owner[o]] = NoId
      BY <2>3 DEF IInv, RelationshipsAgree
    <3> HIDE DEF rows
    <3>4. QED  BY <3>1, <3>2, <3>3, Families DEF Rows
  <2>7. ASSUME NEW r \in Rows, r \in rows
        PROVE  /\ database'.uuid[r] \in Ids(r)
               /\ database.mapped[r] # NoId => database'.uuid[r] = database.mapped[r]
               /\ database'.mapped[r] = database'.uuid[r]
    BY <2>3, <2>5, <2>6, <2>7
  <2>8. ASSUME NEW r \in Rows, r \notin rows
        PROVE  database'.uuid[r] = database.uuid[r] /\ database'.mapped[r] = database.mapped[r]
    BY <2>3, <2>5, <2>6, <2>8
  <2>9. Promise!Migrate(cs)
    <3>1. \A c \in cs : database.uuid[c] = NoId
      OBVIOUS
    <3> HIDE DEF cs
    <3>2. QED  BY <2>7, <2>8, <3>1 DEF Promise!Migrate, Promise!Rows, Promise!NoId, Rows, NoId
  <2>10. Seen
    <3>1. CASE cs # {}
      <4>1. cs \in (SUBSET Customers) \ {{}}
        BY <3>1
      <4> HIDE DEF cs
      <4>2. QED  BY <2>9, <4>1 DEF Seen, Promise!Next
    <3>2. CASE cs = {}
      <4>1. rows = {}
        BY <3>2
      <4> HIDE DEF rows, cs
      <4>2. \A r \in Rows : /\ database'.uuid[r] = database.uuid[r]
                            /\ database'.mapped[r] = database.mapped[r]
        BY <2>8, <4>1
      <4>3. database \in States /\ database' \in States
        BY <1>1, <2>1, TypeOKStates DEF IInv
      <4>4. database'.uuid = database.uuid /\ database'.mapped = database.mapped
        BY <4>2, <4>3 DEF States
      <4>5. QED  BY <4>4 DEF Seen, Promise!absVars
    <3>3. QED  BY <3>1, <3>2
  <2>11. QED  BY <2>2, <2>4, <2>10 DEF IInv
<1>4. QED  BY <1>2, <1>3

LEMMA MishapKeeps ==
  ASSUME IInv, NEW w \in Runs, Mishap(w)
  PROVE  IInv' /\ Seen
<1>1. mishaps' \in 0 .. MaxMishaps
  BY MigrationAssumption, TypeOKStates DEF Mishap, IInv
<1>2. QED  BY <1>1, RaiseKeeps DEF Mishap

LEMMA StepKeeps == IInv /\ [Next]_vars => IInv' /\ Seen
<1> SUFFICES ASSUME IInv, [Next]_vars PROVE IInv' /\ Seen
  OBVIOUS
<1>1. CASE UNCHANGED vars
  <2>1. TypeOK' /\ WorkingInv' /\ TodoInv' /\ UNCHANGED database
    BY <1>1 DEF vars, IInv, TypeOK, WorkingInv, TodoInv
  <2>2. QED  BY <2>1, NothingDurable DEF IInv, Seen
<1>2. CASE Correct
  BY <1>2, CorrectKeeps
<1>3. ASSUME NEW w \in Runs, Step(w) \/ Mishap(w)
      PROVE  IInv' /\ Seen
  BY <1>3, OutsideKeeps, BeginKeeps, LoadKeeps, LoadedKeeps, ExecuteKeeps, CommitKeeps,
     MishapKeeps DEF Step
<1>4. QED  BY <1>1, <1>2, <1>3 DEF Next

LEMMA Invariance == Spec => []IInv
<1>1. Init => IInv
  BY InitInv
<1>2. IInv /\ [Next]_vars => IInv'
  BY StepKeeps
<1>3. QED  BY <1>1, <1>2, PTL DEF Spec

(***************************************************************************)
(* The theorems.                                                           *)
(***************************************************************************)
\* A transaction is open exactly while its run is in migrate_batch, whichever
\* way it ends, and outside it nothing is left of what it wrote.
THEOREM TypeCorrectness == Spec => []TypeOK
<1>1. IInv => TypeOK
  BY DEF IInv
<1>2. QED  BY <1>1, Invariance, PTL

\* In every committed state an order refers to its own customer, by the new
\* identifiers exactly as by the old keys.
THEOREM Relationships == Spec => []RelationshipsAgree
<1>1. IInv => RelationshipsAgree
  BY DEF IInv
<1>2. QED  BY <1>1, Invariance, PTL

\* What migrate_batch commits is a migration of whole families, every row for
\* good and under the identifier that was persisted for it if there was one.
THEOREM Refinement == Spec => WholeFamilies
<1>1. Init => Promise!Init
  BY InitInv
<1>2. IInv /\ [Next]_vars => [Promise!Next]_(Promise!absVars)
  BY StepKeeps DEF Seen
<1>3. QED
  BY <1>1, <1>2, Invariance, PTL DEF Spec, WholeFamilies, Promise!Spec
=============================================================================

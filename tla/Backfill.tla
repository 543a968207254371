------------------------------ MODULE Backfill ------------------------------
(***************************************************************************)
(* What the historical migration promises of the database, commit by       *)
(* commit: customers become migrated together with all their orders, every *)
(* row for good, under an identifier that carries the row's own timestamp  *)
(* and that was reserved for the row if one was.                           *)
(***************************************************************************)
CONSTANTS Customers, Orders,
          Owner,       \* the customer of each order
          Ids(_)       \* the identifiers that carry a row's timestamp

Rows == Customers \cup Orders
NoId == <<>>
Family(c) == {c} \cup {o \in Orders : Owner[o] = c}

VARIABLES uuid,        \* of each row, or NoId
          reserved     \* the persisted assignment of each row, or NoId

absVars == <<uuid, reserved>>

Init ==
  /\ uuid = [r \in Rows |-> NoId]
  /\ reserved \in [Rows -> (UNION {Ids(r) : r \in Rows}) \cup {NoId}]

Migrate(cs) ==
  LET rows == UNION {Family(c) : c \in cs}
  IN  /\ \A c \in cs : uuid[c] = NoId
      /\ \A r \in Rows :
           /\ r \in rows => /\ uuid'[r] \in Ids(r)
                            /\ reserved[r] # NoId => uuid'[r] = reserved[r]
                            /\ reserved'[r] = uuid'[r]
           /\ r \notin rows => uuid'[r] = uuid[r] /\ reserved'[r] = reserved[r]

Next == \E cs \in (SUBSET Customers) \ {{}} : Migrate(cs)

Spec == Init /\ [][Next]_absVars
=============================================================================

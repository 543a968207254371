SPECIFICATION Spec
CONSTANTS
  Customers <- MCCustomers
  Orders <- MCOrders
  Owner <- MCOwner
  Assigned <- FirstBatchOnly
  Misdated <- OneMisdated
  BatchSize = 2
  Runs = {r1, r2}
  Limited = {r2}
  MaxMishaps = 2
INVARIANTS
  TypeOK
  RelationshipsAgree
PROPERTIES
  WholeFamilies
  Completes
CHECK_DEADLOCK FALSE

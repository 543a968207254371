SPECIFICATION Spec
CONSTANTS
  Customers <- MCCustomers
  Orders <- MCOrders
  Owner <- MCOwner
  Assigned <- SecondBatchToo
  Misdated <- OneMisdated
  BatchSize = 2
  Runs = {r1, r2}
  Limited = {r2}
  MaxMishaps = 2
PROPERTIES
  Completes
CHECK_DEADLOCK FALSE

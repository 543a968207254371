SPECIFICATION LayoutSpec
CONSTANT Pairs <- MCPairs
INVARIANTS
  FormsAgree
  OrderIsKept
  TimeIsExact

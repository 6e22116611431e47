\* The same requests: a query that names a path field by its JSON name
\* reaches the gRPC request.
CONSTANTS
  h1 = h1
  h2 = h2
  v7 = v7
  v8 = v8
  vx = vx
  Vals <- MCVals
  IntVals <- MCIntVals
  Handlers = {h1}
  Requests <- MCRequests
SPECIFICATION Spec
INVARIANT PathWins
\* A failed dial ends registration; nothing else can happen.
CHECK_DEADLOCK FALSE

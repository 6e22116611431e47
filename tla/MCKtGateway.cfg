\* Every request of every route through one handler goroutine, racing the
\* caller's cancellation and the goroutine that closes the connection.
CONSTANTS
  h1 = h1
  h2 = h2
  v7 = v7
  v8 = v8
  vx = vx
  Vals <- MCVals
  IntVals <- MCIntVals
  Handlers = {h1}
  Requests <- MCRequests
SPECIFICATION Spec
INVARIANT PathOverriddenOnlyByAlias
INVARIANT ConnOpenWhileLive
PROPERTY ConnReleased
\* A failed dial ends registration; nothing else can happen.
CHECK_DEADLOCK FALSE

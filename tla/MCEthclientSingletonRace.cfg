\* Three goroutines call GetEthclientInstance concurrently.
CONSTANTS
  p1 = p1
  p2 = p2
  p3 = p3
  Callers <- MCCallers
SPECIFICATION Spec
INVARIANT OneClient

\* Chains of up to six headers, forks included; a 4-bit stand-in for uint64.
CONSTANTS
  NoHash = NoHash
  MaxUint = 15
  MaxBlocks = 6
SPECIFICATION Spec
INVARIANT GetHashMatchesAncestor
\* The chain stops growing at MaxBlocks headers.
CHECK_DEADLOCK FALSE

\* One loader storing every list in turn while the walker reads the signers.
CONSTANTS
  A = A
  B = B
  K = K
  l1 = l1
  l2 = l2
  Addr = {A, B, K}
  NoAddr = NoAddr
  Key = K
  Loaders = {l1}
  Lists <- MCLists
  MaxLoads = 4
SPECIFICATION Spec
INVARIANT SignersWhole

\* Four accounts holding 3, 2, 1 and 0, amounts 0..4, every sequence of
\* value calls.
CONSTANTS
  a1 = a1
  a2 = a2
  a3 = a3
  a4 = a4
  Accounts = {a1, a2, a3, a4}
  Amounts = {0, 1, 2, 3, 4}
  Genesis <- MCGenesis
SPECIFICATION Spec
INVARIANT NoOverdraft
PROPERTY TransfersConserve

\* ValidateBlock as the only caller of LoadStatusFromChief.
CONSTANTS
  A = A
  B = B
  C = C
  Addr = {A, B, C}
  NoAddr = NoAddr
  Diff = 6
  DiffInTurnMain = 3
  DiffInTurn = 2
  DiffNoTurn = 1
  ChiefNumber = 3
  SIP002Height = 4
  SIP100Height = 5
  Chief006Height = 4
  Chief100Height = 5
  Heights <- MCHeights
  Keys = {A}
  StatusSet <- MCStatuses
  MaxTasks = 1
  Blocks <- MCBlocks
SPECIFICATION Spec
INVARIANT AcceptedMatchesOwnStatus
\* A panic ends the process: the states it leaves have no successor.
CHECK_DEADLOCK FALSE

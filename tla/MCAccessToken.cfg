CONSTANTS
  Callers = {a, b}
  Lifetimes = {0, 3, 5}
  DefaultLife = 6
  Margin = 3
  MaxWait = 1
  MaxTime = 14
  MaxLife = 6

SPECIFICATION Spec

INVARIANTS
  TypeOK
  ExpiryMatchesToken
  TokenOutlivesRequest

CHECK_DEADLOCK FALSE

CONSTANTS
  Keys = {k1, k2}
  EmptyKey = none
  Callers = {a, b}
  TTL = 2
  MaxLag = 1
  MaxTime = 7
  NoTime = NoTime

SPECIFICATION Spec

INVARIANTS
  TypeOK
  EntryCoversWindow

PROPERTY
  ImplementsWindow


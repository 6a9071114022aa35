CONSTANTS
  m1 = m1
  m2 = m2
  a = a
  b = b
  c = c
  Messages = {m1, m2}
  Jobs = {a, b, c}
  MessageOf <- MCMessageOf
  Emojis = {1, 3}
  NoReaction = NoReaction

SPECIFICATION Spec

INVARIANTS
  TypeOK
  InStep

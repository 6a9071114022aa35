CONSTANTS
  Messages = {m1}
  Texts = {sorry}
  Apology = sorry
  Placeholder = thinking
  NoText = NoText
  Emojis = {3}
  NoReaction = NoReaction
  Modes = {FALSE}
  MaxDeliveries = 2
  MaxRestarts = 1

SPECIFICATION FairSpec

INVARIANTS
  TypeOK
  OneJobPerMessage

PROPERTIES
  KeepsPromise
  EventuallyAnswered

CHECK_DEADLOCK FALSE

CONSTANTS
  Messages = {m1}
  Texts = {part, whole, sorry}
  Apology = sorry
  Placeholder = thinking
  NoText = NoText
  Emojis = {2, 3}
  NoReaction = NoReaction
  Modes = {TRUE, FALSE}
  MaxDeliveries = 1
  MaxRestarts = 1

SPECIFICATION Spec

INVARIANTS
  SentIsShown
  FailedIsUnsaid
  AnswerShownOnce
  EmojiTellsOutcome

PROPERTY
  KeepsPromise

CHECK_DEADLOCK FALSE

CONSTANTS
  Names = {}
  OldName <- MCOldName
  MaxLines = 0
  Callers = {"turn"}
  Texts = {"a"}
  Blank = ""
  Absent = "absent"
  Failure = "failure"
  MaxEdits = 0
  Skills = {}
  NoId = NoId
  Unknown = Unknown
  DefaultMax = 3
  LastMax = 8
  Followed = "turn"
  a1 = a1
  a2 = a2
  a3 = a3
  p = p
  q = q
  f = f
  g = g
  Responses <- MCResponses
  Styles <- MCStyles
  NoName = NoName

SPECIFICATION Spec

INVARIANTS
  ResponseReassembled
  NamedCallsWhole
  CallsPaired

\* A stream that was read to its end takes no more steps.
CHECK_DEADLOCK FALSE

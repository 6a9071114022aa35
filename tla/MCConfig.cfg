CONSTANTS
  Names = {"REACTION_PROCESSING_EMOJI", "STREAM_PLACEHOLDER"}
  OldName <- MCOldName
  MaxLines = 2
  Callers = {"turn"}
  Texts = {}
  Blank = ""
  Absent = "absent"
  Failure = "failure"
  MaxEdits = 0
  Skills = {}
  NoId = NoId
  Unknown = Unknown
  DefaultMax = 3
  LastMax = 8
  Followed = "turn"
  Responses <- MCResponses
  Styles <- MCStyles
  NoName = NoName

SPECIFICATION Spec

INVARIANT
  EmptySwitchesOff

CHECK_DEADLOCK FALSE

CONSTANTS
  t1 = t1
  t2 = t2
  s1 = s1
  s2 = s2
  Names = {"REACTION_RECEIVED_EMOJI", "ACK_REACTION_EMOJI"}
  OldName <- MCOldName
  MaxLines = 3
  Callers = {t1, t2}
  Texts = {"a", "b"}
  Blank = ""
  Absent = "absent"
  Failure = "failure"
  MaxEdits = 2
  Skills <- MCSkills
  NoId = NoId
  Unknown = Unknown
  DefaultMax = 3
  LastMax = 8
  Responses <- MCResponses
  Styles <- MCStyles
  NoName = NoName
  Followed = t1

SPECIFICATION Spec

INVARIANTS
  SourcesRank
  LoadIsRecent
  RefusedWhenTooLong

PROPERTIES
  RunsEnd

\* A turn ends with its skill here.
CHECK_DEADLOCK FALSE

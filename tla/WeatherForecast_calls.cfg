SPECIFICATION Spec
CONSTANTS
  Regions <- States
  Abbreviation <- Codes
  Qualifiers <- SomeQualifiers
  Days <- EdgeDays
  Hours <- EdgeHours
  CurrentContents <- SomeCurrent
  ColumnContents <- SomeColumns
PROPERTY ArgumentsFollowSchema
PROPERTY FailuresNameTheirCause
PROPERTY AnswersFollowTheReplies
CHECK_DEADLOCK FALSE

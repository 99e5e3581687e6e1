CONSTANTS
  Break <- MCBreak
  Sorry <- MCSorry
  OpeningTag = 91
  ClosingTag = 92
  Edge = 3
  Apis = {"responses", "chat"}
  OutputRetries = 1
  MaxAnswers = 3
  MaxSize = 5
  MaxItems = 2
  MaxSub = 1
  MaxTags = 2
SPECIFICATION Spec
CHECK_DEADLOCK FALSE
INVARIANTS
  AnswerIsWhole
  PartsSurviveStreaming
  HistoryTellsTheTurn
  TimelineTellsItsGaps

CONSTANTS
  Category <- MCCategory
  PerCategory = 1
  Answers <- MCAnswers
  Rounds <- MCRounds
  ThinkingBudget = 81920
  MaxTokens = 102400
  Cap = 262144
  KeepChats = FALSE
  MaxLines = 2
  MaxErrors = 1
SPECIFICATION GateSpec
INVARIANT SummaryCoversItems
CHECK_DEADLOCK FALSE

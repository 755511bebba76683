CONSTANTS
  Schedulers = {launchd, operator}
  Pids = {p1, p2}
  MaxRuns = 3
  MaxFaults = 2
  NoOne = NoOne
  Category <- MCCategory
  PerCategory = 1
  Answers <- MCAnswers
  Rounds <- MCRounds
  ThinkingBudget = 81920
  MaxTokens = 102400
  Cap = 262144
  KeepChats = FALSE
  MaxLines = 2
  MaxErrors = 1
  Backends <- MCBackends
  SeqQueries <- MCQueries
  BurstQueries <- MCQueries
  Workers = {w1, w2}
  Main = main_thread
  Engines = {e1, e2}
  MaxRequests = 3
  None = None
  ArgArms <- MCArms
  Control = "ddg"
  NoControl = ""
  MaxQueries = 2
  Burst = 1
  Count = 3
  Payloads <- MCPayloads
  SkipOwui = FALSE
  MaxUnread = 2
  ModelIds <- MCModelIds
  ClientBodies <- MCClientBodies
  UserValves <- MCUserValves
  Absent = Absent
SPECIFICATION ToolsSpec
INVARIANTS SoleReviewer OneThread ExitZeroIsEveryItem BudgetHeld AttributionExact ValidRoundHadControl OneMode FootgunsHeld
PROPERTIES ReviewSettles DeletedWasExported ReceiptIsEarned
CHECK_DEADLOCK FALSE

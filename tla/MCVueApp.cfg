\* Either app, four tasks after its first drawing, the scheduler after each.
SPECIFICATION Spec
CONSTANTS
  None = None
  Component <- MCComponent
  Mounted <- MCMounted
  Lists = {"settings", "sessions", "columns", "rows"}
  MaxAsks = 2
  Templates <- MCTemplates
  Declared <- MCDeclared
  Trees <- MCTrees
  Apps = {"adminApp", "opsApp"}
  PagesOf <- MCPagesOf
  FirstPage <- MCFirstPage
  Typed = {"x"}
  Answers <- MCAnswers
  Results <- MCResults
  MaxTasks = 4
  MaxRuns = 5
INVARIANTS
  KeptAliveOnce
  ShowsMeaning
PROPERTIES
  Drawn
  Scheduled
\* The tasks are bounded; a flush that stops is Drawn's business.
CHECK_DEADLOCK FALSE

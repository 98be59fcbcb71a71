\* Two requests, a history of five entries, one reload, on either screen.
SPECIFICATION Spec
CONSTANTS
  ResultPage <- MCResultPage
  MaxEntries = 5
  MaxAsks = 2
  MaxReloads = 1
  None = None
INVARIANTS ResultsFit AnswerSurfaces PageIsEntry BlankNeedsReload SwitchTells
\* The user may stop.
CHECK_DEADLOCK FALSE

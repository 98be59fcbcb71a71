\* Two sessions that come and go: calls in sequence, or two at a time.
SPECIFICATION MCSpec
CONSTANTS
  Session = {s1, s2}
  Handler = {h1, h2}
  Mortal = {s1, s2}
  Scripts <- MCScripts
  MaxCalls = 3
  MaxPoolCalls = 2
  None = None
INVARIANTS SerialNothingForeign SerialRegisteredIsRunning
PROPERTIES SerialAnswerIsOwn CallsEnd
\* Clients may stop calling for good; a call that hangs is CallsEnd's business.
CHECK_DEADLOCK FALSE

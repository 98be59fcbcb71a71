\* Calls in sequence, or two at a time: a login, request or logout may then
\* run during another's sweep.
SPECIFICATION MCSpec
CONSTANTS
  SessionId = {s1, s2, s3}
  Extra = {s3}
  Handler = {h1, h2}
  Timeout = 1
  Pause = 1
  ClockStart = 2
  MaxTime = 7
  PoolTime = 5
  None = None
INVARIANTS OrphanIsExpired NoClosedSession
INVARIANTS SerialWorkIsConnected SerialNoStrandedLogin
PROPERTIES CheckedMeansSwept IdleAtMostTwice CallsEnd
\* Clients may stop calling for good; a call that hangs is CallsEnd's business.
CHECK_DEADLOCK FALSE

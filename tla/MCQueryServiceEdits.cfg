\* An edit names one session and reaches another, calls one after the other.
SPECIFICATION MCSpec
CONSTANTS
  Session = {s1, s2}
  Handler = {h1}
  Mortal = {s1, s2}
  Scripts <- MCScripts
  MaxCalls = 3
  MaxPoolCalls = 2
  None = None
PROPERTIES EditsNamedSession
CHECK_DEADLOCK FALSE

\* A second call of the method takes the first one's result.
SPECIFICATION Spec
CONSTANTS
  Method = {m1, m2}
  MaxCalls = 3
SYMMETRY Symmetry
INVARIANTS CallbackRuns
\* The page may stop calling.
CHECK_DEADLOCK FALSE

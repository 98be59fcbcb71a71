\* Two sessions that store and read one history, the limit within reach.
SPECIFICATION Spec
CONSTANTS
  Session = {s1, s2}
  Command <- MCCommand
  a = a
  Semi = Semi
  Esc = Esc
  MaxHistory = 2
  InitStored <- MCInitStored
  None = None
INVARIANTS TypeOK
PROPERTIES StoredIsReadBack ForgetsOldest

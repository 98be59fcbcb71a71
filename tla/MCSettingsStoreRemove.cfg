\* A removed setting comes back: from the file, or from the defaults.
SPECIFICATION Spec
CONSTANTS
  server = server
  embedded = embedded
  own = own
  local = local
  open = open
  Name <- MCName
  Generic <- MCGeneric
  Options = {local, open}
  AllowsOthers = {open}
  DefaultOptions = local
  History = {"h1", "h2"}
  Key = {"k"}
  InitFiles <- MCInitFiles
  MaxTicker = 8
  None = None
PROPERTIES RemovedIsGone

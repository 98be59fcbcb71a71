\* Three settings, two of them generic; the console open to others or not.
SPECIFICATION Spec
CONSTANTS
  server = server
  embedded = embedded
  own = own
  local = local
  open = open
  Name <- MCName
  Generic <- MCGeneric
  Options = {local, open}
  AllowsOthers = {open}
  DefaultOptions = local
  History = {"h1", "h2"}
  Key = {"k"}
  InitFiles <- MCInitFiles
  MaxTicker = 3
  None = None
INVARIANTS TypeOK FileMirrorsMemory KeyOnlyForLocal
PROPERTIES LossesExplained ListedOnTop RecentListSpec

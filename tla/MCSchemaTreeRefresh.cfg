\* A second answer with fewer nodes leaves the end of the first one.
SPECIFICATION Spec
CONSTANTS
  Schema = {"public", "sales"}
  User = {"root", "guest"}
  Admin = {"root"}
  MaxTables = 1
  MaxCalls = 2
INVARIANTS RefreshReplaces
\* The database may come to rest and nobody ask for its tree.
CHECK_DEADLOCK FALSE

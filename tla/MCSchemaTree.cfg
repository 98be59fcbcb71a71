\* Two calls while tables, schemas and users come and go.
SPECIFICATION Spec
CONSTANTS
  Schema = {"public", "sales"}
  User = {"root", "guest"}
  Admin = {"root"}
  MaxTables = 1
  MaxCalls = 2
INVARIANTS NoHole FoldsAreLevels EveryFoldUnfolds UnderItsOwn
\* The database may come to rest and nobody ask for its tree.
CHECK_DEADLOCK FALSE

CONSTANTS
  Design = {"chip", "core"}
  Kwargs = {"none", "wide"}
  NoKwargs = "none"
  Value = {"slow", "fast"}
  Gives <- ByDesignAndKwargs
  Node = {1, 2}
  HasKey = {1}
  Debugged = {1}
  Checked = {2}
  MaxCommands = 3
SPECIFICATION Spec
INVARIANTS
  TypeOK
  MakefileIsBacked
  FilesAgree
  SavedIsARequest
PROPERTIES
  SavedIsGenerated
CHECK_DEADLOCK FALSE

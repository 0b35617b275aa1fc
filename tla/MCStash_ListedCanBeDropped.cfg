CONSTANTS
  User = {ann}
  Node = {foo}
  Hash = {h1, h2, h3}
  MaxCommands = 4
SPECIFICATION Spec
INVARIANT ListedCanBeDropped
CHECK_DEADLOCK FALSE

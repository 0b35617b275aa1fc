CONSTANTS
  User = {ann}
  Node = {foo}
  Hash = {h1, h2, h3}
  MaxCommands = 4
SPECIFICATION Unkilled
INVARIANT PulledIsWhole
CHECK_DEADLOCK FALSE

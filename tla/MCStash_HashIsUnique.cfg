CONSTANTS
  User = {ann, bob}
  Node = {foo}
  Hash = {h1, h2, h3}
  MaxCommands = 4
SPECIFICATION Unkilled
INVARIANT HashIsUnique
CHECK_DEADLOCK FALSE

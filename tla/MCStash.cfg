CONSTANTS
  User = {ann, bob}
  Node = {foo, bar}
  Hash = {h1, h2}
  MaxCommands = 5
SPECIFICATION Spec
SYMMETRY Symmetry
INVARIANTS
  TypeOK
  EntryPerItem
  ListedIsCopied
PROPERTIES
  OnlyDropDestroys
  PopKeepsTheNode
CHECK_DEADLOCK FALSE

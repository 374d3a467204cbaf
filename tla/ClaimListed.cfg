\* A second connection between connected nodes.
SPECIFICATION Spec
CONSTANTS
  None = None
  RelayOut = RelayOut
  RelayIn = RelayIn
  Spelling = {plain}
  Canonical = plain
  Node = {a, b}
  Conn = {c1, c2}
  MaxExits = 0
  MaxRelayed = 0
INVARIANT ConnectedIsListed
\* Connections and exits are used up in the end.
CHECK_DEADLOCK FALSE

\* One request is enough.
SPECIFICATION Spec
CONSTANTS
  None = None
  RelayOut = RelayOut
  RelayIn = RelayIn
  Spelling = {plain}
  Canonical = plain
  Node = {a, b}
  Conn = {c1}
  MaxExits = 0
  MaxRelayed = 0
INVARIANT AcceptedByAsked
\* Connections and exits are used up in the end.
CHECK_DEADLOCK FALSE

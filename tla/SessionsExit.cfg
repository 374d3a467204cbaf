\* Two connections, and a process that ends once and may start again.
SPECIFICATION Spec
CONSTANTS
  None = None
  RelayOut = RelayOut
  RelayIn = RelayIn
  Spelling = {plain}
  Canonical = plain
  Node = {a, b}
  Conn = {c1, c2}
  MaxExits = 1
  MaxRelayed = 0
INVARIANTS TypeOK Exclusive PendingIsOpen ShownIsListed DeclineIsFinal EndsAgree
SYMMETRY Symmetry
\* Connections and exits are used up in the end.
CHECK_DEADLOCK FALSE

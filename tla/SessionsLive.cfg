\* A connection, a process that ends in any state of it, and sessions over the
\* relay beside it, under the fairness of the event loop.
SPECIFICATION FairSpec
CONSTANTS
  None = None
  RelayOut = RelayOut
  RelayIn = RelayIn
  Spelling = {plain, zero}
  Canonical = plain
  Node = {a, b}
  Conn = {c1}
  MaxExits = 1
  MaxRelayed = 1
 
PROPERTIES GoneIsNoticed RouteHeals DialEnds
\* Connections and exits are used up in the end.
CHECK_DEADLOCK FALSE

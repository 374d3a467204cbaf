SPECIFICATION Spec
CONSTANTS
  None = None
  Peer = {p}
  Room = {r}
  MaxEvents = 3
INVARIANTS TypeOK NothingForgotten OvertakenByOne
PROPERTY HeldIsShown
CHECK_DEADLOCK FALSE

SPECIFICATION Spec
CONSTANTS
  None = None
  Nowhere = nowhere
  p1 = p1
  s1 = s1
  a1 = a1
  Peer = {p1, p2}
  Short = {s1}
  Matches <- MCMatches
  Home <- MCHome
  Nick = {n1}
  Addr = {a1, nowhere}
  Task = {t1, t2}
  MaxEvents = 2
SYMMETRY Symmetry
INVARIANTS TypeOK Addressee NamesHold
PROPERTY ContactsLast
CHECK_DEADLOCK FALSE

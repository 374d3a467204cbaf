\* A dial after a session that ended: four streams and one exit.
SPECIFICATION SpecH
CONSTANTS
  None = None
  Node = {a, b}
  Stream = {s1, s2, s3, s4}
  MaxExits = 1
  MaxUnread = 0
INVARIANT CalmDialAnswered
\* Streams and exits are used up in the end.
CHECK_DEADLOCK FALSE

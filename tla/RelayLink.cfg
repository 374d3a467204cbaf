\* Two nodes, three streams and an end of a process or of a link: sessions that
\* replace each other, dials that cross, and handshakes that time out.
SPECIFICATION FairSpec
CONSTANTS
  None = None
  Node = {a, b}
  Stream = {s1, s2, s3}
  MaxExits = 1
  MaxUnread = 2
INVARIANTS TypeOK ListedIsAlive AwaitedIsFed
PROPERTIES DialEnds FirstContact
\* Streams and exits are used up in the end.
CHECK_DEADLOCK FALSE

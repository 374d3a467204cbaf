\* A connection of each peer, under the fairness of the event loop.
SPECIFICATION FairSpec
CONSTANTS
  None = None
  Peer = {p, q}
  Conn = {c1, c2}
  MaxQueue = 2
  MaxRelay = 3
PROPERTY Arrives
\* Nobody has to connect or send.
CHECK_DEADLOCK FALSE

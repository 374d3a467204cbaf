\* Two peers and three connections, one of which replaces another: flushes and
\* sends cross, sends fail late.  Three messages overflow a queue of two.
SPECIFICATION Spec
CONSTANTS
  None = None
  Peer = {p, q}
  Conn = {c1, c2, c3}
  MaxQueue = 2
  MaxRelay = 3
INVARIANTS TypeOK NewestIsRegistered ExactlyOnce EvictedAreOld
SYMMETRY Symmetry
\* Nobody has to connect or send.
CHECK_DEADLOCK FALSE

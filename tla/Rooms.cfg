\* Three nodes and four commands: two invitations, a message and a leave, in any
\* order, and a session or a process that ends.
SPECIFICATION Spec
CONSTANTS
  Node = {a, b, c}
  MaxTasks = 4
  MaxLosses = 1
INVARIANTS TypeOK NoStrangers ReadersKnow EveryMemberOnce
SYMMETRY Symmetry
\* Commands are used up in the end.
CHECK_DEADLOCK FALSE

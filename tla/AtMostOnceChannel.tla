------------------------- MODULE AtMostOnceChannel -------------------------
(***************************************************************************)
(* What a session promises the layer above it when the transport may drop, *)
(* repeat and reorder packets: a payload reaches the other end at most     *)
(* once, only if that end's peer really sent it, and never once the        *)
(* receiving end is closed.  The payloads of one end are numbered 1, 2, .. *)
(* in the order in which that end sent them.                               *)
(***************************************************************************)
EXTENDS Integers

CONSTANTS A, B          \* the two ends

VARIABLES sent,         \* sent[e]: how many payloads e has sent
          delivered,    \* delivered[e]: the peer's payloads handed to e
          handed,       \* handed[e]: how often a payload was handed to e
          open          \* open[e]: end e is still in use

vars == <<sent, delivered, handed, open>>

End == {A, B}
Other(e) == IF e = A THEN B ELSE A

Init ==
  /\ sent = [e \in End |-> 0]
  /\ delivered = [e \in End |-> {}]
  /\ handed = [e \in End |-> 0]
  /\ open = [e \in End |-> TRUE]

Send(e) ==
  /\ open[e]
  /\ sent' = [sent EXCEPT ![e] = @ + 1]
  /\ UNCHANGED <<delivered, handed, open>>

Deliver(e) ==
  /\ open[e]
  /\ \E i \in (1 .. sent[Other(e)]) \ delivered[e] :
       delivered' = [delivered EXCEPT ![e] = @ \cup {i}]
  /\ handed' = [handed EXCEPT ![e] = @ + 1]
  /\ UNCHANGED <<sent, open>>

Close(e) ==
  /\ open[e]
  /\ open' = [open EXCEPT ![e] = FALSE]
  /\ UNCHANGED <<sent, delivered, handed>>

Next == \E e \in End : Send(e) \/ Deliver(e) \/ Close(e)

Spec == Init /\ [][Next]_vars
=============================================================================

----------------------------- MODULE MCSessions -----------------------------
(* Sessions for TLC: connections are interchangeable, and so are nodes. *)
EXTENDS Sessions, TLC

Symmetry == Permutations(Node) \cup Permutations(Conn)
=============================================================================

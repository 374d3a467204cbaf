---------------------------- MODULE MCRelayServer ----------------------------
(* RelayServer for TLC: connections and peers are interchangeable. *)
EXTENDS RelayServer, TLC

Symmetry == Permutations(Peer) \cup Permutations(Conn)
=============================================================================

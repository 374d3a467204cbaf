----------------------------- MODULE MCAddresses -----------------------------
(* A short id that fits one peer, who has the address a1 at first; a peer that
   moves takes it over.  Commands are interchangeable. *)
EXTENDS Addresses, TLC
CONSTANTS p1, s1, a1
MCMatches == s1 :> {p1}
MCHome == [a \in Addr |-> IF a = a1 THEN p1 ELSE None]
Symmetry == Permutations(Task)
=============================================================================

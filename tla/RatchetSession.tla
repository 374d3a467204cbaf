--------------------------- MODULE RatchetSession ---------------------------
(***************************************************************************)
(* Two ends of an established session (class Session of network.py), each  *)
(* with the DoubleRatchet that the handshake gave it, joined by a network  *)
(* that may lose, repeat, delay and reorder packets.  A TCP connection is  *)
(* the special case that does none of this; a session over relay.py meets  *)
(* all of it: the relay drops the oldest packet of a full queue, buffers   *)
(* again a packet whose send failed half-way, and flushes a queue while    *)
(* other handlers send to the same peer.                                   *)
(*                                                                         *)
(* send runs from encrypt to writer.write without an await, and a packet   *)
(* is decrypted without one, so each is a single step.                     *)
(***************************************************************************)
EXTENDS DoubleRatchet

CONSTANT MaxSent        \* bound of the model: packets sent by each end

ASSUME SessionAssumption ==
  /\ \E e \in Party : Initiators = {e}
  /\ MaxSent \in Nat

VARIABLES ratchet,      \* ratchet[e]: session.cipher at end e
          alive,        \* alive[e]: e has not closed its session
          wire,         \* wire[e]: the packets e ever sent, in order
          accepted,     \* accepted[e]: positions in wire[Peer(e)] of the
                        \* packets that e decrypted (history)
          handled       \* handled[e]: how many payloads e passed on to
                        \* _handle_payload (history)

vars == <<ratchet, alive, wire, accepted, handled>>

Init ==
  /\ ratchet = [e \in Party |-> NewRatchet(e)]
  /\ alive = [e \in Party |-> TRUE]
  /\ wire = [e \in Party |-> <<>>]
  /\ accepted = [e \in Party |-> {}]
  /\ handled = [e \in Party |-> 0]

\* Session.send: encrypt the payload and write the packet.
Send(e) ==
  /\ alive[e]
  /\ Len(wire[e]) < MaxSent
  /\ wire' = [wire EXCEPT ![e] = Append(@, Sealed(ratchet[e]))]
  /\ ratchet' = [ratchet EXCEPT ![e] = AfterEncrypt(@)]
  /\ UNCHANGED <<alive, accepted, handled>>

\* _receive_loop, a packet that decrypts.  Any packet sent so far may be the
\* one that arrives, whether it arrived before or not.
Accept(e) ==
  /\ alive[e]
  /\ \E i \in DOMAIN wire[Peer(e)] :
       LET m == wire[Peer(e)][i] IN
         /\ Opens(ratchet[e], m)
         /\ ratchet' = [ratchet EXCEPT ![e] = AfterDecrypt(@, m)]
         /\ accepted' = [accepted EXCEPT ![e] = @ \cup {i}]
  /\ handled' = [handled EXCEPT ![e] = @ + 1]
  /\ UNCHANGED <<alive, wire>>

\* Session.close: the cipher is cleared and the session is not used again.
Shut(e) ==
  /\ ratchet' = [ratchet EXCEPT ![e] = Cleared(@)]
  /\ alive' = [alive EXCEPT ![e] = FALSE]
  /\ UNCHANGED <<wire, accepted, handled>>

\* _receive_loop, a packet on which decrypt raises: the loop ends in close.
Reject(e) ==
  /\ alive[e]
  /\ \E i \in DOMAIN wire[Peer(e)] : ~ Opens(ratchet[e], wire[Peer(e)][i])
  /\ Shut(e)

\* The connection ends, or its owner closes it, for any other reason.
Close(e) == alive[e] /\ Shut(e)

Next == \E e \in Party : Send(e) \/ Accept(e) \/ Reject(e) \/ Close(e)

Spec == Init /\ [][Next]_vars

-----------------------------------------------------------------------------
(* Properties *)

KeyOf == [owner : Party \cup {"wiped"}, gen : Nat]
ChainKeyOf ==
  [root : Seq(SUBSET KeyOf), half : Halves \cup {"wiped", "ratchet"}, step : Nat]

\* The types of the state: every key is one the code can derive, and numbers
\* are the unsigned ones that the packet header carries.
TypeOK ==
  /\ alive \in [Party -> BOOLEAN]
  /\ accepted \in [Party -> SUBSET (1 .. MaxSent)]
  /\ handled \in [Party -> Nat]
  /\ \A e \in Party :
       /\ DOMAIN wire[e] \subseteq 1 .. MaxSent
       /\ \A i \in DOMAIN wire[e] :
            wire[e][i] \in [pub : KeyOf, n : Nat, pn : Nat, key : ChainKeyOf]
       /\ {ratchet[e].sendCk, ratchet[e].recvCk} \subseteq ChainKeyOf
       /\ {ratchet[e].dhPair, ratchet[e].remoteKey} \subseteq KeyOf
       /\ {ratchet[e].sendMn, ratchet[e].recvMn} \subseteq Nat

(***************************************************************************)
(* Loss, delay and reordering do not hurt: whatever an end accepted before *)
(* and in whatever order, a packet of its peer that it did not accept yet  *)
(* still decrypts exactly if it is at most max_skip ahead of the number    *)
(* that is due: one more is refused (the skipped keys of decrypt and the   *)
(* test of _skip_message_keys).                                            *)
(***************************************************************************)
GenuineOpens ==
  \A e \in Party : alive[e] =>
    \A i \in DOMAIN wire[Peer(e)] \ accepted[e] :
      Opens(ratchet[e], wire[Peer(e)][i])
        <=> wire[Peer(e)][i].n <= ratchet[e].recvMn + MaxSkip

(***************************************************************************)
(* A packet that an end accepted can never be accepted again, in order or  *)
(* out of it: decrypt raises on every replay.                              *)
(***************************************************************************)
NoReplay ==
  \A e \in Party : alive[e] =>
    \A i \in accepted[e] : ~ Opens(ratchet[e], wire[Peer(e)][i])

(***************************************************************************)
(* No two packets of a session, of one end or of both, are sealed under    *)
(* the same message key (the two halves of the first chain derivation and  *)
(* the steps of _kdf_ck).                                                  *)
(***************************************************************************)
KeysUsedOnce ==
  \A d, e \in Party : \A i \in DOMAIN wire[d], j \in DOMAIN wire[e] :
    wire[d][i].key = wire[e][j].key => d = e /\ i = j

(***************************************************************************)
(* The chains move on: the chain keys and the skipped keys of a live end   *)
(* yield neither the key of a packet that it sent nor the key of one that  *)
(* it accepted, late packets taken from the skipped keys included.  This   *)
(* is less than forward secrecy: the root key of a live end, which is left *)
(* aside here, yields all of them (RootYieldsAll in                        *)
(* RatchetSession_proofs).  The whole state of a closed end yields no key  *)
(* of the session, of packets that are still on their way neither (clear). *)
(***************************************************************************)
KeysForgotten ==
  \A e \in Party :
    IF alive[e]
    THEN /\ \A i \in DOMAIN wire[e] : ~ OnHand(ratchet[e], wire[e][i].key)
         /\ \A i \in accepted[e] : ~ OnHand(ratchet[e], wire[Peer(e)][i].key)
    ELSE \A d \in Party : \A i \in DOMAIN wire[d] :
           ~ CanDerive(ratchet[e], wire[d][i].key)

(***************************************************************************)
(* No Diffie-Hellman ratchet step is ever made: whatever is exchanged, in  *)
(* both directions and for however long, every packet is sealed under a    *)
(* key of the handshake secret and a live end keeps its first key pair, so *)
(* neither end runs ahead of the other's root.  (encrypt makes a new pair  *)
(* only when _pending_ratchet is set, decrypt sets that only when a packet *)
(* brings a new public key, and nobody sends the first one, although       *)
(* README.md says that keys rotate.)                                       *)
(***************************************************************************)
KeysNeverRotate ==
  \A e \in Party :
    /\ \A i \in DOMAIN wire[e] :
         wire[e][i].key.root = FirstRoot(KeyPair(e, 0), KeyPair(Peer(e), 0))
    /\ alive[e] => ratchet[e].dhPair = KeyPair(e, 0)

(***************************************************************************)
(* The skipped keys are exactly those of the missing packets: while an end *)
(* is alive it stores one key for every number below the one that is due   *)
(* which it has not accepted, so nothing lingers and nothing is missing.   *)
(***************************************************************************)
SkippedAreMissing ==
  \A e \in Party : alive[e] =>
    {k[2] : k \in DOMAIN ratchet[e].skipped}
      = {n \in 0 .. (ratchet[e].recvMn - 1) : (n + 1) \notin accepted[e]}

(***************************************************************************)
(* The session is an at-most-once channel.                                 *)
(***************************************************************************)
Channel == INSTANCE AtMostOnceChannel
             WITH sent <- [e \in Party |-> Len(wire[e])],
                  delivered <- accepted, handed <- handled, open <- alive

ImplementsChannel == Channel!Spec
=============================================================================

----------------------- MODULE RatchetSession_proofs -----------------------
(***************************************************************************)
(* Proofs about RatchetSession for every window MaxSkip and every number   *)
(* of packets.                                                             *)
(*                                                                         *)
(* The argument: no session ever performs a Diffie-Hellman ratchet step,   *)
(* because an end turns its receiving chain only on a new remote key and   *)
(* its sending chain only after that.  So the ratchet of a live end is     *)
(* determined by how many packets it sent, the number it expects next, and *)
(* which lower numbers are missing (Unrotated).  What encrypt and decrypt  *)
(* do to such a ratchet is stated in the lemmas EncryptStep, LatePacket    *)
(* and NextPacket; the rest follows from them.                             *)
(***************************************************************************)
EXTENDS RatchetSession, TLAPS

\* The root key that both ends derive from the handshake.
SharedRoot == FirstRoot(KeyPair(A, 0), KeyPair(B, 0))

\* The i-th key of the chain on which e sends, derived from the handshake.
HandshakeKey(e, i) == ChainKey(SharedRoot, SendHalf(e), i)

\* The i-th packet of end e, counted from 0.
Packet(e, i) ==
  [pub |-> KeyPair(e, 0), n |-> i, pn |-> 0, key |-> HandshakeKey(e, i)]

Stored(e, missing) ==
  [k \in {<<KeyPair(e, 0), n>> : n \in missing} |-> HandshakeKey(e, k[2])]

\* Named so that the provers see it as a value only where it is expanded.
NotDue == FALSE

Unrotated(e, s, r, missing) ==
  [ rootKey        |-> SharedRoot,
    dhPair         |-> KeyPair(e, 0),
    remoteKey      |-> KeyPair(Peer(e), 0),
    sendCk         |-> HandshakeKey(e, s),
    recvCk         |-> HandshakeKey(Peer(e), r),
    sendMn         |-> s,
    recvMn         |-> r,
    prevLen        |-> 0,
    skipped        |-> Stored(Peer(e), missing),
    pendingRatchet |-> NotDue ]

MissingBelow(r, acc) == {n \in 0 .. (r - 1) : (n + 1) \notin acc}

Closed(e) == Cleared(NewRatchet(e))

\* w is a prefix of the packets that e sends.
IsLog(e, w) ==
  /\ w \in Seq({Packet(e, i) : i \in Nat})
  /\ Len(w) \in 0 .. MaxSent
  /\ \A i \in 1 .. Len(w) : w[i] = Packet(e, i - 1)

\* x is the ratchet of e after it sent s packets and accepted those in acc,
\* when the next number due is r.
IsRatchet(e, x, s, r, acc) ==
  /\ \A i \in acc : i <= r
  /\ x = Unrotated(e, s, r, MissingBelow(r, acc))

IInv ==
  /\ alive \in [Party -> BOOLEAN]
  /\ accepted \in [Party -> SUBSET Nat]
  /\ handled \in [Party -> Nat]
  /\ ratchet = [e \in Party |-> ratchet[e]]
  /\ wire = [e \in Party |-> wire[e]]
  /\ \A e \in Party :
       /\ IsLog(e, wire[e])
       /\ accepted[e] \subseteq 1 .. Len(wire[Peer(e)])
       /\ alive[e] => \E r \in Nat :
            IsRatchet(e, ratchet[e], Len(wire[e]), r, accepted[e])
       /\ ~ alive[e] => ratchet[e] = Closed(e)

-----------------------------------------------------------------------------
(* The two ends *)

\* The two ends are each other's peers, and they send on different halves of
\* the key block that the handshake secret is expanded to (__init__).
LEMMA Ends ==
  ASSUME NEW e \in Party
  PROVE  /\ Peer(e) \in Party
         /\ Peer(e) # e
         /\ Peer(Peer(e)) = e
         /\ \A d \in Party : d = e \/ d = Peer(e)
         /\ SendHalf(e) \in Halves
         /\ SendHalf(Peer(e)) # SendHalf(e)
         /\ OtherHalf(SendHalf(e)) = SendHalf(Peer(e))
<1>1. /\ Peer(e) \in Party /\ Peer(e) # e /\ Peer(Peer(e)) = e
      /\ \A d \in Party : d = e \/ d = Peer(e)
  BY RatchetAssumption DEF Party, Peer
<1>2. PICK f \in Party : Initiators = {f}
  BY SessionAssumption
<1>3. (e \in Initiators) = (Peer(e) \notin Initiators)
  BY <1>1, <1>2
<1>4. QED
  BY <1>1, <1>3 DEF SendHalf, OtherHalf, Halves

\* Both ends derive the same root key, which is none of a closed session.
LEMMA OneRoot ==
  ASSUME NEW e \in Party
  PROVE  /\ FirstRoot(KeyPair(e, 0), KeyPair(Peer(e), 0)) = SharedRoot
         /\ SharedRoot # NoRoot /\ SharedRoot # FirstRoot(NoKey, NoKey)
         /\ SharedRoot \in Seq(SUBSET KeyOf)
<1> DEFINE a == KeyPair(A, 0)
           b == KeyPair(B, 0)
<1>1. a # b /\ a \in KeyOf /\ b \in KeyOf
  BY RatchetAssumption DEF KeyPair, KeyOf, Party
<1>2. Dh(a, b) = Dh(b, a) /\ Dh(a, b) # Dh(NoKey, NoKey) /\ Dh(a, b) \in SUBSET KeyOf
  BY <1>1 DEF Dh
<1>3. /\ FirstRoot(a, b) = <<Dh(a, b)>> /\ FirstRoot(b, a) = <<Dh(b, a)>>
      /\ FirstRoot(NoKey, NoKey) = <<Dh(NoKey, NoKey)>>
  BY DEF FirstRoot, MixRoot, NoRoot
<1>4. \/ e = A /\ Peer(e) = B
      \/ e = B /\ Peer(e) = A
  BY RatchetAssumption DEF Party, Peer
<1>5. FirstRoot(KeyPair(e, 0), KeyPair(Peer(e), 0)) = SharedRoot
  BY <1>2, <1>3, <1>4 DEF SharedRoot
<1> DEFINE x == Dh(a, b)
           y == Dh(NoKey, NoKey)
<1> HIDE DEF a, b, x, y
<1>6. SharedRoot = <<x>> /\ FirstRoot(NoKey, NoKey) = <<y>> /\ x # y
      /\ x \in SUBSET KeyOf
  BY <1>2, <1>3 DEF SharedRoot, x, y, a, b
<1>7. <<x>> # <<>> /\ <<x>> # <<y>> /\ <<x>> \in Seq(SUBSET KeyOf)
  BY <1>6
<1>8. QED
  BY <1>5, <1>6, <1>7 DEF NoRoot

\* Handshake keys of different ends or different numbers are different.
LEMMA KeysDiffer ==
  ASSUME NEW d \in Party, NEW e \in Party, NEW i \in Nat, NEW j \in Nat,
         HandshakeKey(d, i) = HandshakeKey(e, j)
  PROVE  d = e /\ i = j
<1>1. SendHalf(d) = SendHalf(e) /\ i = j
  BY DEF HandshakeKey, ChainKey
<1>2. QED
  BY <1>1, Ends

-----------------------------------------------------------------------------
(* What the ratchet does when no Diffie-Hellman step is due *)

\* encrypt seals the next packet of the chain and moves one key on.
LEMMA EncryptStep ==
  ASSUME NEW e \in Party, NEW s \in Nat, NEW r \in Nat, NEW missing
  PROVE  /\ Sealed(Unrotated(e, s, r, missing)) = Packet(e, s)
         /\ AfterEncrypt(Unrotated(e, s, r, missing))
              = Unrotated(e, s + 1, r, missing)
<1> DEFINE u == Unrotated(e, s, r, missing)
<1>1. SendingRatchet(u) = u
  BY DEF SendingRatchet, Unrotated, NotDue
<1>2. Advance(HandshakeKey(e, s), 1) = HandshakeKey(e, s + 1)
  BY DEF Advance, HandshakeKey, ChainKey
<1>3. Sealed(u) = Packet(e, s)
  BY <1>1 DEF Sealed, Unrotated, Packet, MessageKey
<1>4. AfterEncrypt(u) = Unrotated(e, s + 1, r, missing)
  <2>1. u.sendCk = HandshakeKey(e, s) /\ u.sendMn = s
    BY DEF Unrotated
  <2>2. AfterEncrypt(u)
          = [u EXCEPT !.sendCk = HandshakeKey(e, s + 1), !.sendMn = s + 1]
    BY <1>1, <1>2, <2>1 DEF AfterEncrypt
  <2>3. QED
    BY <2>2 DEF Unrotated
<1>5. QED
  BY <1>3, <1>4

\* A packet of the peer never turns the ratchet.
LEMMA NeverTurned ==
  ASSUME NEW e \in Party, NEW s, NEW r, NEW missing, NEW n
  PROVE  LET u == Unrotated(e, s, r, missing)
             m == Packet(Peer(e), n)
         IN ~ Turned(u, m) /\ Current(u, m) = u
BY DEF Turned, Current, Unrotated, Packet

\* A packet below the number that is due opens exactly if it is missing, and
\* then it is not missing any more.
LEMMA LatePacket ==
  ASSUME NEW e \in Party, NEW s \in Nat, NEW r \in Nat,
         NEW missing \in SUBSET (0 .. (r - 1)), NEW n \in 0 .. (r - 1)
  PROVE  LET u == Unrotated(e, s, r, missing)
             m == Packet(Peer(e), n)
         IN /\ Opens(u, m) <=> n \in missing
            /\ AfterDecrypt(u, m) = Unrotated(e, s, r, missing \ {n})
<1> DEFINE u == Unrotated(e, s, r, missing)
           m == Packet(Peer(e), n)
           k == <<KeyPair(Peer(e), 0), n>>
<1>1. ~ Turned(u, m) /\ Current(u, m) = u
  BY NeverTurned
<1>2. Late(u, m)
  BY <1>1 DEF Late, Unrotated, Packet
<1>3. u.skipped = Stored(Peer(e), missing) /\ m.key = HandshakeKey(Peer(e), n)
      /\ <<m.pub, m.n>> = k
  BY DEF Unrotated, Packet
<1>4. k \in DOMAIN Stored(Peer(e), missing) <=> n \in missing
  BY DEF Stored
<1>5. n \in missing => Stored(Peer(e), missing)[k] = HandshakeKey(Peer(e), n)
  BY DEF Stored
<1>6. Opens(u, m) <=> n \in missing
  BY <1>1, <1>2, <1>3, <1>4, <1>5 DEF Opens, OpensLate
<1>7. Forget(Stored(Peer(e), missing), k) = Stored(Peer(e), missing \ {n})
  BY DEF Forget, Stored
<1>8. AfterDecrypt(u, m)
        = [u EXCEPT !.skipped = Forget(u.skipped, <<m.pub, m.n>>)]
  BY <1>1, <1>2 DEF AfterDecrypt
<1>9. [u EXCEPT !.skipped = Stored(Peer(e), missing \ {n})]
        = Unrotated(e, s, r, missing \ {n})
  BY DEF Unrotated
<1>10. QED
  BY <1>3, <1>6, <1>7, <1>8, <1>9

\* A packet at or above the number that is due opens exactly if the gap is
\* within the window, and then the numbers of the gap are missing.
LEMMA NextPacket ==
  ASSUME NEW e \in Party, NEW s \in Nat, NEW r \in Nat,
         NEW missing \in SUBSET (0 .. (r - 1)), NEW n \in Nat, r <= n
  PROVE  LET u == Unrotated(e, s, r, missing)
             m == Packet(Peer(e), n)
         IN /\ Opens(u, m) <=> n - r <= MaxSkip
            /\ AfterDecrypt(u, m)
                 = Unrotated(e, s, n + 1, missing \cup (r .. (n - 1)))
<1> DEFINE u == Unrotated(e, s, r, missing)
           m == Packet(Peer(e), n)
           p == Peer(e)
           far == missing \cup (r .. (n - 1))
<1>1. ~ Turned(u, m) /\ Current(u, m) = u
  BY NeverTurned
<1>2. ~ Late(u, m)
  BY <1>1 DEF Late, Unrotated, Packet
<1>3. /\ u.recvMn = r /\ u.recvCk = HandshakeKey(p, r)
      /\ u.remoteKey = KeyPair(p, 0) /\ u.skipped = Stored(p, missing)
      /\ m.n = n /\ m.key = HandshakeKey(p, n)
  BY DEF Unrotated, Packet
<1>4. Advance(HandshakeKey(p, r), n - r) = HandshakeKey(p, n)
  BY DEF Advance, HandshakeKey, ChainKey
<1>5. SkippedKeys(u, n) = Stored(p, far)
  <2> DEFINE new == {<<u.remoteKey, i>> : i \in u.recvMn .. (n - 1)}
  <2>1. DOMAIN u.skipped \cup new = {<<KeyPair(p, 0), i>> : i \in far}
    BY <1>3 DEF Stored
  <2>2. ASSUME NEW k \in DOMAIN u.skipped \cup new
        PROVE  (IF k \in new THEN MessageKey(Advance(u.recvCk, k[2] - u.recvMn))
                             ELSE u.skipped[k]) = HandshakeKey(p, k[2])
    <3>1. CASE k \in new
      <4>1. PICK i \in r .. (n - 1) : k = <<KeyPair(p, 0), i>>
        BY <3>1, <1>3
      <4>2. Advance(HandshakeKey(p, r), i - r) = HandshakeKey(p, i)
        BY DEF Advance, HandshakeKey, ChainKey
      <4>3. QED
        BY <1>3, <3>1, <4>1, <4>2 DEF MessageKey
    <3>2. CASE k \notin new
      BY <1>3, <3>2, <2>2 DEF Stored
    <3>3. QED
      BY <3>1, <3>2
  <2>3. QED
    BY <2>1, <2>2 DEF SkippedKeys, Stored
<1>6. SkipMessageKeys(u, n) = Unrotated(e, s, n, far)
  <2>1. CASE n = r
    <3>1. far = missing
      BY <2>1
    <3>2. SkipMessageKeys(u, n) = u
      BY <2>1, <1>3 DEF SkipMessageKeys
    <3>3. QED
      BY <2>1, <3>1, <3>2
  <2>2. CASE n # r
    <3>1. SkipMessageKeys(u, n)
            = [u EXCEPT !.skipped = Stored(p, far),
                        !.recvCk = HandshakeKey(p, n), !.recvMn = n]
      <4>1. Advance(u.recvCk, n - u.recvMn) = HandshakeKey(p, n)
        BY <1>3, <1>4
      <4>2. ~ (u.recvMn >= n)
        BY <2>2, <1>3
      <4>3. QED
        BY <4>1, <4>2, <1>5 DEF SkipMessageKeys
    <3>2. QED
      BY <3>1 DEF Unrotated
  <2>3. QED
    BY <2>1, <2>2
<1>7. Opens(u, m) <=> n - r <= MaxSkip
  <2>1. MessageKey(SkipMessageKeys(u, n).recvCk) = m.key
    BY <1>3, <1>6 DEF MessageKey, Unrotated
  <2>2. TooManySkipped(u, n) <=> ~ (n - r <= MaxSkip)
    BY <1>3, RatchetAssumption DEF TooManySkipped
  <2>3. QED
    BY <1>1, <1>2, <1>3, <2>1, <2>2 DEF Opens, OpensInOrder
<1>8. AfterDecrypt(u, m) = Unrotated(e, s, n + 1, far)
  <2>1. Advance(HandshakeKey(p, n), 1) = HandshakeKey(p, n + 1)
    BY DEF Advance, HandshakeKey, ChainKey
  <2>2. Unrotated(e, s, n, far).recvCk = HandshakeKey(p, n)
    BY DEF Unrotated
  <2>3. AfterDecrypt(u, m)
          = [Unrotated(e, s, n, far) EXCEPT
               !.recvCk = HandshakeKey(p, n + 1), !.recvMn = n + 1]
    BY <1>1, <1>2, <1>3, <1>6, <2>1, <2>2 DEF AfterDecrypt
  <2>4. QED
    BY <2>3 DEF Unrotated
<1>9. QED
  BY <1>7, <1>8

-----------------------------------------------------------------------------
(* The inductive invariant *)

LEMMA InitInv == Init => IInv
<1> SUFFICES ASSUME Init PROVE IInv
  OBVIOUS
<1> USE DEF Init
<1>1. ASSUME NEW e \in Party
      PROVE  /\ IsLog(e, wire[e]) /\ accepted[e] = {} /\ alive[e]
             /\ Len(wire[e]) = 0
  BY SessionAssumption DEF IsLog
<1>2. ASSUME NEW e \in Party PROVE IsRatchet(e, ratchet[e], 0, 0, {})
  <2>1. OtherHalf(SendHalf(e)) = SendHalf(Peer(e))
    BY Ends
  <2>2. Stored(Peer(e), {}) = NoSkipped
    BY DEF Stored, NoSkipped
  <2>3. MissingBelow(0, {}) = {}
    BY DEF MissingBelow
  <2>4. FirstRoot(KeyPair(e, 0), KeyPair(Peer(e), 0)) = SharedRoot
    BY OneRoot
  <2>5. QED
    BY <2>1, <2>2, <2>3, <2>4
       DEF IsRatchet, NewRatchet, Unrotated, HandshakeKey, NotDue
<1>3. QED
  BY <1>1, <1>2 DEF IInv

\* A log extended by the next packet is a log.
LEMMA LogGrows ==
  ASSUME NEW e, NEW w, IsLog(e, w), Len(w) < MaxSent
  PROVE  LET v == Append(w, Packet(e, Len(w)))
         IN Len(v) = Len(w) + 1 /\ IsLog(e, v)
<1> DEFINE n == Len(w)
           v == Append(w, Packet(e, n))
<1>1. n \in Nat /\ n + 1 \in 0 .. MaxSent
  BY SessionAssumption DEF IsLog
<1>2. /\ w \in Seq({Packet(e, i) : i \in Nat})
      /\ \A i \in 1 .. n : w[i] = Packet(e, i - 1)
  BY DEF IsLog
<1>3. /\ Len(v) = n + 1
      /\ v \in Seq({Packet(e, i) : i \in Nat})
      /\ \A i \in 1 .. n : v[i] = w[i]
      /\ v[n + 1] = Packet(e, n)
  BY <1>1, <1>2
<1> HIDE DEF n, v
<1>4. ASSUME NEW i \in 1 .. (n + 1) PROVE v[i] = Packet(e, i - 1)
  <2>1. CASE i = n + 1
    BY <1>1, <1>3, <2>1
  <2>2. CASE i # n + 1
    BY <1>1, <1>2, <1>3, <2>2
  <2>3. QED
    BY <2>1, <2>2
<1>5. QED
  BY <1>1, <1>3, <1>4 DEF IsLog, n, v

LEMMA SendInv ==
  ASSUME IInv, NEW e \in Party, Send(e)
  PROVE  IInv'
<1> DEFINE n == Len(wire[e])
           p == Peer(e)
<1>1. alive[e] /\ n < MaxSent /\ n \in Nat /\ IsLog(e, wire[e])
  <2>1. alive[e] /\ n < MaxSent
    BY DEF Send
  <2>2. IsLog(e, wire[e])
    BY DEF IInv
  <2>3. n \in Nat
    BY <2>2, SessionAssumption DEF IsLog
  <2>4. QED
    BY <2>1, <2>2, <2>3
<1>2. PICK r \in Nat : IsRatchet(e, ratchet[e], n, r, accepted[e])
  BY <1>1 DEF IInv
<1>3. /\ Sealed(ratchet[e]) = Packet(e, n)
      /\ IsRatchet(e, AfterEncrypt(ratchet[e]), n + 1, r, accepted[e])
  BY <1>1, <1>2, EncryptStep DEF IsRatchet
<1>4. /\ wire' = [wire EXCEPT ![e] = Append(wire[e], Packet(e, n))]
      /\ ratchet' = [ratchet EXCEPT ![e] = AfterEncrypt(ratchet[e])]
      /\ alive' = alive /\ accepted' = accepted /\ handled' = handled
  BY <1>3 DEF Send
<1>5. /\ wire'[e] = Append(wire[e], Packet(e, n))
      /\ wire'[p] = wire[p]
      /\ ratchet'[e] = AfterEncrypt(ratchet[e])
      /\ ratchet'[p] = ratchet[p]
      /\ wire' = [d \in Party |-> wire'[d]]
      /\ ratchet' = [d \in Party |-> ratchet'[d]]
  BY <1>4, Ends DEF IInv
<1>6. Len(wire'[e]) = n + 1 /\ IsLog(e, wire'[e])
  BY <1>1, <1>5, LogGrows
<1>7. \E q \in Nat :
        IsRatchet(e, ratchet'[e], Len(wire'[e]), q, accepted'[e])
  BY <1>3, <1>4, <1>5, <1>6
<1>8. accepted'[p] \subseteq 1 .. Len(wire'[e])
  <2>1. accepted[p] \subseteq 1 .. n
    BY Ends DEF IInv
  <2>2. QED
    BY <1>1, <1>4, <1>6, <2>1
<1>9. ASSUME NEW d \in Party
      PROVE  /\ IsLog(d, wire'[d])
             /\ accepted'[d] \subseteq 1 .. Len(wire'[Peer(d)])
             /\ alive'[d] => \E q \in Nat :
                  IsRatchet(d, ratchet'[d], Len(wire'[d]), q, accepted'[d])
             /\ ~ alive'[d] => ratchet'[d] = Closed(d)
  <2>1. CASE d = e
    BY <1>1, <1>4, <1>5, <1>6, <1>7, <2>1 DEF IInv
  <2>2. CASE d = p
    BY <1>4, <1>5, <1>8, <2>2, Ends DEF IInv
  <2>3. QED
    BY <2>1, <2>2, Ends
<1>10. QED
  BY <1>4, <1>5, <1>9 DEF IInv

\* A live end opens the i-th packet of its peer exactly if it did not accept it
\* before and the packet is within the window, and then it has accepted that
\* packet in addition to the earlier ones.
LEMMA Receive ==
  ASSUME NEW e \in Party, NEW x, NEW s \in Nat, NEW r \in Nat,
         NEW acc \in SUBSET Nat, IsRatchet(e, x, s, r, acc),
         NEW i \in Nat, 1 <= i
  PROVE  LET m == Packet(Peer(e), i - 1)
         IN /\ Opens(x, m) <=> i \notin acc /\ i - 1 - r <= MaxSkip
            /\ Opens(x, m) => \E q \in Nat :
                 IsRatchet(e, AfterDecrypt(x, m), s, q, acc \cup {i})
<1> DEFINE n == i - 1
           m == Packet(Peer(e), n)
           M == MissingBelow(r, acc)
<1>1. n \in Nat /\ x = Unrotated(e, s, r, M) /\ \A j \in acc : j <= r
  BY DEF IsRatchet
<1>2. M \in SUBSET (0 .. (r - 1))
  BY DEF MissingBelow
<1> HIDE DEF n, m, M
<1>3. CASE i <= r
  <2>1. n \in 0 .. (r - 1)
    BY <1>3 DEF n
  <2>2. n \in M <=> i \notin acc
    BY <1>3 DEF MissingBelow, n, M
  <2>3. M \ {n} = MissingBelow(r, acc \cup {i})
    BY DEF MissingBelow, n, M
  <2>4. /\ Opens(x, m) <=> n \in M
        /\ AfterDecrypt(x, m) = Unrotated(e, s, r, M \ {n})
    BY <1>1, <1>2, <2>1, LatePacket DEF m
  <2>5. i - 1 - r <= MaxSkip
    BY <1>3, RatchetAssumption
  <2>6. \A j \in acc \cup {i} : j <= r
    BY <1>1, <1>3
  <2>7. QED
    BY <2>2, <2>3, <2>4, <2>5, <2>6 DEF IsRatchet, m, n
<1>4. CASE ~ (i <= r)
  <2>1. r <= n /\ i \notin acc
    BY <1>1, <1>4 DEF n
  <2>2. M \cup (r .. (n - 1)) = MissingBelow(i, acc \cup {i})
    BY <1>1, <2>1 DEF MissingBelow, n, M
  <2>3. /\ Opens(x, m) <=> n - r <= MaxSkip
        /\ AfterDecrypt(x, m) = Unrotated(e, s, n + 1, M \cup (r .. (n - 1)))
    BY <1>1, <1>2, <2>1, NextPacket DEF m
  <2>4. n + 1 = i
    BY DEF n
  <2>5. \A j \in acc \cup {i} : j <= i
    BY <1>1, <1>4
  <2>6. IsRatchet(e, AfterDecrypt(x, m), s, i, acc \cup {i})
    BY <2>2, <2>3, <2>4, <2>5 DEF IsRatchet
  <2>7. QED
    BY <2>1, <2>3, <2>6 DEF m, n
<1>5. QED
  BY <1>3, <1>4

\* The packets of the peer as a live end sees them.
LEMMA Arrivals ==
  ASSUME IInv, NEW e \in Party, alive[e]
  PROVE  \E r \in Nat :
           /\ IsRatchet(e, ratchet[e], Len(wire[e]), r, accepted[e])
           /\ \A i \in DOMAIN wire[Peer(e)] :
                /\ i \in 1 .. Len(wire[Peer(e)])
                /\ wire[Peer(e)][i] = Packet(Peer(e), i - 1)
                /\ Opens(ratchet[e], wire[Peer(e)][i])
                      <=> i \notin accepted[e] /\ i - 1 - r <= MaxSkip
                /\ Opens(ratchet[e], wire[Peer(e)][i]) => \E q \in Nat :
                      IsRatchet(e, AfterDecrypt(ratchet[e], wire[Peer(e)][i]),
                                Len(wire[e]), q, accepted[e] \cup {i})
<1>1. PICK r \in Nat :
        IsRatchet(e, ratchet[e], Len(wire[e]), r, accepted[e])
  BY DEF IInv
<1>2. IsLog(e, wire[e]) /\ IsLog(Peer(e), wire[Peer(e)])
  BY Ends DEF IInv
<1>3. Len(wire[e]) \in Nat /\ Len(wire[Peer(e)]) \in Nat
  BY <1>2, SessionAssumption DEF IsLog
<1>4. DOMAIN wire[Peer(e)] = 1 .. Len(wire[Peer(e)])
  BY <1>2, <1>3 DEF IsLog
<1>5. accepted[e] \in SUBSET Nat
  BY DEF IInv
<1>6. ASSUME NEW i \in DOMAIN wire[Peer(e)]
      PROVE  i \in Nat /\ 1 <= i /\ wire[Peer(e)][i] = Packet(Peer(e), i - 1)
  BY <1>2, <1>3, <1>4 DEF IsLog
<1>7. ASSUME NEW i \in DOMAIN wire[Peer(e)]
      PROVE  LET m == Packet(Peer(e), i - 1)
             IN /\ Opens(ratchet[e], m)
                      <=> i \notin accepted[e] /\ i - 1 - r <= MaxSkip
                /\ Opens(ratchet[e], m) => \E q \in Nat :
                      IsRatchet(e, AfterDecrypt(ratchet[e], m),
                                Len(wire[e]), q, accepted[e] \cup {i})
  <2>1. i \in Nat /\ 1 <= i
    BY <1>6
  <2>2. QED
    BY <1>1, <1>3, <1>5, <2>1, Receive, ZenonT(60)
<1>8. QED
  BY <1>1, <1>4, <1>6, <1>7

LEMMA AcceptInv ==
  ASSUME IInv, NEW e \in Party, Accept(e)
  PROVE  IInv'
<1> DEFINE p == Peer(e)
<1>1. alive[e] /\ alive' = alive /\ wire' = wire
  BY DEF Accept
<1>2. PICK i \in DOMAIN wire[p] :
        /\ Opens(ratchet[e], wire[p][i])
        /\ ratchet' = [ratchet EXCEPT ![e] = AfterDecrypt(@, wire[p][i])]
        /\ accepted' = [accepted EXCEPT ![e] = @ \cup {i}]
  BY DEF Accept
<1>3. /\ ratchet'[e] = AfterDecrypt(ratchet[e], wire[p][i])
      /\ ratchet'[p] = ratchet[p]
      /\ accepted'[e] = accepted[e] \cup {i}
      /\ accepted'[p] = accepted[p]
      /\ ratchet' = [d \in Party |-> ratchet'[d]]
  BY <1>2, Ends DEF IInv
<1>4. /\ i \in 1 .. Len(wire[p])
      /\ \E q \in Nat :
           IsRatchet(e, ratchet'[e], Len(wire[e]), q, accepted'[e])
  <2>1. /\ i \in 1 .. Len(wire[p])
        /\ Opens(ratchet[e], wire[p][i]) => \E q \in Nat :
              IsRatchet(e, AfterDecrypt(ratchet[e], wire[p][i]),
                        Len(wire[e]), q, accepted[e] \cup {i})
    BY <1>1, Arrivals
  <2>2. QED
    BY <1>2, <1>3, <2>1
<1>5. Len(wire[p]) \in Nat
  BY Ends, SessionAssumption DEF IInv, IsLog
<1>6. accepted' \in [Party -> SUBSET Nat]
  BY <1>2, <1>4, <1>5 DEF IInv
<1>7. ASSUME NEW d \in Party
      PROVE  /\ IsLog(d, wire'[d])
             /\ accepted'[d] \subseteq 1 .. Len(wire'[Peer(d)])
             /\ alive'[d] => \E q \in Nat :
                  IsRatchet(d, ratchet'[d], Len(wire'[d]), q, accepted'[d])
             /\ ~ alive'[d] => ratchet'[d] = Closed(d)
  <2>1. CASE d = e
    BY <1>1, <1>3, <1>4, <2>1 DEF IInv
  <2>2. CASE d = p
    BY <1>1, <1>3, <2>2, Ends DEF IInv
  <2>3. QED
    BY <2>1, <2>2, Ends
<1>8. handled' \in [Party -> Nat]
  BY DEF Accept, IInv
<1>9. QED
  BY <1>1, <1>3, <1>6, <1>7, <1>8 DEF IInv

\* Every way to clear the ratchet of a live end leaves the same closed state.
LEMMA ShutInv ==
  ASSUME IInv, NEW e \in Party, alive[e], Shut(e)
  PROVE  IInv'
<1>1. /\ ratchet' = [ratchet EXCEPT ![e] = Cleared(ratchet[e])]
      /\ alive' = [alive EXCEPT ![e] = FALSE]
      /\ wire' = wire /\ accepted' = accepted /\ handled' = handled
  BY DEF Shut
<1>2. Cleared(ratchet[e]) = Closed(e)
  <2>1. PICK r \in Nat :
          IsRatchet(e, ratchet[e], Len(wire[e]), r, accepted[e])
    BY DEF IInv
  <2>2. ratchet[e].pendingRatchet = NotDue
    BY <2>1 DEF IsRatchet, Unrotated
  <2>3. NewRatchet(e).pendingRatchet = NotDue
    BY DEF NewRatchet, NotDue
  <2>4. QED
    BY <2>2, <2>3 DEF Closed, Cleared
<1>3. ASSUME NEW d \in Party
      PROVE  /\ IsLog(d, wire'[d])
             /\ accepted'[d] \subseteq 1 .. Len(wire'[Peer(d)])
             /\ alive'[d] => \E q \in Nat :
                  IsRatchet(d, ratchet'[d], Len(wire'[d]), q, accepted'[d])
             /\ ~ alive'[d] => ratchet'[d] = Closed(d)
  <2>1. CASE d = e
    BY <1>1, <1>2, <2>1 DEF IInv
  <2>2. CASE d # e
    BY <1>1, <2>2 DEF IInv
  <2>3. QED
    BY <2>1, <2>2
<1>4. QED
  BY <1>1, <1>3 DEF IInv

LEMMA StepInv == IInv /\ [Next]_vars => IInv'
<1> SUFFICES ASSUME IInv, [Next]_vars PROVE IInv'
  OBVIOUS
<1>1. ASSUME NEW e \in Party, Send(e) PROVE IInv'
  BY <1>1, SendInv
<1>2. ASSUME NEW e \in Party, Accept(e) PROVE IInv'
  BY <1>2, AcceptInv
<1>3. ASSUME NEW e \in Party, Reject(e) \/ Close(e) PROVE IInv'
  BY <1>3, ShutInv DEF Reject, Close
<1>4. CASE UNCHANGED vars
  BY <1>4 DEF vars, IInv
<1>5. QED
  BY <1>1, <1>2, <1>3, <1>4 DEF Next

\* The invariant holds throughout every session.
THEOREM Invariance == Spec => []IInv
BY InitInv, StepInv, PTL DEF Spec

-----------------------------------------------------------------------------
(* The properties that the model checker checks on small instances *)

\* Under the invariant, packets and ratchets are those named here.
LEMMA PacketFields ==
  ASSUME IInv, NEW e \in Party, NEW i \in DOMAIN wire[e]
  PROVE  /\ i \in 1 .. Len(wire[e]) /\ i - 1 \in Nat /\ i \in 1 .. MaxSent
         /\ wire[e][i] = Packet(e, i - 1)
         /\ wire[e][i].key = HandshakeKey(e, i - 1)
<1>1. IsLog(e, wire[e])
  BY DEF IInv
<1>2. /\ i \in 1 .. Len(wire[e]) /\ Len(wire[e]) \in 0 .. MaxSent
      /\ wire[e][i] = Packet(e, i - 1)
  BY <1>1, SessionAssumption DEF IsLog
<1>3. Packet(e, i - 1).key = HandshakeKey(e, i - 1)
  BY DEF Packet
<1>4. QED
  BY <1>2, <1>3, SessionAssumption

\* Delay, loss and reordering within the window never cost a packet that does
\* arrive, and what is beyond the window is refused, for every max_skip.
THEOREM GenuineOpensHolds == Spec => []GenuineOpens
<1>1. IInv => GenuineOpens
  <2> SUFFICES ASSUME IInv, NEW e \in Party, alive[e],
                      NEW i \in DOMAIN wire[Peer(e)] \ accepted[e]
               PROVE  Opens(ratchet[e], wire[Peer(e)][i])
                        <=> wire[Peer(e)][i].n <= ratchet[e].recvMn + MaxSkip
    BY DEF GenuineOpens
  <2>1. PICK r \in Nat :
          /\ IsRatchet(e, ratchet[e], Len(wire[e]), r, accepted[e])
          /\ Opens(ratchet[e], wire[Peer(e)][i])
               <=> i \notin accepted[e] /\ i - 1 - r <= MaxSkip
    BY Arrivals
  <2>2. ratchet[e].recvMn = r
    BY <2>1 DEF IsRatchet, Unrotated
  <2>3. i \in Nat /\ wire[Peer(e)][i].n = i - 1
    <3>1. i - 1 \in Nat /\ i \in 1 .. MaxSent
          /\ wire[Peer(e)][i] = Packet(Peer(e), i - 1)
      BY PacketFields, Ends
    <3>2. QED
      BY <3>1, SessionAssumption DEF Packet
  <2>4. i - 1 - r <= MaxSkip <=> wire[Peer(e)][i].n <= ratchet[e].recvMn + MaxSkip
    BY <2>2, <2>3, RatchetAssumption
  <2>5. QED
    BY <2>1, <2>4
<1>2. QED
  BY <1>1, Invariance, PTL

\* No packet decrypts twice, for every window and every order of arrival.
THEOREM NoReplayHolds == Spec => []NoReplay
<1>1. IInv => NoReplay
  <2> SUFFICES ASSUME IInv, NEW e \in Party, alive[e], NEW i \in accepted[e]
               PROVE  ~ Opens(ratchet[e], wire[Peer(e)][i])
    BY DEF NoReplay
  <2>1. IsLog(Peer(e), wire[Peer(e)]) /\ i \in 1 .. Len(wire[Peer(e)])
    BY Ends DEF IInv
  <2>2. i \in DOMAIN wire[Peer(e)]
    BY <2>1 DEF IsLog
  <2>3. QED
    BY <2>2, Arrivals
<1>2. QED
  BY <1>1, Invariance, PTL

\* Message keys are never reused, in one direction or across both.
THEOREM KeysUsedOnceHolds == Spec => []KeysUsedOnce
<1>1. IInv => KeysUsedOnce
  <2> SUFFICES ASSUME IInv, NEW d \in Party, NEW e \in Party,
                      NEW i \in DOMAIN wire[d], NEW j \in DOMAIN wire[e],
                      wire[d][i].key = wire[e][j].key
               PROVE  d = e /\ i = j
    BY DEF KeysUsedOnce
  <2>1. /\ HandshakeKey(d, i - 1) = HandshakeKey(e, j - 1)
        /\ i - 1 \in Nat /\ j - 1 \in Nat /\ i \in 1 .. MaxSent /\ j \in 1 .. MaxSent
    BY PacketFields
  <2>2. d = e /\ i - 1 = j - 1
    BY <2>1, KeysDiffer
  <2>3. QED
    BY <2>1, <2>2, SessionAssumption
<1>2. QED
  BY <1>1, Invariance, PTL

\* One skipped key is stored for every missing number, and no other.
THEOREM SkippedAreMissingHolds == Spec => []SkippedAreMissing
<1>1. IInv => SkippedAreMissing
  <2> SUFFICES ASSUME IInv, NEW e \in Party, alive[e]
               PROVE  {k[2] : k \in DOMAIN ratchet[e].skipped}
                        = MissingBelow(ratchet[e].recvMn, accepted[e])
    BY DEF SkippedAreMissing, MissingBelow
  <2>1. PICK r \in Nat :
          IsRatchet(e, ratchet[e], Len(wire[e]), r, accepted[e])
    BY DEF IInv
  <2>2. /\ ratchet[e].recvMn = r
        /\ ratchet[e].skipped = Stored(Peer(e), MissingBelow(r, accepted[e]))
    BY <2>1 DEF IsRatchet, Unrotated
  <2>3. {k[2] : k \in DOMAIN Stored(Peer(e), MissingBelow(r, accepted[e]))}
          = MissingBelow(r, accepted[e])
    <3> DEFINE M == MissingBelow(r, accepted[e])
               D == DOMAIN Stored(Peer(e), M)
    <3>1. D = {<<KeyPair(Peer(e), 0), n>> : n \in M}
      BY DEF Stored
    <3> HIDE DEF M, D
    <3>2. ASSUME NEW k \in D PROVE k[2] \in M
      BY <3>1
    <3>3. ASSUME NEW n \in M PROVE \E k \in D : k[2] = n
      <4>1. <<KeyPair(Peer(e), 0), n>> \in D
        BY <3>1
      <4>2. QED
        BY <4>1
    <3>4. {k[2] : k \in D} = M
      BY <3>2, <3>3
    <3>5. QED
      BY <3>4 DEF D, M
  <2>4. QED
    BY <2>2, <2>3
<1>2. QED
  BY <1>1, Invariance, PTL

\* The chain keys and skipped keys of a live end yield no key of a packet that
\* it sent or accepted, and nothing that a closed end keeps yields any key of
\* the session, for every window and every number of packets.
THEOREM KeysForgottenHolds == Spec => []KeysForgotten
<1>1. IInv => KeysForgotten
  <2> SUFFICES ASSUME IInv, NEW e \in Party
               PROVE  IF alive[e]
                      THEN /\ \A i \in DOMAIN wire[e] :
                                ~ OnHand(ratchet[e], wire[e][i].key)
                           /\ \A i \in accepted[e] :
                                ~ OnHand(ratchet[e], wire[Peer(e)][i].key)
                      ELSE \A d \in Party : \A i \in DOMAIN wire[d] :
                             ~ CanDerive(ratchet[e], wire[d][i].key)
    BY DEF KeysForgotten
  <2>1. ASSUME NEW i \in accepted[e]
        PROVE  i \in DOMAIN wire[Peer(e)]
    <3>1. IsLog(Peer(e), wire[Peer(e)]) /\ i \in 1 .. Len(wire[Peer(e)])
      BY Ends DEF IInv
    <3>2. QED
      BY <3>1 DEF IsLog
  <2>2. CASE ~ alive[e]
    <3>1. /\ ratchet[e].skipped = NoSkipped
          /\ ratchet[e].sendCk = NoChain /\ ratchet[e].recvCk = NoChain
          /\ Roots(ratchet[e]) = {NoRoot, FirstRoot(NoKey, NoKey)}
      BY <2>2 DEF IInv, Closed, Cleared, Roots
    <3>2. ASSUME NEW d \in Party, NEW i \in DOMAIN wire[d]
          PROVE  ~ CanDerive(ratchet[e], wire[d][i].key)
      <4>1. wire[d][i].key.half \in Halves /\ wire[d][i].key.root = SharedRoot
        <5>1. wire[d][i].key = HandshakeKey(d, i - 1)
          BY PacketFields
        <5>2. QED
          BY <5>1, Ends DEF HandshakeKey, ChainKey
      <4>2. DOMAIN NoSkipped = {} /\ NoChain.half = "wiped"
        BY DEF NoSkipped, NoChain, ChainKey
      <4>3. "wiped" \notin Halves
        BY DEF Halves
      <4>4. ~ OnHand(ratchet[e], wire[d][i].key)
        BY <3>1, <4>1, <4>2, <4>3 DEF OnHand, OnChain
      <4>5. SharedRoot \notin Roots(ratchet[e])
        BY <3>1, OneRoot
      <4>6. QED
        BY <4>1, <4>4, <4>5 DEF CanDerive, OnChain, ChainKey
    <3>3. QED
      BY <2>2, <3>2
  <2>3. CASE alive[e]
    <3>1. PICK r \in Nat :
            IsRatchet(e, ratchet[e], Len(wire[e]), r, accepted[e])
      BY <2>3 DEF IInv
    <3>2. /\ ratchet[e].skipped = Stored(Peer(e), MissingBelow(r, accepted[e]))
          /\ ratchet[e].sendCk = HandshakeKey(e, Len(wire[e]))
          /\ ratchet[e].recvCk = HandshakeKey(Peer(e), r)
          /\ \A i \in accepted[e] : i <= r
      BY <3>1 DEF IsRatchet, Unrotated
    <3>3. ASSUME NEW k \in DOMAIN ratchet[e].skipped
          PROVE  \E n \in MissingBelow(r, accepted[e]) :
                   ratchet[e].skipped[k] = HandshakeKey(Peer(e), n)
      BY <3>2 DEF Stored
    <3>4. ASSUME NEW i \in DOMAIN wire[e]
          PROVE  ~ OnHand(ratchet[e], wire[e][i].key)
      <4>1. /\ wire[e][i].key = HandshakeKey(e, i - 1)
            /\ i - 1 \in Nat /\ i \in 1 .. Len(wire[e])
        BY PacketFields
      <4>2. ~ OnChain(HandshakeKey(e, Len(wire[e])), HandshakeKey(e, i - 1))
        BY <4>1, SessionAssumption DEF OnChain, HandshakeKey, ChainKey
      <4>3. ~ OnChain(HandshakeKey(Peer(e), r), HandshakeKey(e, i - 1))
        BY Ends DEF OnChain, HandshakeKey, ChainKey
      <4>4. \A n \in MissingBelow(r, accepted[e]) :
              HandshakeKey(Peer(e), n) # HandshakeKey(e, i - 1)
        BY Ends DEF HandshakeKey, ChainKey
      <4>5. QED
        BY <3>2, <3>3, <4>1, <4>2, <4>3, <4>4 DEF OnHand
    <3>5. ASSUME NEW i \in accepted[e]
          PROVE  ~ OnHand(ratchet[e], wire[Peer(e)][i].key)
      <4>1. /\ wire[Peer(e)][i].key = HandshakeKey(Peer(e), i - 1)
            /\ i - 1 \in Nat /\ i \in Nat
        BY <2>1, PacketFields, Ends
      <4>2. ~ OnChain(HandshakeKey(e, Len(wire[e])), HandshakeKey(Peer(e), i - 1))
        BY Ends DEF OnChain, HandshakeKey, ChainKey
      <4>3. ~ OnChain(HandshakeKey(Peer(e), r), HandshakeKey(Peer(e), i - 1))
        BY <3>2, <4>1 DEF OnChain, HandshakeKey, ChainKey
      <4>4. \A n \in MissingBelow(r, accepted[e]) :
              HandshakeKey(Peer(e), n) # HandshakeKey(Peer(e), i - 1)
        BY <4>1 DEF HandshakeKey, ChainKey, MissingBelow
      <4>5. QED
        BY <3>2, <3>3, <4>1, <4>2, <4>3, <4>4 DEF OnHand
    <3>6. QED
      BY <2>3, <3>4, <3>5
  <2>4. QED
    BY <2>2, <2>3
<1>2. QED
  BY <1>1, Invariance, PTL

\* What a live end keeps yields the key of every packet of the session, of
\* either end, however long ago it was sent: the root key, from which the
\* constructor derived both chains, is never replaced.
THEOREM RootYieldsAll ==
  Spec => [](\A d, e \in Party : alive[e] =>
               \A i \in DOMAIN wire[d] : CanDerive(ratchet[e], wire[d][i].key))
<1>1. IInv => \A d, e \in Party : alive[e] =>
                \A i \in DOMAIN wire[d] : CanDerive(ratchet[e], wire[d][i].key)
  <2> SUFFICES ASSUME IInv, NEW d \in Party, NEW e \in Party, alive[e],
                      NEW i \in DOMAIN wire[d]
               PROVE  CanDerive(ratchet[e], wire[d][i].key)
    OBVIOUS
  <2>1. PICK r \in Nat :
          IsRatchet(e, ratchet[e], Len(wire[e]), r, accepted[e])
    BY DEF IInv
  <2>2. SharedRoot \in Roots(ratchet[e])
    BY <2>1 DEF IsRatchet, Unrotated, Roots
  <2>3. wire[d][i].key = HandshakeKey(d, i - 1) /\ i - 1 \in Nat
    BY PacketFields
  <2>4. OnChain(ChainKey(SharedRoot, SendHalf(d), 0), wire[d][i].key)
    BY <2>3 DEF OnChain, HandshakeKey, ChainKey
  <2>5. QED
    BY <2>2, <2>4, Ends DEF CanDerive
<1>2. QED
  BY <1>1, Invariance, PTL

\* No session rotates its keys: whatever is exchanged, in both directions and
\* for however long, every packet is sealed under a key derived from the
\* handshake secret alone, and no end ever changes its Diffie-Hellman pair.
THEOREM NeverRotates == Spec => []KeysNeverRotate
<1>1. IInv => KeysNeverRotate
  <2> SUFFICES ASSUME IInv, NEW e \in Party
               PROVE  /\ \A i \in DOMAIN wire[e] :
                           wire[e][i].key.root = FirstRoot(KeyPair(e, 0), KeyPair(Peer(e), 0))
                      /\ alive[e] => ratchet[e].dhPair = KeyPair(e, 0)
    BY DEF KeysNeverRotate
  <2>1. ASSUME NEW i \in DOMAIN wire[e] PROVE wire[e][i].key.root = SharedRoot
    <3>1. wire[e][i].key = HandshakeKey(e, i - 1)
      BY PacketFields
    <3>2. QED
      BY <3>1 DEF HandshakeKey, ChainKey
  <2>2. ASSUME alive[e] PROVE ratchet[e].dhPair = KeyPair(e, 0)
    <3>1. PICK r \in Nat :
            IsRatchet(e, ratchet[e], Len(wire[e]), r, accepted[e])
      BY <2>2 DEF IInv
    <3>2. QED
      BY <3>1 DEF IsRatchet, Unrotated
  <2>3. QED
    BY <2>1, <2>2, OneRoot
<1>2. QED
  BY <1>1, Invariance, PTL

\* The types of the state.
THEOREM TypeCorrect == Spec => []TypeOK
<1>1. IInv => TypeOK
  <2> SUFFICES ASSUME IInv PROVE TypeOK
    OBVIOUS
  <2>1. ASSUME NEW e \in Party
        PROVE  /\ accepted[e] \subseteq 1 .. MaxSent
               /\ DOMAIN wire[e] \subseteq 1 .. MaxSent
    <3>1. accepted[e] \subseteq 1 .. Len(wire[Peer(e)])
      BY DEF IInv
    <3>2. Len(wire[Peer(e)]) \in 0 .. MaxSent /\ IsLog(e, wire[e])
      BY Ends DEF IInv, IsLog
    <3>3. QED
      BY <3>1, <3>2, SessionAssumption DEF IsLog
  <2>2. ASSUME NEW e \in Party
        PROVE  KeyPair(e, 0) \in KeyOf
    BY <2>2 DEF KeyPair, KeyOf
  <2>3. ASSUME NEW e \in Party, NEW i \in Nat
        PROVE  HandshakeKey(e, i) \in ChainKeyOf
    <3>1. SharedRoot \in Seq(SUBSET KeyOf)
      BY OneRoot
    <3>2. QED
      BY <3>1, Ends DEF HandshakeKey, ChainKey, ChainKeyOf
  <2>4. ASSUME NEW e \in Party, NEW i \in DOMAIN wire[e]
        PROVE  wire[e][i] \in [pub : KeyOf, n : Nat, pn : Nat, key : ChainKeyOf]
    <3>1. wire[e][i] = Packet(e, i - 1) /\ i - 1 \in Nat
      BY PacketFields
    <3>2. QED
      BY <2>2, <2>3, <3>1 DEF Packet
  <2>5. ASSUME NEW e \in Party
        PROVE  /\ {ratchet[e].sendCk, ratchet[e].recvCk} \subseteq ChainKeyOf
               /\ {ratchet[e].dhPair, ratchet[e].remoteKey} \subseteq KeyOf
               /\ {ratchet[e].sendMn, ratchet[e].recvMn} \subseteq Nat
    <3>1. CASE alive[e]
      <4>1. PICK r \in Nat :
              IsRatchet(e, ratchet[e], Len(wire[e]), r, accepted[e])
        BY <3>1 DEF IInv
      <4>2. Len(wire[e]) \in Nat
        BY SessionAssumption DEF IInv, IsLog
      <4>3. /\ ratchet[e].sendCk = HandshakeKey(e, Len(wire[e]))
            /\ ratchet[e].recvCk = HandshakeKey(Peer(e), r)
            /\ ratchet[e].dhPair = KeyPair(e, 0)
            /\ ratchet[e].remoteKey = KeyPair(Peer(e), 0)
            /\ ratchet[e].sendMn = Len(wire[e])
            /\ ratchet[e].recvMn = r
        BY <4>1 DEF IsRatchet, Unrotated
      <4>4. QED
        BY <2>2, <2>3, <4>2, <4>3, Ends
    <3>2. CASE ~ alive[e]
      <4>1. /\ ratchet[e].sendCk = NoChain /\ ratchet[e].recvCk = NoChain
            /\ ratchet[e].dhPair = NoKey /\ ratchet[e].remoteKey = NoKey
            /\ ratchet[e].sendMn = 0 /\ ratchet[e].recvMn = 0
        BY <3>2 DEF IInv, Closed, Cleared
      <4>2. <<>> \in Seq(SUBSET KeyOf)
        OBVIOUS
      <4>3. NoChain \in ChainKeyOf /\ NoKey \in KeyOf
        BY <4>2 DEF NoChain, NoRoot, NoKey, ChainKey, KeyPair, ChainKeyOf, KeyOf
      <4>4. QED
        BY <4>1, <4>3
    <3>3. QED
      BY <3>1, <3>2
  <2>6. /\ accepted \in [Party -> SUBSET (1 .. MaxSent)]
        /\ handled \in [Party -> Nat] /\ alive \in [Party -> BOOLEAN]
    BY <2>1 DEF IInv
  <2>7. QED
    BY <2>1, <2>4, <2>5, <2>6 DEF TypeOK
<1>2. QED
  BY <1>1, Invariance, PTL

-----------------------------------------------------------------------------
(* A session implements the at-most-once channel *)

LEMMA ChannelInit == Init => Channel!Init
<1>1. ASSUME NEW e PROVE Len(<<>>) = 0
  OBVIOUS
<1>2. QED
  BY <1>1 DEF Init, Channel!Init, Channel!End, Party

LEMMA ChannelStep == IInv /\ [Next]_vars => [Channel!Next]_(Channel!vars)
<1> SUFFICES ASSUME IInv, [Next]_vars
             PROVE  [Channel!Next]_(Channel!vars)
  OBVIOUS
<1> DEFINE lens == [d \in Party |-> Len(wire[d])]
<1>1. Channel!End = Party /\ \A e : Channel!Other(e) = Peer(e)
  BY DEF Channel!End, Channel!Other, Party, Peer
<1>2. ASSUME NEW e \in Party, Send(e) PROVE Channel!Send(e)
  <2>1. IsLog(e, wire[e])
    BY DEF IInv
  <2>2. Len(Append(wire[e], Sealed(ratchet[e]))) = Len(wire[e]) + 1
    BY <2>1, SessionAssumption DEF IsLog
  <2>3. /\ wire' = [wire EXCEPT ![e] = Append(wire[e], Sealed(ratchet[e]))]
        /\ alive[e] /\ alive' = alive /\ accepted' = accepted
        /\ handled' = handled
    BY <1>2 DEF Send
  <2>4. ASSUME NEW d \in Party
        PROVE  Len(wire'[d]) = IF d = e THEN Len(wire[e]) + 1 ELSE Len(wire[d])
    BY <2>2, <2>3 DEF IInv
  <2>5. [d \in Party |-> Len(wire'[d])] = [lens EXCEPT ![e] = lens[e] + 1]
    BY <2>4
  <2>6. QED
    BY <2>3, <2>5 DEF Channel!Send
<1>3. ASSUME NEW e \in Party, Accept(e) PROVE Channel!Deliver(e)
  <2>1. /\ alive[e] /\ alive' = alive /\ wire' = wire
        /\ handled' = [handled EXCEPT ![e] = @ + 1]
    BY <1>3 DEF Accept
  <2>2. PICK i \in DOMAIN wire[Peer(e)] :
          /\ Opens(ratchet[e], wire[Peer(e)][i])
          /\ accepted' = [accepted EXCEPT ![e] = @ \cup {i}]
    BY <1>3 DEF Accept
  <2>3. i \in 1 .. Len(wire[Peer(e)]) /\ i \notin accepted[e]
    BY <2>1, <2>2, Arrivals
  <2>4. i \in (1 .. lens[Peer(e)]) \ accepted[e]
    BY <2>3, Ends
  <2>5. QED
    BY <1>1, <2>1, <2>2, <2>4 DEF Channel!Deliver
<1>4. ASSUME NEW e \in Party, Reject(e) \/ Close(e) PROVE Channel!Close(e)
  BY <1>4 DEF Reject, Close, Shut, Channel!Close
<1>5. CASE UNCHANGED vars
  BY <1>5 DEF vars, Channel!vars
<1>6. QED
  BY <1>1, <1>2, <1>3, <1>4, <1>5 DEF Next, Channel!Next

\* A session over a transport that loses, repeats and reorders packets is a
\* channel that delivers each payload at most once and only after it was sent.
THEOREM Implementation == Spec => ImplementsChannel
BY ChannelInit, ChannelStep, Invariance, PTL
   DEF Spec, ImplementsChannel, Channel!Spec
=============================================================================

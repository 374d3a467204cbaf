--------------------------- MODULE DoubleRatchet ---------------------------
(***************************************************************************)
(* The class DoubleRatchet of double_ratchet.py as a pure algorithm: a     *)
(* ratchet is a record, encrypt and decrypt map a ratchet to the ratchet   *)
(* that the method leaves behind.                                          *)
(*                                                                         *)
(* Key derivation is symbolic and injective, as HKDF and HMAC-SHA256 are   *)
(* taken to be: a root key is the sequence of the Diffie-Hellman outputs   *)
(* that went into it, a chain key is (root key, half of the derived block, *)
(* number of _kdf_ck steps), and a message key is the chain key it was     *)
(* derived from.  Ciphertexts are authenticated: a message opens exactly   *)
(* under the key it was sealed with.                                       *)
(***************************************************************************)
EXTENDS Integers, Sequences

CONSTANTS A, B,         \* the two ends of a session
          Initiators,   \* the ends constructed with is_initiator = True
          MaxSkip       \* max_skip, 1000 in the code

ASSUME RatchetAssumption ==
  /\ A # B
  /\ Initiators \subseteq {A, B}
  /\ MaxSkip \in Nat

Party == {A, B}
Peer(e) == IF e = A THEN B ELSE A

(***************************************************************************)
(* Keys.  KeyPair(e, 0) is the ephemeral handshake key of end e, later     *)
(* generations come from X25519PrivateKey.generate().                      *)
(***************************************************************************)
KeyPair(e, g) == [owner |-> e, gen |-> g]
ChainKey(root, half, i) == [root |-> root, half |-> half, step |-> i]

NoKey     == KeyPair("wiped", 0)
NoRoot    == <<>>
NoChain   == ChainKey(NoRoot, "wiped", 0)
NoSkipped == [k \in {} |-> NoChain]

\* X25519 is commutative: the output is the pair of keys it was computed from.
Dh(private, public) == {private, public}

\* _kdf_ck: the message key of a chain key, and the chain key i steps later.
MessageKey(ck) == ck
Advance(ck, i) == [ck EXCEPT !.step = @ + i]

\* _kdf_rk: a Diffie-Hellman output is mixed into the root key; the chain key
\* comes out of the same derivation.
MixRoot(root, dh) == Append(root, dh)

\* The root key of the constructor comes from the handshake secret, which is
\* the output of the two handshake keys.
FirstRoot(private, public) == MixRoot(NoRoot, Dh(private, public))
RatchetChain(root) == ChainKey(root, "ratchet", 0)

Halves == {"first", "second"}
OtherHalf(h) == IF h = "first" THEN "second" ELSE "first"

\* Mutant: the two ends do not swap the halves.
SendHalfSame(e) == "first"

SendHalf(e) == IF e \in Initiators THEN "first" ELSE "second"

(***************************************************************************)
(* __init__: both ends derive the two chains from the handshake secret,    *)
(* with each other's handshake key as the remote key and no ratchet due.   *)
(***************************************************************************)
NewRatchet(e) ==
  LET root == FirstRoot(KeyPair(e, 0), KeyPair(Peer(e), 0))
  IN [ rootKey        |-> root,
       dhPair         |-> KeyPair(e, 0),
       remoteKey      |-> KeyPair(Peer(e), 0),
       sendCk         |-> ChainKey(root, SendHalf(e), 0),
       recvCk         |-> ChainKey(root, OtherHalf(SendHalf(e)), 0),
       sendMn         |-> 0,
       recvMn         |-> 0,
       prevLen        |-> 0,
       skipped        |-> NoSkipped,
       pendingRatchet |-> FALSE ]

StartSendChain(r) ==
  LET fresh == [r.dhPair EXCEPT !.gen = @ + 1]
      root  == MixRoot(r.rootKey, Dh(fresh, r.remoteKey))
  IN [r EXCEPT !.dhPair = fresh, !.rootKey = root,
               !.sendCk = RatchetChain(root), !.sendMn = 0,
               !.prevLen = r.sendMn, !.pendingRatchet = FALSE]

StartRecvChain(r, newRemote, prevLen) ==
  LET root == MixRoot(r.rootKey, Dh(r.dhPair, newRemote))
  IN [r EXCEPT !.rootKey = root, !.recvCk = RatchetChain(root),
               !.remoteKey = newRemote, !.recvMn = 0,
               !.prevLen = prevLen, !.pendingRatchet = TRUE]

\* The ValueError of _skip_message_keys.
TooManySkipped(r, until) == until - r.recvMn > MaxSkip

\* _skip_message_keys when it does not raise: the keys of the numbers from
\* recvMn up to until are stored under the remote key they belong to.
\* Mutant: the last of the skipped numbers is left out.
SkippedKeysShort(r, until) ==
  LET new == {<<r.remoteKey, i>> : i \in r.recvMn .. (until - 2)}
  IN [k \in DOMAIN r.skipped \cup new |->
        IF k \in new THEN MessageKey(Advance(r.recvCk, k[2] - r.recvMn))
                     ELSE r.skipped[k]]

\* Mutant: the number that arrived is stored as well.
SkippedKeysLong(r, until) ==
  LET new == {<<r.remoteKey, i>> : i \in r.recvMn .. until}
  IN [k \in DOMAIN r.skipped \cup new |->
        IF k \in new THEN MessageKey(Advance(r.recvCk, k[2] - r.recvMn))
                     ELSE r.skipped[k]]

SkippedKeys(r, until) ==
  LET new == {<<r.remoteKey, i>> : i \in r.recvMn .. (until - 1)}
  IN [k \in DOMAIN r.skipped \cup new |->
        IF k \in new THEN MessageKey(Advance(r.recvCk, k[2] - r.recvMn))
                     ELSE r.skipped[k]]

SkipMessageKeys(r, until) ==
  IF r.recvMn >= until THEN r
  ELSE [r EXCEPT !.skipped = SkippedKeys(r, until),
                 !.recvCk  = Advance(r.recvCk, until - r.recvMn),
                 !.recvMn  = until]

\* Mutant: each packet starts a new sending chain.
SendingRatchetAlways(r) == StartSendChain(r)

(***************************************************************************)
(* encrypt: the ratchet after any pending DH ratchet step, the message it  *)
(* emits, and the ratchet it leaves.                                       *)
(***************************************************************************)
SendingRatchet(r) == IF r.pendingRatchet THEN StartSendChain(r) ELSE r

Sealed(r) ==
  LET s == SendingRatchet(r)
  IN [pub |-> s.dhPair, n |-> s.sendMn, pn |-> s.prevLen,
      key |-> MessageKey(s.sendCk)]

\* Mutant: the sending chain is not replaced by what _kdf_ck returns.
AfterEncryptSameKey(r) ==
  LET s == SendingRatchet(r)
  IN [s EXCEPT !.sendMn = @ + 1]

AfterEncrypt(r) ==
  LET s == SendingRatchet(r)
  IN [s EXCEPT !.sendCk = Advance(s.sendCk, 1), !.sendMn = @ + 1]

(***************************************************************************)
(* decrypt: Turned is the DH ratchet test, Current the ratchet after that  *)
(* step.  Opens says that decrypt returns the plaintext and AfterDecrypt   *)
(* is the ratchet it then leaves.  A decrypt that raises ends the session  *)
(* in every caller, so the half-updated ratchet it leaves is never used.   *)
(***************************************************************************)
Turned(r, m) == m.pub # r.remoteKey

Current(r, m) ==
  IF Turned(r, m) THEN StartRecvChain(SkipMessageKeys(r, m.pn), m.pub, m.pn)
                  ELSE r

Late(r, m) == m.n < Current(r, m).recvMn

OpensLate(r, m) ==
  /\ <<m.pub, m.n>> \in DOMAIN Current(r, m).skipped
  /\ Current(r, m).skipped[<<m.pub, m.n>>] = m.key

OpensInOrder(r, m) ==
  /\ ~ TooManySkipped(Current(r, m), m.n)
  /\ MessageKey(SkipMessageKeys(Current(r, m), m.n).recvCk) = m.key

Opens(r, m) ==
  /\ Turned(r, m) => ~ TooManySkipped(r, m.pn)
  /\ IF Late(r, m) THEN OpensLate(r, m) ELSE OpensInOrder(r, m)

Forget(skipped, k) == [x \in DOMAIN skipped \ {k} |-> skipped[x]]

\* Mutant: a skipped key is looked up and not popped.
AfterDecryptKeep(r, m) ==
  LET c == Current(r, m)
      s == SkipMessageKeys(c, m.n)
  IN IF Late(r, m)
     THEN c
     ELSE [s EXCEPT !.recvCk = Advance(s.recvCk, 1), !.recvMn = m.n + 1]

\* Mutant: the number that is due is set one below the packet that arrived.
AfterDecryptLow(r, m) ==
  LET c == Current(r, m)
      s == SkipMessageKeys(c, m.n)
  IN IF Late(r, m)
     THEN [c EXCEPT !.skipped = Forget(c.skipped, <<m.pub, m.n>>)]
     ELSE [s EXCEPT !.recvCk = Advance(s.recvCk, 1), !.recvMn = m.n - 1]

AfterDecrypt(r, m) ==
  LET c == Current(r, m)
      s == SkipMessageKeys(c, m.n)
  IN IF Late(r, m)
     THEN [c EXCEPT !.skipped = Forget(c.skipped, <<m.pub, m.n>>)]
     ELSE [s EXCEPT !.recvCk = Advance(s.recvCk, 1), !.recvMn = m.n + 1]

(***************************************************************************)
(* clear: the key material that is left once a session is closed.          *)
(***************************************************************************)
Cleared(r) ==
  [ rootKey        |-> NoRoot,
    dhPair         |-> NoKey,
    remoteKey      |-> NoKey,
    sendCk         |-> NoChain,
    recvCk         |-> NoChain,
    sendMn         |-> 0,
    recvMn         |-> 0,
    prevLen        |-> 0,
    skipped        |-> NoSkipped,
    pendingRatchet |-> r.pendingRatchet ]

(***************************************************************************)
(* What the state r of a ratchet yields.  OnHand: the message key mk is    *)
(* stored among the skipped keys, or ahead on one of the two chains.       *)
(* CanDerive: or it is on a chain that the constructor derives, from the   *)
(* root key, or from the secret of the two Diffie-Hellman keys.            *)
(***************************************************************************)
OnChain(ck, mk) == mk.root = ck.root /\ mk.half = ck.half /\ ck.step <= mk.step

OnHand(r, mk) ==
  \/ \E k \in DOMAIN r.skipped : r.skipped[k] = mk
  \/ OnChain(r.sendCk, mk)
  \/ OnChain(r.recvCk, mk)

Roots(r) == {r.rootKey, FirstRoot(r.dhPair, r.remoteKey)}

CanDerive(r, mk) ==
  \/ OnHand(r, mk)
  \/ \E root \in Roots(r), h \in Halves : OnChain(ChainKey(root, h, 0), mk)
=============================================================================

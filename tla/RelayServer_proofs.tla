-------------------------- MODULE RelayServer_proofs --------------------------
(***************************************************************************)
(* Proofs about RelayServer, for any set of peers, any number of           *)
(* connections and of requests, and queues of any size.                    *)
(*                                                                         *)
(* The invariants of RelayServer are proved together, as parts of IInv.    *)
(*   - A connection registers once, with its first line (RegisterFirst),   *)
(*     so the entry that its handler removes at the end can only be its    *)
(*     own (Registered).                                                   *)
(*   - A request that the relay did not read is none of those it read      *)
(*     (Unread, TakenOnce, Kept): a message enters the relay once.         *)
(*   - From then on it is in one queue, in the job of one handler or in    *)
(*     one connection (Own).  A send that fails buffers a message whose    *)
(*     connection is lost, and a lost connection carries nothing (OneUp),  *)
(*     so this never makes a second copy, and a full queue holds MaxQueue  *)
(*     different messages for one peer (Destined): EvictedAreOld.          *)
(*   - As long as no connection of a peer goes away, each message for it   *)
(*     waits in one of these places or was received (Once).                *)
(***************************************************************************)
EXTENDS RelayServer, SequenceFacts, FiniteSetTheorems, TLAPS

-----------------------------------------------------------------------------
(* The inductive invariant *)

Line == Messages \cup {Register}

Types ==
  /\ user \in [Conn -> Peer \cup {None}] /\ peerId \in [Conn -> Peer \cup {None}]
  /\ link \in [Conn -> {"none", "up", "cut", "lost"}]
  /\ task \in [Conn -> {"none", "read", "flush", "send", "done"}]
  /\ target \in [Conn -> Conn \cup {None}]
  /\ clients \in [Peer -> Conn \cup {None}] /\ newest \in [Peer -> Conn \cup {None}]
  /\ wire \in [Conn -> Seq(Line)]
  /\ out \in [Conn -> Seq(Messages)] /\ job \in [Conn -> Seq(Messages)]
  /\ offline \in [Peer -> Seq(Messages)]
  /\ sent \in 0 .. MaxRelay /\ got \in [1 .. MaxRelay -> Nat]
  /\ taken \subseteq Messages /\ IsFiniteSet(taken) /\ evicted \subseteq taken

\* A queue is within its limit.
Limited == \A p \in Peer : Len(offline[p]) <= MaxQueue

\* A connection that was not opened has no link, no handler and no lines.
Opened ==
  \A c \in Conn :
    /\ user[c] = None <=> link[c] = "none"
    /\ user[c] = None <=> task[c] = "none"
    /\ user[c] = None => wire[c] = <<>> /\ peerId[c] = None

\* A node has one connection that is up, and only such ones carry lines.
OneUp ==
  /\ \A c, d \in Conn : link[c] = "up" /\ link[d] = "up" /\ user[c] = user[d] => c = d
  /\ \A c \in Conn : out[c] # <<>> => link[c] = "up"

\* A connection registers its own peer, with its first line and only once.
RegisterFirst ==
  \A c \in Conn :
    /\ In(Register, wire[c]) => Head(wire[c]) = Register /\ peerId[c] = None
    /\ peerId[c] # None => peerId[c] = user[c]

\* The table names connections of their peers whose handlers run, and the one
\* that registered last as long as its handler runs.
Registered ==
  \A p \in Peer :
    /\ clients[p] # None => peerId[clients[p]] = p /\ task[clients[p]] # "done"
    /\ newest[p] # None =>
         peerId[newest[p]] = p /\ (task[newest[p]] # "done" => clients[p] = newest[p])

\* The job of a handler: what it flushes is for its own peer, what it sends is one
\* message for the peer of its target.
Jobs ==
  \A c \in Conn :
    /\ task[c] \notin {"flush", "send"} => job[c] = <<>>
    /\ task[c] = "flush" => \A m \in Messages : In(m, job[c]) => m.to = user[c]
    /\ task[c] = "send" =>
         Len(job[c]) = 1 /\ target[c] \in Conn /\ user[target[c]] = Head(job[c]).to

\* Messages wait where their peer gets them.
Destined ==
  /\ \A c \in Conn : \A m \in Messages : In(m, out[c]) => m.to = user[c]
  /\ \A p \in Peer : \A m \in Messages : In(m, offline[p]) => m.to = p

\* A message is one request: what is still to be read was never read, and the
\* identifiers of the requests are different.
Unread ==
  \A c \in Conn :
    /\ Inj(wire[c])
    /\ \A m \in Messages : In(m, wire[c]) =>
         /\ m.id <= sent
         /\ \A n \in taken : n.id # m.id
         /\ \A d \in Conn, n \in Messages : In(n, wire[d]) /\ n.id = m.id => c = d /\ m = n

TakenOnce ==
  /\ \A m \in taken : m.id <= sent
  /\ \A m, n \in taken : m.id = n.id => m = n

\* Only messages that were read are held, and received.
Kept ==
  /\ \A c \in Conn : \A m \in Messages : In(m, out[c]) \/ In(m, job[c]) => m \in taken
  /\ \A p \in Peer : \A m \in Messages : In(m, offline[p]) => m \in taken
  /\ \A i \in 1 .. MaxRelay : got[i] > 0 => \E m \in taken : m.id = i

\* A message is in one queue, one job or one connection; while it is sent it may
\* be in the connection of the target too.
Own ==
  /\ \A c \in Conn : Inj(out[c]) /\ Inj(job[c])
  /\ \A p \in Peer : Inj(offline[p])
  /\ \A m \in Messages : \A c \in Conn : In(m, job[c]) =>
       /\ ~ In(m, offline[m.to])
       /\ \A d \in Conn : In(m, job[d]) => c = d
  /\ \A m \in Messages : \A c \in Conn : In(m, out[c]) =>
       /\ ~ In(m, offline[m.to])
       /\ \A d \in Conn : In(m, job[d]) => task[d] = "send" /\ target[d] = c

\* m waits for its peer.
Waits(m) ==
  \/ In(m, offline[m.to])
  \/ \E c \in Conn : In(m, out[c])
  \/ \E c \in Conn : task[c] = "flush" /\ In(m, job[c])

\* As long as the connections of its peer last, a message waits or was received.
Once ==
  \A m \in taken \ evicted : ~ LostConnection(m.to) =>
    \/ got[m.id] = 1 /\ ~ Waits(m)
    \/ got[m.id] = 0 /\ Waits(m)

IInv ==
  /\ Types /\ Limited /\ Opened /\ OneUp /\ RegisterFirst /\ Registered /\ Jobs
  /\ Destined /\ Unread /\ TakenOnce /\ Kept /\ Own /\ Once /\ EvictedAreOld

-----------------------------------------------------------------------------
(* Messages *)

\* The parts of a message, which is no registration.
LEMMA MessageFacts ==
  /\ \A m \in Messages : m.id \in 1 .. MaxRelay /\ m.to \in Peer /\ m.type = "relay"
  /\ Register.type = "register" /\ Register \notin Messages
  /\ \A i \in 1 .. MaxRelay, p \in Peer :
       Relay(i, p) \in Messages /\ Relay(i, p).id = i /\ Relay(i, p).to = p
<1>1. \A i, p : Relay(i, p).id = i /\ Relay(i, p).to = p /\ Relay(i, p).type = "relay"
  BY DEF Relay
<1>2. Register.type = "register"
  BY DEF Register
<1>3. QED
  BY <1>1, <1>2 DEF Messages

-----------------------------------------------------------------------------
(* Consequences of the invariant *)

\* The types of the variables, pointwise.
LEMMA Members ==
  ASSUME Types
  PROVE  /\ \A c \in Conn :
              /\ user[c] \in Peer \cup {None} /\ peerId[c] \in Peer \cup {None}
              /\ link[c] \in {"none", "up", "cut", "lost"}
              /\ task[c] \in {"none", "read", "flush", "send", "done"}
              /\ target[c] \in Conn \cup {None}
              /\ wire[c] \in Seq(Line)
              /\ out[c] \in Seq(Messages) /\ job[c] \in Seq(Messages)
         /\ \A p \in Peer : clients[p] \in Conn \cup {None} /\ newest[p] \in Conn \cup {None}
         /\ \A p \in Peer : offline[p] \in Seq(Messages)
         /\ sent \in 0 .. MaxRelay /\ \A i \in 1 .. MaxRelay : got[i] \in Nat
         /\ taken \subseteq Messages /\ IsFiniteSet(taken) /\ evicted \subseteq taken
  BY DEF Types

\* The connection that the table names for a peer is one that this peer opened.
LEMMA RegisteredIsOpen ==
  ASSUME IInv, NEW p \in Peer, clients[p] # None
  PROVE  /\ clients[p] \in Conn /\ user[clients[p]] = p
         /\ link[clients[p]] \in {"up", "cut", "lost"}
<1>1. clients[p] \in Conn
  BY Members DEF IInv
<1>2. peerId[clients[p]] = p /\ p # None
  BY RelayAssumption DEF IInv, Registered
<1>3. user[clients[p]] = p
  BY <1>1, <1>2 DEF IInv, RegisterFirst
<1>4. link[clients[p]] \in {"none", "up", "cut", "lost"}
  BY <1>1, Members DEF IInv
<1>5. QED
  BY <1>1, <1>2, <1>3, <1>4 DEF IInv, Opened

\* A connection of p that neither was cut nor is lost, unless p lost one.
LEMMA StillUp ==
  ASSUME IInv, NEW c \in Conn, user[c] # None, ~ LostConnection(user[c])
  PROVE  link[c] = "up"
<1>1. link[c] \in {"none", "up", "cut", "lost"}
  BY Members DEF IInv
<1>2. QED
  BY <1>1 DEF IInv, Opened, LostConnection

\* The counts of EvictedAreOld grow with what was read.
LEMMA OldStayOld ==
  ASSUME IInv, taken \subseteq taken', IsFiniteSet(taken'), NEW m \in evicted
  PROVE  Cardinality({n \in taken' : n.to = m.to /\ n # m}) >= MaxQueue
<1>1. DEFINE old == {n \in taken : n.to = m.to /\ n # m}
             new == {n \in taken' : n.to = m.to /\ n # m}
<1>2. Cardinality(old) >= MaxQueue
  BY DEF IInv, EvictedAreOld
<1>3. old \subseteq new /\ old \subseteq taken /\ new \subseteq taken'
  OBVIOUS
<1>4. IsFiniteSet(old) /\ IsFiniteSet(new)
  BY <1>3, FS_Subset, Members DEF IInv
<1>5. Cardinality(old) <= Cardinality(new)
  BY <1>3, <1>4, FS_Subset
<1>6. Cardinality(old) \in Nat /\ Cardinality(new) \in Nat /\ MaxQueue \in Nat
  BY <1>4, FS_CardinalityType, RelayAssumption
<1>7. QED
  BY <1>2, <1>5, <1>6

\* _buffer, for a message that is not in the queue.
LEMMA BufferFacts ==
  ASSUME IInv, NEW m \in Messages, ~ In(m, offline[m.to]), Buffer(m),
         taken \subseteq taken', m \in taken', IsFiniteSet(taken')
  PROVE  /\ offline' \in [Peer -> Seq(Messages)]
         /\ \A p \in Peer : Len(offline'[p]) <= MaxQueue /\ Inj(offline'[p])
         /\ \A p \in Peer : \A n :
              In(n, offline'[p]) => In(n, offline[p]) \/ (n = m /\ p = m.to)
         /\ \A p \in Peer : \A n : In(n, offline[p]) => In(n, offline'[p]) \/ n \in evicted'
         /\ In(m, offline'[m.to]) \/ m \in evicted'
         /\ evicted \subseteq evicted' /\ evicted' \subseteq taken'
         /\ EvictedAreOld'
<1>1. m.to \in Peer
  BY MessageFacts
<1>2. PICK q \in Seq(Messages) : q = offline[m.to]
  BY <1>1, Members DEF IInv
<1>3. /\ Len(q) <= MaxQueue /\ Inj(q) /\ ~ In(m, q)
      /\ \A n \in Messages : In(n, q) => n.to = m.to /\ n \in taken
  BY <1>1, <1>2 DEF IInv, Limited, Own, Destined, Kept
<1>4. PICK a : a = Append(q, m)
  OBVIOUS
<1>5. /\ a \in Seq(Messages) /\ a # <<>> /\ Len(a) = Len(q) + 1 /\ Inj(a)
      /\ \A n : In(n, a) <=> In(n, q) \/ n = m
  BY <1>3, <1>4, AppendFacts
<1>6. /\ Tail(a) \in Seq(Messages) /\ Head(a) \in Messages
      /\ Len(Tail(a)) = Len(a) - 1 /\ In(Head(a), a)
      /\ \A n : In(n, Tail(a)) => In(n, a)
      /\ \A n : In(n, a) => n = Head(a) \/ In(n, Tail(a))
      /\ Inj(Tail(a)) /\ ~ In(Head(a), Tail(a))
  BY <1>5, TailFacts
<1>7. \A n : In(n, a) => n \in Messages /\ n.to = m.to /\ n \in taken'
  <2>1. ASSUME NEW n, In(n, a)
        PROVE  n \in Messages /\ n.to = m.to /\ n \in taken'
    <3>1. n \in Messages
      BY <1>5, <2>1, Element
    <3>2. QED
      BY <1>3, <1>5, <2>1, <3>1
  <2>2. QED
    BY <2>1
<1>8. PICK b : b = IF Len(a) > MaxQueue THEN Tail(a) ELSE a
  OBVIOUS
<1>9. /\ b \in Seq(Messages) /\ Inj(b) /\ Len(b) <= MaxQueue
      /\ \A n : In(n, b) => In(n, q) \/ n = m
  <2>1. Len(q) \in Nat /\ MaxQueue \in Nat
    BY RelayAssumption
  <2>2. QED
    BY <1>3, <1>5, <1>6, <1>8, <2>1
<1>10. /\ offline' = [offline EXCEPT ![m.to] = b]
       /\ evicted' = IF Len(a) > MaxQueue THEN evicted \cup {Head(a)} ELSE evicted
  BY <1>2, <1>4, <1>8 DEF Buffer
<1>11. \A n : In(n, a) => In(n, b) \/ n \in evicted'
  BY <1>6, <1>8, <1>10
<1>12. offline' \in [Peer -> Seq(Messages)]
  BY <1>9, <1>10 DEF IInv, Types
<1>13. /\ offline'[m.to] = b
       /\ \A p \in Peer : p # m.to => offline'[p] = offline[p]
  BY <1>1, <1>10 DEF IInv, Types
<1>14. \A p \in Peer : Len(offline'[p]) <= MaxQueue /\ Inj(offline'[p])
  BY <1>9, <1>13 DEF IInv, Limited, Own
<1>15. \A p \in Peer : \A n :
         In(n, offline'[p]) => In(n, offline[p]) \/ (n = m /\ p = m.to)
  BY <1>2, <1>9, <1>13
<1>16. \A p \in Peer : \A n : In(n, offline[p]) => In(n, offline'[p]) \/ n \in evicted'
  BY <1>2, <1>5, <1>11, <1>13
<1>17. In(m, offline'[m.to]) \/ m \in evicted'
  BY <1>5, <1>11, <1>13
<1>18. evicted \subseteq evicted' /\ evicted' \subseteq taken'
  <2>1. evicted \subseteq taken'
    BY Members DEF IInv
  <2>2. Head(a) \in taken'
    BY <1>6, <1>7
  <2>3. QED
    BY <1>10, <2>1, <2>2
<1>19. EvictedAreOld'
  <2>1. ASSUME NEW e \in evicted', e \notin evicted
        PROVE  Cardinality({n \in taken' : n.to = e.to /\ n # e}) >= MaxQueue
    <3>1. e = Head(a) /\ Len(a) > MaxQueue
      BY <1>10, <2>1
    <3>2. Len(Tail(a)) >= MaxQueue
      BY <1>5, <1>6, <3>1, RelayAssumption
    <3>3. PICK T : T = {n \in taken' : n.to = e.to /\ n # e}
      OBVIOUS
    <3>4. IsFiniteSet(T)
      BY <3>3, FS_Subset
    <3>5. ASSUME NEW n, In(n, Tail(a))
          PROVE  n \in T
      BY <1>6, <1>7, <3>1, <3>3, <3>5
    <3>6. Cardinality(T) >= Len(Tail(a))
      BY <1>6, <3>4, <3>5, Elements
    <3>7. Cardinality(T) \in Nat /\ MaxQueue \in Nat /\ Len(Tail(a)) \in Nat
      BY <1>6, <3>4, FS_CardinalityType, RelayAssumption
    <3>8. QED
      BY <3>2, <3>3, <3>6, <3>7
  <2>2. QED
    BY <2>1, OldStayOld DEF EvictedAreOld
<1>20. QED
  BY <1>12, <1>14, <1>15, <1>16, <1>17, <1>18, <1>19

-----------------------------------------------------------------------------
(* The steps of the peers and the network *)

\* A connection is opened: nothing was there before but its registration.
LEMMA OpenInv ==
  ASSUME IInv, NEW p \in Peer, NEW c \in Conn, Open(p, c)
  PROVE  IInv'
<1>1. /\ user[c] = None /\ link[c] = "none" /\ task[c] = "none"
      /\ peerId[c] = None /\ job[c] = <<>> /\ out[c] = <<>>
  BY DEF Open, IInv, Opened, OneUp, Jobs
<1>2. /\ \A d \in Conn : user'[d] = IF d = c THEN p ELSE user[d]
      /\ \A d \in Conn : link'[d] = IF d = c THEN "up" ELSE link[d]
      /\ \A d \in Conn : wire'[d] = IF d = c THEN <<Register>> ELSE wire[d]
      /\ \A d \in Conn : task'[d] = IF d = c THEN "read" ELSE task[d]
  BY DEF Open, IInv, Types
<1>3. /\ \A d \in Conn : user[d] = p => link[d] # "up"
      /\ out' = out /\ job' = job /\ target' = target /\ peerId' = peerId
      /\ clients' = clients /\ offline' = offline /\ sent' = sent
      /\ taken' = taken /\ got' = got /\ evicted' = evicted /\ newest' = newest
  BY DEF Open, history
<1>4. Types'
  <2>1. <<Register>> \in Seq(Line)
    BY DEF Line
  <2>2. QED
    BY <1>3, <2>1 DEF Open, IInv, Types
<1>5. Limited' /\ TakenOnce' /\ Kept' /\ EvictedAreOld'
  BY <1>3 DEF IInv, Limited, TakenOnce, Kept, EvictedAreOld
<1>6. Opened'
  BY <1>1, <1>2, <1>3, RelayAssumption DEF IInv, Opened
<1>7. OneUp'
  BY <1>1, <1>2, <1>3 DEF IInv, OneUp
<1>8. RegisterFirst'
  BY <1>1, <1>2, <1>3, ShortSequences DEF IInv, RegisterFirst
<1>9. Registered'
  <2>1. ASSUME NEW q \in Peer
        PROVE  /\ clients[q] # None => task'[clients[q]] # "done"
               /\ newest[q] # None => newest[q] # c
    BY <1>1, <1>2, Members, RelayAssumption DEF IInv, Registered
  <2>2. QED
    BY <1>2, <1>3, <2>1, Members DEF IInv, Registered
<1>10. Jobs'
  <2>1. ASSUME NEW d \in Conn, d # c, task[d] = "send"
        PROVE  target[d] # c
    <3>1. Head(job[d]) \in Messages
      BY <2>1, Members, TailFacts, Single DEF IInv, Jobs
    <3>2. user[target[d]] \in Peer
      BY <2>1, <3>1, MessageFacts DEF IInv, Jobs
    <3>3. QED
      BY <1>1, <3>2, RelayAssumption
  <2>2. QED
    BY <1>1, <1>2, <1>3, <2>1 DEF IInv, Jobs
<1>11. Destined'
  BY <1>1, <1>2, <1>3, ShortSequences DEF IInv, Destined
<1>12. Unread'
  BY <1>2, <1>3, ShortSequences, MessageFacts DEF IInv, Unread
<1>13. Own'
  BY <1>1, <1>2, <1>3, ShortSequences DEF IInv, Own
<1>14. Once'
  <2>1. ASSUME NEW m \in taken, ~ LostConnection(m.to)'
        PROVE  ~ LostConnection(m.to) /\ Waits(m)' = Waits(m)
    <3>1. m.to \in Peer
      BY Members, MessageFacts DEF IInv
    <3>2. ~ LostConnection(m.to)
      BY <1>1, <1>2, <2>1, <3>1, RelayAssumption DEF LostConnection
    <3>3. Waits(m)' = Waits(m)
      BY <1>1, <1>2, <1>3 DEF Waits
    <3>4. QED
      BY <3>2, <3>3
  <2>2. QED
    BY <1>3, <2>1 DEF IInv, Once
<1>15. QED
  BY <1>4, <1>5, <1>6, <1>7, <1>8, <1>9, <1>10, <1>11, <1>12, <1>13, <1>14 DEF IInv

\* A request is sent, with a new identifier.
LEMMA SendRelayInv ==
  ASSUME IInv, NEW c \in Conn, NEW p \in Peer, SendRelay(c, p)
  PROVE  IInv'
<1>1. PICK m : m = Relay(sent', p)
  OBVIOUS
<1>2. /\ sent' = sent + 1 /\ sent \in Nat /\ sent' \in 1 .. MaxRelay
      /\ m \in Messages /\ m \in Line /\ m # Register /\ m.id = sent + 1
  <2>1. sent' = sent + 1 /\ sent \in Nat /\ sent' \in 1 .. MaxRelay
    BY RelayAssumption, Members DEF SendRelay, IInv
  <2>2. QED
    BY <1>1, <2>1, MessageFacts DEF Line
<1>3. \A d \in Conn : wire'[d] = IF d = c THEN Append(wire[c], m) ELSE wire[d]
  BY <1>1 DEF SendRelay, IInv, Types
<1>4. /\ link[c] = "up"
      /\ user' = user /\ link' = link /\ out' = out /\ task' = task /\ job' = job
      /\ target' = target /\ peerId' = peerId /\ clients' = clients
      /\ offline' = offline /\ taken' = taken /\ got' = got
      /\ evicted' = evicted /\ newest' = newest
  BY DEF SendRelay, server, history
<1>5. wire[c] \in Seq(Line)
  BY Members DEF IInv
<1>6. \A n \in Messages, d \in Conn : In(n, wire[d]) => n.id <= sent /\ n # m
  BY <1>2 DEF IInv, Unread
<1>7. /\ Append(wire[c], m) \in Seq(Line) /\ Inj(Append(wire[c], m))
      /\ \A n : In(n, Append(wire[c], m)) <=> In(n, wire[c]) \/ n = m
      /\ wire[c] # <<>> => Head(Append(wire[c], m)) = Head(wire[c])
  <2>1. ~ In(m, wire[c]) /\ Inj(wire[c])
    BY <1>2, <1>6 DEF IInv, Unread
  <2>2. QED
    BY <1>2, <1>5, <2>1, AppendFacts
<1>8. Types'
  <2>1. wire' \in [Conn -> Seq(Line)]
    BY <1>1, <1>7 DEF SendRelay, IInv, Types
  <2>2. QED
    BY <1>2, <1>4, <2>1 DEF IInv, Types
<1>9. /\ Limited' /\ OneUp' /\ Registered' /\ Jobs' /\ Destined' /\ Kept' /\ Own'
      /\ EvictedAreOld'
  BY <1>4 DEF IInv, Limited, OneUp, Registered, Jobs, Destined, Kept, Own, EvictedAreOld
<1>10. Opened'
  BY <1>3, <1>4 DEF IInv, Opened
<1>11. RegisterFirst'
  <2>1. ASSUME NEW d \in Conn, In(Register, wire'[d])
        PROVE  Head(wire'[d]) = Register /\ peerId[d] = None
    <3>1. In(Register, wire[d])
      BY <1>2, <1>3, <1>7, <2>1
    <3>2. Head(wire[d]) = Register /\ peerId[d] = None
      BY <3>1 DEF IInv, RegisterFirst
    <3>3. wire[d] # <<>>
      BY <3>1, ShortSequences
    <3>4. QED
      BY <1>3, <1>7, <3>2, <3>3
  <2>2. QED
    BY <1>4, <2>1 DEF IInv, RegisterFirst
<1>12. Unread'
  <2>1. \A n \in taken : n.id <= sent
    BY DEF IInv, TakenOnce
  <2>2. ASSUME NEW d \in Conn, NEW n \in Messages, In(n, wire'[d])
        PROVE  (d = c /\ n = m) \/ (In(n, wire[d]) /\ n.id <= sent)
    BY <1>3, <1>6, <1>7, <2>2
  <2>3. ASSUME NEW d \in Conn, NEW n \in Messages, In(n, wire'[d])
        PROVE  /\ n.id <= sent'
               /\ \A k \in taken : k.id # n.id
    <3>1. n.id \in Int
      BY MessageFacts
    <3>2. \A k \in taken : k.id \in Int
      BY MessageFacts, Members DEF IInv
    <3>3. CASE d = c /\ n = m
      BY <1>2, <2>1, <3>1, <3>2, <3>3
    <3>4. CASE In(n, wire[d]) /\ n.id <= sent
      BY <1>2, <3>1, <3>4 DEF IInv, Unread
    <3>5. QED
      BY <2>2, <2>3, <3>3, <3>4
  <2>4. ASSUME NEW d \in Conn, NEW n \in Messages, In(n, wire'[d]),
               NEW e \in Conn, NEW k \in Messages, In(k, wire'[e]), k.id = n.id
        PROVE  d = e /\ n = k
    <3>1. (d = c /\ n = m) \/ (In(n, wire[d]) /\ n.id <= sent)
      BY <2>2, <2>4
    <3>2. (e = c /\ k = m) \/ (In(k, wire[e]) /\ k.id <= sent)
      BY <2>2, <2>4
    <3>3. QED
      BY <1>2, <2>4, <3>1, <3>2 DEF IInv, Unread
  <2>5. \A d \in Conn : Inj(wire'[d])
    BY <1>3, <1>7 DEF IInv, Unread
  <2>6. QED
    BY <1>4, <2>3, <2>4, <2>5 DEF Unread
<1>13. TakenOnce'
  <2>1. \A n \in taken : n.id \in Int
    BY MessageFacts, Members DEF IInv
  <2>2. QED
    BY <1>2, <1>4, <2>1 DEF IInv, TakenOnce
<1>14. Once'
  BY <1>4 DEF IInv, Once, Waits, LostConnection
<1>15. QED
  BY <1>8, <1>9, <1>10, <1>11, <1>12, <1>13, <1>14 DEF IInv

\* A client reads what the relay wrote: the message was not received before.
LEMMA ReadLineInv ==
  ASSUME IInv, NEW c \in Conn, ReadLine(c)
  PROVE  IInv'
<1>1. PICK s \in Seq(Messages) : s = out[c]
  BY Members DEF IInv
<1>2. PICK h : h = Head(out[c])
  OBVIOUS
<1>3. /\ s # <<>> /\ link[c] = "up" /\ Inj(s)
  BY <1>1 DEF ReadLine, IInv, Own
<1>4. /\ Tail(s) \in Seq(Messages) /\ h \in Messages /\ In(h, s)
      /\ \A n : In(n, Tail(s)) => In(n, s)
      /\ \A n : In(n, s) => n = h \/ In(n, Tail(s))
      /\ Inj(Tail(s)) /\ ~ In(h, Tail(s))
  BY <1>1, <1>2, <1>3, TailFacts
<1>5. h.id \in 1 .. MaxRelay /\ h.to \in Peer /\ h.to = user[c] /\ h \in taken
  BY <1>1, <1>4, MessageFacts DEF IInv, Destined, Kept
<1>6. /\ \A d \in Conn : out'[d] = IF d = c THEN Tail(s) ELSE out[d]
      /\ \A i \in 1 .. MaxRelay : got'[i] = IF i = h.id THEN got[i] + 1 ELSE got[i]
  BY <1>1, <1>2, <1>5 DEF ReadLine, IInv, Types
<1>7. /\ user' = user /\ link' = link /\ wire' = wire /\ task' = task /\ job' = job
      /\ target' = target /\ peerId' = peerId /\ clients' = clients
      /\ offline' = offline /\ sent' = sent /\ taken' = taken
      /\ evicted' = evicted /\ newest' = newest
  BY DEF ReadLine, server
<1>8. Types'
  <2>1. out' \in [Conn -> Seq(Messages)]
    BY <1>1, <1>4 DEF ReadLine, IInv, Types
  <2>2. got' \in [1 .. MaxRelay -> Nat]
    BY <1>2, <1>5, SMTT(20) DEF ReadLine, IInv, Types
  <2>3. QED
    BY <1>7, <2>1, <2>2 DEF IInv, Types
<1>9. /\ Limited' /\ Opened' /\ RegisterFirst' /\ Registered' /\ Jobs' /\ Unread'
      /\ TakenOnce' /\ EvictedAreOld'
  BY <1>7 DEF IInv, Limited, Opened, RegisterFirst, Registered, Jobs, Unread, TakenOnce,
              EvictedAreOld
<1>10. OneUp'
  BY <1>3, <1>6, <1>7 DEF IInv, OneUp
<1>11. Destined'
  BY <1>1, <1>4, <1>6, <1>7 DEF IInv, Destined
<1>12. Kept'
  <2>1. \A d \in Conn : \A n \in Messages : In(n, out'[d]) => In(n, out[d])
    BY <1>1, <1>4, <1>6
  <2>2. \A i \in 1 .. MaxRelay : got'[i] > 0 => \E n \in taken : n.id = i
    BY <1>5, <1>6 DEF IInv, Kept
  <2>3. QED
    BY <1>7, <2>1, <2>2 DEF IInv, Kept
<1>13. Own'
  <2>1. \A d \in Conn : \A n \in Messages : In(n, out'[d]) => In(n, out[d])
    BY <1>1, <1>4, <1>6
  <2>2. \A d \in Conn : Inj(out'[d])
    BY <1>4, <1>6 DEF IInv, Own
  <2>3. QED
    BY <1>7, <2>1, <2>2 DEF IInv, Own
<1>14. Once'
  <2>1. ASSUME NEW m \in taken \ evicted, ~ LostConnection(m.to)
        PROVE  \/ got'[m.id] = 1 /\ ~ Waits(m)'
               \/ got'[m.id] = 0 /\ Waits(m)'
    <3>1. m \in Messages /\ m.id \in 1 .. MaxRelay
      BY Members, MessageFacts DEF IInv
    <3>2. \/ got[m.id] = 1 /\ ~ Waits(m)
          \/ got[m.id] = 0 /\ Waits(m)
      BY <2>1 DEF IInv, Once
    <3>3. CASE m = h
      <4>1. Waits(m)
        BY <1>1, <1>4, <3>3 DEF Waits
      <4>2. got'[m.id] = 1
        BY <1>5, <1>6, <3>2, <3>3, <4>1
      <4>3. ~ In(m, offline[m.to]) /\ \A d \in Conn : In(m, job[d]) => task[d] = "send"
        BY <1>1, <1>4, <3>3 DEF IInv, Own
      <4>4. \A d \in Conn : ~ In(m, out'[d])
        <5>1. ASSUME NEW d \in Conn, d # c
              PROVE  ~ In(m, out[d])
          <6>1. ASSUME In(m, out[d])
                PROVE  d = c
            <7>1. user[d] = user[c]
              BY <1>5, <3>1, <3>3, <6>1 DEF IInv, Destined
            <7>2. link[d] = "up"
              BY <6>1, ShortSequences DEF IInv, OneUp
            <7>3. QED
              BY <1>3, <7>1, <7>2 DEF IInv, OneUp
          <6>2. QED
            BY <5>1, <6>1
        <5>2. QED
          BY <1>4, <1>6, <3>3, <5>1
      <4>5. ~ Waits(m)'
        BY <1>7, <4>3, <4>4 DEF Waits
      <4>6. QED
        BY <4>2, <4>5
    <3>4. CASE m # h
      <4>1. m.id # h.id
        BY <1>5, <2>1, <3>4 DEF IInv, TakenOnce
      <4>2. \A d \in Conn : In(m, out'[d]) <=> In(m, out[d])
        BY <1>1, <1>4, <1>6, <3>4
      <4>3. Waits(m)' <=> Waits(m)
        BY <1>7, <4>2 DEF Waits
      <4>4. QED
        BY <1>6, <3>1, <3>2, <4>1, <4>3
    <3>5. QED
      BY <3>3, <3>4
  <2>2. QED
    BY <1>7, <2>1 DEF Once, LostConnection
<1>15. QED
  BY <1>8, <1>9, <1>10, <1>11, <1>12, <1>13, <1>14 DEF IInv

\* A connection is cut, and what the client did not read is gone.
LEMMA CutInv ==
  ASSUME IInv, NEW c \in Conn, Cut(c)
  PROVE  IInv'
<1>1. /\ link[c] = "up" /\ user[c] # None
  BY DEF Cut, IInv, Opened
<1>2. /\ \A d \in Conn : link'[d] = IF d = c THEN "cut" ELSE link[d]
      /\ \A d \in Conn : out'[d] = IF d = c THEN <<>> ELSE out[d]
  BY DEF Cut, IInv, Types
<1>3. /\ user' = user /\ wire' = wire /\ task' = task /\ job' = job
      /\ target' = target /\ peerId' = peerId /\ clients' = clients
      /\ offline' = offline /\ sent' = sent /\ taken' = taken /\ got' = got
      /\ evicted' = evicted /\ newest' = newest
  BY DEF Cut, server, history
<1>4. Types'
  <2>1. <<>> \in Seq(Messages)
    OBVIOUS
  <2>2. QED
    BY <1>3, <2>1 DEF Cut, IInv, Types
<1>5. /\ Limited' /\ RegisterFirst' /\ Registered' /\ Jobs' /\ Unread' /\ TakenOnce'
      /\ EvictedAreOld'
  BY <1>3 DEF IInv, Limited, RegisterFirst, Registered, Jobs, Unread, TakenOnce,
              EvictedAreOld
<1>6. Opened' /\ OneUp'
  BY <1>1, <1>2, <1>3 DEF IInv, Opened, OneUp
<1>7. Destined' /\ Kept' /\ Own'
  BY <1>2, <1>3, ShortSequences DEF IInv, Destined, Kept, Own
<1>8. Once'
  <2>1. ASSUME NEW m \in taken, ~ LostConnection(m.to)'
        PROVE  ~ LostConnection(m.to) /\ (Waits(m)' <=> Waits(m))
    <3>1. m \in Messages
      BY Members DEF IInv
    <3>2. user[c] # m.to /\ ~ LostConnection(m.to)
      BY <1>2, <1>3, <2>1 DEF LostConnection
    <3>3. ~ In(m, out[c])
      BY <3>1, <3>2 DEF IInv, Destined
    <3>4. \A d \in Conn : In(m, out'[d]) <=> In(m, out[d])
      BY <1>2, <3>3, ShortSequences
    <3>5. QED
      BY <1>3, <3>2, <3>4 DEF Waits
  <2>2. QED
    BY <1>3, <2>1 DEF IInv, Once
<1>9. QED
  BY <1>4, <1>5, <1>6, <1>7, <1>8 DEF IInv

\* The relay learns that a connection is lost.
LEMMA NoticeInv ==
  ASSUME IInv, NEW c \in Conn, Notice(c)
  PROVE  IInv'
<1>1. /\ link[c] = "cut"
      /\ \A d \in Conn : link'[d] = IF d = c THEN "lost" ELSE link[d]
  BY DEF Notice, IInv, Types
<1>2. /\ user' = user /\ wire' = wire /\ out' = out /\ task' = task /\ job' = job
      /\ target' = target /\ peerId' = peerId /\ clients' = clients
      /\ offline' = offline /\ sent' = sent /\ taken' = taken /\ got' = got
      /\ evicted' = evicted /\ newest' = newest
  BY DEF Notice, server, history
<1>3. Types'
  BY <1>2 DEF Notice, IInv, Types
<1>4. /\ Limited' /\ RegisterFirst' /\ Registered' /\ Jobs' /\ Destined' /\ Unread'
      /\ TakenOnce' /\ Kept' /\ Own' /\ EvictedAreOld'
  BY <1>2 DEF IInv, Limited, RegisterFirst, Registered, Jobs, Destined, Unread, TakenOnce,
              Kept, Own, EvictedAreOld
<1>5. Opened' /\ OneUp'
  BY <1>1, <1>2 DEF IInv, Opened, OneUp
<1>6. Once'
  <2>1. \A p \in Peer : LostConnection(p)' <=> LostConnection(p)
    BY <1>1, <1>2 DEF LostConnection
  <2>2. ASSUME NEW m \in taken
        PROVE  (Waits(m)' <=> Waits(m)) /\ m.to \in Peer
    BY <1>2, Members, MessageFacts DEF Waits, IInv
  <2>3. QED
    BY <1>2, <2>1, <2>2 DEF IInv, Once
<1>7. QED
  BY <1>3, <1>4, <1>5, <1>6 DEF IInv

-----------------------------------------------------------------------------
(* The steps of the handlers *)

\* The next line of a connection is read.
LEMMA ReadsFacts ==
  ASSUME IInv, NEW c \in Conn, NEW type, Reads(c, type)
  PROVE  /\ task[c] = "read" /\ user[c] \in Peer /\ job[c] = <<>>
         /\ wire' \in [Conn -> Seq(Line)]
         /\ \A d \in Conn : Inj(wire'[d])
         /\ \A d \in Conn : \A m : In(m, wire'[d]) => In(m, wire[d])
         /\ \A d \in Conn : d # c => wire'[d] = wire[d]
         /\ In(Head(wire[c]), wire[c]) /\ ~ In(Head(wire[c]), wire'[c])
         /\ Head(wire[c]) \in Line /\ Head(wire[c]).type = type
         /\ ~ In(Register, wire'[c])
<1>1. task[c] = "read" /\ wire[c] # <<>> /\ Head(wire[c]).type = type
  BY DEF Reads
<1>2. user[c] \in Peer /\ job[c] = <<>>
  BY <1>1, Members DEF IInv, Opened, Jobs
<1>3. wire[c] \in Seq(Line) /\ Inj(wire[c])
  BY Members DEF IInv, Unread
<1>4. /\ Tail(wire[c]) \in Seq(Line) /\ Head(wire[c]) \in Line
      /\ In(Head(wire[c]), wire[c])
      /\ \A m : In(m, Tail(wire[c])) => In(m, wire[c])
      /\ Inj(Tail(wire[c])) /\ ~ In(Head(wire[c]), Tail(wire[c]))
  BY <1>1, <1>3, TailFacts
<1>5. wire' \in [Conn -> Seq(Line)]
  BY <1>4 DEF Reads, IInv, Types
<1>6. \A d \in Conn : wire'[d] = IF d = c THEN Tail(wire[c]) ELSE wire[d]
  BY DEF Reads, IInv, Types
<1>7. /\ \A d \in Conn : Inj(wire'[d])
      /\ \A d \in Conn : \A m : In(m, wire'[d]) => In(m, wire[d])
  BY <1>4, <1>6 DEF IInv, Unread
<1>8. ~ In(Register, wire'[c])
  BY <1>4, <1>6 DEF IInv, RegisterFirst
<1>9. QED
  BY <1>1, <1>2, <1>4, <1>5, <1>6, <1>7, <1>8

\* What is still to be read after that is none of what was read.
LEMMA UnreadStays ==
  ASSUME IInv, NEW c \in Conn, NEW type, Reads(c, type), sent' = sent,
         \A n \in taken' : n \in taken \/ (n = Head(wire[c]) /\ n \in Messages)
  PROVE  Unread'
<1>1. PICK h : h = Head(wire[c])
  OBVIOUS
<1>2. /\ \A d \in Conn : Inj(wire'[d])
      /\ \A d \in Conn : \A m : In(m, wire'[d]) => In(m, wire[d])
      /\ In(h, wire[c]) /\ ~ In(h, wire'[c])
  BY <1>1, ReadsFacts
<1>3. ASSUME NEW d \in Conn, NEW m \in Messages, In(m, wire'[d])
      PROVE  /\ m.id <= sent'
             /\ \A n \in taken' : n.id # m.id
             /\ \A e \in Conn, n \in Messages :
                  In(n, wire'[e]) /\ n.id = m.id => d = e /\ m = n
  <2>1. In(m, wire[d])
    BY <1>2, <1>3
  <2>2. /\ m.id <= sent
        /\ \A n \in taken : n.id # m.id
        /\ \A e \in Conn, n \in Messages : In(n, wire[e]) /\ n.id = m.id => d = e /\ m = n
    BY <2>1 DEF IInv, Unread
  <2>3. h \in Messages => h.id # m.id
    BY <1>2, <1>3, <2>2
  <2>4. QED
    BY <1>1, <1>2, <2>2, <2>3
<1>4. QED
  BY <1>2, <1>3 DEF Unread

\* A registration: the queue of the peer becomes the job of the handler.
LEMMA HandleRegisterInv ==
  ASSUME IInv, NEW c \in Conn, HandleRegister(c)
  PROVE  IInv'
<1>1. Reads(c, "register")
  BY DEF HandleRegister
<1>2. PICK p \in Peer : p = user[c]
  BY <1>1, ReadsFacts
<1>3. /\ task[c] = "read" /\ job[c] = <<>> /\ peerId[c] = None
      /\ p # None /\ c # None
  <2>1. Head(wire[c]) = Register
    BY <1>1, ReadsFacts, MessageFacts DEF Line
  <2>2. QED
    BY <1>1, <2>1, ReadsFacts, RelayAssumption DEF IInv, RegisterFirst
<1>4. /\ \A d \in Conn : peerId'[d] = IF d = c THEN p ELSE peerId[d]
      /\ \A q \in Peer : clients'[q] = IF q = p THEN c ELSE clients[q]
      /\ \A q \in Peer : newest'[q] = IF q = p THEN c ELSE newest[q]
      /\ \A d \in Conn : job'[d] = IF d = c THEN offline[p] ELSE job[d]
      /\ \A q \in Peer : offline'[q] = IF q = p THEN <<>> ELSE offline[q]
      /\ \A d \in Conn : task'[d] = IF d = c THEN "flush" ELSE task[d]
  BY <1>2 DEF HandleRegister, TakeQueue, IInv, Types
<1>5. /\ user' = user /\ link' = link /\ out' = out /\ target' = target
      /\ sent' = sent /\ taken' = taken /\ got' = got /\ evicted' = evicted
  BY DEF HandleRegister
<1>6. Types'
  <2>1. offline[p] \in Seq(Messages) /\ <<>> \in Seq(Messages)
    BY Members DEF IInv
  <2>2. wire' \in [Conn -> Seq(Line)]
    BY <1>1, ReadsFacts
  <2>3. /\ job' \in [Conn -> Seq(Messages)] /\ offline' \in [Peer -> Seq(Messages)]
        /\ peerId' \in [Conn -> Peer \cup {None}]
    BY <1>2, <2>1 DEF HandleRegister, TakeQueue, IInv, Types
  <2>4. /\ task' \in [Conn -> {"none", "read", "flush", "send", "done"}]
        /\ clients' \in [Peer -> Conn \cup {None}]
        /\ newest' \in [Peer -> Conn \cup {None}]
    BY <1>2 DEF HandleRegister, IInv, Types
  <2>5. QED
    BY <1>5, <2>2, <2>3, <2>4 DEF IInv, Types
<1>7. Limited'
  <2>1. Len(<<>>) <= MaxQueue
    BY RelayAssumption
  <2>2. QED
    BY <1>4, <2>1 DEF IInv, Limited
<1>8. OneUp' /\ TakenOnce' /\ EvictedAreOld'
  BY <1>5 DEF IInv, OneUp, TakenOnce, EvictedAreOld
<1>9. Opened'
  BY <1>1, <1>2, <1>3, <1>4, <1>5, ReadsFacts, SMTT(20) DEF IInv, Opened
<1>10. RegisterFirst'
  BY <1>1, <1>2, <1>4, <1>5, ReadsFacts DEF IInv, RegisterFirst
<1>11. Registered'
  <2>1. ASSUME NEW q \in Peer, q # p
        PROVE  clients[q] # c /\ newest[q] # c
    BY <1>3, RelayAssumption DEF IInv, Registered
  <2>2. ASSUME NEW q \in Peer
        PROVE  /\ clients'[q] # None =>
                    peerId'[clients'[q]] = q /\ task'[clients'[q]] # "done"
               /\ newest'[q] # None =>
                    /\ peerId'[newest'[q]] = q
                    /\ task'[newest'[q]] # "done" => clients'[q] = newest'[q]
    <3>1. CASE q = p
      BY <1>4, <3>1
    <3>2. CASE q # p
      <4>1. clients'[q] = clients[q] /\ newest'[q] = newest[q]
        BY <1>4, <3>2
      <4>2. clients[q] # None =>
              /\ peerId'[clients[q]] = peerId[clients[q]]
              /\ task'[clients[q]] = task[clients[q]]
        BY <1>4, <2>1, <3>2, Members DEF IInv
      <4>3. newest[q] # None =>
              /\ peerId'[newest[q]] = peerId[newest[q]]
              /\ task'[newest[q]] = task[newest[q]]
        BY <1>4, <2>1, <3>2, Members DEF IInv
      <4>4. QED
        BY <4>1, <4>2, <4>3 DEF IInv, Registered
    <3>3. QED
      BY <3>1, <3>2
  <2>3. QED
    BY <2>2 DEF Registered
<1>12. Jobs'
  BY <1>2, <1>4, <1>5 DEF IInv, Jobs, Destined
<1>13. Destined'
  BY <1>4, <1>5, ShortSequences DEF IInv, Destined
<1>14. Unread'
  BY <1>1, <1>5, UnreadStays
<1>15. Kept'
  BY <1>4, <1>5, ShortSequences DEF IInv, Kept
<1>16. Own'
  <2>1. \A m \in Messages : In(m, offline[p]) => m.to = p
    BY DEF IInv, Destined
  <2>2. \A m \in Messages :
          In(m, job'[c]) => In(m, offline[m.to]) /\ ~ In(m, offline'[m.to])
    BY <1>2, <1>4, <2>1, ShortSequences
  <2>3. \A m \in Messages : In(m, offline'[m.to]) => In(m, offline[m.to])
    BY <1>4, MessageFacts, ShortSequences
  <2>4. \A d \in Conn : Inj(job'[d])
    BY <1>4 DEF IInv, Own
  <2>5. \A q \in Peer : Inj(offline'[q])
    BY <1>4, ShortSequences DEF IInv, Own
  <2>6. ASSUME NEW m \in Messages, NEW d \in Conn, In(m, job'[d])
        PROVE  ~ In(m, offline'[m.to]) /\ \A e \in Conn : In(m, job'[e]) => d = e
    BY <1>4, <2>2, <2>3, <2>6 DEF IInv, Own
  <2>7. ASSUME NEW m \in Messages, NEW d \in Conn, In(m, out[d])
        PROVE  /\ ~ In(m, offline'[m.to])
               /\ \A e \in Conn : In(m, job'[e]) => task'[e] = "send" /\ target[e] = d
    BY <1>4, <2>2, <2>3, <2>7 DEF IInv, Own
  <2>8. \A d \in Conn : Inj(out[d])
    BY DEF IInv, Own
  <2>9. QED
    BY <1>5, <2>4, <2>5, <2>6, <2>7, <2>8 DEF Own
<1>17. Once'
  <2>1. ASSUME NEW m \in taken
        PROVE  Waits(m)' <=> Waits(m)
    <3>1. m \in Messages /\ m.to \in Peer
      BY Members, MessageFacts DEF IInv
    <3>2. In(m, offline[p]) => m.to = p
      BY <3>1 DEF IInv, Destined
    <3>3. In(m, offline[m.to]) <=> In(m, offline'[m.to]) \/ In(m, job'[c])
      BY <1>4, <3>1, <3>2, ShortSequences
    <3>4. (\E d \in Conn : task'[d] = "flush" /\ In(m, job'[d]))
            <=> (\E d \in Conn : task[d] = "flush" /\ In(m, job[d])) \/ In(m, job'[c])
      BY <1>3, <1>4
    <3>5. QED
      BY <1>5, <3>3, <3>4 DEF Waits
  <2>2. QED
    BY <1>5, <2>1 DEF IInv, Once, LostConnection
<1>18. QED
  BY <1>6, <1>7, <1>8, <1>9, <1>10, <1>11, <1>12, <1>13, <1>14, <1>15, <1>16, <1>17 DEF IInv

\* The next message of a flush goes to the client.
LEMMA FlushInv ==
  ASSUME IInv, NEW c \in Conn, Flush(c)
  PROVE  IInv'
<1>1. PICK s \in Seq(Messages) : s = job[c]
  BY Members DEF IInv
<1>2. PICK h : h = Head(job[c])
  OBVIOUS
<1>3. task[c] = "flush" /\ s # <<>> /\ Inj(s)
  BY <1>1 DEF Flush, IInv, Own
<1>4. /\ Tail(s) \in Seq(Messages) /\ h \in Messages /\ In(h, s)
      /\ \A n : In(n, Tail(s)) => In(n, s)
      /\ \A n : In(n, s) => n = h \/ In(n, Tail(s))
      /\ Inj(Tail(s)) /\ ~ In(h, Tail(s))
  BY <1>1, <1>2, <1>3, TailFacts
<1>5. PICK o : o = IF link[c] = "up" THEN Append(out[c], h) ELSE out[c]
  OBVIOUS
<1>6. /\ \A d \in Conn : out'[d] = IF d = c THEN o ELSE out[d]
      /\ \A d \in Conn : job'[d] = IF d = c THEN Tail(s) ELSE job[d]
  BY <1>1, <1>2, <1>5 DEF Flush, Write, IInv, Types
<1>7. /\ user' = user /\ link' = link /\ wire' = wire /\ task' = task
      /\ target' = target /\ peerId' = peerId /\ clients' = clients
      /\ offline' = offline /\ sent' = sent /\ taken' = taken /\ got' = got
      /\ evicted' = evicted /\ newest' = newest
  BY DEF Flush, history
<1>8. /\ h.to = user[c] /\ h \in taken /\ ~ In(h, offline[h.to])
      /\ \A d \in Conn : ~ In(h, out[d])
      /\ \A d \in Conn : ~ In(h, job'[d])
  <2>1. h.to = user[c]
    BY <1>1, <1>3, <1>4 DEF IInv, Jobs
  <2>2. h \in taken
    BY <1>1, <1>4 DEF IInv, Kept
  <2>3. ~ In(h, offline[h.to]) /\ \A d \in Conn : In(h, job[d]) => c = d
    BY <1>1, <1>4 DEF IInv, Own
  <2>4. \A d \in Conn : ~ In(h, out[d])
    BY <1>1, <1>3, <1>4 DEF IInv, Own
  <2>5. \A d \in Conn : ~ In(h, job'[d])
    BY <1>4, <1>6, <2>3
  <2>6. QED
    BY <2>1, <2>2, <2>3, <2>4, <2>5
<1>9. /\ o \in Seq(Messages) /\ Inj(o)
      /\ \A n : In(n, o) => In(n, out[c]) \/ n = h
      /\ \A n : In(n, out[c]) => In(n, o)
      /\ link[c] = "up" => In(h, o)
      /\ o # <<>> => link[c] = "up"
  <2>1. out[c] \in Seq(Messages) /\ Inj(out[c]) /\ (out[c] # <<>> => link[c] = "up")
    BY Members DEF IInv, Own, OneUp
  <2>2. CASE link[c] = "up"
    BY <1>4, <1>5, <1>8, <2>1, <2>2, AppendFacts
  <2>3. CASE link[c] # "up"
    BY <1>5, <2>1, <2>3
  <2>4. QED
    BY <2>2, <2>3
<1>10. Types'
  <2>1. out' \in [Conn -> Seq(Messages)] /\ job' \in [Conn -> Seq(Messages)]
    BY <1>1, <1>2, <1>4, <1>5, <1>9 DEF Flush, Write, IInv, Types
  <2>2. QED
    BY <1>7, <2>1 DEF IInv, Types
<1>11. /\ Limited' /\ Opened' /\ RegisterFirst' /\ Registered' /\ Unread' /\ TakenOnce'
       /\ EvictedAreOld'
  BY <1>7 DEF IInv, Limited, Opened, RegisterFirst, Registered, Unread, TakenOnce,
              EvictedAreOld
<1>12. OneUp'
  BY <1>6, <1>7, <1>9 DEF IInv, OneUp
<1>13. Jobs'
  BY <1>1, <1>3, <1>4, <1>6, <1>7 DEF IInv, Jobs
<1>14. Destined'
  BY <1>6, <1>7, <1>8, <1>9 DEF IInv, Destined
<1>15. \A d \in Conn : \A n : In(n, job'[d]) => In(n, job[d])
  BY <1>1, <1>4, <1>6
<1>16. \A d \in Conn : \A n : In(n, out'[d]) => In(n, out[d]) \/ (n = h /\ d = c)
  BY <1>6, <1>9
<1>17. Kept'
  BY <1>7, <1>8, <1>15, <1>16 DEF IInv, Kept
<1>18. Own'
  <2>1. \A d \in Conn : Inj(out'[d]) /\ Inj(job'[d])
    BY <1>4, <1>6, <1>9 DEF IInv, Own
  <2>2. ASSUME NEW m \in Messages, NEW d \in Conn, In(m, job'[d])
        PROVE  ~ In(m, offline[m.to]) /\ \A e \in Conn : In(m, job'[e]) => d = e
    BY <1>15, <2>2 DEF IInv, Own
  <2>3. ASSUME NEW m \in Messages, NEW d \in Conn, In(m, out'[d])
        PROVE  /\ ~ In(m, offline[m.to])
               /\ \A e \in Conn : In(m, job'[e]) => task[e] = "send" /\ target[e] = d
    <3>1. CASE In(m, out[d])
      BY <1>15, <3>1 DEF IInv, Own
    <3>2. CASE m = h
      BY <1>8, <3>2
    <3>3. QED
      BY <1>16, <2>3, <3>1, <3>2
  <2>4. \A q \in Peer : Inj(offline[q])
    BY DEF IInv, Own
  <2>5. QED
    BY <1>7, <2>1, <2>2, <2>3, <2>4 DEF Own
<1>19. Once'
  <2>1. ASSUME NEW m \in taken, ~ LostConnection(m.to)
        PROVE  Waits(m)' <=> Waits(m)
    <3>1. CASE m = h
      <4>1. Waits(m)
        BY <1>1, <1>3, <1>4, <3>1 DEF Waits
      <4>2. link[c] = "up"
        <5>1. user[c] # None
          BY <1>3 DEF IInv, Opened
        <5>2. QED
          BY <1>8, <2>1, <3>1, <5>1, StillUp
      <4>3. In(m, out'[c])
        BY <1>6, <1>9, <3>1, <4>2
      <4>4. QED
        BY <4>1, <4>3 DEF Waits
    <3>2. CASE m # h
      <4>1. \A d \in Conn : In(m, job'[d]) <=> In(m, job[d])
        BY <1>1, <1>4, <1>6, <3>2
      <4>2. \A d \in Conn : In(m, out'[d]) <=> In(m, out[d])
        BY <1>6, <1>9, <3>2
      <4>3. QED
        BY <1>7, <4>1, <4>2 DEF Waits
    <3>3. QED
      BY <3>1, <3>2
  <2>2. QED
    BY <1>7, <2>1 DEF IInv, Once, LostConnection
<1>20. QED
  BY <1>10, <1>11, <1>12, <1>13, <1>14, <1>17, <1>18, <1>19 DEF IInv

\* The end of a flush.
LEMMA FlushDoneInv ==
  ASSUME IInv, NEW c \in Conn, FlushDone(c)
  PROVE  IInv'
<1>1. /\ task[c] = "flush" /\ job[c] = <<>>
      /\ \A d \in Conn : task'[d] = IF d = c THEN "read" ELSE task[d]
  BY DEF FlushDone, IInv, Types
<1>2. /\ user' = user /\ link' = link /\ wire' = wire /\ out' = out /\ job' = job
      /\ target' = target /\ peerId' = peerId /\ clients' = clients
      /\ offline' = offline /\ sent' = sent /\ taken' = taken /\ got' = got
      /\ evicted' = evicted /\ newest' = newest
  BY DEF FlushDone, sockets, history
<1>3. Types'
  BY <1>2 DEF FlushDone, IInv, Types
<1>4. /\ Limited' /\ OneUp' /\ RegisterFirst' /\ Destined' /\ Unread' /\ TakenOnce'
      /\ Kept' /\ EvictedAreOld'
  BY <1>2 DEF IInv, Limited, OneUp, RegisterFirst, Destined, Unread, TakenOnce, Kept,
              EvictedAreOld
<1>5. Opened'
  BY <1>1, <1>2 DEF IInv, Opened
<1>6. Registered'
  BY <1>1, <1>2, Members, SMTT(20) DEF IInv, Registered
<1>7. Jobs'
  BY <1>1, <1>2 DEF IInv, Jobs
<1>8. Own'
  BY <1>1, <1>2, ShortSequences DEF IInv, Own
<1>9. Once'
  <2>1. \A m : Waits(m)' <=> Waits(m)
    BY <1>1, <1>2, ShortSequences DEF Waits
  <2>2. QED
    BY <1>2, <2>1 DEF IInv, Once, LostConnection
<1>10. QED
  BY <1>3, <1>4, <1>5, <1>6, <1>7, <1>8, <1>9 DEF IInv

\* The message of a relay request is new: the relay holds no copy of it.
LEMMA NewMessage ==
  ASSUME IInv, NEW c \in Conn, Reads(c, "relay"), NEW m, m = Head(wire[c]),
         taken' = taken \cup {m}, sent' = sent
  PROVE  /\ m \in Messages /\ m.to \in Peer /\ m.id \in 1 .. MaxRelay
         /\ m \notin taken /\ got[m.id] = 0
         /\ \A q \in Peer : ~ In(m, offline[q])
         /\ \A d \in Conn : ~ In(m, out[d]) /\ ~ In(m, job[d])
         /\ taken' \subseteq Messages /\ IsFiniteSet(taken')
         /\ TakenOnce'
<1>1. m \in Messages /\ In(m, wire[c])
  BY ReadsFacts, MessageFacts DEF Line
<1>2. m.to \in Peer /\ m.id \in 1 .. MaxRelay
  BY <1>1, MessageFacts
<1>3. m.id <= sent /\ \A n \in taken : n.id # m.id
  BY <1>1 DEF IInv, Unread
<1>4. m \notin taken
  BY <1>3
<1>5. got[m.id] = 0
  <2>1. ~ (got[m.id] > 0)
    BY <1>2, <1>3 DEF IInv, Kept
  <2>2. got[m.id] \in Nat
    BY <1>2, Members DEF IInv
  <2>3. QED
    BY <2>1, <2>2
<1>6. /\ \A q \in Peer : ~ In(m, offline[q])
      /\ \A d \in Conn : ~ In(m, out[d]) /\ ~ In(m, job[d])
  BY <1>1, <1>4 DEF IInv, Kept
<1>7. taken' \subseteq Messages /\ IsFiniteSet(taken')
  BY <1>1, Members, FS_AddElement DEF IInv
<1>8. TakenOnce'
  BY <1>3 DEF IInv, TakenOnce
<1>9. QED
  BY <1>1, <1>2, <1>4, <1>5, <1>6, <1>7, <1>8

\* A request for a registered peer is written to its connection.
LEMMA HandleRelayInv ==
  ASSUME IInv, NEW c \in Conn, HandleRelay(c)
  PROVE  IInv'
<1>1. PICK m : m = Head(wire[c])
  OBVIOUS
<1>2. /\ Reads(c, "relay") /\ taken' = taken \cup {m} /\ sent' = sent
      /\ user' = user /\ link' = link /\ peerId' = peerId /\ clients' = clients
      /\ offline' = offline /\ got' = got /\ evicted' = evicted /\ newest' = newest
  BY <1>1 DEF HandleRelay
<1>3. /\ m \in Messages /\ m.to \in Peer /\ m.id \in 1 .. MaxRelay
      /\ m \notin taken /\ got[m.id] = 0
      /\ \A q \in Peer : ~ In(m, offline[q])
      /\ \A d \in Conn : ~ In(m, out[d]) /\ ~ In(m, job[d])
      /\ taken' \subseteq Messages /\ IsFiniteSet(taken')
      /\ TakenOnce'
  BY <1>1, <1>2, NewMessage
<1>4. PICK t \in Conn : t = clients[m.to] /\ user[t] = m.to
  BY <1>1, <1>3, RegisteredIsOpen DEF HandleRelay
<1>5. PICK o : o = IF link[t] = "up" THEN Append(out[t], m) ELSE out[t]
  OBVIOUS
<1>6. /\ task[c] = "read" /\ job[c] = <<>> /\ user[c] \in Peer
  BY <1>2, ReadsFacts
<1>7. /\ \A d \in Conn : out'[d] = IF d = t THEN o ELSE out[d]
      /\ \A d \in Conn : job'[d] = IF d = c THEN <<m>> ELSE job[d]
      /\ \A d \in Conn : task'[d] = IF d = c THEN "send" ELSE task[d]
      /\ \A d \in Conn : target'[d] = IF d = c THEN t ELSE target[d]
  BY <1>1, <1>4, <1>5 DEF HandleRelay, Write, IInv, Types
<1>8. /\ o \in Seq(Messages) /\ Inj(o)
      /\ \A n : In(n, o) => In(n, out[t]) \/ n = m
      /\ \A n : In(n, out[t]) => In(n, o)
      /\ link[t] = "up" => In(m, o)
      /\ o # <<>> => link[t] = "up"
  <2>1. out[t] \in Seq(Messages) /\ Inj(out[t]) /\ (out[t] # <<>> => link[t] = "up")
    BY Members DEF IInv, Own, OneUp
  <2>2. CASE link[t] = "up"
    BY <1>3, <1>5, <2>1, <2>2, AppendFacts
  <2>3. CASE link[t] # "up"
    BY <1>5, <2>1, <2>3
  <2>4. QED
    BY <2>2, <2>3
<1>9. Types'
  <2>1. <<m>> \in Seq(Messages)
    BY <1>3
  <2>2. /\ out' \in [Conn -> Seq(Messages)] /\ job' \in [Conn -> Seq(Messages)]
    BY <1>1, <1>4, <1>5, <1>8, <2>1 DEF HandleRelay, Write, IInv, Types
  <2>3. /\ task' \in [Conn -> {"none", "read", "flush", "send", "done"}]
        /\ target' \in [Conn -> Conn \cup {None}]
    BY <1>1, <1>4 DEF HandleRelay, IInv, Types
  <2>4. wire' \in [Conn -> Seq(Line)]
    BY <1>2, ReadsFacts
  <2>5. QED
    BY <1>2, <1>3, <2>2, <2>3, <2>4 DEF IInv, Types
<1>10. Limited'
  BY <1>2 DEF IInv, Limited
<1>11. Opened'
  <2>1. user[c] # None
    BY <1>6, RelayAssumption
  <2>2. \A d \in Conn : user[d] = None => wire'[d] = wire[d]
    BY <1>2, <2>1, ReadsFacts
  <2>3. QED
    BY <1>2, <1>6, <1>7, <2>1, <2>2 DEF IInv, Opened
<1>12. OneUp'
  BY <1>2, <1>7, <1>8 DEF IInv, OneUp
<1>13. RegisterFirst'
  BY <1>2, ReadsFacts DEF IInv, RegisterFirst
<1>14. Registered'
  BY <1>2, <1>6, <1>7, Members DEF IInv, Registered
<1>15. Jobs'
  BY <1>2, <1>4, <1>7, ShortSequences DEF IInv, Jobs
<1>16. Destined'
  BY <1>2, <1>4, <1>7, <1>8 DEF IInv, Destined
<1>17. Unread'
  BY <1>1, <1>2, <1>3, UnreadStays
<1>18. /\ \A d \in Conn : \A n : In(n, out'[d]) => In(n, out[d]) \/ (n = m /\ d = t)
       /\ \A d \in Conn : \A n : In(n, job'[d]) => In(n, job[d]) \/ (n = m /\ d = c)
  BY <1>7, <1>8, ShortSequences
<1>19. Kept'
  BY <1>2, <1>18 DEF IInv, Kept
<1>20. Own'
  <2>1. \A d \in Conn : Inj(out'[d]) /\ Inj(job'[d])
    BY <1>7, <1>8, ShortSequences DEF IInv, Own
  <2>2. ASSUME NEW n \in Messages, NEW d \in Conn, In(n, job'[d])
        PROVE  ~ In(n, offline[n.to]) /\ \A e \in Conn : In(n, job'[e]) => d = e
    BY <1>3, <1>18, <2>2 DEF IInv, Own
  <2>3. ASSUME NEW n \in Messages, NEW d \in Conn, In(n, out'[d])
        PROVE  /\ ~ In(n, offline[n.to])
               /\ \A e \in Conn : In(n, job'[e]) => task'[e] = "send" /\ target'[e] = d
    <3>1. CASE n = m
      BY <1>3, <1>7, <1>18, <2>3, <3>1
    <3>2. CASE n # m
      <4>1. In(n, out[d])
        BY <1>18, <2>3, <3>2
      <4>2. \A e \in Conn : In(n, job'[e]) => In(n, job[e]) /\ e # c
        BY <1>7, <1>18, <3>2, ShortSequences
      <4>3. QED
        BY <1>7, <4>1, <4>2 DEF IInv, Own
    <3>3. QED
      BY <3>1, <3>2
  <2>4. \A q \in Peer : Inj(offline[q])
    BY DEF IInv, Own
  <2>5. QED
    BY <1>2, <2>1, <2>2, <2>3, <2>4 DEF Own
<1>21. Once'
  <2>1. ASSUME NEW n \in taken
        PROVE  Waits(n)' <=> Waits(n)
    <3>1. n # m
      BY <1>3
    <3>2. \A d \in Conn : In(n, out'[d]) <=> In(n, out[d])
      BY <1>7, <1>8, <3>1
    <3>3. \A d \in Conn :
            task'[d] = "flush" /\ In(n, job'[d]) <=> task[d] = "flush" /\ In(n, job[d])
      BY <1>6, <1>7
    <3>4. QED
      BY <1>2, <3>2, <3>3 DEF Waits
  <2>2. ASSUME ~ LostConnection(m.to)
        PROVE  Waits(m)'
    <3>1. link[t] = "up"
      BY <1>3, <1>4, <2>2, StillUp, RelayAssumption
    <3>2. In(m, out'[t])
      BY <1>7, <1>8, <3>1
    <3>3. QED
      BY <3>2 DEF Waits
  <2>3. QED
    BY <1>2, <1>3, <2>1, <2>2 DEF IInv, Once, LostConnection
<1>24. EvictedAreOld'
  <2>1. taken \subseteq taken'
    BY <1>2
  <2>2. QED
    BY <1>2, <1>3, <2>1, OldStayOld DEF EvictedAreOld
<1>23. QED
  BY <1>3, <1>9, <1>10, <1>11, <1>12, <1>13, <1>14, <1>15, <1>16, <1>17, <1>19, <1>20, <1>21,
     <1>24 DEF IInv

\* A request for any other peer is buffered.
LEMMA HandleRelayOfflineInv ==
  ASSUME IInv, NEW c \in Conn, HandleRelayOffline(c)
  PROVE  IInv'
<1>1. PICK m : m = Head(wire[c])
  OBVIOUS
<1>2. /\ Reads(c, "relay") /\ taken' = taken \cup {m} /\ sent' = sent
      /\ user' = user /\ link' = link /\ out' = out /\ task' = task /\ job' = job
      /\ target' = target /\ peerId' = peerId /\ clients' = clients
      /\ got' = got /\ newest' = newest
      /\ Buffer(m)
  BY <1>1 DEF HandleRelayOffline
<1>3. /\ m \in Messages /\ m.to \in Peer /\ m.id \in 1 .. MaxRelay
      /\ m \notin taken /\ got[m.id] = 0
      /\ \A q \in Peer : ~ In(m, offline[q])
      /\ \A d \in Conn : ~ In(m, out[d]) /\ ~ In(m, job[d])
      /\ taken' \subseteq Messages /\ IsFiniteSet(taken')
      /\ TakenOnce'
  BY <1>1, <1>2, NewMessage
<1>4. /\ offline' \in [Peer -> Seq(Messages)]
      /\ \A p \in Peer : Len(offline'[p]) <= MaxQueue /\ Inj(offline'[p])
      /\ \A p \in Peer : \A n :
           In(n, offline'[p]) => In(n, offline[p]) \/ (n = m /\ p = m.to)
      /\ \A p \in Peer : \A n : In(n, offline[p]) => In(n, offline'[p]) \/ n \in evicted'
      /\ In(m, offline'[m.to]) \/ m \in evicted'
      /\ evicted \subseteq evicted' /\ evicted' \subseteq taken'
      /\ EvictedAreOld'
  <2>1. taken \subseteq taken' /\ m \in taken' /\ ~ In(m, offline[m.to])
    BY <1>2, <1>3
  <2>2. QED
    BY <1>2, <1>3, <2>1, BufferFacts
<1>5. Types'
  <2>1. wire' \in [Conn -> Seq(Line)]
    BY <1>2, ReadsFacts
  <2>2. QED
    BY <1>2, <1>3, <1>4, <2>1 DEF IInv, Types
<1>6. Limited'
  BY <1>4 DEF Limited
<1>7. OneUp' /\ Registered' /\ Jobs'
  BY <1>2 DEF IInv, OneUp, Registered, Jobs
<1>8. Opened'
  BY <1>2, ReadsFacts, RelayAssumption DEF IInv, Opened
<1>9. RegisterFirst'
  BY <1>2, ReadsFacts DEF IInv, RegisterFirst
<1>10. Destined'
  BY <1>2, <1>4 DEF IInv, Destined
<1>11. Unread'
  BY <1>1, <1>2, <1>3, UnreadStays
<1>12. Kept'
  BY <1>2, <1>4 DEF IInv, Kept
<1>13. Own'
  <2>1. ASSUME NEW n \in Messages, n # m
        PROVE  In(n, offline'[n.to]) => In(n, offline[n.to])
    BY <1>4, <2>1, MessageFacts
  <2>2. QED
    BY <1>2, <1>3, <1>4, <2>1 DEF IInv, Own
<1>14. Once'
  <2>1. ASSUME NEW n \in taken, n \notin evicted'
        PROVE  n \notin evicted /\ n # m /\ (Waits(n)' <=> Waits(n))
    <3>1. n.to \in Peer /\ n # m
      BY <1>3, Members, MessageFacts DEF IInv
    <3>2. In(n, offline'[n.to]) <=> In(n, offline[n.to])
      BY <1>4, <2>1, <3>1
    <3>3. QED
      BY <1>2, <1>4, <2>1, <3>1, <3>2 DEF Waits
  <2>2. m \notin evicted' => Waits(m)'
    BY <1>4 DEF Waits
  <2>3. QED
    BY <1>2, <1>3, <2>1, <2>2 DEF IInv, Once, LostConnection
<1>15. QED
  BY <1>3, <1>4, <1>5, <1>6, <1>7, <1>8, <1>9, <1>10, <1>11, <1>12, <1>13, <1>14 DEF IInv

\* The table and its history stay true while no handler ends.
LEMMA SameTable ==
  ASSUME IInv, peerId' = peerId, clients' = clients, newest' = newest,
         \A d \in Conn : task'[d] = "done" <=> task[d] = "done"
  PROVE  Registered'
<1>1. \A p \in Peer : clients[p] \in Conn \cup {None} /\ newest[p] \in Conn \cup {None}
  BY Members DEF IInv
<1>2. QED
  BY <1>1 DEF IInv, Registered

\* The drain succeeds: the message is in the hands of its connection.
LEMMA SendDoneInv ==
  ASSUME IInv, NEW c \in Conn, SendDone(c)
  PROVE  IInv'
<1>1. /\ task[c] = "send"
      /\ \A d \in Conn : task'[d] = IF d = c THEN "read" ELSE task[d]
      /\ \A d \in Conn : job'[d] = IF d = c THEN <<>> ELSE job[d]
      /\ \A d \in Conn : target'[d] = IF d = c THEN None ELSE target[d]
  BY DEF SendDone, Sending, Sent, IInv, Types
<1>2. /\ user' = user /\ link' = link /\ wire' = wire /\ out' = out
      /\ peerId' = peerId /\ clients' = clients /\ offline' = offline /\ sent' = sent
      /\ taken' = taken /\ got' = got /\ evicted' = evicted /\ newest' = newest
  BY DEF SendDone, sockets, history
<1>3. Types'
  <2>1. <<>> \in Seq(Messages)
    OBVIOUS
  <2>2. QED
    BY <1>2, <2>1 DEF SendDone, Sent, IInv, Types
<1>4. /\ Limited' /\ OneUp' /\ RegisterFirst' /\ Destined' /\ Unread' /\ TakenOnce'
      /\ EvictedAreOld'
  BY <1>2 DEF IInv, Limited, OneUp, RegisterFirst, Destined, Unread, TakenOnce,
              EvictedAreOld
<1>5. Opened'
  BY <1>1, <1>2 DEF IInv, Opened
<1>6. Registered'
  <2>1. \A d \in Conn : task'[d] = "done" <=> task[d] = "done"
    BY <1>1
  <2>2. QED
    BY <1>2, <2>1, SameTable
<1>7. Jobs'
  BY <1>1, <1>2 DEF IInv, Jobs
<1>8. Kept' /\ Own'
  BY <1>1, <1>2, ShortSequences DEF IInv, Kept, Own
<1>9. Once'
  <2>1. \A m : Waits(m)' <=> Waits(m)
    BY <1>1, <1>2 DEF Waits
  <2>2. QED
    BY <1>2, <2>1 DEF IInv, Once, LostConnection
<1>10. QED
  BY <1>3, <1>4, <1>5, <1>6, <1>7, <1>8, <1>9 DEF IInv

\* The drain raises: the message is buffered again, and its peer lost a connection.
LEMMA SendRaisesInv ==
  ASSUME IInv, NEW c \in Conn, SendRaises(c)
  PROVE  IInv'
<1>1. PICK m : m = Head(job[c])
  OBVIOUS
<1>2. /\ task[c] = "send" /\ link[target[c]] = "lost" /\ Buffer(m)
      /\ \A d \in Conn : task'[d] = IF d = c THEN "read" ELSE task[d]
      /\ \A d \in Conn : job'[d] = IF d = c THEN <<>> ELSE job[d]
      /\ \A d \in Conn : target'[d] = IF d = c THEN None ELSE target[d]
  BY <1>1 DEF SendRaises, Sending, Sent, IInv, Types
<1>3. /\ user' = user /\ link' = link /\ wire' = wire /\ out' = out
      /\ peerId' = peerId /\ clients' = clients /\ sent' = sent
      /\ taken' = taken /\ got' = got /\ newest' = newest
  BY DEF SendRaises, sockets
<1>4. /\ target[c] \in Conn /\ user[target[c]] = m.to
      /\ m \in Messages /\ In(m, job[c])
  <2>1. target[c] \in Conn /\ user[target[c]] = m.to /\ Len(job[c]) = 1
    BY <1>1, <1>2 DEF IInv, Jobs
  <2>2. QED
    BY <1>1, <2>1, Members, Single, TailFacts DEF IInv
<1>5. /\ m.to \in Peer /\ m \in taken /\ ~ In(m, offline[m.to])
      /\ \A d \in Conn : ~ In(m, job'[d])
  BY <1>2, <1>4, MessageFacts, ShortSequences DEF IInv, Kept, Own
<1>6. \A d \in Conn : ~ In(m, out[d])
  <2>1. ASSUME NEW d \in Conn, In(m, out[d])
        PROVE  FALSE
    <3>1. target[c] = d
      BY <1>4, <2>1 DEF IInv, Own
    <3>2. link[d] = "up"
      BY <2>1, ShortSequences DEF IInv, OneUp
    <3>3. QED
      BY <1>2, <3>1, <3>2
  <2>2. QED
    BY <2>1
<1>7. /\ offline' \in [Peer -> Seq(Messages)]
      /\ \A p \in Peer : Len(offline'[p]) <= MaxQueue /\ Inj(offline'[p])
      /\ \A p \in Peer : \A n :
           In(n, offline'[p]) => In(n, offline[p]) \/ (n = m /\ p = m.to)
      /\ \A p \in Peer : \A n : In(n, offline[p]) => In(n, offline'[p]) \/ n \in evicted'
      /\ evicted \subseteq evicted' /\ evicted' \subseteq taken'
      /\ EvictedAreOld'
  <2>1. taken \subseteq taken' /\ m \in taken' /\ IsFiniteSet(taken')
    BY <1>3, <1>5, Members DEF IInv
  <2>2. QED
    BY <1>2, <1>4, <1>5, <2>1, BufferFacts
<1>8. Types'
  <2>1. <<>> \in Seq(Messages)
    OBVIOUS
  <2>2. /\ task' \in [Conn -> {"none", "read", "flush", "send", "done"}]
        /\ job' \in [Conn -> Seq(Messages)] /\ target' \in [Conn -> Conn \cup {None}]
    BY <2>1 DEF SendRaises, Sent, IInv, Types
  <2>3. QED
    BY <1>3, <1>7, <2>2 DEF IInv, Types
<1>9. Limited'
  BY <1>7 DEF Limited
<1>10. OneUp' /\ RegisterFirst' /\ Unread' /\ TakenOnce'
  BY <1>3 DEF IInv, OneUp, RegisterFirst, Unread, TakenOnce
<1>11. Opened'
  BY <1>2, <1>3 DEF IInv, Opened
<1>12. Registered'
  <2>1. \A d \in Conn : task'[d] = "done" <=> task[d] = "done"
    BY <1>2
  <2>2. QED
    BY <1>3, <2>1, SameTable
<1>13. Jobs'
  BY <1>2, <1>3 DEF IInv, Jobs
<1>14. Destined'
  BY <1>3, <1>7 DEF IInv, Destined
<1>15. \A d \in Conn : \A n : In(n, job'[d]) => In(n, job[d]) /\ d # c
  BY <1>2, ShortSequences
<1>16. Kept'
  <2>1. \A p \in Peer : \A n \in Messages : In(n, offline'[p]) => n \in taken
    BY <1>5, <1>7 DEF IInv, Kept
  <2>2. \A d \in Conn : \A n \in Messages : In(n, out[d]) \/ In(n, job'[d]) => n \in taken
    BY <1>15 DEF IInv, Kept
  <2>3. QED
    BY <1>3, <2>1, <2>2 DEF IInv, Kept
<1>17. Own'
  <2>1. ASSUME NEW n \in Messages, n # m
        PROVE  In(n, offline'[n.to]) => In(n, offline[n.to])
    BY <1>7, <2>1, MessageFacts
  <2>2. \A d \in Conn : Inj(out'[d]) /\ Inj(job'[d])
    BY <1>2, <1>3, ShortSequences DEF IInv, Own
  <2>3. ASSUME NEW n \in Messages, NEW d \in Conn, In(n, job'[d])
        PROVE  ~ In(n, offline'[n.to]) /\ \A e \in Conn : In(n, job'[e]) => d = e
    BY <1>5, <1>15, <2>1, <2>3 DEF IInv, Own
  <2>4. ASSUME NEW n \in Messages, NEW d \in Conn, In(n, out'[d])
        PROVE  /\ ~ In(n, offline'[n.to])
               /\ \A e \in Conn : In(n, job'[e]) => task'[e] = "send" /\ target'[e] = d
    BY <1>2, <1>3, <1>6, <1>15, <2>1, <2>4 DEF IInv, Own
  <2>5. QED
    BY <1>7, <2>2, <2>3, <2>4 DEF Own
<1>18. Once'
  <2>1. ASSUME NEW n \in taken, n \notin evicted', ~ LostConnection(n.to)
        PROVE  n \notin evicted /\ (Waits(n)' <=> Waits(n))
    <3>1. n.to \in Peer
      BY Members, MessageFacts DEF IInv
    <3>2. n # m
      BY <1>2, <1>4, <2>1 DEF LostConnection
    <3>3. In(n, offline'[n.to]) <=> In(n, offline[n.to])
      BY <1>7, <2>1, <3>1, <3>2
    <3>4. \A d \in Conn :
            task'[d] = "flush" /\ In(n, job'[d]) <=> task[d] = "flush" /\ In(n, job[d])
      BY <1>2
    <3>5. QED
      BY <1>3, <1>7, <2>1, <3>3, <3>4 DEF Waits
  <2>2. QED
    BY <1>3, <2>1 DEF IInv, Once, LostConnection
<1>19. QED
  BY <1>7, <1>8, <1>9, <1>10, <1>11, <1>12, <1>13, <1>14, <1>16, <1>17, <1>18 DEF IInv

\* The end of a handler removes at most its own entry from the table.
LEMMA HandlerEndsInv ==
  ASSUME IInv, NEW c \in Conn, HandlerEnds(c)
  PROVE  IInv'
<1>1. /\ task[c] \in {"read", "flush"} /\ link[c] \in {"cut", "lost"}
      /\ task[c] = "flush" => link[c] = "lost"
  BY DEF HandlerEnds
<1>2. /\ \A p \in Peer :
           clients'[p] = IF p = peerId[c] /\ clients[p] = c THEN None ELSE clients[p]
      /\ \A d \in Conn : task'[d] = IF d = c THEN "done" ELSE task[d]
      /\ \A d \in Conn : job'[d] = IF d = c THEN <<>> ELSE job[d]
      /\ \A d \in Conn : link'[d] = IF d = c THEN "lost" ELSE link[d]
  BY DEF HandlerEnds, Unregister, IInv, Types
<1>3. /\ user' = user /\ wire' = wire /\ out' = out /\ target' = target
      /\ peerId' = peerId /\ offline' = offline /\ sent' = sent
      /\ taken' = taken /\ got' = got /\ evicted' = evicted /\ newest' = newest
  BY DEF HandlerEnds, history
<1>4. Types'
  <2>1. <<>> \in Seq(Messages)
    OBVIOUS
  <2>2. clients' \in [Peer -> Conn \cup {None}]
    BY DEF HandlerEnds, Unregister, IInv, Types
  <2>3. /\ task' \in [Conn -> {"none", "read", "flush", "send", "done"}]
        /\ link' \in [Conn -> {"none", "up", "cut", "lost"}]
        /\ job' \in [Conn -> Seq(Messages)]
    BY <2>1 DEF HandlerEnds, IInv, Types
  <2>4. QED
    BY <1>3, <2>2, <2>3 DEF IInv, Types
<1>5. /\ Limited' /\ RegisterFirst' /\ Destined' /\ Unread' /\ TakenOnce' /\ EvictedAreOld'
  BY <1>3 DEF IInv, Limited, RegisterFirst, Destined, Unread, TakenOnce, EvictedAreOld
<1>6. Opened' /\ OneUp'
  BY <1>1, <1>2, <1>3 DEF IInv, Opened, OneUp
<1>7. Registered'
  <2>1. ASSUME NEW p \in Peer
        PROVE  /\ clients'[p] # None =>
                    peerId[clients'[p]] = p /\ task'[clients'[p]] # "done"
               /\ newest[p] # None =>
                    /\ peerId[newest[p]] = p
                    /\ task'[newest[p]] # "done" => clients'[p] = newest[p]
    <3>1. clients[p] \in Conn \cup {None} /\ newest[p] \in Conn \cup {None}
      BY Members DEF IInv
    <3>2. clients[p] = c => clients'[p] = None
      BY <1>2, RelayAssumption DEF IInv, Registered
    <3>3. clients[p] # c => clients'[p] = clients[p]
      BY <1>2
    <3>4. QED
      BY <1>2, <3>1, <3>2, <3>3 DEF IInv, Registered
  <2>2. QED
    BY <1>3, <2>1 DEF Registered
<1>8. Jobs'
  BY <1>1, <1>2, <1>3 DEF IInv, Jobs
<1>9. Kept' /\ Own'
  BY <1>2, <1>3, ShortSequences DEF IInv, Kept, Own
<1>10. Once'
  <2>1. ASSUME NEW m \in taken, ~ LostConnection(m.to)'
        PROVE  ~ LostConnection(m.to) /\ (Waits(m)' <=> Waits(m))
    <3>1. user[c] # m.to /\ ~ LostConnection(m.to)
      BY <1>2, <1>3, <2>1 DEF LostConnection
    <3>2. task[c] = "flush" => ~ In(m, job[c])
      BY <3>1, Members DEF IInv, Jobs
    <3>3. QED
      BY <1>2, <1>3, <3>1, <3>2, ShortSequences DEF Waits
  <2>2. QED
    BY <1>3, <2>1 DEF IInv, Once
<1>11. QED
  BY <1>4, <1>5, <1>6, <1>7, <1>8, <1>9, <1>10 DEF IInv

-----------------------------------------------------------------------------
(* The theorems *)

\* The invariant holds initially.
LEMMA InitInv == Init => IInv
<1> SUFFICES ASSUME Init
             PROVE  IInv
  OBVIOUS
<1>1. Types
  <2>1. <<>> \in Seq(Line) /\ <<>> \in Seq(Messages)
    OBVIOUS
  <2>2. 0 \in 0 .. MaxRelay
    BY RelayAssumption
  <2>3. IsFiniteSet(taken) /\ taken = {} /\ evicted = {}
    BY FS_EmptySet DEF Init
  <2>4. QED
    BY <2>1, <2>2, <2>3 DEF Init, Types
<1>2. Limited
  BY RelayAssumption DEF Init, Limited
<1>3. Opened /\ OneUp /\ Registered /\ Jobs /\ TakenOnce
  BY DEF Init, Opened, OneUp, Registered, Jobs, TakenOnce
<1>4. RegisterFirst /\ Destined /\ Unread /\ Kept /\ Own
  BY ShortSequences, MessageFacts DEF Init, RegisterFirst, Destined, Unread, Kept, Own
<1>5. Once /\ EvictedAreOld
  BY DEF Init, Once, EvictedAreOld
<1>6. QED
  BY <1>1, <1>2, <1>3, <1>4, <1>5 DEF IInv

\* Every step preserves it.
LEMMA StepInv == IInv /\ [Next]_vars => IInv'
<1> SUFFICES ASSUME IInv, [Next]_vars
             PROVE  IInv'
  OBVIOUS
<1>1. ASSUME NEW c \in Conn, Handler(c)
      PROVE  IInv'
  BY <1>1, HandleRegisterInv, FlushInv, FlushDoneInv, HandleRelayInv, HandleRelayOfflineInv,
     SendDoneInv, SendRaisesInv, HandlerEndsInv DEF Handler
<1>2. ASSUME NEW c \in Conn, ReadLine(c) \/ Cut(c) \/ Notice(c)
      PROVE  IInv'
  BY <1>2, ReadLineInv, CutInv, NoticeInv
<1>3. ASSUME NEW c \in Conn, NEW p \in Peer, Open(p, c) \/ SendRelay(c, p)
      PROVE  IInv'
  BY <1>3, OpenInv, SendRelayInv
<1>4. CASE UNCHANGED vars
  BY <1>4 DEF vars, sockets, server, history, IInv, Types, Limited, Opened, OneUp,
              RegisterFirst, Registered, Jobs, Destined, Unread, TakenOnce, Kept, Own, Once,
              Waits, LostConnection, EvictedAreOld
<1>5. QED
  BY <1>1, <1>2, <1>3, <1>4 DEF Next

\* The inductive invariant holds in every reachable state.
THEOREM Invariance == Spec => []IInv
<1>1. Init => IInv
  BY InitInv
<1>2. IInv /\ [Next]_vars => IInv'
  BY StepInv
<1>3. QED
  BY <1>1, <1>2, PTL DEF Spec

\* The state is of its types, and no queue exceeds its limit.
THEOREM TypesCorrect == Spec => []TypeOK
<1>1. IInv => TypeOK
  <2> SUFFICES ASSUME IInv
               PROVE  TypeOK
    OBVIOUS
  <2>1. ASSUME NEW c \in Conn
        PROVE  /\ \A i \in DOMAIN wire[c] : wire[c][i] \in Messages \cup {Register}
               /\ \A i \in DOMAIN out[c] : out[c][i] \in Messages
               /\ \A i \in DOMAIN job[c] : job[c][i] \in Messages
    BY Members DEF IInv, Line
  <2>2. ASSUME NEW p \in Peer
        PROVE  /\ Len(offline[p]) <= MaxQueue
               /\ \A i \in DOMAIN offline[p] : offline[p][i] \in Messages /\ offline[p][i].to = p
    <3>1. offline[p] \in Seq(Messages)
      BY Members DEF IInv
    <3>2. ASSUME NEW i \in DOMAIN offline[p]
          PROVE  offline[p][i] \in Messages /\ offline[p][i].to = p
      <4>1. i \in 1 .. Len(offline[p]) /\ offline[p][i] \in Messages
        BY <3>1
      <4>2. In(offline[p][i], offline[p])
        BY <4>1 DEF In
      <4>3. QED
        BY <4>1, <4>2 DEF IInv, Destined
    <3>3. QED
      BY <3>2 DEF IInv, Limited
  <2>3. taken \subseteq Messages /\ evicted \subseteq Messages
    BY Members DEF IInv
  <2>4. QED
    BY <2>1, <2>2, <2>3 DEF IInv, Types, TypeOK
<1>2. QED
  BY <1>1, Invariance, PTL

\* A peer that reconnects stays registered with its new connection, whenever the
\* handler of the old one ends.
THEOREM ReconnectedStayRegistered == Spec => []NewestIsRegistered
<1>1. IInv => NewestIsRegistered
  BY DEF IInv, Registered, NewestIsRegistered
<1>2. QED
  BY <1>1, Invariance, PTL

\* Where the copies of m are, in terms of In.
LEMMA HeldFacts ==
  ASSUME IInv, NEW m \in taken
  PROVE  /\ Held(m) = {} <=> ~ Waits(m)
         /\ \A x, y \in Held(m) : x = y
<1>1. m \in Messages /\ m.to \in Peer
  BY Members, MessageFacts DEF IInv
<1>2. PICK q \in Seq(Messages) : q = offline[m.to]
  BY <1>1, Members DEF IInv
<1>3. DEFINE Queue == {<<"queue", i>> : i \in {j \in DOMAIN q : q[j] = m}}
             Out(c) == {<<"out", c, i>> : i \in {j \in DOMAIN out[c] : out[c][j] = m}}
             Job(c) == {<<"flush", c, i>> : i \in {j \in DOMAIN job[c] : job[c][j] = m}}
<1>4. ASSUME NEW x
      PROVE  x \in Held(m) <=> \/ x \in Queue
                               \/ \E c \in Conn : x \in Out(c)
                               \/ \E c \in Conn : task[c] = "flush" /\ x \in Job(c)
  BY <1>2 DEF Held
<1>5. \A x \in Held(m) :
        \/ x \in Queue
        \/ \E c \in Conn : x \in Out(c)
        \/ \E c \in Conn : task[c] = "flush" /\ x \in Job(c)
  <2> HIDE DEF Queue, Out, Job
  <2>1. QED
    BY <1>4
<1>6. \A x \in Queue : In(m, q) /\ \A y \in Queue : x = y
  <2>1. Inj(q) /\ DOMAIN q = 1 .. Len(q)
    BY <1>1, <1>2 DEF IInv, Own
  <2>2. QED
    BY <2>1 DEF In, Inj
<1>7. ASSUME NEW c \in Conn
      PROVE  /\ \A x \in Out(c) : In(m, out[c]) /\ \A y \in Out(c) : x = y
             /\ \A x \in Job(c) : In(m, job[c]) /\ \A y \in Job(c) : x = y
  <2>1. /\ Inj(out[c]) /\ DOMAIN out[c] = 1 .. Len(out[c])
        /\ Inj(job[c]) /\ DOMAIN job[c] = 1 .. Len(job[c])
    BY Members DEF IInv, Own
  <2>2. QED
    BY <2>1 DEF In, Inj
<1>8. Waits(m) => Held(m) # {}
  <2>1. In(m, q) => Queue # {}
    <3>1. DOMAIN q = 1 .. Len(q)
      OBVIOUS
    <3>2. QED
      BY <3>1 DEF In
  <2>2. ASSUME NEW c \in Conn
        PROVE  (In(m, out[c]) => Out(c) # {}) /\ (In(m, job[c]) => Job(c) # {})
    <3>1. DOMAIN out[c] = 1 .. Len(out[c]) /\ DOMAIN job[c] = 1 .. Len(job[c])
      BY Members DEF IInv
    <3>2. QED
      BY <3>1 DEF In
  <2>3. QED
    <3> HIDE DEF Queue, Out, Job
    <3>1. QED
      BY <1>2, <1>4, <2>1, <2>2 DEF Waits
<1>9. \A c, d \in Conn : In(m, out[c]) /\ In(m, out[d]) => c = d
  <2>1. ASSUME NEW c \in Conn, NEW d \in Conn, In(m, out[c]), In(m, out[d])
        PROVE  c = d
    <3>1. link[c] = "up" /\ link[d] = "up"
      BY <2>1, ShortSequences DEF IInv, OneUp
    <3>2. user[c] = user[d]
      BY <1>1, <2>1 DEF IInv, Destined
    <3>3. QED
      BY <3>1, <3>2 DEF IInv, OneUp
  <2>2. QED
    BY <2>1
<1>10. /\ \A c \in Conn : In(m, out[c]) =>
            ~ In(m, q) /\ \A d \in Conn : In(m, job[d]) => task[d] # "flush"
       /\ \A c \in Conn : In(m, job[c]) =>
            ~ In(m, q) /\ \A d \in Conn : In(m, job[d]) => c = d
  BY <1>1, <1>2 DEF IInv, Own
<1>11. ASSUME NEW x \in Held(m), NEW y \in Held(m)
       PROVE  x = y
  <2> HIDE DEF Queue, Out, Job
  <2>1. CASE x \in Queue
    BY <1>5, <1>6, <1>7, <1>10, <2>1
  <2>2. CASE \E c \in Conn : x \in Out(c)
    <3>1. PICK c \in Conn : x \in Out(c)
      BY <2>2
    <3>2. In(m, out[c])
      BY <1>7, <3>1
    <3>3. y \in Out(c)
      BY <1>5, <1>6, <1>7, <1>9, <1>10, <3>2
    <3>4. QED
      BY <1>7, <3>1, <3>3
  <2>3. CASE \E c \in Conn : task[c] = "flush" /\ x \in Job(c)
    <3>1. PICK c \in Conn : task[c] = "flush" /\ x \in Job(c)
      BY <2>3
    <3>2. In(m, job[c])
      BY <1>7, <3>1
    <3>3. y \in Job(c)
      BY <1>5, <1>6, <1>7, <1>10, <3>1, <3>2
    <3>4. QED
      BY <1>7, <3>1, <3>3
  <2>4. QED
    BY <1>5, <2>1, <2>2, <2>3
<1>12. Held(m) # {} => Waits(m)
  <2> HIDE DEF Queue, Out, Job
  <2>1. QED
    BY <1>2, <1>5, <1>6, <1>7 DEF Waits
<1>13. QED
  BY <1>8, <1>11, <1>12

\* A message that the relay read is buffered, on its way or read, and exactly once,
\* unless a connection of its peer went away or it was dropped from a full queue.
THEOREM NothingLostOrRepeated == Spec => []ExactlyOnce
<1>1. IInv => ExactlyOnce
  <2> SUFFICES ASSUME IInv, NEW m \in taken \ evicted, ~ LostConnection(m.to)
               PROVE  Copies(m) = 1
    BY DEF ExactlyOnce
  <2>1. \/ got[m.id] = 1 /\ ~ Waits(m)
        \/ got[m.id] = 0 /\ Waits(m)
    BY DEF IInv, Once
  <2>2. CASE got[m.id] = 1 /\ ~ Waits(m)
    <3>1. Cardinality(Held(m)) = 0
      BY <2>2, HeldFacts, FS_EmptySet
    <3>2. QED
      BY <2>2, <3>1 DEF Copies
  <2>3. CASE got[m.id] = 0 /\ Waits(m)
    <3>1. PICK x : x \in Held(m)
      BY <2>3, HeldFacts
    <3>2. Held(m) = {x}
      BY <3>1, HeldFacts
    <3>3. Cardinality(Held(m)) = 1
      BY <3>2, FS_Singleton
    <3>4. QED
      BY <2>3, <3>3 DEF Copies
  <2>4. QED
    BY <2>1, <2>2, <2>3
<1>2. QED
  BY <1>1, Invariance, PTL

\* A message is dropped from a queue only for MAX_QUEUE others for the same peer.
THEOREM OnlyOldEvicted == Spec => []EvictedAreOld
<1>1. IInv => EvictedAreOld
  BY DEF IInv
<1>2. QED
  BY <1>1, Invariance, PTL
====

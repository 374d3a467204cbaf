--------------------------- MODULE RelayLink_proofs ---------------------------
(***************************************************************************)
(* Proofs about RelayLink, for any set of nodes, any number of streams and *)
(* of ends, and users that run ahead of the network as far as they like.   *)
(*                                                                         *)
(* The invariants of RelayLink are proved together, as parts of IInv.      *)
(*   - A stream has a task from the moment that it has a node and a peer   *)
(*     (Opened), and the tables name only streams of their own node and    *)
(*     peer (Tables).  So what the end of a loop drops is the session on   *)
(*     its own stream or one that a newer stream carries, and no entry is  *)
(*     left behind: a listed session has its receive loop and its ratchet  *)
(*     (Alive).                                                            *)
(*   - A stream is replaced in the table by a new dial, which waits until  *)
(*     the peer is not being dialled, or by the chunk of a peer without a  *)
(*     stream: never while its handshake waits (AwaitedIsFed).             *)
(***************************************************************************)
EXTENDS RelayLink, SequenceTheorems, TLAPS

-----------------------------------------------------------------------------
(* The inductive invariant *)

Ciphers == [peer : Stream, first : BOOLEAN]

\* The types of the variables.
Types ==
  /\ owner \in [Stream -> Node \cup {None}] /\ remote \in [Stream -> Node \cup {None}]
  /\ task \in [Stream -> {"none", "initiate", "respond", "loop", "done"}]
  /\ buf \in [Stream -> Seq(Chunk)]
  /\ cipher \in [Stream -> Ciphers \cup {None}]
  /\ streams \in [Node -> [Node -> Stream \cup {None}]]
  /\ sessions \in [Node -> [Node -> Stream \cup {None}]]
  /\ dialing \in [Node -> SUBSET Node]
  /\ net \in [Node -> [Node -> Seq(Chunk)]]
  /\ linked \in [Node -> BOOLEAN] /\ up \in [Node -> BOOLEAN]
  /\ exits \in 0 .. MaxExits /\ patient \in BOOLEAN

\* A stream with a task has a node and a peer.
Opened ==
  \A s \in Stream :
    /\ task[s] # "none" => owner[s] \in Node /\ remote[s] \in Node
    /\ task[s] = "none" => owner[s] = None

\* The tables name streams of their own node and peer.
Tables ==
  \A n, p \in Node : \A s \in {streams[n][p], sessions[n][p]} \ {None} :
    owner[s] = n /\ remote[s] = p

\* A receive loop has its ratchet, and a listed session has its loop.
Alive ==
  /\ \A s \in Stream : task[s] = "loop" => cipher[s] # None
  /\ \A n, p \in Node : sessions[n][p] # None => task[sessions[n][p]] = "loop"

IInv == Types /\ Opened /\ Tables /\ Alive /\ AwaitedIsFed

-----------------------------------------------------------------------------
(* The types *)

\* What the types say of single streams and nodes.
LEMMA TypeFacts ==
  ASSUME Types
  PROVE  /\ \A s \in Stream :
              /\ owner[s] \in Node \cup {None} /\ remote[s] \in Node \cup {None}
              /\ task[s] \in {"none", "initiate", "respond", "loop", "done"}
              /\ buf[s] \in Seq(Chunk) /\ cipher[s] \in Ciphers \cup {None}
         /\ \A n, p \in Node :
              /\ streams[n][p] \in Stream \cup {None}
              /\ sessions[n][p] \in Stream \cup {None}
              /\ net[n][p] \in Seq(Chunk)
         /\ \A n \in Node : dialing[n] \subseteq Node
         /\ None \notin Node /\ None \notin Stream /\ None \notin Ciphers
<1>1. \A n, p \in Node : net[n][p] \in Seq(Chunk)
  BY DEF Types
<1>2. \A s \in Stream :
        /\ owner[s] \in Node \cup {None} /\ remote[s] \in Node \cup {None}
        /\ task[s] \in {"none", "initiate", "respond", "loop", "done"}
  BY DEF Types
<1>3. \A s \in Stream : buf[s] \in Seq(Chunk) /\ cipher[s] \in Ciphers \cup {None}
  BY DEF Types
<1>4. \A n, p \in Node :
        streams[n][p] \in Stream \cup {None} /\ sessions[n][p] \in Stream \cup {None}
  BY DEF Types
<1>5. \A n \in Node : dialing[n] \subseteq Node
  BY DEF Types
<1>6. None \notin Node /\ None \notin Stream /\ None \notin Ciphers
  BY LinkAssumption DEF Ciphers
<1>7. QED
  BY <1>1, <1>2, <1>3, <1>4, <1>5, <1>6

\* What handshakes and sessions send are sequences of chunks, and each
\* chunk has a key.
LEMMA ChunkFacts ==
  /\ \A s \in Stream : Hello(s) \in Chunk
  /\ \A s \in Stream, k \in Ciphers, kind \in Kinds : Packet(s, k, kind) \in Chunk
  /\ \A m \in Chunk : m.key \in Stream
  /\ \A s \in Stream, b \in BOOLEAN : Cipher(s, b) \in Ciphers
  /\ \A m, r \in Chunk : <<m>> \in Seq(Chunk) /\ <<m, r>> \in Seq(Chunk)
<1>1. \A s \in Stream : Hello(s) \in Chunk
  BY DEF Hello, Chunk
<1>2. \A s \in Stream, k \in Ciphers, kind \in Kinds : Packet(s, k, kind) \in Chunk
  BY DEF Packet, Chunk, Ciphers
<1>3. \A m \in Chunk : m.key \in Stream
  BY DEF Chunk
<1>4. \A s \in Stream, b \in BOOLEAN : Cipher(s, b) \in Ciphers
  BY DEF Cipher, Ciphers
<1>5. \A m, r \in Chunk : <<m>> \in Seq(Chunk) /\ <<m, r>> \in Seq(Chunk)
  OBVIOUS
<1>6. QED
  BY <1>1, <1>2, <1>3, <1>4, <1>5

\* Putting chunks on the link keeps its type.
LEMMA PutTypes ==
  ASSUME Types, NEW n \in Node, NEW p \in Node, NEW chunks \in Seq(Chunk),
         Put(n, p, chunks)
  PROVE  net' \in [Node -> [Node -> Seq(Chunk)]]
<1>1. net \in [Node -> [Node -> Seq(Chunk)]]
  BY DEF Types
<1>2. net[n][p] \o chunks \in Seq(Chunk)
  <2>1. net[n][p] \in Seq(Chunk)
    BY <1>1
  <2>2. QED
    BY <2>1
<1>3. QED
  BY <1>1, <1>2 DEF Put

\* So does what is lost of it.
LEMMA LoseTypes ==
  ASSUME Types, NEW n \in Node, Lose(n)
  PROVE  net' \in [Node -> [Node -> Seq(Chunk)]]
<1> DEFINE rests(q) == {SubSeq(q, i, Len(q)) : i \in 1 .. Len(q) + 1}
<1>1. net \in [Node -> [Node -> Seq(Chunk)]]
  BY DEF Types
<1>2. ASSUME NEW q \in Seq(Chunk), NEW r \in rests(q)
      PROVE  r \in Seq(Chunk)
  <2>1. PICK i \in 1 .. Len(q) + 1 : r = SubSeq(q, i, Len(q))
    OBVIOUS
  <2>2. Len(q) \in Nat /\ Len(q) \in i - 1 .. Len(q)
    BY <2>1
  <2>3. QED
    BY <2>1, <2>2, SubSeqProperties
<1>3. PICK rest :
        /\ \A p \in Node : rest[p] \in rests(net[p][n])
        /\ net' = [p \in Node |-> [net[p] EXCEPT ![n] = rest[p]]]
  BY DEF Lose
<1> HIDE DEF rests
<1>4. \A p \in Node : rest[p] \in Seq(Chunk)
  BY <1>1, <1>2, <1>3
<1>5. QED
  BY <1>1, <1>3, <1>4

\* Taking a chunk from the link or from a stream keeps the types.
LEMMA TakeTypes ==
  ASSUME NEW q \in Seq(Chunk), q # <<>>
  PROVE  Head(q) \in Chunk /\ Tail(q) \in Seq(Chunk) /\ <<Head(q)>> \in Seq(Chunk)
  OBVIOUS

-----------------------------------------------------------------------------
(* Streams that are opened, and tasks that go on or end *)

\* A new stream keeps the invariant, if no handshake waits on the stream that it
\* replaces.
LEMMA OpenStreamInv ==
  ASSUME IInv, NEW n \in Node, NEW p \in Node, NEW s \in Stream,
         NEW what \in {"initiate", "respond"}, NEW chunks \in Seq(Chunk),
         OpenStream(n, p, s, what, chunks),
         Types', \A m \in Node : dialing[m] \subseteq dialing'[m],
         streams[n][p] # None => task[streams[n][p]] # "initiate",
         what = "initiate" => p \in dialing'[n],
         cipher' = cipher, sessions' = sessions
  PROVE  IInv'
<1>1. /\ owner[s] = None /\ task[s] = "none"
      /\ owner'[s] = n /\ remote'[s] = p /\ task'[s] = what
      /\ \A t \in Stream \ {s} :
           owner'[t] = owner[t] /\ remote'[t] = remote[t] /\ task'[t] = task[t]
      /\ \A m, q \in Node :
           streams'[m][q] = IF m = n /\ q = p THEN s ELSE streams[m][q]
  <2>1. owner[s] = None
    BY DEF OpenStream
  <2>2. task[s] = "none"
    BY <2>1, TypeFacts DEF IInv, Opened
  <2>3. /\ owner'[s] = n /\ remote'[s] = p /\ task'[s] = what
        /\ \A t \in Stream \ {s} :
             owner'[t] = owner[t] /\ remote'[t] = remote[t] /\ task'[t] = task[t]
    BY DEF IInv, Types, OpenStream
  <2>4. \A m, q \in Node : streams'[m][q] = IF m = n /\ q = p THEN s ELSE streams[m][q]
    <3>1. /\ streams \in [Node -> [Node -> Stream \cup {None}]]
          /\ streams' = [streams EXCEPT ![n][p] = s]
      BY DEF IInv, Types, OpenStream
    <3>2. QED
      BY <3>1
  <2>5. QED
    BY <2>1, <2>2, <2>3, <2>4
<1>2. Opened'
  BY <1>1, TypeFacts DEF IInv, Opened
<1>3. \A m, q \in Node : streams[m][q] # s /\ sessions[m][q] # s
  BY <1>1, TypeFacts DEF IInv, Tables
<1>4. Tables'
  <2>1. ASSUME NEW m \in Node, NEW q \in Node,
               NEW t \in {streams'[m][q], sessions'[m][q]} \ {None}
        PROVE  owner'[t] = m /\ remote'[t] = q
    <3>1. CASE t = s
      BY <1>1, <1>3, <2>1, <3>1
    <3>2. CASE t # s
      <4>1. t \in {streams[m][q], sessions[m][q]} \ {None} /\ t \in Stream
        BY <1>1, <2>1, <3>2, TypeFacts DEF IInv
      <4>2. QED
        BY <1>1, <3>2, <4>1 DEF IInv, Tables
    <3>3. QED
      BY <3>1, <3>2
  <2>2. QED
    BY <2>1 DEF Tables
<1>5. Alive'
  <2>1. \A t \in Stream : task'[t] = "loop" => cipher'[t] # None
    BY <1>1 DEF IInv, Alive
  <2>2. \A m, q \in Node : sessions'[m][q] # None => task'[sessions'[m][q]] = "loop"
    BY <1>1, <1>3, TypeFacts DEF IInv, Alive
  <2>3. QED
    BY <2>1, <2>2 DEF Alive
<1>6. AwaitedIsFed'
  <2>1. ASSUME NEW t \in Stream, task'[t] = "initiate"
        PROVE  streams'[owner'[t]][remote'[t]] = t /\ remote'[t] \in dialing'[owner'[t]]
    <3>1. CASE t = s
      BY <1>1, <2>1, <3>1
    <3>2. CASE t # s
      <4>1. task[t] = "initiate" /\ owner[t] \in Node /\ remote[t] \in Node
        BY <1>1, <2>1, <3>2 DEF IInv, Opened
      <4>2. streams[owner[t]][remote[t]] = t /\ remote[t] \in dialing[owner[t]]
        BY <4>1 DEF IInv, AwaitedIsFed
      <4>3. ~ (owner[t] = n /\ remote[t] = p)
        BY <4>1, <4>2, TypeFacts DEF IInv
      <4>4. QED
        BY <1>1, <3>2, <4>1, <4>2, <4>3
    <3>3. QED
      BY <3>1, <3>2
  <2>2. QED
    BY <2>1 DEF AwaitedIsFed
<1>7. QED
  BY <1>2, <1>4, <1>5, <1>6 DEF IInv

\* The types after a stream is opened.
LEMMA OpenStreamTypes ==
  ASSUME Types, NEW n \in Node, NEW p \in Node, NEW s \in Stream,
         NEW what \in {"initiate", "respond"}, NEW chunks \in Seq(Chunk),
         OpenStream(n, p, s, what, chunks),
         dialing' \in [Node -> SUBSET Node], net' \in [Node -> [Node -> Seq(Chunk)]],
         cipher' = cipher, sessions' = sessions, linked' = linked, up' = up,
         exits' = exits, patient' = patient
  PROVE  Types'
<1>1. /\ owner' \in [Stream -> Node \cup {None}] /\ remote' \in [Stream -> Node \cup {None}]
      /\ task' \in [Stream -> {"none", "initiate", "respond", "loop", "done"}]
  BY DEF Types, OpenStream
<1>2. buf' \in [Stream -> Seq(Chunk)]
  BY DEF Types, OpenStream
<1>3. streams' \in [Node -> [Node -> Stream \cup {None}]]
  BY DEF Types, OpenStream
<1>4. QED
  BY <1>1, <1>2, <1>3 DEF Types

\* A task that becomes a receive loop or ends keeps the invariant, if a session
\* that it lists has a ratchet and no session on an ended stream stays listed.
LEMMA TaskInv ==
  ASSUME IInv, NEW s \in Stream, NEW what \in {"loop", "done"},
         task[s] # "none", task' = [task EXCEPT ![s] = what],
         owner' = owner, remote' = remote, streams' = streams,
         Types',
         \A t \in Stream \ {s} : cipher'[t] = cipher[t],
         what = "loop" => cipher'[s] # None,
         \A n, p \in Node :
           \/ sessions'[n][p] \in {sessions[n][p], None} \ {s}
           \/ what = "loop" /\ n = owner[s] /\ p = remote[s] /\ sessions'[n][p] = s,
         \A t \in Stream \ {s} : task[t] = "initiate" => remote[t] \in dialing'[owner[t]]
  PROVE  IInv'
<1>1. task'[s] = what /\ \A t \in Stream \ {s} : task'[t] = task[t]
  BY DEF IInv, Types
<1>2. Opened'
  BY <1>1 DEF IInv, Opened
<1>3. Tables'
  BY DEF IInv, Tables
<1>4. Alive'
  <2>1. \A t \in Stream : task'[t] = "loop" => cipher'[t] # None
    BY <1>1 DEF IInv, Alive
  <2>2. ASSUME NEW n \in Node, NEW p \in Node, sessions'[n][p] # None
        PROVE  task'[sessions'[n][p]] = "loop"
    <3>1. CASE sessions'[n][p] = s
      BY <1>1, <3>1
    <3>2. CASE sessions'[n][p] # s
      <4>1. sessions'[n][p] = sessions[n][p] /\ sessions[n][p] \in Stream \ {s}
        BY <2>2, <3>2, TypeFacts DEF IInv
      <4>2. QED
        BY <1>1, <2>2, <4>1 DEF IInv, Alive
    <3>3. QED
      BY <3>1, <3>2
  <2>3. QED
    BY <2>1, <2>2 DEF Alive
<1>5. AwaitedIsFed'
  BY <1>1 DEF IInv, AwaitedIsFed
<1>6. QED
  BY <1>2, <1>3, <1>4, <1>5 DEF IInv

-----------------------------------------------------------------------------
(* Actions: streams *)

\* A chunk is fed to the stream of its peer.
LEMMA FeedInv ==
  ASSUME IInv, NEW n \in Node, NEW p \in Node, Feed(n, p), patient' = patient
  PROVE  IInv'
<1> DEFINE s == streams[n][p]
<1>1. s \in Stream /\ net[p][n] \in Seq(Chunk) /\ net[p][n] # <<>> /\ buf[s] \in Seq(Chunk)
  BY TypeFacts DEF IInv, Feed, Arriving
<1>2. /\ Head(net[p][n]) \in Chunk /\ Tail(net[p][n]) \in Seq(Chunk)
      /\ Append(buf[s], Head(net[p][n])) \in Seq(Chunk)
  BY <1>1, TakeTypes
<1>3. /\ buf' = IF task[s] = "done" THEN buf
                ELSE [buf EXCEPT ![s] = Append(@, Head(net[p][n]))]
      /\ net' = [net EXCEPT ![p][n] = Tail(@)]
  BY DEF Feed
<1> HIDE DEF s
<1>4. buf' \in [Stream -> Seq(Chunk)]
  BY <1>1, <1>2, <1>3 DEF IInv, Types
<1>5. net' \in [Node -> [Node -> Seq(Chunk)]]
  BY <1>2, <1>3 DEF IInv, Types
<1>6. /\ owner' = owner /\ remote' = remote /\ task' = task /\ cipher' = cipher
      /\ streams' = streams /\ sessions' = sessions /\ dialing' = dialing
      /\ linked' = linked /\ up' = up /\ exits' = exits
  BY DEF Feed, perNode
<1>7. Types'
  BY <1>4, <1>5, <1>6 DEF IInv, Types
<1>8. QED
  BY <1>6, <1>7 DEF IInv, Opened, Tables, Alive, AwaitedIsFed

\* A chunk from a peer without a stream opens one.
LEMMA FeedNewInv ==
  ASSUME IInv, NEW n \in Node, NEW p \in Node, NEW s \in Stream, FeedNew(n, p, s),
         patient' = patient
  PROVE  IInv'
<1>1. net[p][n] \in Seq(Chunk) /\ net[p][n] # <<>>
  BY TypeFacts DEF IInv, FeedNew, Arriving
<1>2. /\ <<Head(net[p][n])>> \in Seq(Chunk) /\ Tail(net[p][n]) \in Seq(Chunk)
  BY <1>1, TakeTypes
<1>3. net' \in [Node -> [Node -> Seq(Chunk)]]
  BY <1>2 DEF IInv, Types, FeedNew
<1>4. /\ OpenStream(n, p, s, "respond", <<Head(net[p][n])>>) /\ streams[n][p] = None
      /\ cipher' = cipher /\ sessions' = sessions /\ dialing' = dialing
      /\ linked' = linked /\ up' = up /\ exits' = exits
  BY DEF FeedNew
<1>5. dialing' \in [Node -> SUBSET Node]
  BY <1>4 DEF IInv, Types
<1>6. Types'
  BY <1>2, <1>3, <1>4, <1>5, OpenStreamTypes DEF IInv
<1>7. QED
  BY <1>2, <1>4, <1>6, OpenStreamInv

-----------------------------------------------------------------------------
(* Actions: handshakes *)

\* A dial replaces the stream of its peer: no handshake waits on that one.
LEMMA RelayConnectInv ==
  ASSUME IInv, NEW n \in Node, NEW p \in Node, NEW s \in Stream, RelayConnect(n, p, s),
         patient' = patient
  PROVE  IInv'
<1>1. /\ OpenStream(n, p, s, "initiate", <<>>) /\ p \notin dialing[n]
      /\ dialing' = [dialing EXCEPT ![n] = @ \cup {p}] /\ Put(n, p, <<Hello(s)>>)
      /\ cipher' = cipher /\ sessions' = sessions
      /\ linked' = linked /\ up' = up /\ exits' = exits
  BY DEF RelayConnect
<1>2. <<>> \in Seq(Chunk) /\ <<Hello(s)>> \in Seq(Chunk)
  BY ChunkFacts
<1>3. net' \in [Node -> [Node -> Seq(Chunk)]]
  BY <1>1, <1>2, PutTypes DEF IInv
<1>4. /\ dialing' \in [Node -> SUBSET Node] /\ p \in dialing'[n]
      /\ \A m \in Node : dialing[m] \subseteq dialing'[m]
  <2>1. dialing \in [Node -> SUBSET Node]
    BY DEF IInv, Types
  <2>2. QED
    BY <1>1, <2>1
<1>5. Types'
  BY <1>1, <1>2, <1>3, <1>4, OpenStreamTypes DEF IInv
<1>6. streams[n][p] # None => task[streams[n][p]] # "initiate"
  <2>1. ASSUME NEW t, t = streams[n][p], t # None, task[t] = "initiate"
        PROVE  FALSE
    <3>1. t \in Stream /\ owner[t] = n /\ remote[t] = p
      BY <2>1, TypeFacts DEF IInv, Tables
    <3>2. QED
      BY <1>1, <2>1, <3>1 DEF IInv, AwaitedIsFed
  <2>2. QED
    BY <2>1
<1>7. QED
  BY <1>1, <1>2, <1>4, <1>5, <1>6, OpenStreamInv

\* The end of a dial is the end of no other one.
LEMMA DialEndedFacts ==
  ASSUME IInv, NEW s \in Stream, task[s] = "initiate", DialEnded(owner[s], remote[s])
  PROVE  /\ dialing' \in [Node -> SUBSET Node]
         /\ \A t \in Stream \ {s} :
              task[t] = "initiate" => remote[t] \in dialing'[owner[t]]
<1>1. dialing \in [Node -> SUBSET Node]
  BY DEF IInv, Types
<1>2. dialing' = [dialing EXCEPT ![owner[s]] = @ \ {remote[s]}]
  BY DEF DialEnded
<1>3. dialing' \in [Node -> SUBSET Node]
  BY <1>1, <1>2
<1>4. ASSUME NEW t \in Stream \ {s}, task[t] = "initiate"
      PROVE  remote[t] \in dialing'[owner[t]]
  <2>1. /\ owner[s] \in Node /\ owner[t] \in Node
        /\ streams[owner[s]][remote[s]] = s
        /\ streams[owner[t]][remote[t]] = t /\ remote[t] \in dialing[owner[t]]
    BY <1>4 DEF IInv, Opened, AwaitedIsFed
  <2>2. ~ (owner[t] = owner[s] /\ remote[t] = remote[s])
    BY <1>4, <2>1
  <2>3. dialing'[owner[t]] =
          IF owner[t] = owner[s] THEN dialing[owner[t]] \ {remote[s]} ELSE dialing[owner[t]]
    BY <1>1, <1>2, <2>1
  <2>4. QED
    BY <2>1, <2>2, <2>3
<1>5. QED
  BY <1>3, <1>4

\* The types after a handshake.
LEMMA EstablishTypes ==
  ASSUME IInv, NEW s \in Stream, task[s] \in {"initiate", "respond"}, buf[s] # <<>>,
         NEW k \in Ciphers, Establish(s, k),
         dialing' \in [Node -> SUBSET Node], net' \in [Node -> [Node -> Seq(Chunk)]],
         owner' = owner, remote' = remote, streams' = streams,
         linked' = linked, up' = up, exits' = exits, patient' = patient
  PROVE  Types'
<1>1. owner[s] \in Node /\ remote[s] \in Node
  BY DEF IInv, Opened
<1>2. Tail(buf[s]) \in Seq(Chunk)
  <2>1. buf[s] \in Seq(Chunk)
    BY TypeFacts DEF IInv
  <2>2. QED
    BY <2>1, TakeTypes
<1>3. buf' \in [Stream -> Seq(Chunk)]
  BY <1>2 DEF IInv, Types, Establish
<1>4. /\ task' \in [Stream -> {"none", "initiate", "respond", "loop", "done"}]
      /\ cipher' \in [Stream -> Ciphers \cup {None}]
  BY DEF IInv, Types, Establish
<1>5. sessions' \in [Node -> [Node -> Stream \cup {None}]]
  BY <1>1 DEF IInv, Types, Establish
<1>6. QED
  BY <1>3, <1>4, <1>5 DEF IInv, Types

\* A new session is listed with its loop and its ratchet.
LEMMA EstablishInv ==
  ASSUME IInv, NEW s \in Stream, task[s] \in {"initiate", "respond"},
         NEW k \in Ciphers, Establish(s, k), Types',
         \A t \in Stream \ {s} : task[t] = "initiate" => remote[t] \in dialing'[owner[t]],
         owner' = owner, remote' = remote, streams' = streams
  PROVE  IInv'
<1>1. owner[s] \in Node /\ remote[s] \in Node /\ task[s] # "none" /\ k # None
  BY TypeFacts DEF IInv, Opened
<1>2. cipher'[s] = k /\ \A t \in Stream \ {s} : cipher'[t] = cipher[t]
  <2>1. /\ cipher \in [Stream -> Ciphers \cup {None}] /\ cipher' = [cipher EXCEPT ![s] = k]
    BY DEF IInv, Types, Establish
  <2>2. QED
    BY <2>1
<1>3. \A n, p \in Node :
        sessions'[n][p] = IF n = owner[s] /\ p = remote[s] THEN s ELSE sessions[n][p]
  <2>1. /\ sessions \in [Node -> [Node -> Stream \cup {None}]]
        /\ sessions' = [sessions EXCEPT ![owner[s]][remote[s]] = s]
    BY DEF IInv, Types, Establish
  <2>2. QED
    BY <1>1, <2>1
<1>4. \A n, p \in Node : sessions[n][p] # s
  BY TypeFacts DEF IInv, Alive
<1>5. task' = [task EXCEPT ![s] = "loop"]
  BY DEF Establish
<1>6. PICK what \in {"loop", "done"} : what = "loop"
  OBVIOUS
<1>7. /\ task' = [task EXCEPT ![s] = what]
      /\ what = "loop" => cipher'[s] # None
      /\ \A n, p \in Node :
           \/ sessions'[n][p] \in {sessions[n][p], None} \ {s}
           \/ what = "loop" /\ n = owner[s] /\ p = remote[s] /\ sessions'[n][p] = s
  BY <1>1, <1>2, <1>3, <1>4, <1>5, <1>6
<1>8. QED
  BY <1>1, <1>2, <1>7, TaskInv, ZenonT(60)

\* A stream that ends is not listed any more.
LEMMA EndInv ==
  ASSUME IInv, NEW s \in Stream, task[s] # "none", End(s),
         cipher' \in [Stream -> Ciphers \cup {None}],
         \A t \in Stream \ {s} : cipher'[t] = cipher[t],
         sessions' \in [Node -> [Node -> Stream \cup {None}]],
         \A n, p \in Node : sessions'[n][p] \in {sessions[n][p], None} \ {s},
         dialing' \in [Node -> SUBSET Node], net' = net,
         \A t \in Stream \ {s} : task[t] = "initiate" => remote[t] \in dialing'[owner[t]],
         owner' = owner, remote' = remote, streams' = streams,
         linked' = linked, up' = up, exits' = exits, patient' = patient
  PROVE  IInv'
<1>1. Types'
  <2>1. <<>> \in Seq(Chunk)
    OBVIOUS
  <2>2. buf' \in [Stream -> Seq(Chunk)]
    BY <2>1 DEF IInv, Types, End
  <2>3. task' \in [Stream -> {"none", "initiate", "respond", "loop", "done"}]
    BY DEF IInv, Types, End
  <2>4. QED
    BY <2>2, <2>3 DEF IInv, Types
<1>2. task' = [task EXCEPT ![s] = "done"]
  BY DEF End
<1>3. PICK what \in {"loop", "done"} : what = "done"
  OBVIOUS
<1>4. QED
  BY <1>1, <1>2, <1>3, TaskInv

\* The initiator's session.
LEMMA InitiateDoneInv ==
  ASSUME IInv, NEW s \in Stream, InitiateDone(s), patient' = patient
  PROVE  IInv'
<1> DEFINE k == Cipher(Head(buf[s]).key, TRUE)
<1>1. /\ task[s] = "initiate" /\ buf[s] # <<>> /\ Establish(s, k)
      /\ Put(owner[s], remote[s], <<Packet(s, k, "peer_list")>>)
      /\ DialEnded(owner[s], remote[s])
      /\ owner' = owner /\ remote' = remote /\ streams' = streams
      /\ linked' = linked /\ up' = up /\ exits' = exits
  BY DEF InitiateDone, ReadsHello, Reads
<1>2. k \in Ciphers /\ <<Packet(s, k, "peer_list")>> \in Seq(Chunk)
  <2>1. Head(buf[s]) \in Chunk
    BY <1>1, TypeFacts, TakeTypes DEF IInv
  <2>2. k \in Ciphers
    BY <2>1, ChunkFacts
  <2>3. Packet(s, k, "peer_list") \in Chunk
    BY <2>2, ChunkFacts DEF Kinds
  <2>4. QED
    BY <2>2, <2>3, ChunkFacts
<1> HIDE DEF k
<1>3. owner[s] \in Node /\ remote[s] \in Node
  BY <1>1 DEF IInv, Opened
<1>4. net' \in [Node -> [Node -> Seq(Chunk)]]
  BY <1>1, <1>2, <1>3, PutTypes DEF IInv
<1>5. /\ dialing' \in [Node -> SUBSET Node]
      /\ \A t \in Stream \ {s} : task[t] = "initiate" => remote[t] \in dialing'[owner[t]]
  BY <1>1, DialEndedFacts
<1>6. Types'
  BY <1>1, <1>2, <1>4, <1>5, EstablishTypes
<1>7. QED
  BY <1>1, <1>2, <1>5, <1>6, EstablishInv

\* The responder's session, in place of any other one.
LEMMA RespondDoneInv ==
  ASSUME IInv, NEW s \in Stream, RespondDone(s), patient' = patient
  PROVE  IInv'
<1> DEFINE k == Cipher(Head(buf[s]).key, FALSE)
<1>1. /\ task[s] = "respond" /\ buf[s] # <<>> /\ Establish(s, k)
      /\ Put(owner[s], remote[s], Reply(s, k))
      /\ owner' = owner /\ remote' = remote /\ streams' = streams /\ dialing' = dialing
      /\ linked' = linked /\ up' = up /\ exits' = exits
  BY DEF RespondDone, ReadsHello, Reads
<1>2. k \in Ciphers /\ Reply(s, k) \in Seq(Chunk)
  <2>1. Head(buf[s]) \in Chunk
    BY <1>1, TypeFacts, TakeTypes DEF IInv
  <2>2. k \in Ciphers
    BY <2>1, ChunkFacts
  <2>3. Packet(s, k, "peer_list") \in Chunk /\ Hello(s) \in Chunk
    BY <2>2, ChunkFacts DEF Kinds
  <2>4. QED
    BY <2>2, <2>3, ChunkFacts DEF Reply
<1> HIDE DEF k
<1>3. owner[s] \in Node /\ remote[s] \in Node
  BY <1>1 DEF IInv, Opened
<1>4. net' \in [Node -> [Node -> Seq(Chunk)]]
  BY <1>1, <1>2, <1>3, PutTypes DEF IInv
<1>5. dialing' \in [Node -> SUBSET Node]
  BY <1>1 DEF IInv, Types
<1>6. \A t \in Stream \ {s} : task[t] = "initiate" => remote[t] \in dialing'[owner[t]]
  BY <1>1 DEF IInv, AwaitedIsFed
<1>7. Types'
  BY <1>1, <1>2, <1>4, <1>5, EstablishTypes
<1>8. QED
  BY <1>1, <1>2, <1>6, <1>7, EstablishInv

\* A handshake that is late or fails.
LEMMA HandshakeEndsInv ==
  ASSUME IInv, NEW s \in Stream,
         InitiateLate(s) \/ InitiateFails(s) \/ RespondFails(s), patient' = patient
  PROVE  IInv'
<1>1. /\ End(s) /\ task[s] \in {"initiate", "respond"}
      /\ owner' = owner /\ remote' = remote /\ streams' = streams /\ cipher' = cipher
      /\ sessions' = sessions /\ linked' = linked /\ up' = up /\ exits' = exits
      /\ net' = net
  BY DEF InitiateLate, InitiateFails, RespondFails, ReadsHello, Reads, perNode
<1>2. \/ task[s] = "initiate" /\ DialEnded(owner[s], remote[s])
      \/ dialing' = dialing
  BY DEF InitiateLate, InitiateFails, RespondFails, ReadsHello, Reads, perNode
<1>3. /\ dialing' \in [Node -> SUBSET Node]
      /\ \A t \in Stream \ {s} : task[t] = "initiate" => remote[t] \in dialing'[owner[t]]
  <2>1. CASE dialing' = dialing
    BY <2>1 DEF IInv, Types, AwaitedIsFed
  <2>2. CASE task[s] = "initiate" /\ DialEnded(owner[s], remote[s])
    BY <2>2, DialEndedFacts
  <2>3. QED
    BY <1>2, <2>1, <2>2
<1>4. \A n, p \in Node : sessions'[n][p] \in {sessions[n][p], None} \ {s}
  BY <1>1, TypeFacts DEF IInv, Alive
<1>5. /\ cipher' \in [Stream -> Ciphers \cup {None}]
      /\ sessions' \in [Node -> [Node -> Stream \cup {None}]]
  BY <1>1 DEF IInv, Types
<1>6. \A t \in Stream \ {s} : cipher'[t] = cipher[t]
  BY <1>1
<1>7. task[s] # "none"
  BY <1>1
<1>8. QED
  BY <1>1, <1>3, <1>4, <1>5, <1>6, <1>7, EndInv

-----------------------------------------------------------------------------
(* Actions: sessions *)

\* Streams and tables stay as they are.
LEMMA FrameInv ==
  ASSUME IInv, Types', owner' = owner, remote' = remote, task' = task, cipher' = cipher,
         streams' = streams, sessions' = sessions, dialing' = dialing
  PROVE  IInv'
  BY DEF IInv, Opened, Tables, Alive, AwaitedIsFed

\* A message is read, and a delivery note sent.
LEMMA ReceiveInv ==
  ASSUME IInv, NEW s \in Stream, Receive(s), patient' = patient
  PROVE  IInv'
<1>1. /\ task[s] = "loop" /\ buf[s] # <<>> /\ buf' = [buf EXCEPT ![s] = Tail(@)]
      /\ \/ Put(owner[s], remote[s], <<Packet(s, cipher[s], "delivery")>>)
         \/ net' = net
      /\ owner' = owner /\ remote' = remote /\ task' = task /\ cipher' = cipher
      /\ streams' = streams /\ sessions' = sessions /\ dialing' = dialing
      /\ linked' = linked /\ up' = up /\ exits' = exits
  BY DEF Receive, Reads, perNode
<1>2. /\ owner[s] \in Node /\ remote[s] \in Node /\ cipher[s] \in Ciphers
      /\ Tail(buf[s]) \in Seq(Chunk)
  <2>1. owner[s] \in Node /\ remote[s] \in Node
    BY <1>1 DEF IInv, Opened
  <2>2. cipher[s] \in Ciphers
    BY <1>1, TypeFacts DEF IInv, Alive
  <2>3. buf[s] \in Seq(Chunk)
    BY TypeFacts DEF IInv
  <2>4. QED
    BY <1>1, <2>1, <2>2, <2>3, TakeTypes
<1>3. net' \in [Node -> [Node -> Seq(Chunk)]]
  <2>1. CASE net' = net
    BY <2>1 DEF IInv, Types
  <2>2. CASE Put(owner[s], remote[s], <<Packet(s, cipher[s], "delivery")>>)
    <3>1. Packet(s, cipher[s], "delivery") \in Chunk
      BY <1>2, ChunkFacts DEF Kinds
    <3>2. <<Packet(s, cipher[s], "delivery")>> \in Seq(Chunk)
      BY <3>1
    <3>3. QED
      BY <1>2, <2>2, <3>2, PutTypes DEF IInv
  <2>3. QED
    BY <1>1, <2>1, <2>2
<1>4. buf' \in [Stream -> Seq(Chunk)]
  BY <1>1, <1>2 DEF IInv, Types
<1>5. Types'
  BY <1>1, <1>3, <1>4 DEF IInv, Types
<1>6. QED
  BY <1>1, <1>5, FrameInv

\* A loop that ends drops what is listed for its peer.
LEMMA LoopEndsInv ==
  ASSUME IInv, NEW s \in Stream, LoopEnds(s), patient' = patient
  PROVE  IInv'
<1>1. /\ End(s) /\ task[s] = "loop"
      /\ cipher' = [cipher EXCEPT ![s] = None] /\ DropEntry(owner[s], remote[s])
      /\ owner' = owner /\ remote' = remote /\ streams' = streams /\ dialing' = dialing
      /\ linked' = linked /\ up' = up /\ exits' = exits /\ net' = net
  BY DEF LoopEnds, Reads
<1>2. owner[s] \in Node /\ remote[s] \in Node
  BY <1>1 DEF IInv, Opened
<1>3. /\ cipher' \in [Stream -> Ciphers \cup {None}]
      /\ \A t \in Stream \ {s} : cipher'[t] = cipher[t]
  <2>1. cipher \in [Stream -> Ciphers \cup {None}]
    BY DEF IInv, Types
  <2>2. QED
    BY <1>1, <2>1
<1>4. /\ sessions' \in [Node -> [Node -> Stream \cup {None}]]
      /\ \A n, p \in Node : sessions'[n][p] =
           IF n = owner[s] /\ p = remote[s] THEN None ELSE sessions[n][p]
  <2>1. /\ sessions \in [Node -> [Node -> Stream \cup {None}]]
        /\ sessions' = [sessions EXCEPT ![owner[s]][remote[s]] = None]
    BY <1>1 DEF IInv, Types, DropEntry
  <2>2. QED
    BY <1>2, <2>1
<1>5. \A n, p \in Node : sessions'[n][p] \in {sessions[n][p], None} \ {s}
  <2>1. \A n, p \in Node : sessions[n][p] = s => n = owner[s] /\ p = remote[s]
    BY TypeFacts DEF IInv, Tables
  <2>2. s # None
    BY TypeFacts DEF IInv
  <2>3. QED
    BY <1>4, <2>1, <2>2
<1>6. dialing' \in [Node -> SUBSET Node]
  BY <1>1 DEF IInv, Types
<1>7. \A t \in Stream \ {s} : task[t] = "initiate" => remote[t] \in dialing'[owner[t]]
  BY <1>1 DEF IInv, AwaitedIsFed
<1>8. task[s] # "none"
  BY <1>1
<1>9. QED
  BY <1>1, <1>3, <1>4, <1>5, <1>6, <1>7, <1>8, EndInv

\* A message is sent over a listed session.
LEMMA SendMessageInv ==
  ASSUME IInv, NEW n \in Node, NEW p \in Node, SendMessage(n, p), patient' = patient
  PROVE  IInv'
<1>1. PICK s : s = sessions[n][p]
  OBVIOUS
<1>2. /\ s # None /\ Put(n, p, <<Packet(s, cipher[s], "message")>>)
      /\ owner' = owner /\ remote' = remote /\ task' = task /\ cipher' = cipher /\ buf' = buf
      /\ streams' = streams /\ sessions' = sessions /\ dialing' = dialing
      /\ linked' = linked /\ up' = up /\ exits' = exits
  BY <1>1 DEF SendMessage, perStream, perNode
<1>3. s \in Stream /\ cipher[s] \in Ciphers
  BY <1>1, <1>2, TypeFacts DEF IInv, Alive
<1>4. <<Packet(s, cipher[s], "message")>> \in Seq(Chunk)
  <2>1. Packet(s, cipher[s], "message") \in Chunk
    BY <1>3, ChunkFacts DEF Kinds
  <2>2. QED
    BY <2>1
<1>5. net' \in [Node -> [Node -> Seq(Chunk)]]
  BY <1>2, <1>4, PutTypes DEF IInv
<1>6. Types'
  BY <1>2, <1>5 DEF IInv, Types
<1>7. QED
  BY <1>2, <1>6, FrameInv

-----------------------------------------------------------------------------
(* Actions: processes and links *)

\* A process ends, with all of its streams.
LEMMA ExitInv ==
  ASSUME IInv, NEW n \in Node, Exit(n), patient' = patient
  PROVE  IInv'
<1>1. /\ task' = [s \in Stream |-> IF owner[s] = n THEN "done" ELSE task[s]]
      /\ buf' = [s \in Stream |-> IF owner[s] = n THEN <<>> ELSE buf[s]]
      /\ cipher' = [s \in Stream |-> IF owner[s] = n THEN None ELSE cipher[s]]
      /\ streams' = [streams EXCEPT ![n] = [p \in Node |-> None]]
      /\ sessions' = [sessions EXCEPT ![n] = [p \in Node |-> None]]
      /\ dialing' = [dialing EXCEPT ![n] = {}]
      /\ up' = [up EXCEPT ![n] = FALSE] /\ linked' = [linked EXCEPT ![n] = FALSE]
      /\ exits < MaxExits /\ exits' = exits + 1 /\ Lose(n)
      /\ owner' = owner /\ remote' = remote
  BY DEF Exit
<1>2. Types'
  <2>1. net' \in [Node -> [Node -> Seq(Chunk)]]
    BY <1>1, LoseTypes DEF IInv
  <2>2. /\ task' \in [Stream -> {"none", "initiate", "respond", "loop", "done"}]
        /\ cipher' \in [Stream -> Ciphers \cup {None}]
    BY <1>1 DEF IInv, Types
  <2>3. buf' \in [Stream -> Seq(Chunk)]
    <3>1. <<>> \in Seq(Chunk)
      OBVIOUS
    <3>2. QED
      BY <1>1, <3>1 DEF IInv, Types
  <2>4. /\ streams' \in [Node -> [Node -> Stream \cup {None}]]
        /\ sessions' \in [Node -> [Node -> Stream \cup {None}]]
    BY <1>1 DEF IInv, Types
  <2>5. /\ dialing' \in [Node -> SUBSET Node]
        /\ linked' \in [Node -> BOOLEAN] /\ up' \in [Node -> BOOLEAN]
    BY <1>1 DEF IInv, Types
  <2>6. exits' \in 0 .. MaxExits
    BY <1>1, LinkAssumption DEF IInv, Types
  <2>7. QED
    BY <1>1, <2>1, <2>2, <2>3, <2>4, <2>5, <2>6 DEF IInv, Types
<1>3. \A s \in Stream : /\ task'[s] = IF owner[s] = n THEN "done" ELSE task[s]
                        /\ cipher'[s] = IF owner[s] = n THEN None ELSE cipher[s]
  BY <1>1
<1>4. \A m, p \in Node : /\ streams'[m][p] = IF m = n THEN None ELSE streams[m][p]
                         /\ sessions'[m][p] = IF m = n THEN None ELSE sessions[m][p]
  BY <1>1 DEF IInv, Types
<1>5. \A m \in Node : dialing'[m] = IF m = n THEN {} ELSE dialing[m]
  BY <1>1 DEF IInv, Types
<1>6. owner' = owner /\ remote' = remote
  BY <1>1
<1>7. Opened'
  BY <1>3, <1>6, TypeFacts DEF IInv, Opened
<1>8. Tables'
  BY <1>4, <1>6 DEF IInv, Tables
<1>9. Alive'
  <2>1. \A s \in Stream : task'[s] = "loop" => cipher'[s] # None
    BY <1>3 DEF IInv, Alive
  <2>2. ASSUME NEW m \in Node, NEW p \in Node, sessions'[m][p] # None
        PROVE  task'[sessions'[m][p]] = "loop"
    <3>1. m # n /\ sessions'[m][p] = sessions[m][p] /\ sessions[m][p] \in Stream
      BY <1>4, <2>2, TypeFacts DEF IInv
    <3>2. owner[sessions[m][p]] = m /\ task[sessions[m][p]] = "loop"
      BY <2>2, <3>1 DEF IInv, Tables, Alive
    <3>3. QED
      BY <1>3, <3>1, <3>2
  <2>3. QED
    BY <2>1, <2>2 DEF Alive
<1>10. AwaitedIsFed'
  <2>1. ASSUME NEW s \in Stream, task'[s] = "initiate"
        PROVE  streams'[owner'[s]][remote'[s]] = s /\ remote'[s] \in dialing'[owner'[s]]
    <3>1. task[s] = "initiate" /\ owner[s] # n
      BY <1>3, <2>1
    <3>2. /\ owner[s] \in Node /\ remote[s] \in Node
          /\ streams[owner[s]][remote[s]] = s /\ remote[s] \in dialing[owner[s]]
      BY <3>1 DEF IInv, Opened, AwaitedIsFed
    <3>3. QED
      BY <1>4, <1>5, <1>6, <3>1, <3>2
  <2>2. QED
    BY <2>1 DEF AwaitedIsFed
<1>11. QED
  BY <1>2, <1>7, <1>8, <1>9, <1>10 DEF IInv

\* A process starts, or a link ends.
LEMMA LinkInv ==
  ASSUME IInv, NEW n \in Node, Start(n) \/ LinkEnds(n), patient' = patient
  PROVE  IInv'
<1>1. /\ owner' = owner /\ remote' = remote /\ task' = task /\ cipher' = cipher /\ buf' = buf
      /\ streams' = streams /\ sessions' = sessions /\ dialing' = dialing
  BY DEF Start, LinkEnds, perStream
<1>2. /\ linked' \in [Node -> BOOLEAN] /\ up' \in [Node -> BOOLEAN]
      /\ exits' \in 0 .. MaxExits
  <2>1. exits \in 0 .. MaxExits /\ MaxExits \in Nat
    BY LinkAssumption DEF IInv, Types
  <2>2. exits' = exits \/ (exits < MaxExits /\ exits' = exits + 1)
    BY DEF Start, LinkEnds
  <2>3. exits' \in 0 .. MaxExits
    BY <2>1, <2>2
  <2>4. linked' \in [Node -> BOOLEAN] /\ up' \in [Node -> BOOLEAN]
    BY DEF Start, LinkEnds, IInv, Types
  <2>5. QED
    BY <2>3, <2>4
<1>3. net' \in [Node -> [Node -> Seq(Chunk)]]
  BY LoseTypes DEF Start, LinkEnds, IInv, Types
<1>4. Types'
  BY <1>1, <1>2, <1>3 DEF IInv, Types
<1>5. QED
  BY <1>1, <1>4, FrameInv

-----------------------------------------------------------------------------
(* The theorems *)

\* The invariant holds initially.
LEMMA InitInv == Init => IInv
<1> SUFFICES ASSUME Init
             PROVE  IInv
  OBVIOUS
<1>1. <<>> \in Seq(Chunk) /\ 0 \in 0 .. MaxExits
  BY LinkAssumption
<1>2. Types
  BY <1>1 DEF Init, Types
<1>3. Opened /\ Tables /\ Alive /\ AwaitedIsFed
  BY LinkAssumption DEF Init, Opened, Tables, Alive, AwaitedIsFed
<1>4. QED
  BY <1>2, <1>3 DEF IInv

\* Every step preserves it.
LEMMA StepInv == IInv /\ [Next /\ UNCHANGED patient]_<<vars, patient>> => IInv'
<1> SUFFICES ASSUME IInv, [Next /\ UNCHANGED patient]_<<vars, patient>>
             PROVE  IInv'
  OBVIOUS
<1>1. patient' = patient
  OBVIOUS
<1>2. ASSUME NEW s \in Stream, Task(s)
      PROVE  IInv'
  BY <1>1, <1>2, InitiateDoneInv, RespondDoneInv, HandshakeEndsInv, ReceiveInv, LoopEndsInv
     DEF Task
<1>3. ASSUME NEW n \in Node, NEW p \in Node, ReadLoop(n, p)
      PROVE  IInv'
  BY <1>1, <1>3, FeedInv, FeedNewInv DEF ReadLoop
<1>4. ASSUME NEW n \in Node, NEW p \in Node,
             SendMessage(n, p) \/ \E s \in Stream : RelayConnect(n, p, s)
      PROVE  IInv'
  BY <1>1, <1>4, SendMessageInv, RelayConnectInv
<1>5. ASSUME NEW n \in Node, Exit(n) \/ Start(n) \/ LinkEnds(n)
      PROVE  IInv'
  BY <1>1, <1>5, ExitInv, LinkInv
<1>6. CASE UNCHANGED <<vars, patient>>
  BY <1>6 DEF vars, perStream, perNode, IInv, Types, Opened, Tables, Alive, AwaitedIsFed
<1>7. QED
  BY <1>2, <1>3, <1>4, <1>5, <1>6 DEF Next

\* The inductive invariant holds in every reachable state.
THEOREM Invariance == Spec => []IInv
<1>1. Init => IInv
  BY InitInv
<1>2. IInv /\ [Next /\ UNCHANGED patient]_<<vars, patient>> => IInv'
  BY StepInv
<1>3. QED
  BY <1>1, <1>2, PTL DEF Spec

\* The state is of its types, and the tables name streams of their own node and
\* peer.
THEOREM TypesCorrect == Spec => []TypeOK
<1>1. IInv => TypeOK
  <2> SUFFICES ASSUME IInv
               PROVE  TypeOK
    OBVIOUS
  <2>1. \A s \in Stream : \A i \in DOMAIN buf[s] : buf[s][i] \in Chunk
    BY TypeFacts DEF IInv
  <2>2. \A n, p \in Node : \A i \in DOMAIN net[n][p] : net[n][p][i] \in Chunk
    BY TypeFacts DEF IInv
  <2>3. QED
    BY <2>1, <2>2 DEF IInv, Types, Tables, Ciphers, TypeOK
<1>2. QED
  BY <1>1, Invariance, PTL

\* A listed session has its receive loop and its ratchet: sending over it works.
THEOREM ListedStayAlive == Spec => []ListedIsAlive
<1>1. IInv => ListedIsAlive
  BY TypeFacts DEF IInv, Alive, ListedIsAlive
<1>2. QED
  BY <1>1, Invariance, PTL

\* A handshake that waits is on the stream that is fed, and its peer is being
\* dialled.
THEOREM DialsAreFed == Spec => []AwaitedIsFed
<1>1. IInv => AwaitedIsFed
  BY DEF IInv
<1>2. QED
  BY <1>1, Invariance, PTL
=============================================================================

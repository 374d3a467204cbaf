------------------------------ MODULE RelayLink ------------------------------
(***************************************************************************)
(* Sessions over the relay, at the nodes: RelayClient keeps one stream per *)
(* peer and feeds it what the relay brings from that peer; P2PNode runs a  *)
(* handshake on a stream that it opened, or that the first chunk from an   *)
(* unknown peer opened, and then a session (relay_client.py, network.py).  *)
(*                                                                         *)
(* The relay is taken at its best here, as the network between the nodes:  *)
(* it keeps the order, and loses only what was under way to a node whose   *)
(* connection ends.  RelayServer is about the rest.                        *)
(*                                                                         *)
(* Every write is one relay message, so a chunk is a whole handshake or a  *)
(* whole packet.  A handler is one step: it suspends only while the socket *)
(* to the relay is full.  The ratchet of a session is reduced to what it   *)
(* was made from, the two ephemeral keys and the role; an ephemeral key is *)
(* named by the stream whose handshake it was generated for.               *)
(***************************************************************************)
EXTENDS Integers, Sequences, FiniteSets

CONSTANTS Node,         \* the peers, all with the same relay
          Stream,       \* streams: as many as are opened in a behaviour
          None,         \* no node, no stream, no cipher
          MaxExits,     \* bound of the model: how often a node or link ends
          MaxUnread     \* bound of the model: users send while fewer chunks
                        \* than this are under way between the two nodes

ASSUME LinkAssumption ==
  /\ None \notin Node \cup Stream \cup [peer : Stream, first : BOOLEAN]
  /\ MaxExits \in Nat /\ MaxUnread \in Nat

VARIABLES
  owner, remote,        \* owner[s], remote[s]: the node of s, and the peer
  task,                 \* task[s]: what reads from s
  buf,                  \* buf[s]: chunks fed to s and not read
  cipher,               \* cipher[s]: the DoubleRatchet of the session on s
  streams,              \* streams[n][p]: RelayClient._streams of n
  sessions,             \* sessions[n][p]: the relayed session of n with p
  dialing,              \* dialing[n]: _pending_relay of n
  net,                  \* net[n][p]: chunks of n under way to p
  linked,               \* linked[n]: relay_client._running
  up,                   \* up[n]: the process of n runs
  exits,                \* how many processes and links ended so far
  patient               \* never changes: in such a behaviour a handshake times
                        \* out only if no answer will come

perStream == <<owner, remote, task, buf, cipher>>
perNode   == <<streams, sessions, dialing, linked, up, exits>>
vars      == <<perStream, perNode, net>>

\* The 136 bytes of a handshake carry the ephemeral key.
Hello(s) == [type |-> "hello", key |-> s]

\* The ratchet of a session: the key of the other end, and is_initiator.
Cipher(peer, first) == [peer |-> peer, first |-> first]

\* A packet that the session on s seals with its ratchet k.
Packet(s, k, kind) ==
  [type |-> kind, key |-> s, for |-> k.peer, first |-> k.first]

Kinds == {"message", "delivery", "peer_list"}

Chunk ==
  [type : {"hello"}, key : Stream]
    \cup [type : Kinds, key : Stream, for : Stream, first : BOOLEAN]

Init ==
  /\ owner = [s \in Stream |-> None]
  /\ remote = [s \in Stream |-> None]
  /\ task = [s \in Stream |-> "none"]
  /\ buf = [s \in Stream |-> <<>>]
  /\ cipher = [s \in Stream |-> None]
  /\ streams = [n \in Node |-> [p \in Node |-> None]]
  /\ sessions = [n \in Node |-> [p \in Node |-> None]]
  /\ dialing = [n \in Node |-> {}]
  /\ net = [n \in Node |-> [p \in Node |-> <<>>]]
  /\ linked = [n \in Node |-> TRUE]
  /\ up = [n \in Node |-> TRUE]
  /\ exits = 0
  /\ patient \in BOOLEAN

-----------------------------------------------------------------------------
(* Streams *)

\* RelayStreamWriter.drain and send_relay.  When the link has ended, a write is
\* lost or raises: this is the first, and whoever minds the second has a step for it.
Put(n, p, chunks) ==
  net' = IF linked[n] THEN [net EXCEPT ![n][p] = @ \o chunks] ELSE net

\* Mutant: the table keeps the stream that it has.
OpenStreamOnce(n, p, s, what, chunks) ==
  /\ owner[s] = None
  /\ owner' = [owner EXCEPT ![s] = n]
  /\ remote' = [remote EXCEPT ![s] = p]
  /\ task' = [task EXCEPT ![s] = what]
  /\ buf' = [buf EXCEPT ![s] = chunks]
  /\ streams' = [streams EXCEPT ![n][p] = IF @ = None THEN s ELSE @]

\* Mutant: the stream is entered at the other node.
OpenStreamThere(n, p, s, what, chunks) ==
  /\ owner[s] = None
  /\ owner' = [owner EXCEPT ![s] = n]
  /\ remote' = [remote EXCEPT ![s] = p]
  /\ task' = [task EXCEPT ![s] = what]
  /\ buf' = [buf EXCEPT ![s] = chunks]
  /\ streams' = [streams EXCEPT ![p][n] = s]

\* open_stream: s is the stream of p from now on, whatever it had before.
OpenStream(n, p, s, what, chunks) ==
  /\ owner[s] = None
  /\ owner' = [owner EXCEPT ![s] = n]
  /\ remote' = [remote EXCEPT ![s] = p]
  /\ task' = [task EXCEPT ![s] = what]
  /\ buf' = [buf EXCEPT ![s] = chunks]
  /\ streams' = [streams EXCEPT ![n][p] = s]

Arriving(n, p) == up[n] /\ linked[n] /\ net[p][n] # <<>>

\* _feed_stream for a peer that has a stream; what nobody will ever read is
\* not kept in the model.
Feed(n, p) ==
  LET s == streams[n][p] IN
  /\ Arriving(n, p) /\ s # None
  /\ buf' = IF task[s] = "done" THEN buf
            ELSE [buf EXCEPT ![s] = Append(@, Head(net[p][n]))]
  /\ net' = [net EXCEPT ![p][n] = Tail(@)]
  /\ UNCHANGED <<owner, remote, task, cipher, perNode>>

\* _feed_stream for any other peer: _accept_relay_stream opens a stream and
\* starts a responder.
FeedNew(n, p, s) ==
  /\ Arriving(n, p) /\ streams[n][p] = None
  /\ OpenStream(n, p, s, "respond", <<Head(net[p][n])>>)
  /\ net' = [net EXCEPT ![p][n] = Tail(@)]
  /\ UNCHANGED <<cipher, sessions, dialing, linked, up, exits>>

-----------------------------------------------------------------------------
(* Handshakes *)

\* _relay_connect up to the handshake, called for a peer without a session.
RelayConnect(n, p, s) ==
  /\ n # p /\ up[n] /\ linked[n]
  /\ sessions[n][p] = None /\ p \notin dialing[n]
  /\ OpenStream(n, p, s, "initiate", <<>>)
  /\ dialing' = [dialing EXCEPT ![n] = @ \cup {p}]
  /\ Put(n, p, <<Hello(s)>>)
  /\ UNCHANGED <<cipher, sessions, linked, up, exits>>

\* Mutant: the finally branch of _relay_connect is missing.
StillDialing(n, p) == UNCHANGED dialing

DialEnded(n, p) == dialing' = [dialing EXCEPT ![n] = @ \ {p}]

Reads(s, what) == task[s] = what /\ buf[s] # <<>>

ReadsHello(s, what) == Reads(s, what) /\ Head(buf[s]).type = "hello"

\* The session on s with the ratchet k.
Establish(s, k) ==
  /\ cipher' = [cipher EXCEPT ![s] = k]
  /\ task' = [task EXCEPT ![s] = "loop"]
  /\ buf' = [buf EXCEPT ![s] = Tail(@)]
  /\ sessions' = [sessions EXCEPT ![owner[s]][remote[s]] = s]

\* The task of s ends for good: what it did not read, nobody will.
End(s) ==
  /\ task' = [task EXCEPT ![s] = "done"]
  /\ buf' = [buf EXCEPT ![s] = <<>>]

\* _relay_connect when the reply is there and no session was made meanwhile.
InitiateDone(s) ==
  LET n == owner[s]  p == remote[s]  k == Cipher(Head(buf[s]).key, TRUE) IN
  /\ ReadsHello(s, "initiate")
  /\ sessions[n][p] = None
  /\ Establish(s, k)
  /\ Put(n, p, <<Packet(s, k, "peer_list")>>)
  /\ DialEnded(n, p)
  /\ UNCHANGED <<owner, remote, streams, linked, up, exits>>

\* The same when there is one: the new session is closed.
InitiateLate(s) ==
  /\ ReadsHello(s, "initiate")
  /\ sessions[owner[s]][remote[s]] # None
  /\ End(s)
  /\ DialEnded(owner[s], remote[s])
  /\ UNCHANGED <<owner, remote, cipher, streams, sessions, linked, up, exits, net>>

\* Will the handshake on s be answered, if nobody acts but the tasks?  (Not if
\* the bound on streams keeps the peer from opening one.)
AnswerUnderWay(s) ==
  LET n == owner[s]  p == remote[s] IN
  /\ up[p] /\ linked[p] /\ linked[n]
  /\ streams[p][n] # None \/ \E t \in Stream : owner[t] = None
  /\ \/ \E i \in DOMAIN net[n][p] : net[n][p][i].type = "hello"
     \/ \E i \in DOMAIN net[p][n] : net[p][n][i].type = "hello"
     \/ \E t \in Stream : owner[t] = p /\ remote[t] = n /\ task[t] = "respond"

\* The handshake fails: what arrives is no handshake, or 10 seconds are over.
InitiateFails(s) ==
  /\ task[s] = "initiate"
  /\ IF buf[s] # <<>> THEN Head(buf[s]).type # "hello"
                      ELSE ~ patient \/ ~ AnswerUnderWay(s)
  /\ End(s)
  /\ DialEnded(owner[s], remote[s])
  /\ UNCHANGED <<owner, remote, cipher, streams, sessions, linked, up, exits, net>>

\* Mutant: the first packet overtakes the reply.
ReplyReversed(s, k) == <<Packet(s, k, "peer_list"), Hello(s)>>

Reply(s, k) == <<Hello(s), Packet(s, k, "peer_list")>>

\* _relay_handshake_respond: the session replaces any other one in the table.
RespondDone(s) ==
  LET k == Cipher(Head(buf[s]).key, FALSE) IN
  /\ ReadsHello(s, "respond")
  /\ Establish(s, k)
  /\ Put(owner[s], remote[s], Reply(s, k))
  /\ UNCHANGED <<owner, remote, streams, dialing, linked, up, exits>>

\* The handshake fails, or the reply is not sent, and the stream stays the one of
\* that peer.
RespondFails(s) ==
  /\ Reads(s, "respond")
  /\ ~ patient \/ ~ linked[owner[s]] \/ Head(buf[s]).type # "hello"
  /\ End(s)
  /\ UNCHANGED <<owner, remote, cipher, perNode, net>>

-----------------------------------------------------------------------------
(* Sessions *)

\* Does decrypt return the plaintext: the packet was sealed for this stream by
\* the holder of the other key, in the other role.
Opens(s, m) ==
  /\ m.type \in Kinds
  /\ m.for = s /\ m.key = cipher[s].peer /\ m.first # cipher[s].first

\* _receive_loop: a message is answered with a delivery note.
Receive(s) ==
  LET m == Head(buf[s]) IN
  /\ Reads(s, "loop") /\ Opens(s, m)
  /\ buf' = [buf EXCEPT ![s] = Tail(@)]
  /\ IF m.type = "message"
     THEN Put(owner[s], remote[s], <<Packet(s, cipher[s], "delivery")>>)
     ELSE UNCHANGED net
  /\ UNCHANGED <<owner, remote, task, cipher, perNode>>

\* Mutant: the entry of the table is left.
KeepEntry(n, p) == UNCHANGED sessions

DropEntry(n, p) == sessions' = [sessions EXCEPT ![n][p] = None]

\* The delivery note for m, on s, cannot be sent.
NoteRaises(s, m) == m.type = "message" /\ ~ linked[owner[s]]

\* _receive_loop when decrypt or the handler raises: the session is closed, and
\* whatever session the table has for the peer is dropped.
LoopEnds(s) ==
  /\ Reads(s, "loop")
  /\ LET m == Head(buf[s]) IN ~ Opens(s, m) \/ NoteRaises(s, m)
  /\ End(s)
  /\ cipher' = [cipher EXCEPT ![s] = None]
  /\ DropEntry(owner[s], remote[s])
  /\ UNCHANGED <<owner, remote, streams, dialing, linked, up, exits, net>>

\* Chunks of n that p has still to read.
Unread(n, p) ==
  Len(net[n][p]) + IF streams[p][n] = None THEN 0 ELSE Len(buf[streams[p][n]])

\* send_message over the session with p.
SendMessage(n, p) ==
  LET s == sessions[n][p] IN
  /\ s # None /\ Unread(n, p) + Unread(p, n) < MaxUnread
  /\ Put(n, p, <<Packet(s, cipher[s], "message")>>)
  /\ UNCHANGED <<perStream, perNode>>

-----------------------------------------------------------------------------
(* Processes and links *)

\* Of what was under way to n, the relay loses what it had written to the
\* connection, and buffers the rest.
Lose(n) ==
  LET rests(q) == {SubSeq(q, i, Len(q)) : i \in 1 .. Len(q) + 1} IN
  \E rest \in [Node -> UNION {rests(net[p][n]) : p \in Node}] :
    /\ \A p \in Node : rest[p] \in rests(net[p][n])
    /\ net' = [p \in Node |-> [net[p] EXCEPT ![n] = rest[p]]]

Exit(n) ==
  /\ up[n] /\ exits < MaxExits
  /\ up' = [up EXCEPT ![n] = FALSE]
  /\ linked' = [linked EXCEPT ![n] = FALSE]
  /\ exits' = exits + 1
  /\ task' = [s \in Stream |-> IF owner[s] = n THEN "done" ELSE task[s]]
  /\ buf' = [s \in Stream |-> IF owner[s] = n THEN <<>> ELSE buf[s]]
  /\ cipher' = [s \in Stream |-> IF owner[s] = n THEN None ELSE cipher[s]]
  /\ streams' = [streams EXCEPT ![n] = [p \in Node |-> None]]
  /\ sessions' = [sessions EXCEPT ![n] = [p \in Node |-> None]]
  /\ dialing' = [dialing EXCEPT ![n] = {}]
  /\ Lose(n)
  /\ UNCHANGED <<owner, remote>>

\* P2PNode.start with a relay.
Start(n) ==
  /\ ~ up[n]
  /\ up' = [up EXCEPT ![n] = TRUE]
  /\ linked' = [linked EXCEPT ![n] = TRUE]
  /\ UNCHANGED <<perStream, streams, sessions, dialing, exits, net>>

\* The end of RelayClient._read_loop: the link stays down, the streams hear
\* nothing of it.
LinkEnds(n) ==
  /\ linked[n] /\ exits < MaxExits
  /\ linked' = [linked EXCEPT ![n] = FALSE]
  /\ exits' = exits + 1
  /\ Lose(n)
  /\ UNCHANGED <<perStream, streams, sessions, dialing, up>>

-----------------------------------------------------------------------------

Task(s) ==
  \/ InitiateDone(s) \/ InitiateLate(s) \/ InitiateFails(s)
  \/ RespondDone(s) \/ RespondFails(s) \/ Receive(s) \/ LoopEnds(s)

ReadLoop(n, p) == Feed(n, p) \/ \E s \in Stream : FeedNew(n, p, s)

Next ==
  \/ \E s \in Stream : Task(s)
  \/ \E n \in Node, p \in Node :
       \/ ReadLoop(n, p) \/ SendMessage(n, p)
       \/ \E s \in Stream : RelayConnect(n, p, s)
  \/ \E n \in Node : Exit(n) \/ Start(n) \/ LinkEnds(n)

Spec == Init /\ [][Next /\ UNCHANGED patient]_<<vars, patient>>

(***************************************************************************)
(* Fairness: the event loop resumes the tasks and the read loops, and the  *)
(* timeouts fire.  Users and exits are not fair.                           *)
(***************************************************************************)
Fairness ==
  /\ \A s \in Stream : WF_vars(Task(s))
  /\ \A n, p \in Node : WF_vars(ReadLoop(n, p))

FairSpec == Spec /\ Fairness

-----------------------------------------------------------------------------
(* Properties *)

\* The types of the state; the tables name streams of their own node and peer.
TypeOK ==
  /\ owner \in [Stream -> Node \cup {None}] /\ remote \in [Stream -> Node \cup {None}]
  /\ task \in [Stream -> {"none", "initiate", "respond", "loop", "done"}]
  /\ \A s \in Stream : \A i \in DOMAIN buf[s] : buf[s][i] \in Chunk
  /\ cipher \in [Stream -> [peer : Stream, first : BOOLEAN] \cup {None}]
  /\ {streams, sessions} \subseteq [Node -> [Node -> Stream \cup {None}]]
  /\ \A n, p \in Node : \A s \in {streams[n][p], sessions[n][p]} \ {None} :
       owner[s] = n /\ remote[s] = p
  /\ dialing \in [Node -> SUBSET Node]
  /\ \A n, p \in Node : \A i \in DOMAIN net[n][p] : net[n][p][i] \in Chunk
  /\ {linked, up} \subseteq [Node -> BOOLEAN] /\ exits \in 0 .. MaxExits
  /\ patient \in BOOLEAN

(***************************************************************************)
(* A listed session is alive, although a responder overwrites the entry of *)
(* another session and the end of any loop drops whatever is listed: its   *)
(* receive loop runs and its ratchet is there, so what is sent is sealed   *)
(* and, while the link is up, put on the way.                              *)
(***************************************************************************)
ListedIsAlive ==
  \A n, p \in Node : sessions[n][p] # None =>
    task[sessions[n][p]] = "loop" /\ cipher[sessions[n][p]] # None

(***************************************************************************)
(* A handshake that waits for its reply is fed what arrives: its stream is *)
(* the one in the table, however streams are replaced, and its peer cannot *)
(* be dialled again meanwhile.                                             *)
(***************************************************************************)
AwaitedIsFed ==
  \A s \in Stream : task[s] = "initiate" =>
    streams[owner[s]][remote[s]] = s /\ remote[s] \in dialing[owner[s]]

\* A peer does not stay blocked: its handshake over the relay ends.
DialEnds ==
  \A n \in Node : \A p \in Node \ {n} : (p \in dialing[n]) ~> (p \notin dialing[n])

Talks(n, p) ==
  LET s == sessions[n][p]  t == sessions[p][n] IN
  /\ s # None /\ t # None
  /\ cipher[s] = Cipher(t, TRUE) /\ cipher[t] = Cipher(s, FALSE)

(***************************************************************************)
(* The first contact works: when a node dials a peer with which there was  *)
(* no stream before, both get the same session, unless a process or a link *)
(* ends, the handshake times out or the peer dials as well.                *)
(***************************************************************************)
FirstContact ==
  \A n \in Node : \A p \in Node \ {n} : \A s \in Stream :
    (patient /\ owner[s] = n /\ remote[s] = p /\ task[s] = "initiate" /\ streams[p][n] = None)
      ~> (\/ Talks(n, p) \/ exits > 0
          \/ \E t \in Stream : owner[t] = p /\ task[t] = "initiate")
=============================================================================

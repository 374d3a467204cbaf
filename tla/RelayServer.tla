----------------------------- MODULE RelayServer -----------------------------
(***************************************************************************)
(* The message relay (relay.py): one task per client connection reads      *)
(* request lines; a request is passed to the registered connection of its  *)
(* target, or buffered until the target registers.                         *)
(*                                                                         *)
(* A task suspends where it awaits the drain of what it wrote, so between  *)
(* two writes of a flush, and between the write of a relayed message and   *)
(* the test whether that succeeded, the other tasks run.  Drains end at    *)
(* any moment: the size of the socket buffers is left open.                *)
(*                                                                         *)
(* The peers are the FYM clients of relay_client.py: they register once,   *)
(* with the first line of a connection, and read all the time.             *)
(***************************************************************************)
EXTENDS Integers, Sequences, FiniteSets

CONSTANTS Peer,         \* the peers, by the identity they register
          Conn,         \* connections: as many as are opened in a behaviour
          None,         \* no peer, no connection
          MaxQueue,     \* MAX_QUEUE, 100 in the code
          MaxRelay      \* bound of the model: relay requests in a behaviour

ASSUME RelayAssumption ==
  /\ None \notin Peer /\ None \notin Conn
  /\ MaxQueue \in Nat /\ MaxRelay \in Nat

VARIABLES
  user,         \* user[c]: the peer whose client opened c
  link,         \* link[c]: "cut" is a peer that is gone, "lost" is a
                \* connection that the transport of the relay knows is lost
  wire,         \* wire[c]: lines of the client that the relay did not read
  out,          \* out[c]: lines of the relay that the client did not read
  task,         \* task[c]: where the handler of c is
  job,          \* job[c]: what it has to flush, or the message it is sending
  target,       \* target[c]: the connection that it is sending this to
  peerId,       \* peerId[c]: client.peer_id
  clients,      \* clients[p]: the registered connection of p
  offline,      \* offline[p]: offline_queue
  sent,         \* how many relay requests were sent so far
  taken,        \* messages of the requests that the relay read (history)
  got,          \* got[i]: how often the target read message i (history)
  evicted,      \* messages dropped from a full queue (history)
  newest        \* newest[p]: the connection that registered p last (history)

sockets == <<user, link, wire, out>>
server  == <<task, job, target, peerId, clients, offline>>
history == <<taken, got, evicted, newest>>
vars    == <<sockets, server, sent, history>>

Register      == [type |-> "register"]
Relay(i, p)   == [type |-> "relay", id |-> i, to |-> p]

Messages == {Relay(i, p) : i \in 1 .. MaxRelay, p \in Peer}

Init ==
  /\ user = [c \in Conn |-> None]
  /\ link = [c \in Conn |-> "none"]
  /\ wire = [c \in Conn |-> <<>>]
  /\ out = [c \in Conn |-> <<>>]
  /\ task = [c \in Conn |-> "none"]
  /\ job = [c \in Conn |-> <<>>]
  /\ target = [c \in Conn |-> None]
  /\ peerId = [c \in Conn |-> None]
  /\ clients = [p \in Peer |-> None]
  /\ offline = [p \in Peer |-> <<>>]
  /\ sent = 0
  /\ taken = {}
  /\ got = [i \in 1 .. MaxRelay |-> 0]
  /\ evicted = {}
  /\ newest = [p \in Peer |-> None]

-----------------------------------------------------------------------------
(* The peers and the network *)

\* RelayClient.connect of a node that runs: the first line registers it.
Open(p, c) ==
  /\ user[c] = None
  /\ \A d \in Conn : user[d] = p => link[d] # "up"
  /\ user' = [user EXCEPT ![c] = p]
  /\ link' = [link EXCEPT ![c] = "up"]
  /\ wire' = [wire EXCEPT ![c] = <<Register>>]
  /\ task' = [task EXCEPT ![c] = "read"]
  /\ UNCHANGED <<out, job, target, peerId, clients, offline, sent, history>>

\* RelayClient.send_relay.
SendRelay(c, p) ==
  /\ link[c] = "up" /\ user[c] # p
  /\ sent < MaxRelay
  /\ sent' = sent + 1
  /\ wire' = [wire EXCEPT ![c] = Append(@, Relay(sent', p))]
  /\ UNCHANGED <<user, link, out, server, history>>

\* RelayClient._read_loop.
ReadLine(c) ==
  /\ link[c] = "up" /\ out[c] # <<>>
  /\ out' = [out EXCEPT ![c] = Tail(@)]
  /\ got' = [got EXCEPT ![Head(out[c]).id] = @ + 1]
  /\ UNCHANGED <<user, link, wire, server, sent, taken, evicted, newest>>

\* The client stops, crashes or loses its network.
Cut(c) ==
  /\ link[c] = "up"
  /\ link' = [link EXCEPT ![c] = "cut"]
  /\ out' = [out EXCEPT ![c] = <<>>]
  /\ UNCHANGED <<user, wire, server, sent, history>>

\* The transport of the relay learns of it: from now on drain raises.
Notice(c) ==
  /\ link[c] = "cut"
  /\ link' = [link EXCEPT ![c] = "lost"]
  /\ UNCHANGED <<user, wire, out, server, sent, history>>

-----------------------------------------------------------------------------
(* The tasks of the relay *)

\* writer.write: nothing comes of it once the client is gone.
Write(c, m) ==
  out' = IF link[c] = "up" THEN [out EXCEPT ![c] = Append(@, m)] ELSE out

\* Mutant: the queue is not limited.
BufferAll(m) ==
  /\ offline' = [offline EXCEPT ![m.to] = Append(@, m)]
  /\ UNCHANGED evicted

\* Mutant: the queue loses a message as soon as it is full.
BufferEarly(m) ==
  LET q == Append(offline[m.to], m) IN
  IF Len(q) >= MaxQueue
  THEN /\ offline' = [offline EXCEPT ![m.to] = Tail(q)]
       /\ evicted' = evicted \cup {Head(q)}
  ELSE /\ offline' = [offline EXCEPT ![m.to] = q]
       /\ UNCHANGED evicted

\* _buffer: a full queue loses its oldest message.
Buffer(m) ==
  LET q == Append(offline[m.to], m) IN
  IF Len(q) > MaxQueue
  THEN /\ offline' = [offline EXCEPT ![m.to] = Tail(q)]
       /\ evicted' = evicted \cup {Head(q)}
  ELSE /\ offline' = [offline EXCEPT ![m.to] = q]
       /\ UNCHANGED evicted

Reads(c, type) ==
  /\ task[c] = "read" /\ wire[c] # <<>> /\ Head(wire[c]).type = type
  /\ wire' = [wire EXCEPT ![c] = Tail(@)]

\* Mutants: the queue stays, or is flushed and stays.
TakeNothing(c, p) == UNCHANGED <<job, offline>>
TakeQueueCopy(c, p) ==
  /\ job' = [job EXCEPT ![c] = offline[p]]
  /\ UNCHANGED offline

\* The queue of p is popped, its messages are the job of the handler now.
TakeQueue(c, p) ==
  /\ job' = [job EXCEPT ![c] = offline[p]]
  /\ offline' = [offline EXCEPT ![p] = <<>>]

HandleRegister(c) ==
  LET p == user[c] IN
  /\ Reads(c, "register")
  /\ peerId' = [peerId EXCEPT ![c] = p]
  /\ clients' = [clients EXCEPT ![p] = c]
  /\ TakeQueue(c, p)
  /\ task' = [task EXCEPT ![c] = "flush"]
  /\ newest' = [newest EXCEPT ![p] = c]
  /\ UNCHANGED <<user, link, out, target, sent, taken, got, evicted>>

\* The next buffered message; the drain of the one before succeeded.
Flush(c) ==
  /\ task[c] = "flush" /\ link[c] # "lost" /\ job[c] # <<>>
  /\ Write(c, Head(job[c]))
  /\ job' = [job EXCEPT ![c] = Tail(@)]
  /\ UNCHANGED <<user, link, wire, task, target, peerId, clients, offline,
                 sent, history>>

FlushDone(c) ==
  /\ task[c] = "flush" /\ link[c] # "lost" /\ job[c] = <<>>
  /\ task' = [task EXCEPT ![c] = "read"]
  /\ UNCHANGED <<sockets, job, target, peerId, clients, offline, sent, history>>

\* A relay request for a peer that is registered.
HandleRelay(c) ==
  LET m == Head(wire[c]) IN
  /\ Reads(c, "relay")
  /\ clients[m.to] # None
  /\ Write(clients[m.to], m)
  /\ task' = [task EXCEPT ![c] = "send"]
  /\ job' = [job EXCEPT ![c] = <<m>>]
  /\ target' = [target EXCEPT ![c] = clients[m.to]]
  /\ taken' = taken \cup {m}
  /\ UNCHANGED <<user, link, peerId, clients, offline, sent, got, evicted, newest>>

\* A relay request for any other peer.
HandleRelayOffline(c) ==
  LET m == Head(wire[c]) IN
  /\ Reads(c, "relay")
  /\ clients[m.to] = None
  /\ Buffer(m)
  /\ taken' = taken \cup {m}
  /\ UNCHANGED <<user, link, out, task, job, target, peerId, clients, sent, got,
                 newest>>

Sending(c) == task[c] = "send"

Sent(c) ==
  /\ task' = [task EXCEPT ![c] = "read"]
  /\ job' = [job EXCEPT ![c] = <<>>]
  /\ target' = [target EXCEPT ![c] = None]

\* The drain succeeds.
SendDone(c) ==
  /\ Sending(c) /\ link[target[c]] # "lost"
  /\ Sent(c)
  /\ UNCHANGED <<sockets, peerId, clients, offline, sent, history>>

\* The drain raises: the message is buffered, whether it arrived or not.
SendRaises(c) ==
  /\ Sending(c) /\ link[target[c]] = "lost"
  /\ Buffer(Head(job[c]))
  /\ Sent(c)
  /\ UNCHANGED <<sockets, peerId, clients, sent, taken, got, newest>>

\* Mutant: the handler that ends unregisters its peer in any case.
UnregisterAny(c) ==
  clients' = [p \in Peer |-> IF p = peerId[c] THEN None ELSE clients[p]]

\* The entry of the peer is removed if it is still this connection.
Unregister(c) ==
  clients' = [p \in Peer |->
    IF p = peerId[c] /\ clients[p] = c THEN None ELSE clients[p]]

\* The end of the handler: end of file, an error of the connection, or an
\* error of a flush, with which the rest of the popped queue is gone.
HandlerEnds(c) ==
  /\ \/ task[c] = "read" /\ link[c] = "cut" /\ wire[c] = <<>>
     \/ task[c] \in {"read", "flush"} /\ link[c] = "lost"
  /\ Unregister(c)
  /\ task' = [task EXCEPT ![c] = "done"]
  /\ job' = [job EXCEPT ![c] = <<>>]
  /\ link' = [link EXCEPT ![c] = "lost"]
  /\ UNCHANGED <<user, wire, out, target, peerId, offline, sent, history>>

-----------------------------------------------------------------------------

Handler(c) ==
  \/ HandleRegister(c) \/ Flush(c) \/ FlushDone(c)
  \/ HandleRelay(c) \/ HandleRelayOffline(c) \/ SendDone(c) \/ SendRaises(c)
  \/ HandlerEnds(c)

Next ==
  \/ \E c \in Conn : Handler(c) \/ ReadLine(c) \/ Cut(c) \/ Notice(c)
  \/ \E c \in Conn, p \in Peer : Open(p, c) \/ SendRelay(c, p)

Spec == Init /\ [][Next]_vars

(***************************************************************************)
(* Fairness: the event loop resumes a handler whose read or drain is over, *)
(* and clients read.  Nobody has to connect, send or go away.              *)
(***************************************************************************)
Fairness == \A c \in Conn : WF_vars(Handler(c)) /\ WF_vars(ReadLine(c))

FairSpec == Spec /\ Fairness

-----------------------------------------------------------------------------
(* Properties *)

\* The types of the state; a queue never holds more than MAX_QUEUE messages.
TypeOK ==
  /\ user \in [Conn -> Peer \cup {None}] /\ peerId \in [Conn -> Peer \cup {None}]
  /\ link \in [Conn -> {"none", "up", "cut", "lost"}]
  /\ task \in [Conn -> {"none", "read", "flush", "send", "done"}]
  /\ target \in [Conn -> Conn \cup {None}]
  /\ clients \in [Peer -> Conn \cup {None}] /\ newest \in [Peer -> Conn \cup {None}]
  /\ \A c \in Conn :
       /\ \A i \in DOMAIN wire[c] : wire[c][i] \in Messages \cup {Register}
       /\ \A i \in DOMAIN out[c] : out[c][i] \in Messages
       /\ \A i \in DOMAIN job[c] : job[c][i] \in Messages
  /\ \A p \in Peer :
       /\ Len(offline[p]) <= MaxQueue
       /\ \A i \in DOMAIN offline[p] : offline[p][i] \in Messages /\ offline[p][i].to = p
  /\ sent \in 0 .. MaxRelay /\ got \in [1 .. MaxRelay -> Nat]
  /\ taken \subseteq Messages /\ evicted \subseteq Messages

(***************************************************************************)
(* A peer that reconnects stays registered, even if the handler of its old *)
(* connection ends only afterwards: the table names the connection that    *)
(* registered last as long as its handler runs, and no ended one.          *)
(***************************************************************************)
NewestIsRegistered ==
  \A p \in Peer :
    /\ newest[p] # None /\ task[newest[p]] # "done" => clients[p] = newest[p]
    /\ clients[p] # None => task[clients[p]] # "done"

\* A connection of p went away, and with it whatever it had in its buffers.
LostConnection(p) == \E c \in Conn : user[c] = p /\ link[c] \in {"cut", "lost"}

\* Where copies of m wait: in the queue, in a flush or in a connection.
Held(m) ==
  LET at(q) == {i \in DOMAIN q : q[i] = m} IN
  {<<"queue", i>> : i \in at(offline[m.to])}
    \cup (UNION {{<<"out", c, i>> : i \in at(out[c])} : c \in Conn})
    \cup (UNION {{<<"flush", c, i>> : i \in at(job[c])} :
                   c \in {d \in Conn : task[d] = "flush"}})

Copies(m) == got[m.id] + Cardinality(Held(m))

(***************************************************************************)
(* Every message that the relay read is where its peer gets it from,       *)
(* exactly once: it is buffered, on its way, or read, unless a connection  *)
(* of that peer went away or the message was the oldest of a full queue.   *)
(* No registration that crosses a send loses or repeats a message.         *)
(***************************************************************************)
ExactlyOnce ==
  \A m \in taken \ evicted : LostConnection(m.to) \/ Copies(m) = 1

(***************************************************************************)
(* A message is dropped only for MAX_QUEUE others: the relay read that     *)
(* many for the same peer by then, so a queue has room for MAX_QUEUE       *)
(* messages however buffering, flushing and failed sends interleave.       *)
(***************************************************************************)
EvictedAreOld ==
  \A m \in evicted :
    Cardinality({n \in taken : n.to = m.to /\ n # m}) >= MaxQueue

(***************************************************************************)
(* A message for a registered peer arrives: also one that was buffered     *)
(* before the peer registered, unless a connection of the peer goes away.  *)
(***************************************************************************)
Arrives ==
  \A m \in Messages :
    (m \in taken \ evicted /\ clients[m.to] # None)
      ~> (got[m.id] > 0 \/ LostConnection(m.to))
=============================================================================

# FYM in TLA+

FYM (Find Your Mesh) is a terminal messenger in Python: peers find each other
in a Kademlia DHT or through contacts, talk over TCP or through a relay, and
seal their packets with a double ratchet. This directory holds TLA+ models of
its concurrent and stateful parts, TLC configurations for small instances, and
proofs for TLAPS. `PROJECT.json` names, for each definition, the source lines
that it models. Paths are relative to the root of the repository; `M!P` is the
property `P` of module `M`.

    cd tla
    tlc -workers 2 -config RatchetSession.cfg RatchetSession
    tlapm RatchetSession_proofs.tla

## The system

| Component | State | Operations | Interacts with |
|---|---|---|---|
| Double ratchet, `src/double_ratchet.py` | root key, both chain keys and counters, skipped message keys, key pair, `_pending_ratchet` | `encrypt`, `decrypt`, `clear` | called by `Session` for every packet |
| Direct sessions, `Session` and `P2PNode` in `src/network.py` | `sessions`, `pending_sessions`, `_pending_connections`, one `_receive_loop` task per session, `inbox` | `connect`, `_accept`, the handshake, `accept_connection`, `decline_connection`, `connect_*` and `peer_list` messages, the end of a loop, `stop` | TCP; the terminal interface; contacts and routes |
| Relay server, `src/relay.py` | `clients`, `offline_queue`, one `_handle` task per connection | `register`, `relay`, flushing, buffering, the end of a handler | `RelayClient` over TCP |
| Relay client, `src/relay_client.py` and `src/network.py:666-721` | `_streams`, `_pending_relay`, one read loop | `open_stream`, `_feed_stream`, `_relay_connect`, `_relay_handshake_respond` | relay server; sessions in the same tables |
| Rooms, `src/network.py:467-520, 604-664` | `rooms` (id to name and members) | `create_room`, `room_add`, `invite_to_room`, `send_room_message`, `room_leave`, lists of members that travel with messages | one packet per member over sessions |
| Contacts and routes, `src/network.py:47-112` | two dictionaries, `contacts.json`, `routes.json`; ids that are prefixes until promoted | `add`, `remove`, `promote`, `add_route`, `get_address`, `_save_all` | written by sessions and commands, read by resolution |
| Peer resolution, `src/network.py:406-428, 553-602, 723-820`, `src/dht.py` | none of its own; commands that wait for a lookup or a dial | `resolve_peer`, `_connect_by_id`, `_ensure_session`, `send_message` | DHT (the kademlia library), contacts and routes, sessions, the relay |
| Terminal interface, `src/cli.py` | the chat it is in, events held back until `/back` | `process_inbox`, the commands | drains `P2PNode.inbox`, calls `P2PNode` |
| Life cycle, `src/main.py` | the node, the temporary directory | start, stop, signals | everything above |
| Identity and primitives, `src/crypto.py` | key pairs | packing and checking handshakes | handshakes |
| NAT, launcher, banner: `src/nat.py`, `src/run.py`, `src/logo.py` | none of their own | UPnP calls, virtual environment, printing | operating system |

A node is one asyncio thread. Everything between two awaits that can suspend is
atomic, so the interleavings that matter are those at the awaits: the handshake
(a 10 s timeout), `drain` on a full socket, `read`, and `inbox.put`, which never
suspends because the queue is unbounded.

### Hard behaviour, and what makes each part correct

* **Double ratchet.** Packets are lost, repeated and reordered (by the relay and
  its retries). Correct: every genuine packet within the window opens, none
  opens twice, no two packets share a key, the chains and the skipped keys no longer
  yield keys that were used, the store of skipped keys is exactly what is still missing.
* **Direct sessions.** Dials cross or repeat, users answer while requests are
  replaced, peers crash between two messages, every loop that ends writes both
  tables, and so do sessions over the relay. Correct: a peer with a direct session is
  not pending as well, what the user can answer is alive, what the user sees is listed,
  both ends agree, nobody is connected against a decision, lost peers are noticed, dials
  end, a useless return address is replaced.
* **Relay server.** Handlers suspend in the middle of a flush and between a write
  and the test whether it succeeded; a peer reconnects before its old handler
  ends. Correct: the newest connection is the registered one, each message is
  held exactly once unless a connection was lost, the queue only loses its
  oldest message, and messages for registered peers arrive.
* **Relay client.** Streams replace each other, dials cross, answers come after
  the timeout, the link ends while sessions are listed. Correct: a listed session
  has a loop that reads and a ratchet, a handshake that waits is fed, dials end, a first contact succeeds.
* **Rooms.** Lists of members travel with every message, and a message is sent
  member by member while commands, handlers and failures interleave. Correct: whoever
  read a message can answer all who got it, nobody is in a room uninvited, and each
  member is sent a packet once or is reported as failed, whatever happens to the others.
* **Contacts.** Short ids are promoted to full ids from five places, and both files
  are rewritten one after the other by writes whose failure is swallowed. Correct:
  only the user takes a contact away, and a nickname stays with its peer.
* **Resolution.** Names and addresses are looked up, then a dial suspends, and both
  may mean something else by the time it ends. Correct: a message goes to a peer that
  the user meant, or to the one that took over the address which was dialled for it.
* **Terminal interface.** Events arrive while a chat hides them, by a task that sleeps
  while something is held back. Correct: nothing is forgotten or shown twice, nothing is
  overtaken by more than one, and what is held back is shown when the user is back.

## Modules

| Module | Models | Read with |
|---|---|---|
| `DoubleRatchet` | `DoubleRatchet` as operators on a record, one for `encrypt`, one for `decrypt` that succeeds, one for `clear` | `src/double_ratchet.py` |
| `AtMostOnceChannel` | abstract specification: what a session promises its user | |
| `RatchetSession` | two ends of a session over a network that loses, repeats and reorders; implements `AtMostOnceChannel` | `Session.send`, `Session.close`, `_receive_loop` |
| `RatchetSession_proofs` | theorems about `RatchetSession` | |
| `Sessions` | direct connections: one action per handler, per outcome | `src/network.py` |
| `SessionsClaims` | what the documentation says of them and the code does not do | |
| `RelayServer` | the relay | `src/relay.py` |
| `RelayLink` | sessions over the relay, at the nodes | `src/relay_client.py`, `src/network.py:666-721` |
| `RelayLinkClaims` | `RelayLink` with a history of dials, and what the documentation says of them | |
| `Rooms` | one room: invitations, messages and leaves, sent member by member | `src/network.py:467-520, 604-664, 822-885`, `src/cli.py:318-334` |
| `Addresses` | contacts and routes with their files, and the commands that find a peer with them | `src/network.py:48-112, 352-428, 546-602, 723-820` |
| `ChatInbox` | the inbox and the chat mode of the terminal | `src/cli.py:34-42, 75-202, 384-433` |
| `Sessions_proofs`, `RelayServer_proofs`, `RelayLink_proofs`, `Rooms_proofs`, `Addresses_proofs`, `ChatInbox_proofs` | theorems about the modules they are named for | |
| `SequenceFacts` | lemmas about the elements of a sequence, for `RelayServer_proofs` and `Rooms_proofs` | |
| `MCSessions`, `MCRelayServer`, `MCRooms`, `MCAddresses` | symmetry sets and values of constants for TLC | |

### How state and actions correspond to the code

**Double ratchet.** Keys are symbolic. A message key is named by its chain and its
position, a chain by the root it comes from and the half of the derived block, so
`OnHand` says which keys a state has in its skipped keys or ahead on its two chains, and
`CanDerive` which ones it yields at all: the constructor's derivation can be repeated
from `_root_key`, or from the secret of `_dh_pair` and `_remote_key`.
`Opens` is the result of `decrypt`: it is false where the code raises. The chains
and counters are `_send_ck`, `_recv_ck`, `_send_n`, `_recv_n`; `skipped` is
`_skipped`; a packet carries what its header carries. `RatchetSession` keeps every
packet that was ever sent in `wire`, never removes one, and lets the receiver
process any of them at any time: loss, repetition and reordering in one.

**Sessions.** A connection `c` has two ends `ep[c][n]`: none, in the handshake,
open, closed, or leaked (`connect` gives up in its handshake without closing the
writer). `chan[c][n]` is what end `n` has still to read, in order. `active` and
`pending` are `sessions` and `pending_sessions`; `dialing` is
`_pending_connections`, with addresses as they were typed: an address is a node and a
spelling, `Dial` enters what was typed and `DialEnded` discards the spelling into which
`connect` rewrites it (`Canonical`); `route` is the kind of address in `contacts.routes`: the
source port of a dialler, or where it listens. `shown` is the last event about a
peer in the inbox. `acceptedBy`, `declinedBy` and `wasActive` are history and
guard nothing. `connect` is one step up to the handshake (`Dial`) and one from
its end, split by outcome: `Request`, `AlreadyActive`, `RequestFails`,
`InitiateFails`. `LoopExit` is the whole tail of `_receive_loop`, which closes
the session and pops both tables by peer id. `Collect` is the interpreter that closes a
leaked writer, at any time or never. An end that closes with unread data
resets the connection, as TCP does. Sessions over the relay are in the same table
(`RelayOut`, `RelayIn`) with a count of their loops (`relayed`): `RelayConnected` and
`RelayAnswered` enter them and leave `pending` alone, as the code does, `RelayLoopExit` drops
both entries; what goes on between them is the subject of `RelayLink`.

**RelayServer.** A handler is a small state machine `task[c]`: reading, flushing,
sending, done. `Flush` writes one buffered line and suspends; `HandleRelay` writes
and suspends; `SendDone` and `SendRaises` are what the drain returns. A link goes
from up to cut (the client is gone, writes are swallowed) to lost (the transport
knows, drains raise). How long a drain lasts is left open, so any order of the
handlers is possible.

**RelayLink.** A stream is named by the ephemeral key of its handshake. The ratchet
is reduced to the two keys and the role, which decide whether packets open. The
relay is an ordered channel that loses what was written to a link that ended. A loop that
reads a message and cannot write its delivery note raises and ends (`NoteRaises`).

**Rooms.** A room is its set of members at each node, empty where the room does not
exist. A command appends a task that keeps what it has still to do (`todo`); `Reached`,
`Unreachable` and `SentAndRaised` are the outcomes of the next send, with an await
before each. An invited peer is added only after the invitation was sent, as in
`_invite_and_add`. A send that raised puts the member into `failures` of its task, which is
what the user is told; what went down with a session or a process after it was sent is in
`lost`, of which nobody is told. `heard`, `lost`, `joined` and `left` are history.

**Addresses.** `contacts`, `routes` and `file` map ids, full or short, to what is in
memory and what the files would be read as. `Save` is synchronous, so it is part of
each action that calls it; each of its writes may fail and leave the old file or one
that reads as empty. `Resolutions(k)` is the result of `resolve_peer` with the entry it
promotes: a set, since the first match depends on the order of a dictionary. A task is a
`/msg` or `/connect` that waits: for the DHT, for a dial and its handshake (`Answer`: who
owns the address *now*), or for the request to be sent (`Requested`); `at` is the address
that was dialled for its message. The sessions are
those of `Sessions` and `RelayLink`, reduced to who is in which table. `Restart` is a crash,
or the last step of `stop`, which clears the memory and saves nothing, followed by a
start; what `stop` does before is sessions that end while commands go on, and these are
actions already. `had`, `saved`, `sent` and `spoiled` are history.

**ChatInbox.** An event is its number; `posted` says what it is. `process_inbox` suspends
in `get()` on an empty queue only, so one `ProcessInbox` empties the queue; outside the
chat mode the event that `get()` returned comes first, then `pending`, then the rest.
`Line` says when the user can type: after `/back` the inbox task runs before the next
prompt is answered, as the prompt suspends and the task is ready. A chat may be entered by
a name that is no full id (`target` is `None`): then it holds back all messages. `Only` is
the loop that sorts the events, as a recursive function: the provers know no definition of
`SelectSeq`.

### Bounds

| Constant | Values | Why enough |
|---|---|---|
| `MaxSkip`, `MaxSent` | 2, 4 | packets in order, late within the window, at its edge, beyond it, and repeated; the theorems hold for all values |
| `Conn` of `Sessions` | 2 (1 in `sessions_live` and `claim_accept`) | a crossing, a repeated and a replaced request each need two connections between the same nodes; with liveness, exits and the relay, two are beyond TLC |
| `MaxExits` of `Sessions` | 1 (0 in the violated claims) | an exit at every point of the protocol, with a restart |
| `MaxRelayed` of `Sessions` | 1 in `sessions_live`, else 0 | loops over the relay, per node and peer: one at each node comes and goes beside everything that a direct connection does |
| `Spelling` of `Sessions` | 2 in `sessions_live`, else 1 | an address as `connect` writes it and one that it rewrites |
| `Conn` of `RelayServer` | 3 (2 for liveness) | a sender, the old connection of the target, and the one that replaces it |
| `MaxQueue`, `MaxRelay` | 2, 3 | a queue that overflows by one, while a flush or a failed send is under way |
| `Stream` | 3 (4 in `claim_relay_dial`) | two crossing dials take two streams, a handshake that times out or a session that is replaced a third |
| `MaxUnread` | 2 | messages and delivery notes cross; bounds how far users run ahead of the network |
| `MaxTasks`, `MaxLosses` of `Rooms` | 4, 1 | two invitations, a message and a leave in any order among three nodes, with one session or process that ends anywhere |
| `Peer`, `Short`, `Addr` of `Addresses` | 2, 1, 2 | a peer known by a short id and one that is not; an address that changes its owner, and one where nobody listens: a message that is dialled at an address its peer never had is told from one whose address was taken over |
| `Task`, `MaxEvents` of `Addresses` | 2, 2 | two commands that run at once, one after the other (save, then find), or one command and a write that fails; everything that peers and the network do is unbounded |
| `MaxEvents` of `ChatInbox` | 3 | one event that is held back and two that might overtake it; chats are unbounded |

An address in `Addresses` gets each owner once. In its run the short id fits one peer; no
two short ids fit the same peer (`AddressesAssumption`), so ids that are prefixes of each
other are left out.
Symmetry is used only in runs without liveness properties.

## Runs

| Run | Checks | Shows |
|---|---|---|
| `ratchet_session` | type, `GenuineOpens`, `NoReplay`, `KeysUsedOnce`, `KeysForgotten`, `KeysNeverRotate`, `SkippedAreMissing`, `ImplementsChannel` | under loss, repetition and reordering the session is an at-most-once channel, its chains and skipped keys hold no used key, and no Diffie-Hellman round ever takes place |
| `sessions_exit` | type, `Exclusive`, `PendingIsOpen`, `ShownIsListed`, `DeclineIsFinal`, `EndsAgree` | crossing and repeated connections, user answers, an exit and a restart keep the tables and the decisions consistent |
| `sessions_live` | `Exclusive`, `GoneIsNoticed`, `RouteHeals`, `DialEnds` | what must eventually happen does, also when a process ends, and sessions over the relay in the same tables do not make direct ones pending |
| `claim_listed` | `ConnectedIsListed`, violated | a working session drops out of `/peers` |
| `claim_accept` | `AcceptedByAsked`, violated | a node lists a session that its user never accepted |
| `relay_server` | type, `NewestIsRegistered`, `ExactlyOnce`, `EvictedAreOld` | registrations that cross sends, flushes and failures lose and repeat nothing without cause |
| `relay_server_live` | `Arrives` | messages for registered peers arrive |
| `relay_link` | type, `ListedIsAlive`, `AwaitedIsFed`, `DialEnds`, `FirstContact` | the tables of streams and sessions hold together over crossing dials, timeouts and lost links; dials end, and the first one to a peer gives both nodes the same session |
| `claim_relay_dial` | `CalmDialAnswered`, violated | a stale stream makes a node unreachable for one peer |
| `addresses` | type, `Addressee`, `NamesHold`, `ContactsLast` | promotions, answers and failing writes in any order send no message astray, hand no nickname to another peer and lose no contact, except as the properties say |
| `chat_inbox` | type, `NothingForgotten`, `OvertakenByOne`, `HeldIsShown` | whatever chats the user enters and leaves, events are shown once and almost in order, and in the end |
| `rooms` | type, `NoStrangers`, `ReadersKnow`, `EveryMemberOnce` | lists of members agree as far as messages were read, and a fan-out forgets and repeats nobody |

Deadlock is not checked: connections, streams and exits are used up, users need
not act, and then the system stops.

### What the violated claims say

* `SessionsClaims!ConnectedIsListed`. After a second `connect` the peer closes the
  new connection, and the end of its receive loop pops the table by peer id, with
  it the session that still works (`src/network.py:458`).
* `SessionsClaims!AcceptedByAsked`. README.md:101 and the docstring of `accept_connection` say
  that `/accept` is for incoming requests. It also takes a request that this very node sent
  (`src/network.py:849`), and the node that was asked obeys the `connect_accept` without
  its own user (line 536).
* `RelayLinkClaims!CalmDialAnswered`. `_on_stream_close` is called by nothing
  (`src/relay_client.py:144`), so the stream of a handshake or a session that is over
  stays in the table, and the next handshake of that peer is fed to it.

### What else the models show against the documentation

Of the double ratchet. README.md:11 says that keys rotate through X25519 rounds. `encrypt`
makes a new key pair only when `_pending_ratchet` is set (`src/double_ratchet.py:138`), that is
set only when a packet brings a new public key (line 122), and no first one ever does:
`KeysNeverRotate`, proved as `NeverRotates`. So nothing recovers from a break-in. Nor is there
forward secrecy within a session (README.md:33): the root key of the handshake stays in
`_root_key` (line 79), and line 86 derives both first chains from it, so that a state that
leaks while the session is open yields the key of every packet, sent and to be sent:
`RootYieldsAll`. Only `clear` at the end of the session changes that; `KeysForgotten` is
what does hold of the chains and the skipped keys.

Of direct sessions. `connect` enters the address as it was typed (`src/network.py:356`),
rewrites it (369-371) and discards what it made of it (404): typed as 0.0.0.0:port, or with
a leading zero in its port, it stays in `_pending_connections`, and every further
`/connect` to it does nothing. `DialEnds` is therefore of the other spelling only. A
session over the relay is entered beside a request that is pending (681, 716), so that a
peer can be in both tables, and the end of its loop drops the request as well; `Exclusive`
is therefore of direct sessions.

Of sessions over the relay. Two peers that dial each other at once each take the
other's handshake for the reply: both become initiators, and their packets do not
open (`src/relay_client.py:127`); `FirstContact` therefore excludes a peer that dials
as well.

Of rooms. A message that is fanned out while a member leaves brings that member back
(`src/network.py:481`), and an invitation names its sender only, so that a member who
was invited and read nothing yet sends to the inviter alone (`src/network.py:504`);
`ReadersKnow` therefore starts with the first message and excepts who left. README.md:228
says that the remaining members are notified of a leave; `room_leave` swallows every failure
to do so (`src/network.py:836-842`), so `EveryMemberOnce` asks for a report of messages and
invitations only.

Of the address book. `_ensure_session` returns whoever answered (`src/network.py:564`), so a
`/msg` for a peer whose address now belongs to another peer with a session goes to that
other peer, and the user is told that it was sent. `Addressee` says that this is the only
way in which a message goes astray: at the address that was dialled for this very message,
which a peer that was meant has or had and the receiver took over. A session, an entry of
the book, a promotion or an answer to another dial never leads there. `promote` overwrites what the full id had
(line 90), so an older nickname can win. A write that fails or is cut short leaves a
file that `_load_json` takes for an empty one (line 64): all contacts are gone at the next
start; `ContactsLast` excepts files whose last write failed.

Of the chat mode. README.md:133 counts "room join/leave notifications" among what is
shown and line 135 says that others are "suppressed until you type `/back`". The code
shows a leave of the room of the chat only, and drops invitations and delivery
receipts for good (`src/cli.py:128`), while `error` and `info` are shown; `NothingForgotten` excepts
the two that are dropped. A chat entered by the nickname of a contact with a short id,
before its session exists, keeps the short id as its target: what the user types is
delivered, what the peer answers is held back until `/back` (`src/cli.py:92`). And the
event that wakes the terminal at the moment of `/back` is shown before all older ones.

### Fairness

Weak fairness on the tasks of a node, of a stream and of a relay handler, and on
reading by clients: an event loop resumes every task that stays ready, and the
timeouts of handshakes fire. A task may choose failure or timeout instead of
success, so nothing relies on the network. Users, exits, dials, starts, the relay
beside a direct session and the collection of leaked writers are never fair. No strong fairness is used. In `ChatInbox` only the inbox task is fair, and
`HeldIsShown` has the premise that the user is outside the chats again and again.

## Proofs

Every invariant that a passing run checks is proved, and so are the refinement of
`AtMostOnceChannel` and the action property `ContactsLast` (`Addressee` and `ContactsLast`
under a hypothesis, see `Addresses_proofs`): the runs show them on a small
instance, the theorems for every value of the constants that the `ASSUME` of each module
allows. These assumptions say that "nothing" is none of the nodes, connections or
addresses, that peers are neither rooms nor short ids, that the two ends of a ratchet
differ and one of them is the initiator, that short ids do not overlap, and that bounds
are natural numbers. The sets of nodes, peers, connections, streams and tasks may be
infinite; no theorem needs fairness.

None of these properties is inductive alone. Each module `M_proofs` defines an
inductive invariant `IInv`, proves `Init => IInv` and `IInv /\ [Next]_vars => IInv'` with
a lemma per action, and under it a step per part that the action can disturb; the theorem
`Invariance` is `Spec => []IInv`, and the others follow from it.

**`RatchetSession_proofs`**: `TypeCorrect`, `GenuineOpensHolds`, `NoReplayHolds`,
`KeysUsedOnceHolds`, `KeysForgottenHolds`, `SkippedAreMissingHolds`, for every window `MaxSkip`
and every number of packets `MaxSent`; `Implementation`: `Spec` implements
`AtMostOnceChannel` with `accepted` as it is; `NeverRotates`: `KeysNeverRotate` holds, no end
ever replaces its key pair; `RootYieldsAll`: the state of a live end yields the key of every
packet, the reason why `KeysForgotten` leaves the root key aside. `NoReplay` needs to know that an
accepted number is below the receive counter and not among the skipped keys; that needs
the skipped keys to be *exactly* the numbers below the counter that were not accepted;
`GenuineOpens` needs, besides, that the keys under which they are stored are those the
sender sealed with, hence that the two chains are the same up to their positions. `IInv`
is the conjunction of these.

**`Sessions_proofs`**: `AnswersAreExclusive`, `PendingAnswerable`, `ShownTruthfully`,
`DeclinedForGood`, `BothEndsAgree`, `TypesCorrect`, for any number of exits, of spellings and of
sessions over the relay that come and go in the same table; `AnswersAreExclusive` is of
direct sessions, as `Exclusive` is. They hold because of how a connection comes to be. Connections that nobody dialled have no ends (`Fresh`), the
others have two at most (`Ends`). A dialler sends nothing before its handshake is over
(`Unsent`), so its request is the first message that the callee reads, and until then the
callee has the connection in no table (`RequestFirst`); nothing reaches the dialler before
the callee's handshake is over (`Unanswered`). Hence a pending session was never active
(`Undecided`) and a declined one never is (`Declined`), and an acceptance comes from an end
that lists the connection (`AcceptSent`).

**`RelayServer_proofs`**: `ReconnectedStayRegistered`, `NothingLostOrRepeated`,
`OnlyOldEvicted`, `TypesCorrect`. A connection registers once, with its first line
(`RegisterFirst`), so the entry that its handler removes at the end can only be its own
(`Registered`). A message enters the relay once (`Unread`, `TakenOnce`, `Kept`), and is from
then on in one queue, in the job of one handler or in one connection, or, while it is
sent, in the job and the connection of its target (`Own`). A send that fails puts a message back whose connection is lost, and a lost connection carries
nothing (`OneUp`), so there is never a second copy, and a full queue holds `MaxQueue`
different messages for one peer (`Destined`). `Once` says where a message is as long as
no connection of its peer goes away.

**`RelayLink_proofs`**: `ListedStayAlive`, `DialsAreFed`, `TypesCorrect`. A stream has a task
from the moment that it has a node and a peer (`Opened`), and the tables name only streams
of their own node and peer (`Tables`). So a loop that ends drops the session on its own
stream or one on a newer stream, and a listed session has its loop and its ratchet
(`Alive`). A stream is replaced in the table by a dial, which waits until the peer is not
being dialled, or by a chunk for which there is no stream: never while its handshake
waits.

**`Rooms_proofs`**: `OnlyInvited`, `ReadersCanAnswer`, `NobodyForgotten`, `TypesCorrect`. A packet
is still to be sent, under way or handled, and in one of these only (`Addressed`,
`UnderWay`), and a message or an invitation leaves them only when its send raised, and then the
user is told, or with a session or a process that ends (`Accounted`). Members in lists and
in messages joined (`Joined`). A list loses only members whose notice of leave was
handled, and that comes from a node that left (`Leavers`), so a reader keeps whom it read
about (`Know`).

**`Addresses_proofs`**: `NamesStay`, `MessagesGoWhereMeant`, `NobodyDropped`, `TypesCorrect`.
The files are part of the invariant, since a crash puts them in place of the memory
(`Mirrored`: a file whose last write did not fail is the memory). Every change of the book
is one of four, an entry added, removed, promoted, or promoted and routed, and the lemmas
say what each does to the names (`Names`) and to the addresses, which every peer that fits
the id told at some time (`BookJustified`). A command that dials an address of the book then
dials one of a peer that was meant (`Dialled`), and whoever answers there owns it, so it was
one of the receiver too (`TookOver`); all other messages are given to the peer that was
resolved. `MessagesGoWhereMeant` and `NobodyDropped` assume `Distinct`: a short id fits one
peer only. Without it both fail in the code as well: the entry of an id that fits two
peers goes to the first that shows up. `NamesStay` needs no such hypothesis.

**`ChatInbox_proofs`**: `EveryEventOnce`, `OneOvertakes`, `TypesCorrect`. Everything follows
from the order of the numbers: what is held back rises, and what is in the inbox is
beyond all that is held back or shown (`Order`), and in one of these places only (`Apart`,
`Complete`). `/chat` drops nothing, because outside the chat mode what is held back has the
`Noop` of `/back` behind it (`Woken`), and as long as that is in the inbox there is no line to
type in. In the chat mode nothing of the chat itself is held back (`Elsewhere`) and what is
held back was not overtaken (`NoneAhead`); the event that `get()` returned first is then the
only one that comes too early. What `Only` computes for a sequence of any length is proved
by looking for the least place where the claim fails (`Least`), as the induction theorems
of the library take an operator that the provers cannot instantiate.

Checked by TLC only: the liveness properties `GoneIsNoticed`, `RouteHeals`, `DialEnds` of
`Sessions` and of `RelayLink`, `FirstContact`, `Arrives` and `HeldIsShown`, because fairness and
`ENABLED` are beyond the prover; those of `Sessions` with a single connection. The
three violated claims are TLC's counterexamples.

## Not modelled, and why

* Cryptography: keys are symbolic, signatures valid; 32-bit message numbers do not
  wrap within any reachable run.
* Framing: `Session` reads whole packets; the relay passes whole lines. Malformed
  lines and unregistered senders never come from `relay_client.py`.
* `RelayStreamWriter.drain`, which clears its buffer only after the await: planned.
* NAT, launcher, banner, and the formatting of the terminal interface: no state of
  their own.
* Names of rooms; more than one room: rooms share nothing but the sessions.
* The DHT itself (the kademlia library): a lookup returns an address that the peer has
  or had, or nothing. Addresses that a peer invents about another are left out.
* Commands of the terminal that only print (`/help`, `/contacts`, `/peers`, `/rooms`), and the
  memory-only mode of `Contacts`, which writes nothing.
* Crashes inside a write of `identity.key` (`src/crypto.py`, `src/main.py`), and the order of a
  shutdown beyond what `Restart`, `Exit` and `Start` say.

## Plan

1. `RelayWriter`: `write` and `drain` of two tasks, against a specification that sends
   every chunk once.
2. The order of a shutdown, with tasks that are still running.
3. An abstract specification of the relay, a set of messages that each peer gets at most
   once, and the step simulation from `RelayServer_proofs!IInv`.

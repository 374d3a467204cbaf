------------------------------- MODULE Addresses -------------------------------
(***************************************************************************)
(* The address book of one node and what it is used for (network.py):      *)
(* contacts and routes in memory and in their two files, short ids that    *)
(* are replaced by full ids when their peer shows up, and the commands     *)
(* that find a peer by id, short id or nickname to talk to it.             *)
(*                                                                         *)
(* A command suspends at each lookup in the DHT, each dial and each        *)
(* handshake, so the sessions, the book and the owners of the addresses    *)
(* change between its steps.  Saving does not suspend; each of its writes  *)
(* may fail, which the code ignores, and leave the file as it was or       *)
(* unreadable.  The process may end at any point and start again.          *)
(*                                                                         *)
(* Addresses are typed, published and passed on by honest users and peers: *)
(* who is told where p is hears of an address that p has or had, or of one *)
(* where nobody listens (a source port, or relay:<id>).                    *)
(***************************************************************************)
EXTENDS Integers, FiniteSets

CONSTANTS Peer,         \* the other peers, by their full ids
          Short,        \* short ids, of which each peer has one at most
          Matches,      \* Matches[s]: the peers whose ids start with s
          Nick,         \* nicknames
          Addr,         \* addresses host:port
          Nowhere,      \* an address where nobody ever listens
          None,         \* no entry, no address, no peer
          Home,         \* Home[a]: who listens at a at first
          Task,         \* places for commands that are under way
          MaxEvents     \* bound of the model: commands and writes that fail

Id      == Peer \cup Short
Contact == [nick : Nick, addr : Addr \cup {None}]

ASSUME AddressesAssumption ==
  /\ Peer \cap Short = {} /\ None \notin Addr \cup Contact
  /\ Matches \in [Short -> SUBSET Peer]
  /\ \A s, t \in Short : s # t => Matches[s] \cap Matches[t] = {}
  /\ Home \in [Addr -> Peer \cup {None}] /\ Nowhere \in Addr /\ Home[Nowhere] = None
  /\ MaxEvents \in Nat

VARIABLES
  contacts,             \* contacts[i]: nickname and address under id i
  routes,               \* routes[i]: address under id i
  file,                 \* what the two files would be read as
  sessions,             \* peers with a session
  pending,              \* peers in pending_sessions
  tasks,                \* commands that are under way
  owner,                \* owner[a]: who listens at a
  commands, faults,     \* how many there were so far
  had,                  \* had[p]: addresses that p has or had (history)
  saved,                \* nicknames and ids that the user saved (history)
  sent,                 \* whom the last step's message was meant for and given to
  spoiled               \* files whose last write failed (history)

book    == <<contacts, routes, file, spoiled, faults>>
peers   == <<sessions, pending>>
network == <<owner, had>>
vars    == <<book, peers, tasks, network, commands, saved, sent>>

Empty == [i \in Id |-> None]
File  == {"contacts", "routes"}

\* /msg tries the DHT, the relay and the book in this order, and looks up or
\* dials at each; via is the address, and then the peer that answered at it.
Idle == [kind |-> "none", meant |-> {}, target |-> None,
         means |-> "book", step |-> "lookup", via |-> None, at |-> None]

Init ==
  /\ contacts = Empty /\ routes = Empty /\ file = [f \in File |-> Empty]
  /\ sessions = {} /\ pending = {} /\ tasks = [t \in Task |-> Idle]
  /\ owner = Home /\ had = [p \in Peer |-> {a \in Addr : Home[a] = p}]
  /\ commands = 0 /\ faults = 0 /\ saved = {} /\ sent = {} /\ spoiled = {}

\* How many commands and writes that fail the bound still allows.
Left    == MaxEvents - commands - faults
Command == Left > 0 /\ commands' = commands + 1
Quiet   == sent' = {}
Told(p) == had[p] \cup {Nowhere}

\* i.startswith(k)
Fits(i, k) == i = k \/ (k \in Short /\ i \in Matches[k])

-----------------------------------------------------------------------------
(* The book: class Contacts *)

\* The files fs are written one after the other.
Save(fs) ==
  \E bad \in {b \in SUBSET fs : Cardinality(b) <= Left} : \E torn \in SUBSET bad :
    /\ faults' = faults + Cardinality(bad)
    /\ spoiled' = (spoiled \ fs) \cup bad
    /\ file' = [f \in File |->
         IF f \in torn THEN Empty
         ELSE IF f \notin fs \ bad THEN file[f]
         ELSE IF f = "contacts" THEN contacts' ELSE routes']

\* The book changes to c and r, and the files fs are written.
Change(c, r, fs) == contacts' = c /\ routes' = r /\ Save(fs)

\* What is under i is under j now, in place of what was there.
Moved(f, i, j) ==
  IF i = j \/ f[i] = None THEN f ELSE [f EXCEPT ![j] = f[i], ![i] = None]

Touched(i, j) ==
  IF i # j /\ (contacts[i] # None \/ routes[i] # None) THEN File ELSE {}

Promote(i, j) == Change(Moved(contacts, i, j), Moved(routes, i, j), Touched(i, j))

\* add_route, after a promotion.
PromoteAndRoute(i, j, a) ==
  Change(Moved(contacts, i, j), [Moved(routes, i, j) EXCEPT ![j] = a],
         Touched(i, j) \cup {"routes"})

AddressOf(i) ==
  IF routes[i] # None \/ contacts[i] = None THEN routes[i] ELSE contacts[i].addr

Entries  == {i \in Id : contacts[i] # None}
Named(k) == {i \in Entries : contacts[i].nick = k}

\* The first of the ids is promoted to p, if there is one.
PromoteAny(ids, p) ==
  IF ids = {} THEN UNCHANGED book ELSE \E i \in ids : Promote(i, p)

\* _promote_contact
ShortOf(p)        == {s \in Short \cap Entries : Fits(p, s)}
PromoteContact(p) == PromoteAny(ShortOf(p), p)

-----------------------------------------------------------------------------
(* resolve_peer: the id for a key, and the entry that is promoted to it *)

As(i)      == [id |-> i, from |-> i]
In(ids, k) == {i \in ids : Fits(i, k)}

\* Mutant: _expand_id returns any peer with a session.
ExpandedAny(i) ==
  IF sessions = {} THEN {As(i)} ELSE {[id |-> p, from |-> i] : p \in sessions}

\* _expand_id, and the promotion that follows it.
Expanded(i) ==
  IF In(sessions, i) = {} THEN {As(i)}
  ELSE {[id |-> p, from |-> i] : p \in In(sessions, i)}

Resolutions(k) ==
  IF k \in sessions \cup pending THEN {As(k)}
  ELSE IF k \in Entries THEN Expanded(k)
  ELSE IF Named(k) # {} THEN UNION {Expanded(i) : i \in Named(k)}
  ELSE IF k \in Peer /\ ShortOf(k) # {} THEN {[id |-> k, from |-> s] : s \in ShortOf(k)}
  ELSE IF In(sessions, k) # {} THEN {As(p) : p \in In(sessions, k)}
  ELSE IF In(pending, k) # {} THEN {As(p) : p \in In(pending, k)}
  ELSE IF Cardinality(In(Entries, k)) = 1 THEN {As(i) : i \in In(Entries, k)}
  ELSE {As(k)}

-----------------------------------------------------------------------------
(* Commands that change the book *)

\* Mutant: add saves the routes only.
AddContactUnsaved(i, n, a) ==
  /\ Command
  /\ \E r \in Expanded(i) :
       Change([contacts EXCEPT ![r.id] = [nick |-> n, addr |-> a]],
              IF a = None THEN routes ELSE [routes EXCEPT ![r.id] = a], {"routes"})
  /\ saved' = saved \cup {<<n, i>>}
  /\ UNCHANGED <<peers, tasks, network>> /\ Quiet

\* /add: a short id of a peer with a session is expanded.
AddContact(i, n, a) ==
  /\ Command
  /\ \E r \in Expanded(i) :
       Change([contacts EXCEPT ![r.id] = [nick |-> n, addr |-> a]],
              IF a = None THEN routes ELSE [routes EXCEPT ![r.id] = a], File)
  /\ saved' = saved \cup {<<n, i>>}
  /\ UNCHANGED <<peers, tasks, network>> /\ Quiet

\* /remove: the entry under the key, or one that the key is a name of.
Removable(k) ==
  IF k \in Entries THEN {k}
  ELSE Named(k) \cup {i \in Entries : Fits(k, i) \/ Fits(i, k)}

RemoveContact(k) ==
  /\ Command
  /\ \E i \in Removable(k) :
       Change([contacts EXCEPT ![i] = None], [routes EXCEPT ![i] = None], File)
  /\ UNCHANGED <<peers, tasks, network, saved>> /\ Quiet

-----------------------------------------------------------------------------
(* Commands that look for a peer *)

\* connect returns at once when the address is being dialled already; in the code
\* that holds until the request is sent, here until the handshake is done.
MayDial(t, a) == \A u \in Task \ {t} : tasks[u].step = "dial" => tasks[u].via # a

Now(t, means, step, via) ==
  tasks' = [tasks EXCEPT ![t].means = means, ![t].step = step, ![t].via = via,
                         ![t].at = None]
Request(t, p) ==
  tasks' = [tasks EXCEPT ![t].step = "request", ![t].via = p, ![t].at = tasks[t].via]
Over(t) == tasks' = [tasks EXCEPT ![t] = Idle]

\* Whom the user means by k, going by what was saved.
Meant(k) ==
  {p \in Peer : \E i \in {k} \cup {x[2] : x \in {y \in saved : y[1] = k}} : Fits(p, i)}

\* send_message: session.send, if the peer that was found has a session; at is the
\* address that was dialled to find it.
Deliver(meant, p, at) ==
  sent' = IF p \in sessions THEN {[meant |-> meant, to |-> p, at |-> at]} ELSE {}

\* /msg: send_message up to the first await.
Message(t, k) ==
  /\ tasks[t] = Idle /\ Command
  /\ \E r \in Resolutions(k) :
       /\ r.id \in Id
       /\ Promote(r.from, r.id)
       /\ Deliver(Meant(k), r.id, None)
       /\ tasks' = IF r.id \in sessions THEN tasks
            ELSE [tasks EXCEPT ![t] = [kind |-> "msg", meant |-> Meant(k), target |-> r.id,
                                       means |-> "dht", step |-> "lookup",
                                       via |-> None, at |-> None]]
  /\ UNCHANGED <<peers, network, saved>>

\* Mutant: an entry without an address ends the search.
KnownOrNone(i) ==
  IF AddressOf(i) # None THEN {AddressOf(i)}
  ELSE {AddressOf(j) : j \in {x \in Id : Fits(x, i) \/ Fits(i, x)}}

\* _connect_by_id: the address under the id, or under one that is like it.
Known(i) ==
  IF AddressOf(i) # None THEN {AddressOf(i)}
  ELSE {AddressOf(j) : j \in {x \in Id : Fits(x, i) \/ Fits(i, x)}} \ {None}

\* /connect with an id or a nickname.
Connect(t, k) ==
  /\ tasks[t] = Idle /\ Command
  /\ \E r \in Resolutions(k) :
       /\ r.id \in Id \ sessions
       /\ Promote(r.from, r.id)
       /\ LET task == [Idle EXCEPT !.kind = "connect", !.target = r.id] IN
          \/ Known(r.id) = {} /\ tasks' = [tasks EXCEPT ![t] = task]
          \/ \E a \in Known(r.id) : MayDial(t, a) /\
               tasks' = [tasks EXCEPT ![t] = [task EXCEPT !.step = "dial", !.via = a]]
  /\ UNCHANGED <<peers, network, saved>> /\ Quiet

\* /connect with an address.
ConnectTo(t, a) ==
  /\ tasks[t] = Idle /\ MayDial(t, a) /\ Command
  /\ tasks' = [tasks EXCEPT ![t] = [Idle EXCEPT !.kind = "connect", !.step = "dial", !.via = a]]
  /\ UNCHANGED <<book, peers, network, saved>> /\ Quiet

\* _ensure_session: the addresses for its last means, and what it does when the
\* means before, or a dial of connect, were no help.
LastResort(t) ==
  LET k == tasks[t] IN
  IF k.means = "book" \/ k.target \in sessions THEN {}
  ELSE {a \in {AddressOf(k.target)} \ {None} : MayDial(t, a)}

NextMeans(t) ==
  LET k == tasks[t] IN
  \/ k.means = "dht" /\ k.target \notin sessions /\ Now(t, "relay", "dial", None)
  \/ \E a \in LastResort(t) : Now(t, "book", "dial", a)
  \/ LastResort(t) = {} /\ Over(t)

\* Mutant: the lookup finds the address of any peer.
LookupAnyone(t) ==
  LET k == tasks[t] IN
  /\ k # Idle /\ k.step = "lookup"
  /\ \/ /\ k.target \in Peer
        /\ \E a \in UNION {had[p] : p \in Peer} : MayDial(t, a) /\ Now(t, k.means, "dial", a)
     \/ NextMeans(t)
  /\ UNCHANGED <<book, peers, network, commands, saved>> /\ Quiet

\* dht.get: peers publish their address under their full id when they start.
Lookup(t) ==
  LET k == tasks[t] IN
  /\ k # Idle /\ k.step = "lookup"
  /\ \/ /\ k.target \in Peer
        /\ \E a \in had[k.target] : MayDial(t, a) /\ Now(t, k.means, "dial", a)
     \/ NextMeans(t)
  /\ UNCHANGED <<book, peers, network, commands, saved>> /\ Quiet

\* A dial or a handshake fails, or its time is over.
DialFails(t) ==
  /\ tasks[t].step \in {"dial", "request"}
  /\ NextMeans(t)
  /\ UNCHANGED <<book, peers, network, commands, saved>> /\ Quiet

\* Mutant: whoever answers gets the entry that was dialled.
AtEndAnyone(k, p) ==
  IF k.kind # "connect" \/ k.target = None THEN {}
  ELSE ({k.target} \ {p})
       \cup (IF p \in sessions \cup pending \cup Entries THEN {} ELSE ShortOf(p))

\* What connect promotes at its end, when it was called with an id.
AtEnd(k, p) ==
  IF k.kind # "connect" \/ k.target = None THEN {}
  ELSE {i \in {k.target} \ {p} : Fits(p, i)}
       \cup (IF p \in sessions \cup pending \cup Entries THEN {} ELSE ShortOf(p))

Returns(k, p, a) == IF k.kind = "msg" THEN Deliver(k.meant, p, a) ELSE Quiet

\* connect when the handshake is done: with a peer that has a session already
\* the new connection is closed, and the peer is returned.
Answer(t) ==
  LET k == tasks[t]  p == owner[k.via] IN
  /\ k.step = "dial" /\ k.via # None /\ p # None
  /\ \/ /\ p \in sessions
        /\ PromoteAny(ShortOf(p) \cup AtEnd(k, p), p)
        /\ Over(t) /\ Returns(k, p, k.via)
        /\ UNCHANGED pending
     \/ /\ p \notin sessions
        /\ PromoteContact(p)
        /\ pending' = pending \cup {p}
        /\ Request(t, p) /\ Quiet
  /\ UNCHANGED <<sessions, network, commands, saved>>

\* The request is sent and connect returns.
Requested(t) ==
  LET k == tasks[t] IN
  /\ k.step = "request"
  /\ PromoteAny(AtEnd(k, k.via), k.via)
  /\ Over(t) /\ Returns(k, k.via, k.at)
  /\ UNCHANGED <<peers, network, commands, saved>>

\* _relay_connect: only the peer with this full id answers.
RelayAnswers(t) ==
  LET k == tasks[t] IN
  /\ k.means = "relay" /\ k.target \in Peer
  /\ PromoteContact(k.target)
  /\ sessions' = sessions \cup {k.target}
  /\ sent' = {[meant |-> k.meant, to |-> k.target, at |-> None]}
  /\ Over(t)
  /\ UNCHANGED <<pending, network, commands, saved>>

-----------------------------------------------------------------------------
(* Peers and their sessions, see Sessions and RelayLink *)

\* _accept and the request that follows it, or a session over the relay.
Incoming(p) ==
  /\ PromoteContact(p)
  /\ \/ pending' = pending \cup ({p} \ sessions) /\ UNCHANGED sessions
     \/ sessions' = sessions \cup {p} /\ UNCHANGED pending
  /\ UNCHANGED <<tasks, network, commands, saved>> /\ Quiet

Activate(p) ==
  /\ p \in pending
  /\ pending' = pending \ {p}
  /\ sessions' = sessions \cup {p}

\* /accept or, with the full id, the connect_accept of the peer; the route is
\* where the peer was dialled, or its source port.
AcceptConnection(k) ==
  /\ \E r \in Resolutions(k) :
       /\ r.id \in Peer /\ Activate(r.id)
       /\ \E a \in Told(r.id) : PromoteAndRoute(r.from, r.id, a)
  /\ UNCHANGED <<tasks, network, commands, saved>> /\ Quiet

\* peer_list: the peers with a session say where they and others listen.
PeerList(p, a) ==
  /\ sessions # {} /\ a \in Told(p)
  /\ PromoteAndRoute(p, p, a)
  /\ UNCHANGED <<peers, tasks, network, commands, saved>> /\ Quiet

\* The end of a receive loop, or a request that is declined.
Disconnected(p) ==
  /\ p \in sessions \cup pending
  /\ sessions' = sessions \ {p} /\ pending' = pending \ {p}
  /\ UNCHANGED <<book, tasks, network, commands, saved>> /\ Quiet

\* p listens at a from now on, where it never did before.
Move(p, a) ==
  /\ a # Nowhere /\ a \notin had[p]
  /\ owner' = [owner EXCEPT ![a] = p]
  /\ had' = [had EXCEPT ![p] = @ \cup {a}]
  /\ UNCHANGED <<book, peers, tasks, commands, saved>> /\ Quiet

\* A crash, or the last step of stop, which clears the memory and saves nothing;
\* then a start, where Contacts.__init__ reads the files.
Restart ==
  /\ contacts' = file["contacts"] /\ routes' = file["routes"]
  /\ sessions' = {} /\ pending' = {} /\ tasks' = [t \in Task |-> Idle]
  /\ UNCHANGED <<file, spoiled, faults, network, commands, saved>> /\ Quiet

-----------------------------------------------------------------------------

Proceed(t) == Lookup(t) \/ DialFails(t) \/ Answer(t) \/ Requested(t) \/ RelayAnswers(t)

User ==
  \/ \E i \in Id, n \in Nick, a \in Addr \cup {None} :
       (\E p \in Peer : Fits(p, i) /\ a \in had[p] \cup {None}) /\ AddContact(i, n, a)
  \/ \E k \in Id \cup Nick : RemoveContact(k) \/ AcceptConnection(k)
  \/ \E t \in Task : \/ \E k \in Id \cup Nick : Message(t, k) \/ Connect(t, k)
                     \/ \E a \in Addr : ConnectTo(t, a)

Step ==
  \/ User \/ Restart
  \/ \E t \in Task : Proceed(t)
  \/ \E p \in Peer : Incoming(p) \/ Disconnected(p)
  \/ \E p \in Peer, a \in Addr : PeerList(p, a) \/ Move(p, a)

Next == Step /\ Left' >= 0

Spec == Init /\ [][Next]_vars

-----------------------------------------------------------------------------
(* Properties *)

\* The types of the state: what is dialled is an address, except at the relay.
TypeOK ==
  /\ contacts \in [Id -> Contact \cup {None}]
  /\ routes \in [Id -> Addr \cup {None}]
  /\ file["contacts"] \in [Id -> Contact \cup {None}]
  /\ file["routes"] \in [Id -> Addr \cup {None}]
  /\ sessions \subseteq Peer /\ pending \subseteq Peer
  /\ \A t \in Task :
       LET k == tasks[t] IN
       /\ k.target \in Id \cup {None}
       /\ k.step = "request" => k.via \in Peer
       /\ k.step = "dial" => IF k.means = "relay" THEN k.via = None ELSE k.via \in Addr
  /\ owner \in [Addr -> Peer \cup {None}] /\ owner[Nowhere] = None
  /\ spoiled \subseteq File /\ {commands, faults} \subseteq 0 .. MaxEvents

(***************************************************************************)
(* A message is given to a peer that the user meant by its id, short id or *)
(* nickname, or to the one that answered at the address which was dialled  *)
(* for this very message, and then this is an address that a meant peer    *)
(* has or had and that the other one took over: no mix-up of entries,      *)
(* promotions, answers and sessions sends it elsewhere.                    *)
(***************************************************************************)
Addressee ==
  \A m \in sent :
    \/ m.to \in m.meant
    \/ /\ m.at # None /\ m.at \in had[m.to]
       /\ \E p \in m.meant : m.at \in had[p]

(***************************************************************************)
(* A nickname stays with whom the user gave it to: an entry is under an id *)
(* that the user saved with this nickname or, once promoted, under a full  *)
(* id that starts with such an id.                                         *)
(***************************************************************************)
NamesHold ==
  \A i \in Entries : \E x \in saved : x[1] = contacts[i].nick /\ Fits(i, x[2])

HasContact(p) == \E i \in Entries : Fits(p, i)
HasAddress(p) == \E i \in Id : Fits(p, i) /\ AddressOf(i) # None

(***************************************************************************)
(* Only the user takes a contact out of the book, or all addresses of a    *)
(* peer: promotions, a stop with commands under way, a crash and the start *)
(* after it keep them, unless a write that failed spoiled the file.        *)
(***************************************************************************)
ContactsLast ==
  [][\A p \in Peer :
       \/ \E k \in Id \cup Nick : RemoveContact(k)
       \/ /\ HasContact(p) /\ "contacts" \notin spoiled => HasContact(p)'
          /\ HasAddress(p) /\ faults = 0 => HasAddress(p)']_vars
=============================================================================

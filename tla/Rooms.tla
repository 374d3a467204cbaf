-------------------------------- MODULE Rooms --------------------------------
(***************************************************************************)
(* One group chat room (network.py, cli.py): every node has its own list   *)
(* of the members.  An invitation, a message or the notice of a leave goes *)
(* to each member through the session with it, and every message carries   *)
(* the list of its sender, from which the receivers complete theirs.       *)
(*                                                                         *)
(* /room add, /msg and /leave run as tasks of their own.  A task suspends  *)
(* while it looks for a session with the next member, so the tasks of a    *)
(* node, its handlers and its user interleave between any two members.     *)
(*                                                                         *)
(* Sessions are those of Sessions and RelayLink: packets arrive in order,  *)
(* a peer can be unreachable at any time, and a session that ends takes    *)
(* along what was not read.  A room exists at a node as long as its list   *)
(* of members is not empty.                                                *)
(***************************************************************************)
EXTENDS Integers, Sequences, FiniteSets

CONSTANTS Node,         \* the peers
          MaxTasks,     \* bound of the model: commands in a behaviour
          MaxLosses     \* bound of the model: sessions and processes that end

ASSUME RoomsAssumption == MaxTasks \in Nat /\ MaxLosses \in Nat

VARIABLES
  rooms,                \* rooms[n]: the members of the room at n
  tasks,                \* the commands so far, see Task
  net,                  \* net[n][p]: packets of n that p did not read
  losses,               \* how many sessions and processes ended so far
  joined,               \* the creator and whom an invitation was sent (history)
  left                  \* who left, and which processes ended (history)

vars == <<rooms, tasks, net, losses, joined, left>>

Kind == {"room_invite", "message", "room_leave"}

(***************************************************************************)
(* A task sends one packet to each of its members: todo are those it did   *)
(* not come to, and failures those for whom sending raised, which the user *)
(* is told when the task is through.  For the history, heard are those who *)
(* handled their packet, and lost those whose packet went down with a      *)
(* session or a process; of these nobody is told.                          *)
(***************************************************************************)
Task == [kind : Kind, by : Node, members : SUBSET Node, todo : SUBSET Node,
         failures : SUBSET Node, heard : SUBSET Node, lost : SUBSET Node]

NewTask(kind, n, members, todo) ==
  [kind |-> kind, by |-> n, members |-> members, todo |-> todo,
   failures |-> {}, heard |-> {}, lost |-> {}]

Init ==
  /\ rooms = [n \in Node |-> {}]
  /\ tasks = <<>>
  /\ net = [n \in Node |-> [p \in Node |-> <<>>]]
  /\ losses = 0
  /\ joined = {}
  /\ left = {}

-----------------------------------------------------------------------------
(* Commands *)

\* create_room, once in a behaviour.
CreateRoom(n) ==
  /\ joined = {}
  /\ rooms' = [rooms EXCEPT ![n] = {n}]
  /\ joined' = {n}
  /\ UNCHANGED <<tasks, net, losses, left>>

Command(n) == rooms[n] # {} /\ Len(tasks) < MaxTasks

\* Mutant: the peer is added before the invitation is sent.
AddAndInvite(n, p) ==
  /\ Command(n) /\ p # n
  /\ tasks' = Append(tasks, NewTask("room_invite", n, {p}, {p}))
  /\ rooms' = [rooms EXCEPT ![n] = @ \cup {p}]
  /\ UNCHANGED <<net, losses, joined, left>>

\* /room add: the peer is invited, and then added, see Reached.
Invite(n, p) ==
  /\ Command(n) /\ p # n
  /\ tasks' = Append(tasks, NewTask("room_invite", n, {p}, {p}))
  /\ UNCHANGED <<rooms, net, losses, joined, left>>

\* Mutant: the own identity is not skipped.
AllOf(n, members) == members

\* To whom a packet for the members goes.
Others(n, members) == members \ {n}

\* send_room_message takes its list of members once.
SendRoomMessage(n) ==
  /\ Command(n)
  /\ tasks' = Append(tasks, NewTask("message", n, rooms[n], Others(n, rooms[n])))
  /\ UNCHANGED <<rooms, net, losses, joined, left>>

\* room_leave: the room stays, without this node, unless nobody else is left.
RoomLeave(n) ==
  /\ Command(n)
  /\ tasks' = Append(tasks, NewTask("room_leave", n, rooms[n], Others(n, rooms[n])))
  /\ rooms' = [rooms EXCEPT ![n] = @ \ {n}]
  /\ left' = left \cup {n}
  /\ UNCHANGED <<net, losses, joined>>

-----------------------------------------------------------------------------
(* Tasks *)

\* What a task that sends to p does once the packet is on its way: only an
\* invitation changes the room, if it is still there.
Reached(i, p) ==
  LET t == tasks[i] IN
  /\ p \in t.todo
  /\ tasks' = [tasks EXCEPT ![i].todo = @ \ {p}]
  /\ net' = [net EXCEPT ![t.by][p] = Append(@, i)]
  /\ IF t.kind = "room_invite"
     THEN /\ rooms' = [rooms EXCEPT ![t.by] = IF @ = {} THEN {} ELSE @ \cup {p}]
          /\ joined' = joined \cup {p}
     ELSE UNCHANGED <<rooms, joined>>
  /\ UNCHANGED <<losses, left>>

\* Mutant: the first failure ends the task.
GivesUp(t, p) == [t EXCEPT !.todo = {}, !.failures = @ \cup {p}]

\* A failure is kept for the report, unless the packet is the notice of a leave:
\* room_leave ignores it.  The next member is tried.
GoesOn(t, p) ==
  [t EXCEPT !.todo = @ \ {p},
            !.failures = IF t.kind = "room_leave" THEN @ ELSE @ \cup {p}]

\* There is no session with p and none can be made, or sending raises.
Unreachable(i, p) ==
  /\ p \in tasks[i].todo
  /\ tasks' = [tasks EXCEPT ![i] = GoesOn(@, p)]
  /\ UNCHANGED <<rooms, net, losses, joined, left>>

\* The packet was written when the session ended, and sending raises: p may
\* still read it.  An invited peer is not added then.
SentAndRaised(i, p) ==
  LET t == tasks[i] IN
  /\ p \in t.todo /\ losses < MaxLosses
  /\ losses' = losses + 1
  /\ tasks' = [tasks EXCEPT ![i] = GoesOn(@, p)]
  /\ net' = [net EXCEPT ![t.by][p] = Append(@, i)]
  /\ joined' = IF t.kind = "room_invite" THEN joined \cup {p} ELSE joined
  /\ UNCHANGED <<rooms, left>>

-----------------------------------------------------------------------------
(* Messages *)

\* Mutant: the list of the sender is ignored.
KnowsSender(n, t) == rooms[n] \cup {t.by, n}

\* The members at n after a message: its sender, n itself and the sender's list.
Knows(n, t) == rooms[n] \cup {t.by, n} \cup t.members

Members(n, t) ==
  CASE t.kind = "message"     -> Knows(n, t)
    [] t.kind = "room_invite" -> rooms[n] \cup {t.by, n}
    [] t.kind = "room_leave"  -> rooms[n] \ {t.by}

\* _handle_payload of p for the next packet of n.
Receive(n, p) ==
  /\ net[n][p] # <<>>
  /\ net' = [net EXCEPT ![n][p] = Tail(@)]
  /\ rooms' = [rooms EXCEPT ![p] = Members(p, tasks[Head(net[n][p])])]
  /\ tasks' = [tasks EXCEPT ![Head(net[n][p])].heard = @ \cup {p}]
  /\ UNCHANGED <<losses, joined, left>>

-----------------------------------------------------------------------------
(* Losses *)

\* The packets of task i that are not read by p.
Unread(i, p) == \E k \in DOMAIN net[tasks[i].by][p] : net[tasks[i].by][p][k] = i

\* The session of n and p ends.
Disconnect(n, p) ==
  /\ losses < MaxLosses
  /\ net[n][p] # <<>> \/ net[p][n] # <<>>
  /\ losses' = losses + 1
  /\ net' = [net EXCEPT ![n][p] = <<>>, ![p][n] = <<>>]
  /\ tasks' = [i \in DOMAIN tasks |->
       LET t == tasks[i]
           q == IF t.by = n THEN p ELSE n IN
       IF t.by \in {n, p} /\ Unread(i, q) THEN [t EXCEPT !.lost = @ \cup {q}] ELSE t]
  /\ UNCHANGED <<rooms, joined, left>>

\* The task i of a process that ends: it sends nothing more, and if it was not
\* through then its failures are not reported either.
Interrupted(i) ==
  LET t == tasks[i]
      silent == IF t.todo = {} THEN {} ELSE t.todo \cup (t.failures \ t.heard) IN
  [t EXCEPT !.todo = {},
            !.failures = IF t.todo = {} THEN @ ELSE {},
            !.lost = @ \cup silent \cup {p \in Node : Unread(i, p)}]

\* The process of n ends, by stop or by a crash, and may start again: rooms are
\* not stored.
Restart(n) ==
  /\ losses < MaxLosses
  /\ losses' = losses + 1
  /\ rooms' = [rooms EXCEPT ![n] = {}]
  /\ left' = left \cup {n}
  /\ net' = [m \in Node |-> [p \in Node |-> IF n \in {m, p} THEN <<>> ELSE net[m][p]]]
  /\ tasks' = [i \in DOMAIN tasks |->
       LET t == tasks[i] IN
       IF t.by = n THEN Interrupted(i)
       ELSE IF Unread(i, n) THEN [t EXCEPT !.lost = @ \cup {n}]
       ELSE [t EXCEPT !.heard = @ \ {n}]]
  /\ UNCHANGED joined

-----------------------------------------------------------------------------

SendTask(i) ==
  \E p \in Node : Reached(i, p) \/ Unreachable(i, p) \/ SentAndRaised(i, p)

User(n) ==
  \/ CreateRoom(n) \/ SendRoomMessage(n) \/ RoomLeave(n)
  \/ \E p \in Node : Invite(n, p)

Next ==
  \/ \E i \in DOMAIN tasks : SendTask(i)
  \/ \E n \in Node : User(n) \/ Restart(n)
  \/ \E n, p \in Node : Receive(n, p) \/ Disconnect(n, p)

Spec == Init /\ [][Next]_vars

-----------------------------------------------------------------------------
(* Properties *)

\* The types of the state; nobody sends packets to itself.
TypeOK ==
  /\ rooms \in [Node -> SUBSET Node]
  /\ Len(tasks) <= MaxTasks
  /\ \A i \in DOMAIN tasks : tasks[i] \in Task
  /\ \A n, p \in Node : \A k \in DOMAIN net[n][p] : net[n][p][k] \in DOMAIN tasks
  /\ \A n \in Node : net[n][n] = <<>>
  /\ losses \in 0 .. MaxLosses
  /\ joined \subseteq Node /\ left \subseteq Node

(***************************************************************************)
(* No strangers: whoever is in the list of any member created the room or  *)
(* was sent an invitation, however lists are merged; a message goes to     *)
(* nobody else.                                                            *)
(***************************************************************************)
NoStrangers ==
  /\ \A n \in Node : rooms[n] \subseteq joined
  /\ \A i \in DOMAIN tasks : tasks[i].kind = "message" => tasks[i].todo \subseteq joined

(***************************************************************************)
(* Whoever read a message can answer all who got it: they are in its list  *)
(* of members, except those who left or ended since.                       *)
(***************************************************************************)
ReadersKnow ==
  \A i \in DOMAIN tasks : tasks[i].kind = "message" =>
    \A n \in tasks[i].heard :
      tasks[i].members \cup {tasks[i].by} \subseteq rooms[n] \cup left

\* Where the packet of task i for p is.
Places(i, p) ==
  {place \in {"todo", "under way", "heard", "lost"} :
     CASE place = "todo"      -> p \in tasks[i].todo
       [] place = "under way" -> Unread(i, p)
       [] place = "heard"     -> p \in tasks[i].heard
       [] place = "lost"      -> p \in tasks[i].lost}

(***************************************************************************)
(* Every member once: whatever happens to the other members and to the     *)
(* room meanwhile, a packet has one place for each member at most, so none *)
(* is sent twice or handled twice; and a message or an invitation that has *)
(* none, neither still to be sent, nor under way, nor handled, nor gone    *)
(* down with a session or a process, is reported as failed.  (A message    *)
(* that goes down after it was sent is not reported; and room_leave tells  *)
(* nobody of the members that it did not reach, although README.md says    *)
(* that the remaining members receive a notification.)                     *)
(***************************************************************************)
EveryMemberOnce ==
  \A i \in DOMAIN tasks : \A p \in Others(tasks[i].by, tasks[i].members) \ left :
    /\ Cardinality(Places(i, p)) <= 1
    /\ Places(i, p) = {} /\ tasks[i].kind # "room_leave" => p \in tasks[i].failures
=============================================================================

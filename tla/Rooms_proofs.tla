----------------------------- MODULE Rooms_proofs -----------------------------
(***************************************************************************)
(* Proofs about Rooms, for any set of nodes, any number of tasks and of    *)
(* losses.                                                                 *)
(*                                                                         *)
(* The invariants of Rooms are proved together, as parts of IInv.          *)
(*   - A packet is still to be sent, under way, handled or lost, and one   *)
(*     of these only (Addressed, UnderWay): a task sends to each member    *)
(*     once and what it sent is not read twice.  No message or invitation  *)
(*     leaves these places but to be among the failures (Accounted):       *)
(*     EveryMemberOnce.                                                    *)
(*   - A list of members is made of the sender, of those it invites and of *)
(*     a list that came in a packet, and all of these joined (Joined).     *)
(*   - A node that handled a message took all its members and its sender   *)
(*     into its list, and a list loses only members whose notice of leave  *)
(*     was handled; that notice comes from a node that left (Leavers):     *)
(*     ReadersKnow.                                                        *)
(***************************************************************************)
EXTENDS Rooms, SequenceFacts, FiniteSetTheorems, TLAPS
-----------------------------------------------------------------------------
(* The inductive invariant *)

\* The types of the variables.
Types ==
  /\ rooms \in [Node -> SUBSET Node]
  /\ tasks \in Seq(Task) /\ Len(tasks) <= MaxTasks
  /\ net \in [Node -> [Node -> Seq(Nat)]]
  /\ losses \in 0 .. MaxLosses
  /\ joined \subseteq Node /\ left \subseteq Node

\* A task has its packets for others than its node, and each is in one place
\* only.
Addressed ==
  \A i \in 1 .. Len(tasks) :
    /\ tasks[i].todo \subseteq Others(tasks[i].by, tasks[i].members)
    /\ tasks[i].by \notin tasks[i].heard
    /\ tasks[i].todo \cap tasks[i].heard = {}
    /\ tasks[i].lost \cap (tasks[i].todo \cup tasks[i].heard) = {}

\* A packet that is under way was sent by its task to a member, and once: it is
\* neither still to be sent nor handled nor lost.
UnderWay ==
  /\ \A n \in Node : net[n][n] = <<>>
  /\ \A n, p \in Node :
       /\ Inj(net[n][p])
       /\ \A i \in Nat : In(i, net[n][p]) =>
            /\ i \in 1 .. Len(tasks) /\ tasks[i].by = n /\ p \in tasks[i].members
            /\ p \notin tasks[i].todo /\ p \notin tasks[i].heard /\ p \notin tasks[i].lost
            /\ tasks[i].kind = "room_invite" => p \in joined

\* Nodes with a room joined, and what they send is about members that joined.
Joined ==
  /\ \A n \in Node : rooms[n] \subseteq joined /\ (rooms[n] # {} => n \in joined)
  /\ \A i \in 1 .. Len(tasks) :
       /\ tasks[i].by \in joined
       /\ tasks[i].kind = "message" => tasks[i].members \subseteq joined

\* The notice of a leave comes from a node that left.
Leavers == \A i \in 1 .. Len(tasks) : tasks[i].kind = "room_leave" => tasks[i].by \in left

\* No member is forgotten by a message or an invitation.
Accounted ==
  \A i \in 1 .. Len(tasks) : tasks[i].kind # "room_leave" =>
    \A p \in Others(tasks[i].by, tasks[i].members) \ left :
      \/ p \in tasks[i].todo \cup tasks[i].failures \cup tasks[i].heard \cup tasks[i].lost
      \/ In(i, net[tasks[i].by][p])

\* What ReadersKnow says, of the indices of tasks.
Know ==
  \A i \in 1 .. Len(tasks) : tasks[i].kind = "message" =>
    \A n \in tasks[i].heard : tasks[i].members \cup {tasks[i].by} \subseteq rooms[n] \cup left

IInv ==
  /\ Types /\ Addressed /\ UnderWay /\ Joined /\ Leavers /\ Accounted /\ Know

-----------------------------------------------------------------------------
(* Consequences of the invariant *)

\* The types of the variables, pointwise.
LEMMA TypeFacts ==
  ASSUME Types
  PROVE  /\ \A n \in Node : rooms[n] \subseteq Node
         /\ \A n, p \in Node : net[n][p] \in Seq(Nat)
         /\ Len(tasks) \in Nat /\ DOMAIN tasks = 1 .. Len(tasks)
         /\ \A i \in 1 .. Len(tasks) :
              /\ tasks[i] \in Task /\ tasks[i].kind \in Kind /\ tasks[i].by \in Node
              /\ tasks[i].members \subseteq Node /\ tasks[i].todo \subseteq Node
              /\ tasks[i].failures \subseteq Node /\ tasks[i].heard \subseteq Node
              /\ tasks[i].lost \subseteq Node
         /\ joined \subseteq Node /\ left \subseteq Node
         /\ losses \in 0 .. MaxLosses
<1>1. Len(tasks) \in Nat /\ DOMAIN tasks = 1 .. Len(tasks)
  BY DEF Types
<1>2. \A i \in 1 .. Len(tasks) : tasks[i] \in Task
  BY DEF Types
<1>3. \A t \in Task : /\ t.kind \in Kind /\ t.by \in Node /\ t.members \subseteq Node
                      /\ t.todo \subseteq Node /\ t.failures \subseteq Node
                      /\ t.heard \subseteq Node /\ t.lost \subseteq Node
  BY DEF Task
<1>4. /\ \A n \in Node : rooms[n] \subseteq Node
      /\ \A n, p \in Node : net[n][p] \in Seq(Nat)
      /\ joined \subseteq Node /\ left \subseteq Node
      /\ losses \in 0 .. MaxLosses
  BY DEF Types
<1>5. QED
  BY <1>1, <1>2, <1>3, <1>4

\* Unread in terms of In.
LEMMA UnreadFacts ==
  ASSUME IInv, NEW i \in 1 .. Len(tasks), NEW p \in Node
  PROVE  Unread(i, p) <=> In(i, net[tasks[i].by][p])
<1>1. net[tasks[i].by][p] \in Seq(Nat)
  BY TypeFacts DEF IInv
<1>2. QED
  BY <1>1 DEF Unread, In

-----------------------------------------------------------------------------
(* Commands *)

\* A command starts a task, and its user may leave the room.
LEMMA Starts ==
  ASSUME IInv, Len(tasks) < MaxTasks,
         NEW kind \in Kind, NEW n \in joined, NEW members \in SUBSET Node,
         tasks' = Append(tasks, NewTask(kind, n, members, Others(n, members))),
         kind = "message" => members \subseteq joined,
         kind = "room_leave" => n \in left',
         rooms' \in [Node -> SUBSET Node],
         \A m \in Node :
           rooms'[m] \subseteq rooms[m] /\ rooms[m] \subseteq rooms'[m] \cup left',
         net' = net, losses' = losses, joined' = joined,
         left \subseteq left', left' \subseteq Node
  PROVE  IInv'
<1>1. PICK t : t = NewTask(kind, n, members, Others(n, members))
  OBVIOUS
<1>2. /\ t.kind = kind /\ t.by = n /\ t.members = members
      /\ t.todo = Others(n, members) /\ t.failures = {} /\ t.heard = {} /\ t.lost = {}
  BY <1>1 DEF NewTask
<1>3. n \in Node /\ t \in Task
  <2>1. n \in Node
    BY TypeFacts DEF IInv
  <2>2. Others(n, members) \subseteq Node
    BY DEF Others
  <2>3. QED
    BY <1>1, <2>1, <2>2 DEF NewTask, Task
<1>4. /\ tasks' \in Seq(Task) /\ Len(tasks) \in Nat /\ Len(tasks') = Len(tasks) + 1
      /\ \A i \in 1 .. Len(tasks) : tasks'[i] = tasks[i]
      /\ tasks'[Len(tasks')] = t
  <2>1. tasks \in Seq(Task)
    BY DEF IInv, Types
  <2>2. QED
    BY <1>1, <1>3, <2>1
<1>5. \A i \in 1 .. Len(tasks') : i \in 1 .. Len(tasks) \/ tasks'[i] = t
  BY <1>4
<1>6. Types'
  <2>1. Len(tasks') <= MaxTasks
    BY <1>4, RoomsAssumption
  <2>2. QED
    BY <1>4, <2>1 DEF IInv, Types
<1>7. Addressed'
  BY <1>2, <1>4, <1>5 DEF IInv, Addressed
<1>8. UnderWay'
  <2>1. \A i \in 1 .. Len(tasks) : i \in 1 .. Len(tasks')
    BY <1>4
  <2>2. QED
    BY <1>4, <2>1 DEF IInv, UnderWay
<1>9. Joined'
  <2>1. \A m \in Node : rooms'[m] \subseteq joined /\ (rooms'[m] # {} => m \in joined)
    BY DEF IInv, Joined
  <2>2. QED
    BY <1>2, <1>4, <1>5, <2>1 DEF IInv, Joined
<1>10. Leavers'
  BY <1>2, <1>4, <1>5 DEF IInv, Leavers
<1>11. Accounted'
  BY <1>2, <1>4, <1>5 DEF IInv, Accounted
<1>12. Know'
  <2>1. ASSUME NEW i \in 1 .. Len(tasks), tasks[i].kind = "message", NEW m \in tasks[i].heard
        PROVE  tasks[i].members \cup {tasks[i].by} \subseteq rooms'[m] \cup left'
    <3>1. m \in Node
      BY TypeFacts DEF IInv
    <3>2. tasks[i].members \cup {tasks[i].by} \subseteq rooms[m] \cup left
      BY <2>1 DEF IInv, Know
    <3>3. QED
      BY <3>1, <3>2
  <2>2. QED
    BY <1>2, <1>4, <1>5, <2>1 DEF Know
<1>13. QED
  BY <1>6, <1>7, <1>8, <1>9, <1>10, <1>11, <1>12 DEF IInv

\* The room is created where none was.
LEMMA CreateRoomInv ==
  ASSUME IInv, NEW n \in Node, CreateRoom(n)
  PROVE  IInv'
<1>1. /\ joined = {} /\ joined' = {n}
      /\ \A m \in Node : rooms'[m] = IF m = n THEN {n} ELSE rooms[m]
      /\ tasks' = tasks /\ net' = net /\ losses' = losses /\ left' = left
  BY DEF CreateRoom, IInv, Types
<1>2. \A i \in 1 .. Len(tasks) : FALSE
  BY <1>1 DEF IInv, Joined
<1>3. Types'
  BY <1>1 DEF CreateRoom, IInv, Types
<1>4. Joined'
  BY <1>1, <1>2 DEF IInv, Joined
<1>5. Addressed' /\ Leavers' /\ Accounted' /\ Know'
  BY <1>1, <1>2 DEF Addressed, Leavers, Accounted, Know
<1>6. UnderWay'
  BY <1>1, <1>2 DEF IInv, UnderWay
<1>7. QED
  BY <1>3, <1>4, <1>5, <1>6 DEF IInv

\* /room add.
LEMMA InviteInv ==
  ASSUME IInv, NEW n \in Node, NEW p \in Node, Invite(n, p)
  PROVE  IInv'
<1>1. /\ rooms[n] # {} /\ Len(tasks) < MaxTasks /\ p # n
      /\ tasks' = Append(tasks, NewTask("room_invite", n, {p}, {p}))
      /\ rooms' = rooms /\ net' = net /\ losses' = losses /\ joined' = joined /\ left' = left
  BY DEF Invite, Command
<1>2. n \in joined
  BY <1>1 DEF IInv, Joined
<1>3. /\ tasks' = Append(tasks, NewTask("room_invite", n, {p}, Others(n, {p})))
      /\ {p} \in SUBSET Node
  <2>1. {p} = Others(n, {p})
    BY <1>1 DEF Others
  <2>2. QED
    BY <1>1, <2>1
<1>4. rooms' \in [Node -> SUBSET Node] /\ left' \subseteq Node
  BY <1>1 DEF IInv, Types
<1>5. "room_invite" \in Kind
  BY DEF Kind
<1>6. QED
  BY <1>1, <1>2, <1>3, <1>4, <1>5, Starts

\* A message to the room.
LEMMA SendRoomMessageInv ==
  ASSUME IInv, NEW n \in Node, SendRoomMessage(n)
  PROVE  IInv'
<1>1. /\ rooms[n] # {} /\ Len(tasks) < MaxTasks
      /\ tasks' = Append(tasks, NewTask("message", n, rooms[n], Others(n, rooms[n])))
      /\ rooms' = rooms /\ net' = net /\ losses' = losses /\ joined' = joined /\ left' = left
  BY DEF SendRoomMessage, Command
<1>2. n \in joined /\ rooms[n] \subseteq joined
  BY <1>1 DEF IInv, Joined
<1>3. rooms' \in [Node -> SUBSET Node] /\ left' \subseteq Node /\ rooms[n] \in SUBSET Node
  BY <1>1 DEF IInv, Types
<1>4. "message" \in Kind
  BY DEF Kind
<1>5. QED
  BY <1>1, <1>2, <1>3, <1>4, Starts

\* /leave.
LEMMA RoomLeaveInv ==
  ASSUME IInv, NEW n \in Node, RoomLeave(n)
  PROVE  IInv'
<1>1. /\ rooms[n] # {} /\ Len(tasks) < MaxTasks
      /\ tasks' = Append(tasks, NewTask("room_leave", n, rooms[n], Others(n, rooms[n])))
      /\ \A m \in Node : rooms'[m] = IF m = n THEN rooms[m] \ {n} ELSE rooms[m]
      /\ left' = left \cup {n}
      /\ net' = net /\ losses' = losses /\ joined' = joined
  BY DEF RoomLeave, Command, IInv, Types
<1>2. n \in joined
  BY <1>1 DEF IInv, Joined
<1>3. rooms' \in [Node -> SUBSET Node] /\ left' \subseteq Node /\ rooms[n] \in SUBSET Node
  BY DEF RoomLeave, IInv, Types
<1>4. "room_leave" \in Kind
  BY DEF Kind
<1>5. \A m \in Node : rooms'[m] \subseteq rooms[m] /\ rooms[m] \subseteq rooms'[m] \cup left'
  BY <1>1
<1>6. left \subseteq left' /\ n \in left'
  BY <1>1
<1>7. QED
  BY <1>1, <1>2, <1>3, <1>4, <1>5, <1>6, Starts

-----------------------------------------------------------------------------
(* Tasks *)

\* A task puts its packet for p on the way.
LEMMA Sends ==
  ASSUME IInv, NEW i \in 1 .. Len(tasks), NEW p \in tasks[i].todo,
         tasks' \in Seq(Task), Len(tasks') = Len(tasks),
         \A j \in 1 .. Len(tasks) :
           /\ tasks'[j].kind = tasks[j].kind /\ tasks'[j].by = tasks[j].by
           /\ tasks'[j].members = tasks[j].members /\ tasks'[j].heard = tasks[j].heard
           /\ tasks[j].failures \subseteq tasks'[j].failures /\ tasks'[j].lost = tasks[j].lost
           /\ tasks'[j].todo = IF j = i THEN tasks[j].todo \ {p} ELSE tasks[j].todo,
         net' = [net EXCEPT ![tasks[i].by][p] = Append(@, i)],
         joined' = (IF tasks[i].kind = "room_invite" THEN joined \cup {p} ELSE joined),
         rooms' \in [Node -> SUBSET Node],
         \A n \in Node : /\ rooms[n] \subseteq rooms'[n] /\ rooms'[n] \subseteq joined'
                         /\ rooms'[n] # {} => rooms[n] # {},
         losses' \in 0 .. MaxLosses, left' = left
  PROVE  IInv'
<1>1. PICK by \in Node : by = tasks[i].by
  BY TypeFacts DEF IInv
<1>2. /\ p \in Node /\ p \in tasks[i].members /\ p # by
      /\ p \notin tasks[i].heard /\ p \notin tasks[i].lost
      /\ i \in Nat /\ ~ In(i, net[by][p])
  <2>1. p \in Node /\ i \in Nat
    BY TypeFacts DEF IInv
  <2>2. p \in tasks[i].members /\ p # by /\ p \notin tasks[i].heard /\ p \notin tasks[i].lost
    BY <1>1 DEF IInv, Addressed, Others
  <2>3. ~ In(i, net[by][p])
    BY <1>1, <2>1 DEF IInv, UnderWay
  <2>4. QED
    BY <2>1, <2>2, <2>3
<1>3. PICK s \in Seq(Nat) : s = net[by][p]
  BY <1>2, TypeFacts DEF IInv
<1>4. /\ Append(s, i) \in Seq(Nat) /\ Inj(Append(s, i))
      /\ \A j : In(j, Append(s, i)) <=> In(j, s) \/ j = i
  <2>1. Inj(s) /\ ~ In(i, s)
    BY <1>2, <1>3 DEF IInv, UnderWay
  <2>2. QED
    BY <1>2, <2>1, AppendFacts
<1>5. \A n, q \in Node :
        net'[n][q] = IF n = by /\ q = p THEN Append(s, i) ELSE net[n][q]
  BY <1>1, <1>2, <1>3 DEF IInv, Types
<1>6. Types'
  <2>1. net' \in [Node -> [Node -> Seq(Nat)]]
    BY <1>1, <1>2, <1>3, <1>4 DEF IInv, Types
  <2>2. joined' \subseteq Node
    BY <1>2, TypeFacts DEF IInv
  <2>3. QED
    BY <2>1, <2>2 DEF IInv, Types
<1>7. Addressed'
  <2> SUFFICES ASSUME NEW j \in 1 .. Len(tasks)
               PROVE  /\ tasks'[j].todo \subseteq Others(tasks'[j].by, tasks'[j].members)
                      /\ tasks'[j].by \notin tasks'[j].heard
                      /\ tasks'[j].todo \cap tasks'[j].heard = {}
                      /\ tasks'[j].lost \cap (tasks'[j].todo \cup tasks'[j].heard) = {}
    BY DEF Addressed
  <2>1. /\ tasks[j].todo \subseteq Others(tasks[j].by, tasks[j].members)
        /\ tasks[j].by \notin tasks[j].heard
        /\ tasks[j].todo \cap tasks[j].heard = {}
        /\ tasks[j].lost \cap (tasks[j].todo \cup tasks[j].heard) = {}
    BY DEF IInv, Addressed
  <2>2. /\ tasks'[j].by = tasks[j].by /\ tasks'[j].members = tasks[j].members
        /\ tasks'[j].heard = tasks[j].heard /\ tasks'[j].lost = tasks[j].lost
        /\ tasks'[j].todo \subseteq tasks[j].todo
    OBVIOUS
  <2>3. QED
    BY <2>1, <2>2
<1>8. \A n, q \in Node, j \in Nat :
        In(j, net'[n][q]) <=> In(j, net[n][q]) \/ (n = by /\ q = p /\ j = i)
  BY <1>3, <1>4, <1>5
<1>9. joined \subseteq joined' /\ (tasks[i].kind = "room_invite" => p \in joined')
  OBVIOUS
<1>10. UnderWay'
  <2>1. \A n \in Node : net'[n][n] = <<>>
    <3>1. \A n \in Node : net'[n][n] = net[n][n]
      BY <1>2, <1>5
    <3>2. \A n \in Node : net[n][n] = <<>>
      BY DEF IInv, UnderWay
    <3>3. QED
      BY <3>1, <3>2
  <2>2. \A n, q \in Node : Inj(net'[n][q])
    BY <1>4, <1>5 DEF IInv, UnderWay
  <2>3. ASSUME NEW n \in Node, NEW q \in Node, NEW j \in Nat, In(j, net[n][q])
        PROVE  /\ j \in 1 .. Len(tasks) /\ tasks'[j].by = n /\ q \in tasks'[j].members
               /\ q \notin tasks'[j].todo /\ q \notin tasks'[j].heard /\ q \notin tasks'[j].lost
               /\ tasks'[j].kind = "room_invite" => q \in joined'
    <3>1. /\ j \in 1 .. Len(tasks) /\ tasks[j].by = n /\ q \in tasks[j].members
          /\ q \notin tasks[j].todo /\ q \notin tasks[j].heard /\ q \notin tasks[j].lost
          /\ tasks[j].kind = "room_invite" => q \in joined
      BY <2>3 DEF IInv, UnderWay
    <3>2. QED
      BY <1>9, <3>1
  <2>4. /\ tasks'[i].by = by /\ p \in tasks'[i].members
        /\ p \notin tasks'[i].todo /\ p \notin tasks'[i].heard /\ p \notin tasks'[i].lost
        /\ tasks'[i].kind = "room_invite" => p \in joined'
    BY <1>1, <1>2, <1>9
  <2>5. QED
    BY <1>8, <2>1, <2>2, <2>3, <2>4, SMTT(20) DEF UnderWay
<1>11. Joined'
  <2>1. \A n \in Node : rooms'[n] \subseteq joined' /\ (rooms'[n] # {} => n \in joined')
    BY <1>9 DEF IInv, Joined
  <2>2. QED
    BY <1>9, <2>1, ZenonT(60) DEF IInv, Joined
<1>12. Leavers'
  BY DEF IInv, Leavers
<1>13. Accounted'
  <2>1. ASSUME NEW j \in 1 .. Len(tasks), tasks[j].kind # "room_leave",
               NEW q \in Others(tasks[j].by, tasks[j].members) \ left
        PROVE  \/ q \in tasks'[j].todo \cup tasks'[j].failures \cup tasks'[j].heard \cup tasks'[j].lost
               \/ In(j, net'[tasks[j].by][q])
    <3>1. q \in Node /\ tasks[j].by \in Node /\ j \in Nat
      BY TypeFacts DEF IInv, Others
    <3>2. \/ q \in tasks[j].todo \cup tasks[j].failures \cup tasks[j].heard \cup tasks[j].lost
          \/ In(j, net[tasks[j].by][q])
      BY <2>1 DEF IInv, Accounted
    <3>3. CASE j = i /\ q = p
      BY <1>1, <1>2, <1>8, <3>3
    <3>4. CASE ~ (j = i /\ q = p)
      BY <1>8, <3>1, <3>2, <3>4, ZenonT(60)
    <3>5. QED
      BY <3>3, <3>4
  <2>2. QED
    BY <2>1 DEF Accounted
<1>14. Know'
  <2>1. ASSUME NEW j \in 1 .. Len(tasks), tasks[j].kind = "message", NEW n \in tasks[j].heard
        PROVE  tasks[j].members \cup {tasks[j].by} \subseteq rooms'[n] \cup left
    <3>1. n \in Node
      BY TypeFacts DEF IInv
    <3>2. tasks[j].members \cup {tasks[j].by} \subseteq rooms[n] \cup left
      BY <2>1 DEF IInv, Know
    <3>3. QED
      BY <3>1, <3>2
  <2>2. QED
    BY <2>1, ZenonT(60) DEF Know
<1>15. QED
  BY <1>6, <1>7, <1>10, <1>11, <1>12, <1>13, <1>14 DEF IInv

\* The parts of a task that goes on after a failure.
LEMMA GoesOnFacts ==
  ASSUME NEW t \in Task, NEW p \in Node
  PROVE  /\ GoesOn(t, p) \in Task
         /\ GoesOn(t, p).kind = t.kind /\ GoesOn(t, p).by = t.by
         /\ GoesOn(t, p).members = t.members /\ GoesOn(t, p).heard = t.heard
         /\ GoesOn(t, p).lost = t.lost /\ GoesOn(t, p).todo = t.todo \ {p}
         /\ t.failures \subseteq GoesOn(t, p).failures
         /\ t.kind # "room_leave" => p \in GoesOn(t, p).failures
<1>1. PICK f : f = IF t.kind = "room_leave" THEN t.failures ELSE t.failures \cup {p}
  OBVIOUS
<1>2. GoesOn(t, p) = [t EXCEPT !.todo = @ \ {p}, !.failures = f]
  BY <1>1 DEF GoesOn
<1>3. f \subseteq Node /\ t.failures \subseteq f /\ (t.kind # "room_leave" => p \in f)
  BY <1>1 DEF Task
<1>4. QED
  BY <1>2, <1>3 DEF Task

\* The packet is sent; an invited peer is added if the room is still there.
LEMMA ReachedInv ==
  ASSUME IInv, NEW i \in DOMAIN tasks, NEW p \in Node, Reached(i, p)
  PROVE  IInv'
<1>1. i \in 1 .. Len(tasks) /\ p \in tasks[i].todo
  BY TypeFacts DEF Reached, IInv
<1>2. PICK t \in Task : t = tasks[i]
  BY <1>1, TypeFacts DEF IInv
<1>3. PICK u : u = [t EXCEPT !.todo = @ \ {p}]
  OBVIOUS
<1>4. /\ u \in Task /\ u.kind = t.kind /\ u.by = t.by /\ u.members = t.members
      /\ u.heard = t.heard /\ u.failures = t.failures /\ u.todo = t.todo \ {p}
      /\ u.lost = t.lost
  BY <1>2, <1>3 DEF Task
<1>5. tasks' = [tasks EXCEPT ![i] = u]
  BY <1>2, <1>3 DEF Reached
<1>6. /\ tasks' \in Seq(Task) /\ Len(tasks') = Len(tasks)
      /\ \A j \in 1 .. Len(tasks) : tasks'[j] = IF j = i THEN u ELSE tasks[j]
  BY <1>1, <1>4, <1>5 DEF IInv, Types
<1>7. \A j \in 1 .. Len(tasks) :
        /\ tasks'[j].kind = tasks[j].kind /\ tasks'[j].by = tasks[j].by
        /\ tasks'[j].members = tasks[j].members /\ tasks'[j].heard = tasks[j].heard
        /\ tasks[j].failures \subseteq tasks'[j].failures /\ tasks'[j].lost = tasks[j].lost
        /\ tasks'[j].todo = IF j = i THEN tasks[j].todo \ {p} ELSE tasks[j].todo
  BY <1>2, <1>4, <1>6
<1>8. /\ net' = [net EXCEPT ![tasks[i].by][p] = Append(@, i)]
      /\ joined' = IF tasks[i].kind = "room_invite" THEN joined \cup {p} ELSE joined
      /\ losses' = losses /\ left' = left
  BY DEF Reached
<1>9. /\ rooms' \in [Node -> SUBSET Node]
      /\ \A n \in Node : rooms'[n] =
           IF tasks[i].kind = "room_invite" /\ n = tasks[i].by /\ rooms[n] # {}
           THEN rooms[n] \cup {p} ELSE rooms[n]
  <2>1. tasks[i].by \in Node
    BY <1>1, TypeFacts DEF IInv
  <2>2. CASE tasks[i].kind = "room_invite"
    <3>1. PICK r : r = IF rooms[tasks[i].by] = {} THEN {} ELSE rooms[tasks[i].by] \cup {p}
      OBVIOUS
    <3>2. rooms' = [rooms EXCEPT ![tasks[i].by] = r]
      BY <2>2, <3>1 DEF Reached
    <3>3. r \subseteq Node
      BY <2>1, <3>1, TypeFacts DEF IInv
    <3>4. rooms' \in [Node -> SUBSET Node]
      BY <3>2, <3>3 DEF IInv, Types
    <3>5. \A n \in Node : rooms'[n] = IF n = tasks[i].by THEN r ELSE rooms[n]
      BY <2>1, <3>2 DEF IInv, Types
    <3>6. QED
      BY <2>2, <3>1, <3>4, <3>5
  <2>3. CASE tasks[i].kind # "room_invite"
    <3>1. rooms' = rooms
      BY <2>3 DEF Reached
    <3>2. QED
      BY <2>3, <3>1 DEF IInv, Types
  <2>4. QED
    BY <2>2, <2>3
<1>10. \A n \in Node : /\ rooms[n] \subseteq rooms'[n] /\ rooms'[n] \subseteq joined'
                       /\ rooms'[n] # {} => rooms[n] # {}
  <2>1. \A n \in Node : rooms[n] \subseteq joined
    BY DEF IInv, Joined
  <2>2. QED
    BY <1>8, <1>9, <2>1
<1>11. losses' \in 0 .. MaxLosses
  BY <1>8, TypeFacts DEF IInv
<1>12. QED
  BY <1>1, <1>6, <1>7, <1>8, <1>9, <1>10, <1>11, Sends

\* Sending raises after the packet was written: nobody is added.
LEMMA SentAndRaisedInv ==
  ASSUME IInv, NEW i \in DOMAIN tasks, NEW p \in Node, SentAndRaised(i, p)
  PROVE  IInv'
<1>1. i \in 1 .. Len(tasks) /\ p \in tasks[i].todo
  BY TypeFacts DEF SentAndRaised, IInv
<1>2. PICK t \in Task : t = tasks[i]
  BY <1>1, TypeFacts DEF IInv
<1>3. PICK u : u = GoesOn(t, p)
  OBVIOUS
<1>4. /\ u \in Task /\ u.kind = t.kind /\ u.by = t.by /\ u.members = t.members
      /\ u.heard = t.heard /\ u.lost = t.lost /\ u.todo = t.todo \ {p}
      /\ t.failures \subseteq u.failures /\ (t.kind # "room_leave" => p \in u.failures)
  BY <1>2, <1>3, GoesOnFacts
<1>5. tasks' = [tasks EXCEPT ![i] = u]
  BY <1>2, <1>3 DEF SentAndRaised
<1>6. /\ tasks' \in Seq(Task) /\ Len(tasks') = Len(tasks)
      /\ \A j \in 1 .. Len(tasks) : tasks'[j] = IF j = i THEN u ELSE tasks[j]
  BY <1>1, <1>4, <1>5 DEF IInv, Types
<1>7. \A j \in 1 .. Len(tasks) :
        /\ tasks'[j].kind = tasks[j].kind /\ tasks'[j].by = tasks[j].by
        /\ tasks'[j].members = tasks[j].members /\ tasks'[j].heard = tasks[j].heard
        /\ tasks[j].failures \subseteq tasks'[j].failures /\ tasks'[j].lost = tasks[j].lost
        /\ tasks'[j].todo = IF j = i THEN tasks[j].todo \ {p} ELSE tasks[j].todo
  BY <1>2, <1>4, <1>6
<1>8. /\ net' = [net EXCEPT ![tasks[i].by][p] = Append(@, i)]
      /\ joined' = IF tasks[i].kind = "room_invite" THEN joined \cup {p} ELSE joined
      /\ losses < MaxLosses /\ losses' = losses + 1 /\ left' = left /\ rooms' = rooms
  BY DEF SentAndRaised
<1>9. losses' \in 0 .. MaxLosses
  BY <1>8, TypeFacts, RoomsAssumption DEF IInv
<1>10. rooms' \in [Node -> SUBSET Node]
  BY <1>8 DEF IInv, Types
<1>11. \A n \in Node : /\ rooms[n] \subseteq rooms'[n] /\ rooms'[n] \subseteq joined'
                       /\ rooms'[n] # {} => rooms[n] # {}
  <2>1. \A n \in Node : rooms[n] \subseteq joined
    BY DEF IInv, Joined
  <2>2. QED
    BY <1>8, <2>1
<1>12. QED
  BY <1>1, <1>6, <1>7, <1>8, <1>9, <1>10, <1>11, Sends

\* A member that cannot be reached is among the failures, or ignored by a leave.
LEMMA UnreachableInv ==
  ASSUME IInv, NEW i \in DOMAIN tasks, NEW p \in Node, Unreachable(i, p)
  PROVE  IInv'
<1>1. i \in 1 .. Len(tasks)
  BY TypeFacts DEF IInv
<1>2. PICK t \in Task : t = tasks[i]
  BY <1>1, TypeFacts DEF IInv
<1>3. PICK u : u = GoesOn(t, p)
  OBVIOUS
<1>4. /\ u \in Task /\ u.kind = t.kind /\ u.by = t.by /\ u.members = t.members
      /\ u.heard = t.heard /\ u.lost = t.lost /\ u.todo = t.todo \ {p}
      /\ t.failures \subseteq u.failures /\ (t.kind # "room_leave" => p \in u.failures)
  BY <1>2, <1>3, GoesOnFacts
<1>5. tasks' = [tasks EXCEPT ![i] = u]
  BY <1>2, <1>3 DEF Unreachable
<1>6. /\ tasks' \in Seq(Task) /\ Len(tasks') = Len(tasks)
      /\ \A j \in 1 .. Len(tasks) : tasks'[j] = IF j = i THEN u ELSE tasks[j]
  BY <1>1, <1>4, <1>5 DEF IInv, Types
<1>7. \A j \in 1 .. Len(tasks) :
        /\ tasks'[j].kind = tasks[j].kind /\ tasks'[j].by = tasks[j].by
        /\ tasks'[j].members = tasks[j].members /\ tasks'[j].heard = tasks[j].heard
        /\ tasks'[j].todo \subseteq tasks[j].todo
        /\ tasks'[j].lost = tasks[j].lost /\ tasks[j].failures \subseteq tasks'[j].failures
        /\ tasks[j].kind # "room_leave" =>
             tasks[j].todo \subseteq tasks'[j].todo \cup tasks'[j].failures
  BY <1>2, <1>4, <1>6
<1>8. /\ rooms' = rooms /\ net' = net /\ losses' = losses /\ joined' = joined /\ left' = left
  BY DEF Unreachable
<1>9. Types'
  BY <1>6, <1>8 DEF IInv, Types
<1>10. Addressed' /\ UnderWay'
  BY <1>6, <1>7, <1>8 DEF IInv, Addressed, UnderWay
<1>11. Joined' /\ Leavers' /\ Know'
  BY <1>6, <1>7, <1>8 DEF IInv, Joined, Leavers, Know
<1>12. Accounted'
  BY <1>6, <1>7, <1>8 DEF IInv, Accounted
<1>13. QED
  BY <1>9, <1>10, <1>11, <1>12 DEF IInv

-----------------------------------------------------------------------------
(* Messages *)

\* A member handles the next packet of another: it knows the sender's list then,
\* and the notice of a leave takes away a node that left.
LEMMA ReceiveInv ==
  ASSUME IInv, NEW n \in Node, NEW p \in Node, Receive(n, p)
  PROVE  IInv'
<1>1. PICK s \in Seq(Nat) : s = net[n][p]
  BY TypeFacts DEF IInv
<1>2. PICK i : i = Head(s)
  OBVIOUS
<1>3. s # <<>> /\ Inj(s)
  BY <1>1 DEF Receive, IInv, UnderWay
<1>4. /\ Tail(s) \in Seq(Nat) /\ i \in Nat /\ In(i, s)
      /\ \A j : In(j, Tail(s)) => In(j, s)
      /\ \A j : In(j, s) => j = i \/ In(j, Tail(s))
      /\ Inj(Tail(s)) /\ ~ In(i, Tail(s))
  BY <1>2, <1>3, TailFacts
<1>5. /\ i \in 1 .. Len(tasks) /\ tasks[i].by = n /\ p \in tasks[i].members
      /\ p \notin tasks[i].todo /\ p \notin tasks[i].heard /\ p \notin tasks[i].lost
      /\ tasks[i].kind = "room_invite" => p \in joined
  BY <1>1, <1>4 DEF IInv, UnderWay
<1>6. n # p
  BY <1>1, <1>3 DEF IInv, UnderWay
<1>7. PICK t \in Task : t = tasks[i]
  BY <1>5, TypeFacts DEF IInv
<1>8. PICK u : u = [t EXCEPT !.heard = @ \cup {p}]
  OBVIOUS
<1>9. /\ u \in Task /\ u.kind = t.kind /\ u.by = t.by /\ u.members = t.members
      /\ u.heard = t.heard \cup {p} /\ u.failures = t.failures /\ u.todo = t.todo
      /\ u.lost = t.lost
  BY <1>7, <1>8 DEF Task
<1>10. /\ tasks' = [tasks EXCEPT ![i] = u] /\ net' = [net EXCEPT ![n][p] = Tail(s)]
       /\ rooms' = [rooms EXCEPT ![p] = Members(p, t)]
  BY <1>1, <1>2, <1>7, <1>8 DEF Receive
<1>11. joined' = joined /\ left' = left /\ losses' = losses
  BY DEF Receive
<1>12. tasks' \in Seq(Task)
  BY <1>5, <1>9, <1>10 DEF IInv, Types
<1>13. /\ Len(tasks') = Len(tasks)
       /\ \A j \in 1 .. Len(tasks) : tasks'[j] = IF j = i THEN u ELSE tasks[j]
  BY <1>5, <1>9, <1>10, SMTT(20) DEF IInv, Types
<1>14. \A j \in 1 .. Len(tasks) :
         /\ tasks'[j].kind = tasks[j].kind /\ tasks'[j].by = tasks[j].by
         /\ tasks'[j].members = tasks[j].members
         /\ tasks'[j].todo = tasks[j].todo /\ tasks'[j].failures = tasks[j].failures
         /\ tasks'[j].lost = tasks[j].lost
         /\ tasks'[j].heard = IF j = i THEN tasks[j].heard \cup {p} ELSE tasks[j].heard
  BY <1>7, <1>9, <1>13
<1>15. Len(tasks') = Len(tasks)
  BY <1>13
<1>16. \A m, q \in Node : net'[m][q] = IF m = n /\ q = p THEN Tail(s) ELSE net[m][q]
  BY <1>10 DEF IInv, Types
<1>17. PICK r : r = Members(p, t)
  OBVIOUS
<1>18. /\ \A m \in Node : rooms'[m] = IF m = p THEN r ELSE rooms[m]
       /\ t.kind = "message" => r = rooms[p] \cup {n, p} \cup t.members
       /\ t.kind = "room_invite" => r = rooms[p] \cup {n, p}
       /\ t.kind = "room_leave" => r = rooms[p] \ {n}
       /\ t.kind \in {"message", "room_invite", "room_leave"}
  <2>1. t.kind \in {"message", "room_invite", "room_leave"}
    BY <1>7, TypeFacts DEF IInv, Kind, Task
  <2>2. \A m \in Node : rooms'[m] = IF m = p THEN r ELSE rooms[m]
    BY <1>10, <1>17 DEF IInv, Types
  <2>3. QED
    BY <1>5, <1>7, <1>17, <2>1, <2>2 DEF Members, Knows
<1>19. /\ r \subseteq joined /\ (r # {} => p \in joined)
       /\ rooms[p] \subseteq r \cup left
  <2>1. /\ rooms[p] \subseteq joined /\ (rooms[p] # {} => p \in joined)
        /\ n \in joined
        /\ t.kind = "message" => t.members \subseteq joined
    BY <1>5, <1>7 DEF IInv, Joined
  <2>2. t.kind = "room_leave" => n \in left
    BY <1>5, <1>7 DEF IInv, Leavers
  <2>3. QED
    BY <1>5, <1>7, <1>18, <2>1, <2>2
<1>20. Types'
  <2>1. net' \in [Node -> [Node -> Seq(Nat)]]
    BY <1>4, <1>10 DEF IInv, Types
  <2>2. r \subseteq Node
    BY <1>19, TypeFacts DEF IInv
  <2>3. rooms' \in [Node -> SUBSET Node]
    BY <1>10, <1>17, <2>2 DEF IInv, Types
  <2>4. QED
    BY <1>11, <1>12, <1>13, <2>1, <2>3 DEF IInv, Types
<1>21. Addressed'
  <2>1. ASSUME NEW j \in 1 .. Len(tasks)
        PROVE  /\ tasks'[j].todo \subseteq Others(tasks'[j].by, tasks'[j].members)
               /\ tasks'[j].by \notin tasks'[j].heard
               /\ tasks'[j].todo \cap tasks'[j].heard = {}
               /\ tasks'[j].lost \cap (tasks'[j].todo \cup tasks'[j].heard) = {}
    <3>1. /\ tasks[j].todo \subseteq Others(tasks[j].by, tasks[j].members)
          /\ tasks[j].by \notin tasks[j].heard
          /\ tasks[j].todo \cap tasks[j].heard = {}
          /\ tasks[j].lost \cap (tasks[j].todo \cup tasks[j].heard) = {}
      BY DEF IInv, Addressed
    <3>2. j = i => p \notin tasks[j].todo /\ p \notin tasks[j].lost /\ p # tasks[j].by
      BY <1>5, <1>6
    <3>3. QED
      BY <1>14, <3>1, <3>2, ZenonT(60)
  <2>2. QED
    BY <1>15, <2>1 DEF Addressed
<1>22. \A m, q \in Node, j \in Nat : In(j, net'[m][q]) =>
         In(j, net[m][q]) /\ ~ (m = n /\ q = p /\ j = i)
  BY <1>1, <1>4, <1>16
<1>23. UnderWay'
  <2>1. \A m, q \in Node : Inj(net'[m][q])
    BY <1>4, <1>16 DEF IInv, UnderWay
  <2>2. \A m \in Node : net'[m][m] = <<>>
    <3>1. \A m \in Node : net'[m][m] = net[m][m]
      BY <1>6, <1>16
    <3>2. \A m \in Node : net[m][m] = <<>>
      BY DEF IInv, UnderWay
    <3>3. QED
      BY <3>1, <3>2
  <2>3. ASSUME NEW m \in Node, NEW q \in Node, NEW j \in Nat, In(j, net'[m][q])
        PROVE  /\ j \in 1 .. Len(tasks') /\ tasks'[j].by = m /\ q \in tasks'[j].members
               /\ q \notin tasks'[j].todo /\ q \notin tasks'[j].heard /\ q \notin tasks'[j].lost
               /\ tasks'[j].kind = "room_invite" => q \in joined'
    <3>1. /\ j \in 1 .. Len(tasks) /\ tasks[j].by = m /\ q \in tasks[j].members
          /\ q \notin tasks[j].todo /\ q \notin tasks[j].heard /\ q \notin tasks[j].lost
          /\ tasks[j].kind = "room_invite" => q \in joined
      <4>1. In(j, net[m][q])
        BY <1>22, <2>3
      <4>2. QED
        BY <4>1 DEF IInv, UnderWay
    <3>2. ~ (j = i /\ q = p)
      BY <1>5, <1>22, <2>3, <3>1
    <3>3. QED
      BY <1>11, <1>14, <1>15, <3>1, <3>2
  <2>4. QED
    BY <2>1, <2>2, <2>3 DEF UnderWay
<1>24. Joined'
  <2>1. \A m \in Node : rooms'[m] \subseteq joined /\ (rooms'[m] # {} => m \in joined)
    BY <1>18, <1>19 DEF IInv, Joined
  <2>2. QED
    BY <1>11, <1>14, <1>15, <2>1 DEF IInv, Joined
<1>25. Leavers'
  BY <1>11, <1>14, <1>15 DEF IInv, Leavers
<1>26. Accounted'
  <2>1. ASSUME NEW j \in 1 .. Len(tasks), tasks[j].kind # "room_leave",
               NEW q \in Others(tasks[j].by, tasks[j].members) \ left
        PROVE  \/ q \in tasks'[j].todo \cup tasks'[j].failures \cup tasks'[j].heard \cup tasks'[j].lost
               \/ In(j, net'[tasks[j].by][q])
    <3>1. q \in Node /\ tasks[j].by \in Node /\ j \in Nat
      BY TypeFacts DEF IInv, Others
    <3>2. \/ q \in tasks[j].todo \cup tasks[j].failures \cup tasks[j].heard \cup tasks[j].lost
          \/ In(j, net[tasks[j].by][q])
      BY <2>1 DEF IInv, Accounted
    <3>3. CASE q \in tasks[j].todo \cup tasks[j].failures \cup tasks[j].heard \cup tasks[j].lost
      BY <1>14, <3>3
    <3>4. CASE In(j, net[tasks[j].by][q])
      <4>1. \/ In(j, net'[tasks[j].by][q])
            \/ tasks[j].by = n /\ q = p /\ j = i
        BY <1>1, <1>4, <1>16, <3>1, <3>4
      <4>2. QED
        BY <1>14, <4>1
    <3>5. QED
      BY <3>2, <3>3, <3>4
  <2>2. QED
    BY <1>11, <1>14, <1>15, <2>1 DEF Accounted
<1>27. Know'
  <2>1. ASSUME NEW j \in 1 .. Len(tasks), tasks[j].kind = "message", NEW m \in tasks'[j].heard
        PROVE  tasks[j].members \cup {tasks[j].by} \subseteq rooms'[m] \cup left
    <3>1. m \in Node
      <4>1. m \in tasks[j].heard \/ m = p
        BY <1>14, <2>1
      <4>2. QED
        BY <4>1, TypeFacts DEF IInv
    <3>2. CASE j = i /\ m = p
      <4>1. rooms'[m] = rooms[p] \cup {n, p} \cup t.members
        BY <1>7, <1>18, <2>1, <3>2
      <4>2. QED
        BY <1>5, <1>7, <3>2, <4>1
    <3>3. CASE m \in tasks[j].heard
      <4>1. tasks[j].members \cup {tasks[j].by} \subseteq rooms[m] \cup left
        BY <2>1, <3>3 DEF IInv, Know
      <4>2. rooms[m] \subseteq rooms'[m] \cup left
        BY <1>18, <1>19, <3>1
      <4>3. QED
        BY <4>1, <4>2
    <3>4. QED
      BY <1>14, <2>1, <3>2, <3>3, ZenonT(60)
  <2>2. QED
    BY <1>11, <1>14, <1>15, <2>1 DEF Know
<1>28. QED
  BY <1>20, <1>21, <1>23, <1>24, <1>25, <1>26, <1>27 DEF IInv

-----------------------------------------------------------------------------
(* Losses *)

\* A session that ends takes along its packets, which are lost.
LEMMA DisconnectInv ==
  ASSUME IInv, NEW n \in Node, NEW p \in Node, Disconnect(n, p)
  PROVE  IInv'
<1>1. n # p
  <2>1. net[n][p] # <<>> \/ net[p][n] # <<>>
    BY DEF Disconnect
  <2>2. QED
    BY <2>1 DEF IInv, UnderWay
<1>2. \A m, q \in Node :
        net'[m][q] = IF (m = n /\ q = p) \/ (m = p /\ q = n) THEN <<>> ELSE net[m][q]
  BY DEF Disconnect, IInv, Types
<1>3. /\ losses < MaxLosses /\ losses' = losses + 1
      /\ rooms' = rooms /\ joined' = joined /\ left' = left
  BY DEF Disconnect
<1>4. DEFINE end(j) == IF tasks[j].by = n THEN p ELSE n
             cut(j) == tasks[j].by \in {n, p} /\ Unread(j, end(j))
<1>5. /\ DOMAIN tasks' = 1 .. Len(tasks)
      /\ \A j \in 1 .. Len(tasks) :
           tasks'[j] = IF cut(j) THEN [tasks[j] EXCEPT !.lost = @ \cup {end(j)}]
                       ELSE tasks[j]
  BY TypeFacts DEF Disconnect, IInv
<1>6. /\ tasks' \in Seq(Task) /\ Len(tasks') = Len(tasks)
  <2>1. \A j \in 1 .. Len(tasks) : tasks'[j] \in Task
    <3>1. ASSUME NEW t \in Task, NEW q \in Node
          PROVE  [t EXCEPT !.lost = @ \cup {q}] \in Task
      BY DEF Task
    <3>2. ASSUME NEW j \in 1 .. Len(tasks)
          PROVE  tasks'[j] \in Task
      <4>1. tasks[j] \in Task /\ end(j) \in Node
        BY TypeFacts DEF IInv
      <4> HIDE DEF end, cut
      <4>2. QED
        BY <1>5, <3>1, <4>1
    <3>3. QED
      BY <3>2
  <2>2. tasks' = [j \in 1 .. Len(tasks) |-> tasks'[j]]
    BY TypeFacts DEF Disconnect, IInv
  <2>3. QED
    BY <2>1, <2>2, TypeFacts DEF IInv
<1>7. \A j \in 1 .. Len(tasks) :
        /\ tasks'[j].kind = tasks[j].kind /\ tasks'[j].by = tasks[j].by
        /\ tasks'[j].members = tasks[j].members /\ tasks'[j].heard = tasks[j].heard
        /\ tasks'[j].todo = tasks[j].todo
        /\ tasks'[j].failures = tasks[j].failures
        /\ tasks'[j].lost = IF cut(j) THEN tasks[j].lost \cup {end(j)} ELSE tasks[j].lost
  <2>1. ASSUME NEW t \in Task, NEW q
        PROVE  LET u == [t EXCEPT !.lost = @ \cup {q}] IN
               /\ u.kind = t.kind /\ u.by = t.by /\ u.members = t.members
               /\ u.heard = t.heard /\ u.todo = t.todo /\ u.failures = t.failures
               /\ u.lost = t.lost \cup {q}
    BY DEF Task
  <2>2. ASSUME NEW j \in 1 .. Len(tasks)
        PROVE  /\ tasks'[j].kind = tasks[j].kind /\ tasks'[j].by = tasks[j].by
               /\ tasks'[j].members = tasks[j].members /\ tasks'[j].heard = tasks[j].heard
               /\ tasks'[j].todo = tasks[j].todo
               /\ tasks'[j].failures = tasks[j].failures
               /\ tasks'[j].lost = IF cut(j) THEN tasks[j].lost \cup {end(j)} ELSE tasks[j].lost
    <3> HIDE DEF end, cut
    <3>1. PICK t \in Task : t = tasks[j]
      BY TypeFacts DEF IInv
    <3>2. PICK q : q = end(j)
      OBVIOUS
    <3>3. CASE cut(j)
      <4>1. tasks'[j] = [t EXCEPT !.lost = @ \cup {q}]
        BY <1>5, <3>1, <3>2, <3>3
      <4>2. PICK u : u = [t EXCEPT !.lost = @ \cup {q}]
        OBVIOUS
      <4>3. /\ u.kind = t.kind /\ u.by = t.by /\ u.members = t.members
            /\ u.heard = t.heard /\ u.todo = t.todo /\ u.failures = t.failures
            /\ u.lost = t.lost \cup {q}
        BY <2>1, <4>2
      <4>4. QED
        BY <3>1, <3>2, <3>3, <4>1, <4>2, <4>3, Zenon
    <3>4. CASE ~ cut(j)
      BY <1>5, <3>4
    <3>5. QED
      BY <3>3, <3>4
  <2>3. QED
    <3> HIDE DEF end, cut
    <3>1. QED
      BY <2>2
<1>8. Len(tasks') = Len(tasks)
  BY <1>6
<1>9. Types'
  <2>1. net' \in [Node -> [Node -> Seq(Nat)]]
    <3>1. <<>> \in Seq(Nat)
      OBVIOUS
    <3>2. QED
      BY <3>1 DEF Disconnect, IInv, Types
  <2>2. losses' \in 0 .. MaxLosses
    BY <1>3, TypeFacts, RoomsAssumption DEF IInv
  <2>3. QED
    BY <1>3, <1>6, <2>1, <2>2 DEF IInv, Types
<1>10. ASSUME NEW j \in 1 .. Len(tasks), cut(j)
       PROVE  /\ end(j) \notin tasks[j].todo /\ end(j) \notin tasks[j].heard
              /\ net'[tasks[j].by][end(j)] = <<>>
  <2>1. tasks[j].by \in Node /\ end(j) \in Node /\ j \in Nat
    BY TypeFacts DEF IInv
  <2>2. In(j, net[tasks[j].by][end(j)])
    BY <1>10, <2>1, UnreadFacts
  <2>3. end(j) \notin tasks[j].todo /\ end(j) \notin tasks[j].heard
    BY <2>1, <2>2 DEF IInv, UnderWay
  <2>4. net'[tasks[j].by][end(j)] = <<>>
    BY <1>2, <1>10, <2>1
  <2>5. QED
    BY <2>3, <2>4
<1>11. Addressed' /\ Joined' /\ Leavers' /\ Know'
  <2> HIDE DEF end, cut
  <2>1. Joined' /\ Leavers' /\ Know'
    BY <1>3, <1>7, <1>8, ZenonT(60) DEF IInv, Joined, Leavers, Know
  <2>2. Addressed'
    <3>1. ASSUME NEW j \in 1 .. Len(tasks)
          PROVE  tasks'[j].lost \cap (tasks'[j].todo \cup tasks'[j].heard) = {}
      <4>1. tasks[j].lost \cap (tasks[j].todo \cup tasks[j].heard) = {}
        BY DEF IInv, Addressed
      <4>2. QED
        BY <1>7, <1>10, <4>1
    <3>2. QED
      BY <1>7, <1>8, <3>1 DEF IInv, Addressed
  <2>3. QED
    BY <2>1, <2>2
<1>12. UnderWay'
  <2> HIDE DEF end, cut
  <2>1. \A m \in Node : net'[m][m] = <<>>
    BY <1>2 DEF IInv, UnderWay
  <2>2. \A m, q \in Node : net'[m][q] = <<>> \/ net'[m][q] = net[m][q]
    BY <1>2
  <2>3. ASSUME NEW m \in Node, NEW q \in Node
        PROVE  /\ Inj(net'[m][q])
               /\ \A j \in Nat : In(j, net'[m][q]) => In(j, net[m][q])
    BY <2>2, ShortSequences DEF IInv, UnderWay
  <2>4. ASSUME NEW m \in Node, NEW q \in Node, NEW j \in Nat, In(j, net'[m][q])
        PROVE  /\ j \in 1 .. Len(tasks') /\ tasks'[j].by = m /\ q \in tasks'[j].members
               /\ q \notin tasks'[j].todo /\ q \notin tasks'[j].heard /\ q \notin tasks'[j].lost
               /\ tasks'[j].kind = "room_invite" => q \in joined'
    <3>1. /\ j \in 1 .. Len(tasks) /\ tasks[j].by = m /\ q \in tasks[j].members
          /\ q \notin tasks[j].todo /\ q \notin tasks[j].heard /\ q \notin tasks[j].lost
          /\ tasks[j].kind = "room_invite" => q \in joined
      BY <2>3, <2>4 DEF IInv, UnderWay
    <3>2. ~ (cut(j) /\ q = end(j))
      BY <1>10, <2>4, <3>1, ShortSequences
    <3>3. QED
      BY <1>3, <1>7, <1>8, <3>1, <3>2
  <2>5. QED
    BY <2>1, <2>3, <2>4 DEF UnderWay
<1>13. Accounted'
  <2>1. ASSUME NEW j \in 1 .. Len(tasks), tasks[j].kind # "room_leave",
               NEW q \in Others(tasks[j].by, tasks[j].members) \ left
        PROVE  \/ q \in tasks'[j].todo \cup tasks'[j].failures \cup tasks'[j].heard \cup tasks'[j].lost
               \/ In(j, net'[tasks[j].by][q])
    <3>1. q \in Node /\ tasks[j].by \in Node
      BY TypeFacts DEF IInv, Others
    <3>2. \/ q \in tasks[j].todo \cup tasks[j].failures \cup tasks[j].heard \cup tasks[j].lost
          \/ In(j, net[tasks[j].by][q])
      BY <2>1 DEF IInv, Accounted
    <3>3. CASE q \in tasks[j].todo \cup tasks[j].failures \cup tasks[j].heard \cup tasks[j].lost
      <4> HIDE DEF end, cut
      <4>1. QED
        BY <1>7, <3>3
    <3>4. CASE /\ In(j, net[tasks[j].by][q])
               /\ (tasks[j].by = n /\ q = p) \/ (tasks[j].by = p /\ q = n)
      <4>1. Unread(j, q)
        BY <3>1, <3>4, UnreadFacts
      <4>2. cut(j) /\ end(j) = q
        BY <1>1, <3>4, <4>1
      <4>3. QED
        <5> HIDE DEF end, cut
        <5>1. QED
          BY <1>7, <4>2
    <3>5. CASE /\ In(j, net[tasks[j].by][q])
               /\ ~ ((tasks[j].by = n /\ q = p) \/ (tasks[j].by = p /\ q = n))
      BY <1>2, <3>1, <3>5
    <3>6. QED
      BY <3>2, <3>3, <3>4, <3>5
  <2>2. QED
    <3> HIDE DEF end, cut
    <3>1. QED
      BY <1>3, <1>7, <1>8, <2>1 DEF Accounted
<1>14. QED
  BY <1>9, <1>11, <1>12, <1>13 DEF IInv

\* A process that ends loses its room and its sessions: what its tasks did not
\* send or report and what was under way is lost, and what it handled is forgotten.
LEMMA RestartInv ==
  ASSUME IInv, NEW n \in Node, Restart(n)
  PROVE  IInv'
<1>1. /\ \A m, q \in Node : net'[m][q] = IF m = n \/ q = n THEN <<>> ELSE net[m][q]
      /\ \A m \in Node : rooms'[m] = IF m = n THEN {} ELSE rooms[m]
  BY DEF Restart, IInv, Types
<1>2. /\ losses < MaxLosses /\ losses' = losses + 1
      /\ joined' = joined /\ left' = left \cup {n}
  BY DEF Restart
<1>3. DEFINE cut(j) == [tasks[j] EXCEPT !.lost = @ \cup {n}]
             gone(j) == [tasks[j] EXCEPT !.heard = @ \ {n}]
<1>4. /\ DOMAIN tasks' = 1 .. Len(tasks)
      /\ \A j \in 1 .. Len(tasks) : tasks'[j] =
           IF tasks[j].by = n THEN Interrupted(j)
           ELSE IF Unread(j, n) THEN cut(j) ELSE gone(j)
  BY TypeFacts DEF Restart, IInv
<1>5. ASSUME NEW j \in 1 .. Len(tasks)
      PROVE  LET t == tasks[j]
                 u == Interrupted(j) IN
             /\ u \in Task /\ u.kind = t.kind /\ u.by = t.by /\ u.members = t.members
             /\ u.heard = t.heard /\ u.todo = {}
             /\ t.lost \cup t.todo \cup {p \in Node : Unread(j, p)} \subseteq u.lost
             /\ t.failures \subseteq u.failures \cup u.lost \cup u.heard
             /\ \A p \in u.lost \ t.lost :
                  p \in t.todo \/ Unread(j, p) \/ p \notin t.heard
  <2>1. PICK t \in Task : t = tasks[j]
    BY TypeFacts DEF IInv
  <2>2. PICK f, l : /\ f = IF t.todo = {} THEN t.failures ELSE {}
                    /\ l = t.lost
                          \cup (IF t.todo = {} THEN {} ELSE t.todo \cup (t.failures \ t.heard))
                          \cup {p \in Node : Unread(j, p)}
    OBVIOUS
  <2>3. Interrupted(j) = [t EXCEPT !.todo = {}, !.failures = f, !.lost = l]
    BY <2>1, <2>2 DEF Interrupted
  <2>4. /\ t.lost \subseteq Node /\ t.todo \subseteq Node /\ t.failures \subseteq Node
        /\ t.heard \subseteq Node
    BY DEF Task
  <2>5. /\ f \subseteq Node /\ l \subseteq Node
        /\ t.lost \cup t.todo \cup {p \in Node : Unread(j, p)} \subseteq l
        /\ t.failures \subseteq f \cup l \cup t.heard
        /\ \A p \in l \ t.lost : p \in t.todo \/ Unread(j, p) \/ p \notin t.heard
    BY <2>2, <2>4
  <2>6. PICK u : u = [t EXCEPT !.todo = {}, !.failures = f, !.lost = l]
    OBVIOUS
  <2>7. /\ u \in Task /\ u.kind = t.kind /\ u.by = t.by /\ u.members = t.members
        /\ u.heard = t.heard /\ u.todo = {} /\ u.failures = f /\ u.lost = l
    BY <2>5, <2>6 DEF Task
  <2>8. QED
    BY <2>1, <2>3, <2>5, <2>6, <2>7
<1>6. ASSUME NEW j \in 1 .. Len(tasks)
      PROVE  /\ cut(j) \in Task /\ cut(j).kind = tasks[j].kind /\ cut(j).by = tasks[j].by
             /\ cut(j).members = tasks[j].members /\ cut(j).heard = tasks[j].heard
             /\ cut(j).todo = tasks[j].todo /\ cut(j).failures = tasks[j].failures
             /\ cut(j).lost = tasks[j].lost \cup {n}
  BY TypeFacts DEF IInv, Task
<1>7. ASSUME NEW j \in 1 .. Len(tasks)
      PROVE  /\ gone(j) \in Task /\ gone(j).kind = tasks[j].kind /\ gone(j).by = tasks[j].by
             /\ gone(j).members = tasks[j].members /\ gone(j).heard = tasks[j].heard \ {n}
             /\ gone(j).todo = tasks[j].todo /\ gone(j).failures = tasks[j].failures
             /\ gone(j).lost = tasks[j].lost
  BY TypeFacts DEF IInv, Task
<1>8. /\ tasks' \in Seq(Task) /\ Len(tasks') = Len(tasks)
  <2> HIDE DEF cut, gone
  <2>1. \A j \in 1 .. Len(tasks) : tasks'[j] \in Task
    BY <1>4, <1>5, <1>6, <1>7
  <2>2. tasks' = [j \in 1 .. Len(tasks) |-> tasks'[j]]
    BY TypeFacts DEF Restart, IInv
  <2>3. QED
    BY <2>1, <2>2, TypeFacts DEF IInv
<1>9. ASSUME NEW j \in 1 .. Len(tasks), NEW q \in Node, Unread(j, q)
      PROVE  q \notin tasks[j].heard /\ q \notin tasks[j].todo
  <2>1. In(j, net[tasks[j].by][q]) /\ tasks[j].by \in Node /\ j \in Nat
    BY <1>9, UnreadFacts, TypeFacts DEF IInv
  <2>2. QED
    BY <2>1 DEF IInv, UnderWay
<1>10. ASSUME NEW j \in 1 .. Len(tasks)
       PROVE  LET t == tasks[j]
                  u == tasks'[j] IN
              /\ u.kind = t.kind /\ u.by = t.by /\ u.members = t.members
              /\ u.todo \subseteq t.todo /\ u.heard = t.heard \ {n}
              /\ t.todo \cup t.lost \subseteq u.todo \cup u.lost
              /\ t.failures \subseteq u.failures \cup u.lost \cup t.heard
              /\ t.by = n => {p \in Node : Unread(j, p)} \subseteq u.lost
              /\ \A p \in u.lost \ t.lost :
                   p \notin u.todo /\ p \notin u.heard /\ (t.by = n \/ p = n)
  <2> HIDE DEF cut, gone
  <2>1. PICK t, u : t = tasks[j] /\ u = tasks'[j]
    OBVIOUS
  <2>2. t.by \notin t.heard /\ t.todo \cap t.heard = {} /\ t.lost \subseteq Node
    BY <2>1, TypeFacts DEF IInv, Addressed
  <2>3. CASE t.by = n
    <3>1. u = Interrupted(j)
      BY <1>4, <2>1, <2>3
    <3>2. /\ u.kind = t.kind /\ u.by = t.by /\ u.members = t.members
          /\ u.heard = t.heard /\ u.todo = {} /\ u \in Task
          /\ t.lost \cup t.todo \cup {p \in Node : Unread(j, p)} \subseteq u.lost
          /\ t.failures \subseteq u.failures \cup u.lost \cup u.heard
          /\ \A p \in u.lost \ t.lost : p \in t.todo \/ Unread(j, p) \/ p \notin t.heard
      BY <1>5, <2>1, <3>1
    <3>3. u.lost \subseteq Node
      BY <3>2 DEF Task
    <3>4. \A p \in u.lost \ t.lost : p \notin u.todo /\ p \notin u.heard
      BY <1>9, <2>1, <2>2, <3>2, <3>3
    <3>5. u.heard = t.heard \ {n}
      BY <2>2, <2>3, <3>2
    <3>6. QED
      BY <2>1, <2>3, <3>2, <3>4, <3>5
  <2>4. CASE t.by # n /\ Unread(j, n)
    <3>1. u = cut(j) /\ n \notin t.heard /\ n \notin t.todo
      BY <1>4, <1>9, <2>1, <2>4
    <3>2. QED
      BY <1>6, <2>1, <2>4, <3>1
  <2>5. CASE t.by # n /\ ~ Unread(j, n)
    <3>1. u = gone(j)
      BY <1>4, <2>1, <2>5
    <3>2. QED
      BY <1>7, <2>1, <2>5, <3>1
  <2>6. QED
    BY <2>3, <2>4, <2>5
<1>11. Len(tasks') = Len(tasks)
  BY <1>8
<1>12. Types'
  <2>1. net' \in [Node -> [Node -> Seq(Nat)]]
    <3>1. \A m, q \in Node : (IF n \in {m, q} THEN <<>> ELSE net[m][q]) \in Seq(Nat)
      BY TypeFacts DEF IInv
    <3>2. QED
      BY <3>1 DEF Restart
  <2>2. losses' \in 0 .. MaxLosses
    BY <1>2, TypeFacts, RoomsAssumption DEF IInv
  <2>3. rooms' \in [Node -> SUBSET Node] /\ left' \subseteq Node
    BY DEF Restart, IInv, Types
  <2>4. QED
    BY <1>2, <1>8, <2>1, <2>2, <2>3 DEF IInv, Types
<1>13. Addressed' /\ Joined' /\ Leavers'
  <2>1. Joined' /\ Leavers'
    BY <1>1, <1>2, <1>10, <1>11 DEF IInv, Joined, Leavers
  <2>2. ASSUME NEW j \in 1 .. Len(tasks)
        PROVE  /\ tasks'[j].todo \subseteq Others(tasks'[j].by, tasks'[j].members)
               /\ tasks'[j].by \notin tasks'[j].heard
               /\ tasks'[j].todo \cap tasks'[j].heard = {}
               /\ tasks'[j].lost \cap (tasks'[j].todo \cup tasks'[j].heard) = {}
    <3>1. /\ tasks[j].todo \subseteq Others(tasks[j].by, tasks[j].members)
          /\ tasks[j].by \notin tasks[j].heard
          /\ tasks[j].todo \cap tasks[j].heard = {}
          /\ tasks[j].lost \cap (tasks[j].todo \cup tasks[j].heard) = {}
      BY DEF IInv, Addressed
    <3>2. QED
      BY <1>10, <3>1
  <2>3. Addressed'
    BY <1>11, <2>2 DEF Addressed
  <2>4. QED
    BY <2>1, <2>3
<1>14. UnderWay'
  <2>1. \A m \in Node : net'[m][m] = <<>>
    BY <1>1 DEF IInv, UnderWay
  <2>2. \A m, q \in Node : net'[m][q] = <<>> \/ net'[m][q] = net[m][q]
    BY <1>1
  <2>3. ASSUME NEW m \in Node, NEW q \in Node
        PROVE  /\ Inj(net'[m][q])
               /\ \A j \in Nat : In(j, net'[m][q]) => In(j, net[m][q])
    BY <2>2, ShortSequences DEF IInv, UnderWay
  <2>4. ASSUME NEW m \in Node, NEW q \in Node, NEW j \in Nat, In(j, net'[m][q])
        PROVE  /\ j \in 1 .. Len(tasks') /\ tasks'[j].by = m /\ q \in tasks'[j].members
               /\ q \notin tasks'[j].todo /\ q \notin tasks'[j].heard /\ q \notin tasks'[j].lost
               /\ tasks'[j].kind = "room_invite" => q \in joined'
    <3>1. /\ j \in 1 .. Len(tasks) /\ tasks[j].by = m /\ q \in tasks[j].members
          /\ q \notin tasks[j].todo /\ q \notin tasks[j].heard /\ q \notin tasks[j].lost
          /\ tasks[j].kind = "room_invite" => q \in joined
      BY <2>3, <2>4 DEF IInv, UnderWay
    <3>2. m # n /\ q # n
      BY <1>1, <2>4, ShortSequences
    <3>3. QED
      BY <1>2, <1>10, <1>11, <3>1, <3>2
  <2>5. QED
    BY <2>1, <2>3, <2>4 DEF UnderWay
<1>15. Accounted'
  <2>1. ASSUME NEW j \in 1 .. Len(tasks), tasks[j].kind # "room_leave",
               NEW q \in Others(tasks[j].by, tasks[j].members) \ left, q # n
        PROVE  \/ q \in tasks'[j].todo \cup tasks'[j].failures \cup tasks'[j].heard \cup tasks'[j].lost
               \/ In(j, net'[tasks[j].by][q])
    <3>1. q \in Node /\ tasks[j].by \in Node
      BY TypeFacts DEF IInv, Others
    <3>2. \/ q \in tasks[j].todo \cup tasks[j].failures \cup tasks[j].heard \cup tasks[j].lost
          \/ In(j, net[tasks[j].by][q])
      BY <2>1 DEF IInv, Accounted
    <3>3. CASE q \in tasks[j].todo \cup tasks[j].failures \cup tasks[j].heard \cup tasks[j].lost
      BY <1>10, <2>1, <3>3
    <3>4. CASE In(j, net[tasks[j].by][q]) /\ tasks[j].by = n
      <4>1. Unread(j, q)
        BY <3>1, <3>4, UnreadFacts
      <4>2. QED
        BY <1>10, <3>1, <3>4, <4>1
    <3>5. CASE In(j, net[tasks[j].by][q]) /\ tasks[j].by # n
      BY <1>1, <2>1, <3>1, <3>5
    <3>6. QED
      BY <3>2, <3>3, <3>4, <3>5
  <2>2. QED
    BY <1>2, <1>10, <1>11, <2>1 DEF Accounted
<1>16. Know'
  <2>1. ASSUME NEW j \in 1 .. Len(tasks), tasks[j].kind = "message", NEW m \in tasks'[j].heard
        PROVE  tasks[j].members \cup {tasks[j].by} \subseteq rooms'[m] \cup left'
    <3>1. m \in tasks[j].heard /\ m # n
      BY <1>10, <2>1
    <3>2. m \in Node
      BY <3>1, TypeFacts DEF IInv
    <3>3. tasks[j].members \cup {tasks[j].by} \subseteq rooms[m] \cup left
      BY <2>1, <3>1 DEF IInv, Know
    <3>4. QED
      BY <1>1, <1>2, <3>1, <3>2, <3>3
  <2>2. QED
    BY <1>10, <1>11, <2>1 DEF Know
<1>17. QED
  BY <1>12, <1>13, <1>14, <1>15, <1>16 DEF IInv

-----------------------------------------------------------------------------
(* The theorems *)

\* The invariant holds initially.
LEMMA InitInv == Init => IInv
<1> SUFFICES ASSUME Init
             PROVE  IInv
  OBVIOUS
<1>1. tasks = <<>> /\ Len(tasks) = 0 /\ \A i \in 1 .. Len(tasks) : FALSE
  BY DEF Init
<1>2. Types
  <2>1. <<>> \in Seq(Task) /\ <<>> \in Seq(Nat)
    OBVIOUS
  <2>2. 0 <= MaxTasks /\ 0 \in 0 .. MaxLosses
    BY RoomsAssumption
  <2>3. QED
    BY <1>1, <2>1, <2>2 DEF Init, Types
<1>3. Addressed /\ Leavers /\ Accounted /\ Know
  BY <1>1 DEF Addressed, Leavers, Accounted, Know
<1>4. UnderWay
  BY ShortSequences DEF Init, UnderWay
<1>5. Joined
  BY <1>1 DEF Init, Joined
<1>6. QED
  BY <1>2, <1>3, <1>4, <1>5 DEF IInv

\* Every step preserves it.
LEMMA StepInv == IInv /\ [Next]_vars => IInv'
<1> SUFFICES ASSUME IInv, [Next]_vars
             PROVE  IInv'
  OBVIOUS
<1>1. ASSUME NEW i \in DOMAIN tasks, SendTask(i)
      PROVE  IInv'
  BY <1>1, ReachedInv, UnreachableInv, SentAndRaisedInv DEF SendTask
<1>2. ASSUME NEW n \in Node, User(n)
      PROVE  IInv'
  BY <1>2, CreateRoomInv, SendRoomMessageInv, RoomLeaveInv, InviteInv DEF User
<1>3. ASSUME NEW n \in Node, Restart(n)
      PROVE  IInv'
  BY <1>3, RestartInv
<1>4. ASSUME NEW n \in Node, NEW p \in Node, Receive(n, p) \/ Disconnect(n, p)
      PROVE  IInv'
  BY <1>4, ReceiveInv, DisconnectInv
<1>5. CASE UNCHANGED vars
  BY <1>5 DEF vars, IInv, Types, Addressed, UnderWay, Joined, Leavers, Accounted, Know
<1>6. QED
  BY <1>1, <1>2, <1>3, <1>4, <1>5 DEF Next

\* The inductive invariant holds in every reachable state.
THEOREM Invariance == Spec => []IInv
<1>1. Init => IInv
  BY InitInv
<1>2. IInv /\ [Next]_vars => IInv'
  BY StepInv
<1>3. QED
  BY <1>1, <1>2, PTL DEF Spec

\* The state is of its types, and packets belong to tasks.
THEOREM TypesCorrect == Spec => []TypeOK
<1>1. IInv => TypeOK
  <2> SUFFICES ASSUME IInv
               PROVE  TypeOK
    OBVIOUS
  <2>1. \A i \in DOMAIN tasks : tasks[i] \in Task
    BY TypeFacts DEF IInv
  <2>2. ASSUME NEW n \in Node, NEW p \in Node, NEW k \in DOMAIN net[n][p]
        PROVE  net[n][p][k] \in DOMAIN tasks
    <3>1. net[n][p] \in Seq(Nat) /\ DOMAIN tasks = 1 .. Len(tasks)
      BY TypeFacts DEF IInv
    <3>2. net[n][p][k] \in Nat /\ In(net[n][p][k], net[n][p])
      <4>1. PICK s \in Seq(Nat) : s = net[n][p]
        BY <3>1
      <4>2. k \in 1 .. Len(s)
        BY <4>1
      <4>3. s[k] \in Nat /\ In(s[k], s)
        BY <4>2 DEF In
      <4>4. QED
        BY <4>1, <4>3
    <3>3. QED
      BY <3>1, <3>2 DEF IInv, UnderWay
  <2>3. \A n \in Node : net[n][n] = <<>>
    BY DEF IInv, UnderWay
  <2>4. QED
    BY <2>1, <2>2, <2>3 DEF IInv, Types, TypeOK
<1>2. QED
  BY <1>1, Invariance, PTL

\* The lists of members, and the receivers of messages, are of nodes that created
\* the room or were sent an invitation, however the lists are merged.
THEOREM OnlyInvited == Spec => []NoStrangers
<1>1. IInv => NoStrangers
  <2> SUFFICES ASSUME IInv
               PROVE  NoStrangers
    OBVIOUS
  <2>1. \A n \in Node : rooms[n] \subseteq joined
    BY DEF IInv, Joined
  <2>2. \A i \in DOMAIN tasks : tasks[i].kind = "message" => tasks[i].todo \subseteq joined
    BY TypeFacts DEF IInv, Joined, Addressed, Others
  <2>3. QED
    BY <2>1, <2>2 DEF NoStrangers
<1>2. QED
  BY <1>1, Invariance, PTL

\* Whoever read a message has all who got it in its list, but those who left.
THEOREM ReadersCanAnswer == Spec => []ReadersKnow
<1>1. IInv => ReadersKnow
  BY TypeFacts DEF IInv, Know, ReadersKnow
<1>2. QED
  BY <1>1, Invariance, PTL

\* A packet has one place for each member at most, and a message or an invitation
\* that has none is among the failures that its sender is told.
THEOREM NobodyForgotten == Spec => []EveryMemberOnce
<1>1. IInv => EveryMemberOnce
  <2> SUFFICES ASSUME IInv, NEW i \in DOMAIN tasks,
                      NEW p \in Others(tasks[i].by, tasks[i].members) \ left
               PROVE  /\ Cardinality(Places(i, p)) <= 1
                      /\ Places(i, p) = {} /\ tasks[i].kind # "room_leave" =>
                           p \in tasks[i].failures
    BY DEF EveryMemberOnce
  <2>1. i \in 1 .. Len(tasks) /\ i \in Nat /\ p \in Node /\ tasks[i].by \in Node
    BY TypeFacts DEF IInv, Others
  <2>2. Unread(i, p) <=> In(i, net[tasks[i].by][p])
    BY <2>1, UnreadFacts
  <2>3. /\ "todo" \in Places(i, p) <=> p \in tasks[i].todo
        /\ "under way" \in Places(i, p) <=> Unread(i, p)
        /\ "heard" \in Places(i, p) <=> p \in tasks[i].heard
        /\ "lost" \in Places(i, p) <=> p \in tasks[i].lost
        /\ Places(i, p) \subseteq {"todo", "under way", "heard", "lost"}
    BY DEF Places
  <2>4. tasks[i].kind # "room_leave" =>
          \/ p \in tasks[i].todo \cup tasks[i].failures \cup tasks[i].heard \cup tasks[i].lost
          \/ Unread(i, p)
    BY <2>1, <2>2 DEF IInv, Accounted
  <2>5. /\ Unread(i, p) =>
             p \notin tasks[i].todo /\ p \notin tasks[i].heard /\ p \notin tasks[i].lost
        /\ p \in tasks[i].todo => p \notin tasks[i].heard
        /\ p \in tasks[i].lost => p \notin tasks[i].todo /\ p \notin tasks[i].heard
    BY <2>1, <2>2 DEF IInv, UnderWay, Addressed
  <2>6. \A x, y \in Places(i, p) : x = y
    BY <2>3, <2>5
  <2>7. Cardinality(Places(i, p)) <= 1
    <3>1. PICK T : T = Places(i, p)
      OBVIOUS
    <3>2. PICK x : T \subseteq {x}
      BY <2>6, <3>1
    <3>3. IsFiniteSet({x}) /\ Cardinality({x}) = 1
      BY FS_Singleton
    <3>4. Cardinality(T) <= Cardinality({x})
      BY <3>2, <3>3, FS_Subset
    <3>5. QED
      BY <3>1, <3>3, <3>4
  <2>8. QED
    BY <2>3, <2>4, <2>7
<1>2. QED
  BY <1>1, Invariance, PTL
=============================================================================

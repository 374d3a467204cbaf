------------------------------- MODULE ChatInbox -------------------------------
(***************************************************************************)
(* The terminal of one node (cli.py): the events that the node puts into   *)
(* its inbox, the task that shows them (process_inbox), and the clean chat *)
(* mode, in which events of other conversations are held back until /back. *)
(*                                                                         *)
(* process_inbox suspends only in inbox.get() with an empty inbox.  It is  *)
(* woken by the first event that is put there and runs when its turn in    *)
(* the event loop comes, so more events and a line of the user may come in *)
(* between; then it goes through everything there is, as one action.       *)
(***************************************************************************)
EXTENDS Integers, Sequences, SequencesExt

CONSTANTS Peer, Room,   \* the conversations
          None,         \* no conversation
          MaxEvents     \* bound of the model: events in a behaviour

ASSUME ChatInboxAssumption ==
  /\ Peer \cap Room = {} /\ None \notin Peer \cup Room
  /\ MaxEvents \in Nat

VARIABLES
  running,              \* the terminal has not been left
  posted,               \* the events so far, in order (history)
  inbox,                \* node.inbox: numbers of events, or Noop
  active,               \* state.active
  target,               \* state.target, None when it is no id that events have
  pending,              \* state.pending
  shown                 \* numbers of the events shown, in order (history)

chat == <<active, target>>
vars == <<running, posted, inbox, chat, pending, shown>>

\* The events that the chat mode tells apart; "notice" is any of
\* connect_request, connected, disconnected, error and info.
Event ==
       [type : {"message"}, of : Peer \cup Room]
  \cup [type : {"room_leave", "room_invite"}, of : Room]
  \cup [type : {"delivery", "notice"}, of : {None}]

Noop == 0               \* what /back puts into the inbox, which shows nothing

Init ==
  /\ running = TRUE
  /\ posted = <<>> /\ inbox = <<>> /\ pending = <<>> /\ shown = <<>>
  /\ active = FALSE /\ target = None

-----------------------------------------------------------------------------
(* process_inbox *)

Number == 1 .. Len(posted)

\* Mutant: all other events are held back, receipts and invitations too.
HeldAll == {n \in Number : posted[n].type # "notice" /\ posted[n].of # target}

\* In the chat mode: of the chat, held back, or neither.
Here == {n \in Number :
           \/ posted[n].type = "notice"
           \/ posted[n].type \in {"message", "room_leave"} /\ posted[n].of = target}
Held == {n \in Number :
           posted[n].type \in {"message", "room_leave"} /\ posted[n].of # target}

\* The elements of s that are in S.  (SelectSeq has no definition for the provers.)
Only(s, S) ==
  LET only[i \in 0 .. Len(s)] ==
        IF i = 0 THEN <<>>
        ELSE IF s[i] \in S THEN Append(only[i - 1], s[i]) ELSE only[i - 1]
  IN  only[Len(s)]

\* Mutant: the inbox is emptied before pending is looked at.
InboxFirst == inbox \o pending

\* The order in which they are handled outside the chat mode: get returns before
\* pending is looked at again.
InOrder == <<Head(inbox)>> \o pending \o Tail(inbox)

ProcessInbox ==
  /\ running /\ inbox # <<>>
  /\ inbox' = <<>>
  /\ IF active
     THEN /\ shown' = shown \o Only(inbox, Here)
          /\ pending' = pending \o Only(inbox, Held)
     ELSE /\ shown' = shown \o Only(InOrder, Number)
          /\ pending' = <<>>
  /\ UNCHANGED <<running, posted, chat>>

-----------------------------------------------------------------------------
(* The node and the user *)

\* node.inbox.put
Post(e) ==
  /\ running /\ Len(posted) < MaxEvents
  /\ posted' = Append(posted, e)
  /\ inbox' = Append(inbox, Len(posted) + 1)
  /\ UNCHANGED <<running, chat, pending, shown>>

\* run_cli has a line.  After /back it has none before the inbox task, which
\* /back wakes, has run: the next prompt_async suspends.
Line == running /\ ~Contains(inbox, Noop)

\* /chat; a name that resolves to no room and no full id fits no event.
Enter(c) ==
  /\ Line /\ ~active
  /\ active' = TRUE /\ target' = c
  /\ pending' = <<>>
  /\ UNCHANGED <<running, posted, inbox, shown>>

\* Mutant: /back does not wake the task.
BackSilently ==
  /\ Line /\ active
  /\ active' = FALSE
  /\ UNCHANGED <<running, posted, inbox, target, pending, shown>>

\* /back
Back ==
  /\ Line /\ active
  /\ active' = FALSE
  /\ inbox' = Append(inbox, Noop)
  /\ UNCHANGED <<running, posted, target, pending, shown>>

\* /quit
Quit ==
  /\ Line
  /\ running' = FALSE
  /\ UNCHANGED <<posted, inbox, chat, pending, shown>>

Next ==
  \/ ProcessInbox \/ Back \/ Quit
  \/ \E e \in Event : Post(e)
  \/ \E c \in Peer \cup Room \cup {None} : Enter(c)

\* The event loop runs a task that is ready; nobody has to type or to send.
Spec == Init /\ [][Next]_vars /\ WF_vars(ProcessInbox)

-----------------------------------------------------------------------------
(* Properties *)

Kept == {n \in Number : posted[n].type \in {"message", "room_leave", "notice"}}

\* The types of the state; only messages and leaves are held back.
TypeOK ==
  /\ {running, active} \subseteq BOOLEAN
  /\ posted \in Seq(Event) /\ Len(posted) <= MaxEvents
  /\ ToSet(inbox) \subseteq Number \cup {Noop}
  /\ \A n \in ToSet(pending) : n \in Number /\ posted[n].type \in {"message", "room_leave"}
  /\ ToSet(shown) \subseteq Number
  /\ target \in Peer \cup Room \cup {None}

(***************************************************************************)
(* No event is forgotten or shown twice, whatever chats the user enters    *)
(* and leaves: each is in the inbox, held back or shown, exactly once;     *)
(* receipts and invitations may be missing, which the chat mode drops.     *)
(***************************************************************************)
NothingForgotten ==
  LET all == Only(inbox, Number) \o pending \o shown
  IN  IsInjective(all) /\ Kept \subseteq ToSet(all)

\* Later events of the conversation of n that are shown, and before n is.
Overtakers(n) ==
  {m \in ToSet(shown) :
     /\ m > n /\ posted[m].of = posted[n].of
     /\ \A i \in 1 .. Len(shown) : shown[i] = n => \E j \in 1 .. i : shown[j] = m}

(***************************************************************************)
(* An event that is held back is overtaken by at most one later event of   *)
(* its conversation: by the one that inbox.get() returns first when the    *)
(* user comes back, and by none of those behind it.                        *)
(***************************************************************************)
OvertakenByOne ==
  \A n \in ToSet(pending) \cup ToSet(shown) :
    posted[n].type \in {"message", "room_leave"} =>
      \A m1, m2 \in Overtakers(n) : m1 = m2

Waiting(n) == running /\ n \in Kept \cap (ToSet(inbox) \cup ToSet(pending))

(***************************************************************************)
(* What waits is shown in the end if the user keeps coming back from the   *)
(* chats, also when nothing new arrives that would wake the task.          *)
(***************************************************************************)
HeldIsShown ==
  []<>(~active) => \A n \in 1 .. MaxEvents : Waiting(n) ~> ~Waiting(n)
=============================================================================

--------------------------- MODULE Sessions_proofs ---------------------------
(***************************************************************************)
(* Proofs about Sessions, for any set of nodes, any number of connections  *)
(* and any number of processes that end.                                   *)
(*                                                                         *)
(* The invariants of Sessions are proved together, as parts of IInv: they  *)
(* need each other and a few facts about how a connection comes to be.     *)
(*   - Only the two nodes of a connection have an end of it (Ends), and    *)
(*     connections that nobody dialled have none (Fresh).                  *)
(*   - A dialler sends nothing before its handshake is over (Unsent), so   *)
(*     its request is the first message that the callee reads, and until   *)
(*     then the callee has the connection in no table (RequestFirst).      *)
(*     Symmetrically nothing reaches the dialler before the callee's       *)
(*     handshake is over (Unanswered).                                     *)
(*   - Hence a pending session was never active (Undecided), and one that  *)
(*     was declined, whose end is closed, never is (Declined).             *)
(*   - An acceptance comes from an end that lists the connection           *)
(*     (AcceptSent), so that the two ends agree.                           *)
(***************************************************************************)
EXTENDS Sessions, TLAPS

\* The message m is in s; it is nowhere in s but at its head.
Has(s, m)       == \E i \in DOMAIN s : s[i] = m
OnlyFirst(s, m) == \A i \in DOMAIN s : s[i] = m => i = 1

\* The types of the variables, each on its own.
Types ==
  /\ client \in [Conn -> Node \cup {None}] /\ server \in [Conn -> Node \cup {None}]
  /\ ep \in [Conn -> [Node -> EndState]]
  /\ loop \in [Conn -> [Node -> {"off", "on", "done"}]]
  /\ chan \in [Conn -> [Node -> Seq(Message)]]
  /\ active \in [Node -> [Node -> Conn \cup {None, RelayOut, RelayIn}]]
  /\ pending \in [Node -> [Node -> Conn \cup {None}]]
  /\ relayed \in [Node -> [Node -> 0 .. MaxRelayed]]
  /\ dialing \in [Node -> SUBSET Address]
  /\ route \in [Node -> [Node -> RouteKind]]
  /\ shown \in [Node -> [Node -> Shown]]
  /\ up \in [Node -> BOOLEAN] /\ exits \in 0 .. MaxExits
  /\ acceptedBy \in [Conn -> SUBSET Node]
  /\ declinedBy \in [Conn -> SUBSET Node]
  /\ wasActive \in [Conn -> SUBSET Node]

\* Nothing is known of a connection that nobody dialled.
Fresh ==
  \A c \in Conn : client[c] = None =>
    /\ server[c] = None /\ wasActive[c] = {} /\ declinedBy[c] = {}
    /\ \A n \in Node : ep[c][n] = "none" /\ chan[c][n] = <<>>

\* The ends of a connection are at the dialler and at another node.
Ends ==
  /\ \A c \in Conn : client[c] # None => server[c] \in Node /\ client[c] # server[c]
  /\ \A c \in Conn, n \in Node :
       /\ ep[c][n] # "none" => client[c] # None /\ (n = client[c] \/ n = server[c])
       /\ loop[c][n] # "off" => ep[c][n] # "none"

\* While the dialler is in the handshake it has sent nothing, and nobody has
\* the connection in a table.
Unsent ==
  \A c \in Conn : (client[c] # None /\ ep[c][client[c]] = "shaking") =>
    /\ chan[c][server[c]] = <<>> /\ wasActive[c] = {} /\ declinedBy[c] = {}
    /\ \A n, p \in Node : pending[n][p] # c

\* While the callee is in the handshake the dialler has nothing to read and
\* waits for it, or has given up.
Unanswered ==
  \A c \in Conn : (client[c] # None /\ ep[c][server[c]] = "shaking") =>
    /\ chan[c][client[c]] = <<>> /\ wasActive[c] = {} /\ ep[c][client[c]] # "open"

\* A request that is under way is the next message of the callee, who has the
\* connection in no table and never had.
RequestFirst ==
  \A c \in Conn, n \in Node : Has(chan[c][n], ConnectRequest) =>
    /\ OnlyFirst(chan[c][n], ConnectRequest)
    /\ n = server[c] /\ n \notin wasActive[c]
    /\ \A p \in Node : pending[n][p] # c

\* An acceptance under way was sent by an end that listed the connection.
AcceptSent ==
  \A c \in Conn, n \in Node :
    Has(chan[c][n], ConnectAccept) => Remote(c, n) \in wasActive[c]

\* What EndsAgree says, in terms of Has.
Agree ==
  \A c \in Conn : \A n \in wasActive[c] :
    \/ Remote(c, n) \in wasActive[c]
    \/ Has(chan[c][Remote(c, n)], ConnectAccept)
    \/ ep[c][Remote(c, n)] # "open" \/ ep[c][n] # "open"

\* The connection c is between n and p.
Between(c, n, p) ==
  \/ client[c] = n /\ server[c] = p
  \/ client[c] = p /\ server[c] = n

\* What PendingIsOpen says, in terms of Between.
PendingEnds ==
  \A n, p \in Node : pending[n][p] # None =>
    ep[pending[n][p]][n] = "open" /\ Between(pending[n][p], n, p)

\* A direct session that is active is in the history of those, a pending one is
\* not.
Listed    == \A n, p \in Node : active[n][p] \in Conn => n \in wasActive[active[n][p]]
Undecided == \A n, p \in Node : pending[n][p] # None => n \notin wasActive[pending[n][p]]

\* The end of a user who declined is closed and was never active.
Declined ==
  \A c \in Conn : \A n \in declinedBy[c] : ep[c][n] = "closed" /\ n \notin wasActive[c]

\* The inductive invariant.
IInv ==
  /\ Types
  /\ Exclusive /\ PendingEnds /\ ShownIsListed /\ Agree
  /\ Fresh /\ Ends /\ Unsent /\ Unanswered /\ RequestFirst /\ AcceptSent
  /\ Listed /\ Undecided /\ Declined

-----------------------------------------------------------------------------
(* Messages and sequences of them *)

\* The messages that matter here are different from all others.
LEMMA Kinds ==
  /\ {Hello, ConnectRequest, ConnectAccept, ConnectDecline} \subseteq Message
  /\ ConnectRequest \notin {Hello, ConnectAccept, ConnectDecline}
  /\ ConnectAccept \notin {Hello, ConnectRequest, ConnectDecline}
  /\ \A ks \in [Node -> Published] :
       PeerList(ks) \in Message \ {ConnectRequest, ConnectAccept}
<1>1. /\ Hello.type = "hello" /\ ConnectRequest.type = "connect_request"
      /\ ConnectAccept.type = "connect_accept"
      /\ ConnectDecline.type = "connect_decline"
      /\ \A ks : PeerList(ks).type = "peer_list"
  BY DEF Hello, ConnectRequest, ConnectAccept, ConnectDecline, PeerList
<1>2. QED
  BY <1>1 DEF Message

\* Nothing is under way in an empty channel.
LEMMA Nothing == \A m : ~ Has(<<>>, m)
  BY DEF Has

\* What is left when the first message is read.
LEMMA TailHas ==
  ASSUME NEW s \in Seq(Message), s # <<>>, NEW m
  PROVE  /\ Tail(s) \in Seq(Message)
         /\ Has(Tail(s), m) => Has(s, m)
         /\ Head(s) = m => Has(s, m)
         /\ Has(s, m) => Head(s) = m \/ Has(Tail(s), m)
         /\ OnlyFirst(s, m) => ~ Has(Tail(s), m)
<1>1. /\ Tail(s) \in Seq(Message) /\ Len(s) \in Nat /\ Len(s) >= 1
      /\ DOMAIN s = 1 .. Len(s) /\ DOMAIN Tail(s) = 1 .. Len(s) - 1
      /\ \A i \in 1 .. Len(s) - 1 : Tail(s)[i] = s[i+1]
      /\ Head(s) = s[1]
  OBVIOUS
<1>2. ASSUME NEW i \in DOMAIN s, s[i] = m, i # 1
      PROVE  i - 1 \in DOMAIN Tail(s) /\ Tail(s)[i - 1] = m
  BY <1>1, <1>2
<1>3. ASSUME NEW i \in DOMAIN Tail(s), Tail(s)[i] = m
      PROVE  i + 1 \in DOMAIN s /\ s[i+1] = m /\ i + 1 # 1
  BY <1>1, <1>3
<1>4. Has(s, m) => Head(s) = m \/ Has(Tail(s), m)
  BY <1>1, <1>2 DEF Has
<1>5. QED
  BY <1>1, <1>3, <1>4 DEF Has, OnlyFirst

\* What is under way when one more message is sent.
LEMMA AppendHas ==
  ASSUME NEW s \in Seq(Message), NEW x \in Message, NEW m
  PROVE  /\ Append(s, x) \in Seq(Message)
         /\ Has(s, m) => Has(Append(s, x), m)
         /\ x # m => (Has(Append(s, x), m) => Has(s, m))
         /\ x # m => (OnlyFirst(s, m) => OnlyFirst(Append(s, x), m))
  BY DEF Has, OnlyFirst

\* What is under way when several messages are sent.
LEMMA ConcatHas ==
  ASSUME NEW s \in Seq(Message), NEW t \in Seq(Message), NEW m
  PROVE  /\ s \o t \in Seq(Message)
         /\ Has(s, m) \/ Has(t, m) => Has(s \o t, m)
         /\ Has(s \o t, m) => Has(s, m) \/ Has(t, m)
         /\ ~ Has(t, m) => (OnlyFirst(s, m) => OnlyFirst(s \o t, m))
<1>1. /\ s \o t \in Seq(Message)
      /\ DOMAIN s = 1 .. Len(s) /\ DOMAIN t = 1 .. Len(t)
      /\ DOMAIN (s \o t) = 1 .. Len(s) + Len(t)
      /\ \A i \in 1 .. Len(s) + Len(t) :
           (s \o t)[i] = IF i <= Len(s) THEN s[i] ELSE t[i - Len(s)]
      /\ Len(s) \in Nat /\ Len(t) \in Nat
  OBVIOUS
<1>2. ASSUME NEW i \in DOMAIN s, s[i] = m
      PROVE  i \in DOMAIN (s \o t) /\ (s \o t)[i] = m
  BY <1>1, <1>2
<1>3. ASSUME NEW i \in DOMAIN t, t[i] = m
      PROVE  i + Len(s) \in DOMAIN (s \o t) /\ (s \o t)[i + Len(s)] = m
  BY <1>1, <1>3
<1>4. ASSUME NEW i \in DOMAIN (s \o t), (s \o t)[i] = m
      PROVE  \/ i \in DOMAIN s /\ s[i] = m
             \/ i - Len(s) \in DOMAIN t /\ t[i - Len(s)] = m
  BY <1>1, <1>4
<1>5. QED
  BY <1>1, <1>2, <1>3, <1>4 DEF Has, OnlyFirst

\* What the handlers put on the wire after a decision: a peer list, and before
\* it the acceptance if the decision was made here.
LEMMA Announcements ==
  ASSUME NEW n \in Node, NEW p \in Node
  PROVE  /\ PostHandshake(n, p) \in Seq(Message) /\ Acceptance(n, p) \in Seq(Message)
         /\ ~ Has(PostHandshake(n, p), ConnectRequest)
         /\ ~ Has(PostHandshake(n, p), ConnectAccept)
         /\ ~ Has(Acceptance(n, p), ConnectRequest)
         /\ Has(Acceptance(n, p), ConnectAccept)
<1>1. KnownPeers(n, p) \in [Node -> Published]
  BY DEF KnownPeers, Published
<1>2. PICK m : m = PeerList(KnownPeers(n, p))
  OBVIOUS
<1>3. m \in Message /\ m # ConnectRequest /\ m # ConnectAccept
  BY <1>1, <1>2, Kinds
<1>4. ConnectAccept \in Message /\ ConnectAccept # ConnectRequest
  BY Kinds
<1>5. PostHandshake(n, p) = <<m>>
  BY <1>2 DEF PostHandshake
<1>6. PICK a, b : a = <<ConnectAccept>> /\ b = <<m>>
  OBVIOUS
<1>7. /\ a \in Seq(Message) /\ b \in Seq(Message)
      /\ ~ Has(b, ConnectRequest) /\ ~ Has(b, ConnectAccept)
      /\ ~ Has(a, ConnectRequest) /\ Has(a, ConnectAccept)
  BY <1>3, <1>4, <1>6 DEF Has
<1>8. PostHandshake(n, p) = b /\ Acceptance(n, p) = a \o b
  BY <1>5, <1>6 DEF Acceptance
<1>9. QED
  BY <1>7, <1>8, ConcatHas

-----------------------------------------------------------------------------
(* Consequences of the invariant *)

\* An end that exists has another end, at another node.
LEMMA Peer ==
  ASSUME IInv, NEW c \in Conn, NEW n \in Node, ep[c][n] # "none"
  PROVE  /\ client[c] \in Node /\ server[c] \in Node /\ client[c] # server[c]
         /\ Remote(c, n) \in Node /\ Remote(c, n) # n
         /\ Remote(c, Remote(c, n)) = n
         /\ Between(c, n, Remote(c, n))
  BY SessionsAssumption DEF IInv, Types, Ends, Remote, Between

\* What the tables and the histories hold.
LEMMA Members ==
  ASSUME IInv
  PROVE  /\ None \notin Node /\ None \notin Conn
         /\ None \notin {RelayOut, RelayIn} /\ RelayOut \notin Conn /\ RelayIn \notin Conn
         /\ \A c \in Conn : /\ client[c] \in Node \cup {None}
                           /\ acceptedBy[c] \subseteq Node /\ declinedBy[c] \subseteq Node
                           /\ wasActive[c] \subseteq Node
         /\ \A n, p \in Node : /\ active[n][p] \in Conn \cup {None, RelayOut, RelayIn}
                              /\ pending[n][p] \in Conn \cup {None}
         /\ \A c \in Conn, n \in Node : n \in wasActive[c] => Remote(c, n) \in Node
<1>1. \A c \in Conn, n \in Node : n \in wasActive[c] => Remote(c, n) \in Node
  BY SessionsAssumption DEF IInv, Types, Fresh, Ends, Remote
<1>2. QED
  BY <1>1, SessionsAssumption DEF IInv, Types

\* What is left of a channel when its next message is read: never a request.
LEMMA Read ==
  ASSUME IInv, NEW c \in Conn, NEW n \in Node, chan[c][n] # <<>>
  PROVE  LET s == chan[c][n] IN
         /\ Tail(s) \in Seq(Message)
         /\ ~ Has(Tail(s), ConnectRequest)
         /\ Has(Tail(s), ConnectAccept) => Has(s, ConnectAccept)
         /\ Has(s, ConnectAccept) => Head(s) = ConnectAccept \/ Has(Tail(s), ConnectAccept)
         /\ Head(s) = ConnectRequest => Has(s, ConnectRequest)
         /\ Head(s) = ConnectAccept => Has(s, ConnectAccept)
  BY TailHas DEF IInv, Types, RequestFirst

\* When the reply to a handshake arrives, the dialler has sent nothing yet and
\* the connection is in no table.
LEMMA RepliedFacts ==
  ASSUME IInv, NEW c \in Conn, NEW n \in Node, NEW p, p = server[c], Replied(c, n)
  PROVE  /\ client[c] = n /\ ep[c][n] = "shaking" /\ ep[c][p] # "shaking"
         /\ p \in Node /\ p # n /\ Remote(c, n) = p
         /\ chan[c][p] = <<>> /\ wasActive[c] = {} /\ declinedBy[c] = {}
         /\ \A q, r \in Node : pending[q][r] # c
         /\ Tail(chan[c][n]) \in Seq(Message)
         /\ ~ Has(Tail(chan[c][n]), ConnectRequest)
         /\ ~ Has(Tail(chan[c][n]), ConnectAccept)
<1>1. client[c] = n /\ ep[c][n] = "shaking" /\ chan[c][n] # <<>>
  BY DEF Replied
<1>2. p \in Node /\ p # n /\ Remote(c, n) = p
  BY <1>1, Peer DEF Remote
<1>3. /\ chan[c][p] = <<>> /\ wasActive[c] = {} /\ declinedBy[c] = {}
      /\ \A q, r \in Node : pending[q][r] # c
  BY <1>1, Members DEF IInv, Unsent
<1>4. ep[c][p] # "shaking"
  BY <1>1, Members DEF IInv, Unanswered
<1>5. /\ Tail(chan[c][n]) \in Seq(Message)
      /\ ~ Has(Tail(chan[c][n]), ConnectRequest)
      /\ ~ Has(Tail(chan[c][n]), ConnectAccept)
  BY <1>1, <1>3, Read DEF IInv, AcceptSent
<1>6. QED
  BY <1>1, <1>2, <1>3, <1>4, <1>5

\* What is known of a pending session: its end is open, undecided, and its
\* handshake is over at both ends.
LEMMA PendingFacts ==
  ASSUME IInv, NEW c \in Conn, NEW n \in Node, NEW p \in Node, pending[n][p] = c
  PROVE  /\ ep[c][n] = "open" /\ Between(c, n, p)
         /\ client[c] \in Node /\ p # n /\ Remote(c, n) = p /\ Remote(c, p) = n
         /\ active[n][p] \notin Conn /\ n \notin wasActive[c] /\ n \notin declinedBy[c]
         /\ chan[c][p] \in Seq(Message)
         /\ ~ Has(chan[c][n], ConnectRequest)
         /\ \A r \in Node : pending[n][r] = c => r = p
         /\ ep[c][client[c]] # "shaking"
         /\ ep[c][server[c]] # "shaking"
<1>1. c # None
  BY Members
<1>2. ep[c][n] = "open" /\ Between(c, n, p) /\ n \notin wasActive[c] /\ active[n][p] \notin Conn
  BY <1>1 DEF IInv, PendingEnds, Undecided, Exclusive
<1>3. client[c] \in Node /\ p # n /\ Remote(c, n) = p /\ Remote(c, p) = n
  BY <1>2, Peer DEF Between, Remote
<1>4. chan[c][p] \in Seq(Message)
  BY DEF IInv, Types
<1>5. /\ ~ Has(chan[c][n], ConnectRequest)
      /\ \A r \in Node : pending[n][r] = c => r = p
  <2>1. ~ Has(chan[c][n], ConnectRequest)
    BY DEF IInv, RequestFirst
  <2>2. \A r \in Node : pending[n][r] = c => r = p
    BY <1>1, <1>2, <1>3 DEF IInv, PendingEnds, Between
  <2>3. QED
    BY <2>1, <2>2
<1>6. n \notin declinedBy[c] /\ ep[c][client[c]] # "shaking"
  BY <1>2, <1>3, Members DEF IInv, Declined, Unsent
<1>7. ep[c][server[c]] # "shaking"
  BY <1>2, <1>3, <1>6, Members DEF IInv, Unanswered, Between
<1>8. QED
  BY <1>2, <1>3, <1>4, <1>5, <1>6, <1>7

-----------------------------------------------------------------------------
(* The steps that set up a connection *)

\* connect opens a connection.
LEMMA DialInv ==
  ASSUME IInv, NEW n \in Node, NEW m \in Node, NEW c \in Conn, Dial(n, m, c)
  PROVE  IInv'
<1>1. /\ n # m /\ client[c] = None
      /\ dialing' \in [Node -> SUBSET Address]
  <2>1. PICK sp \in Spelling :
          /\ MayDial(n, <<m, sp>>)
          /\ dialing' = [dialing EXCEPT ![n] = @ \cup {<<m, sp>>}]
    BY DEF Dial
  <2>2. n # m /\ client[c] = None
    BY <2>1 DEF Dial, MayDial
  <2>3. <<m, sp>> \in Address
    BY DEF Address
  <2>4. QED
    BY <2>1, <2>2, <2>3 DEF IInv, Types
<1>2. /\ wasActive[c] = {} /\ declinedBy[c] = {}
      /\ \A q \in Node : ep[c][q] = "none" /\ chan[c][q] = <<>>
      /\ \A q, r \in Node : pending[q][r] # c
  BY <1>1, Members DEF IInv, Fresh, PendingEnds
<1>3. /\ UNCHANGED <<chan, loop, active, pending, shown, wasActive, acceptedBy, declinedBy>>
      /\ \A d \in Conn : /\ client'[d] = IF d = c THEN n ELSE client[d]
                         /\ server'[d] = IF d = c THEN m ELSE server[d]
      /\ \A d \in Conn, q \in Node :
           ep'[d][q] = IF d = c /\ q = n THEN "shaking"
                       ELSE IF d = c /\ q = m
                            THEN IF up[m] THEN "shaking" ELSE "closed"
                            ELSE ep[d][q]
  BY <1>1 DEF Dial, IInv, Types, tables, history
<1>4. Types'
  <2>1. ep' \in [Conn -> [Node -> EndState]]
    <3>1. PICK x \in EndState : x = IF up[m] THEN "shaking" ELSE "closed"
      BY DEF EndState
    <3>2. ep' = [ep EXCEPT ![c] = [@ EXCEPT ![n] = "shaking", ![m] = x]]
      BY <3>1 DEF Dial
    <3>3. "shaking" \in EndState /\ ep \in [Conn -> [Node -> EndState]]
      BY DEF EndState, IInv, Types
    <3>4. QED
      BY <3>2, <3>3
  <2>2. QED
    BY <1>1, <2>1, ZenonT(60) DEF Dial, IInv, Types, tables, nodes, history
<1>5. Exclusive' /\ ShownIsListed' /\ Listed' /\ Undecided'
  BY <1>3 DEF IInv, Exclusive, ShownIsListed, Listed, Undecided
<1>6. PendingEnds' /\ Declined'
  BY <1>2, <1>3, Members DEF IInv, PendingEnds, Between, Declined
<1>7. Fresh' /\ Ends'
  BY <1>1, <1>2, <1>3, Members DEF IInv, Fresh, Ends
<1>8. Unsent' /\ Unanswered'
  BY <1>1, <1>2, <1>3, Members DEF IInv, Unsent, Unanswered, Ends
<1>9. RequestFirst' /\ AcceptSent' /\ Agree'
  BY <1>2, <1>3, Nothing, Members DEF IInv, RequestFirst, AcceptSent, Agree, Remote
<1>10. QED
  BY <1>4, <1>5, <1>6, <1>7, <1>8, <1>9 DEF IInv

\* _accept answers the handshake.
LEMMA RespondInv ==
  ASSUME IInv, NEW c \in Conn, NEW m \in Node, Respond(c, m)
  PROVE  IInv'
<1> DEFINE n == client[c]
<1>1. server[c] = m /\ ep[c][m] = "shaking"
  BY DEF Respond
<1>2. /\ n \in Node /\ n # m /\ Remote(c, m) = n /\ Remote(c, n) = m
      /\ chan[c][n] = <<>> /\ wasActive[c] = {} /\ ep[c][n] # "open"
  BY <1>1, Members, Peer DEF IInv, Ends, Unanswered, Remote
<1>3. Append(<<>>, Hello) = <<Hello>> /\ <<Hello>> \in Seq(Message)
      /\ ~ Has(<<Hello>>, ConnectRequest) /\ ~ Has(<<Hello>>, ConnectAccept)
  BY Kinds DEF Has
<1>4. /\ UNCHANGED <<client, server, active, pending, shown, wasActive, acceptedBy, declinedBy>>
      /\ \A d \in Conn, q \in Node :
           /\ chan'[d][q] = IF d = c /\ q = n THEN <<Hello>> ELSE chan[d][q]
           /\ ep'[d][q] = IF d = c /\ q = m THEN "open" ELSE ep[d][q]
           /\ loop'[d][q] = IF d = c /\ q = m THEN "on" ELSE loop[d][q]
  BY <1>2, <1>3 DEF Respond, IInv, Types, tables, history
<1>5. Types'
  BY <1>2, <1>3 DEF Respond, IInv, Types, EndState, tables, nodes, history
<1>6. Exclusive' /\ ShownIsListed' /\ Listed' /\ Undecided'
  BY <1>4 DEF IInv, Exclusive, ShownIsListed, Listed, Undecided
<1>7. PendingEnds' /\ Declined'
  BY <1>1, <1>4, Members, SMTT(20) DEF IInv, PendingEnds, Between, Declined
<1>8. Fresh' /\ Ends'
  BY <1>1, <1>2, <1>4, Members, SMTT(20) DEF IInv, Fresh, Ends
<1>9. Unsent' /\ Unanswered'
  BY <1>1, <1>2, <1>4, Members DEF IInv, Unsent, Unanswered, Ends
<1>10. RequestFirst' /\ AcceptSent' /\ Agree'
  BY <1>1, <1>2, <1>3, <1>4, Members, SMTT(20) DEF IInv, RequestFirst, AcceptSent, Agree, Remote
<1>11. QED
  BY <1>5, <1>6, <1>7, <1>8, <1>9, <1>10 DEF IInv

\* n's end of c closes, or is leaked by a connect that gives up; n may read a
\* message from c that is not an acceptance.
ClosesEnd(c, n) ==
  \/ ep' = [ep EXCEPT ![c][n] = "closed"]
  \/ ep[c][n] = "shaking" /\ ep' = [ep EXCEPT ![c][n] = "leaked"]

MayRead(c, n) ==
  \/ chan' = chan
  \/ /\ chan[c][n] # <<>> /\ Head(chan[c][n]) # ConnectAccept
     /\ chan' = [chan EXCEPT ![c][n] = Tail(@)]

\* Closing an end that is in no table, with or without reading a message that
\* is no acceptance, preserves the invariant; pending sessions may go.
LEMMA EndCloses ==
  ASSUME IInv, Types', NEW c \in Conn, NEW n \in Node, ep[c][n] # "none",
         UNCHANGED <<client, server, loop, active, shown, history>>,
         ClosesEnd(c, n), MayRead(c, n),
         \A q, r \in Node : pending'[q][r] \in {pending[q][r], None},
         \A r \in Node : pending'[n][r] # c
  PROVE  IInv'
<1>1. /\ UNCHANGED <<client, server, loop, active, shown, wasActive, acceptedBy, declinedBy>>
      /\ \A d \in Conn, q \in Node :
           ep'[d][q] = ep[d][q] \/ (d = c /\ q = n /\ ep'[d][q] \in {"closed", "leaked"}
                                    /\ (ep'[d][q] = "leaked" => ep[c][n] = "shaking"))
  <2>1. /\ ep \in [Conn -> [Node -> EndState]]
        /\ UNCHANGED <<client, server, loop, active, shown, wasActive, acceptedBy, declinedBy>>
    BY DEF IInv, Types, history
  <2>2. QED
    BY <2>1 DEF ClosesEnd
<1>2. /\ \A d \in Conn, q \in Node :
           chan'[d][q] = IF d = c /\ q = n THEN chan'[c][n] ELSE chan[d][q]
      /\ chan[c][n] = <<>> => chan'[c][n] = <<>>
      /\ chan'[c][n] = chan[c][n] \/ ~ Has(chan'[c][n], ConnectRequest)
      /\ Has(chan'[c][n], ConnectAccept) => Has(chan[c][n], ConnectAccept)
      /\ Has(chan[c][n], ConnectAccept) => Has(chan'[c][n], ConnectAccept)
  <2>1. CASE chan' = chan
    BY <2>1
  <2>2. CASE /\ chan[c][n] # <<>> /\ Head(chan[c][n]) # ConnectAccept
             /\ chan' = [chan EXCEPT ![c][n] = Tail(@)]
    <3>1. \A d \in Conn, q \in Node :
            chan'[d][q] = IF d = c /\ q = n THEN Tail(chan[c][n]) ELSE chan[d][q]
      BY <2>2, SMTT(40) DEF IInv, Types
    <3>2. QED
      BY <2>2, <3>1, Read
  <2>3. QED
    BY <2>1, <2>2 DEF MayRead
<1>3. Exclusive' /\ ShownIsListed' /\ Listed' /\ Undecided'
  BY <1>1 DEF IInv, Exclusive, ShownIsListed, Listed, Undecided
<1>4. PendingEnds' /\ Declined'
  BY <1>1, Members, SMTT(40) DEF IInv, PendingEnds, Between, Declined
<1>5. Fresh' /\ Ends'
  BY <1>1, <1>2, Members DEF IInv, Fresh, Ends
<1>6. Unsent'
  BY <1>1, <1>2, Members DEF IInv, Unsent, Ends
<1>7. Unanswered'
  BY <1>1, <1>2, Members DEF IInv, Unsent, Unanswered, Ends
<1>8. RequestFirst'
  BY <1>1, <1>2, Members DEF IInv, RequestFirst
<1>9. AcceptSent'
  BY <1>1, <1>2, Members DEF IInv, AcceptSent, Remote
<1>10. Agree'
  BY <1>1, <1>2, Members, SMTT(40) DEF IInv, Agree, Remote
<1>11. QED
  BY <1>3, <1>4, <1>5, <1>6, <1>7, <1>8, <1>9, <1>10 DEF IInv

\* _accept gives up in the handshake.
LEMMA RespondFailsInv ==
  ASSUME IInv, NEW c \in Conn, NEW m \in Node, RespondFails(c, m)
  PROVE  IInv'
<1>1. Types'
  BY DEF RespondFails, IInv, Types, EndState, tables, nodes, history
<1>2. ep[c][m] = "shaking" /\ \A r \in Node : pending[m][r] # c
  BY Members DEF RespondFails, IInv, PendingEnds
<1>3. QED
  BY <1>1, <1>2, EndCloses DEF ClosesEnd, MayRead, RespondFails, tables

\* connect gives up in the handshake.
LEMMA InitiateFailsInv ==
  ASSUME IInv, NEW c \in Conn, NEW n \in Node, InitiateFails(c, n)
  PROVE  IInv'
<1>1. Types'
  BY DEF InitiateFails, DialEnded, IInv, Types, EndState, tables, nodes, history
<1>2. ep[c][n] = "shaking" /\ \A r \in Node : pending[n][r] # c
  BY Members DEF InitiateFails, IInv, PendingEnds
<1>3. QED
  BY <1>1, <1>2, EndCloses DEF ClosesEnd, MayRead, InitiateFails, tables

\* An end that connect left open is collected.
LEMMA CollectInv ==
  ASSUME IInv, NEW c \in Conn, NEW n \in Node, Collect(c, n)
  PROVE  IInv'
<1>1. Types'
  BY DEF Collect, IInv, Types, EndState, tables, nodes, history
<1>2. ep[c][n] = "leaked" /\ \A r \in Node : pending[n][r] # c
  BY Members DEF Collect, IInv, PendingEnds
<1>3. QED
  BY <1>1, <1>2, EndCloses DEF ClosesEnd, MayRead, Collect, tables

\* connect finds an active session with the peer.
LEMMA AlreadyActiveInv ==
  ASSUME IInv, NEW c \in Conn, NEW n \in Node, AlreadyActive(c, n)
  PROVE  IInv'
<1>1. chan[c][n] # <<>> /\ ep[c][n] = "shaking" /\ client[c] = n
  BY DEF AlreadyActive, Replied
<1>2. Head(chan[c][n]) # ConnectAccept
  BY <1>1, Read, Members DEF IInv, Unsent, AcceptSent
<1>3. \A r \in Node : pending[n][r] # c
  BY <1>1, Members DEF IInv, PendingEnds
<1>4. Types'
  BY <1>1, Read DEF AlreadyActive, Replied, DialEnded, IInv, Types, EndState, tables, nodes, history
<1>5. QED
  BY <1>1, <1>2, <1>3, <1>4, EndCloses DEF ClosesEnd, MayRead, AlreadyActive, tables

\* connect makes the session pending and sends the request.
LEMMA RequestInv ==
  ASSUME IInv, NEW c \in Conn, NEW n \in Node, NEW p, p = server[c], Request(c, n)
  PROVE  IInv'
<1>1. /\ client[c] = n /\ ep[c][n] = "shaking" /\ ep[c][p] # "shaking"
      /\ p \in Node /\ p # n /\ Remote(c, n) = p
      /\ chan[c][p] = <<>> /\ wasActive[c] = {} /\ declinedBy[c] = {}
      /\ \A q, r \in Node : pending[q][r] # c
      /\ Tail(chan[c][n]) \in Seq(Message)
      /\ ~ Has(Tail(chan[c][n]), ConnectRequest)
      /\ ~ Has(Tail(chan[c][n]), ConnectAccept)
  BY RepliedFacts DEF Request
<1>2. /\ Append(<<>>, ConnectRequest) = <<ConnectRequest>>
      /\ <<ConnectRequest>> \in Seq(Message)
      /\ OnlyFirst(<<ConnectRequest>>, ConnectRequest)
      /\ ~ Has(<<ConnectRequest>>, ConnectAccept)
  BY Kinds DEF Has, OnlyFirst
<1>3. active[n][p] = None
  BY DEF Request
<1>4. /\ UNCHANGED <<client, server, active, shown, wasActive, acceptedBy, declinedBy>>
      /\ \A d \in Conn, q \in Node :
           /\ chan'[d][q] = IF d = c /\ q = n THEN Tail(chan[c][n])
                             ELSE IF d = c /\ q = p THEN <<ConnectRequest>> ELSE chan[d][q]
           /\ ep'[d][q] = IF d = c /\ q = n THEN "open"
                           ELSE IF d = pending[n][p] /\ q = n THEN "closed" ELSE ep[d][q]
           /\ loop'[d][q] = IF d = c /\ q = n THEN "on" ELSE loop[d][q]
      /\ \A q, r \in Node : pending'[q][r] = IF q = n /\ r = p THEN c ELSE pending[q][r]
  BY <1>1, <1>2, ZenonT(60) DEF Request, BecomesPending, IInv, Types, nodes
<1>5. Types'
  <2>1. chan' \in [Conn -> [Node -> Seq(Message)]]
    <3>1. chan \in [Conn -> [Node -> Seq(Message)]]
      BY DEF IInv, Types
    <3>2. chan' = [chan EXCEPT ![c][n] = Tail(@), ![c][p] = Append(@, ConnectRequest)]
      BY DEF Request
    <3>3. Append(chan[c][p], ConnectRequest) \in Seq(Message)
      BY <1>1, <1>2
    <3>4. QED
      BY <1>1, <3>1, <3>2, <3>3
  <2>2. ep' \in [Conn -> [Node -> EndState]]
    BY DEF Request, BecomesPending, IInv, Types, EndState
  <2>3. QED
    BY <1>1, <2>1, <2>2 DEF Request, Replied, DialEnded, BecomesPending, IInv, Types, nodes
<1>6. Exclusive' /\ ShownIsListed' /\ Listed'
  BY <1>1, <1>3, <1>4, Members DEF IInv, Exclusive, ShownIsListed, Listed
<1>7. PendingEnds'
  BY <1>1, <1>4, Members, SMTT(40) DEF IInv, PendingEnds, Between
<1>8. Undecided' /\ Declined'
  BY <1>1, <1>4, Members DEF IInv, Undecided, Declined
<1>9. Fresh' /\ Ends'
  BY <1>1, <1>4, Members, SMTT(20) DEF IInv, Fresh, Ends, PendingEnds
<1>10. Unsent' /\ Unanswered'
  <2>1. Unsent'
    BY <1>1, <1>4, Members, SMTT(20) DEF IInv, Unsent, Ends
  <2>2. Unanswered'
    BY <1>1, <1>4, Members DEF IInv, Unanswered, Ends
  <2>3. QED
    BY <2>1, <2>2
<1>11. RequestFirst'
  BY <1>1, <1>2, <1>4, Members DEF IInv, RequestFirst
<1>12. AcceptSent' /\ Agree'
  BY <1>1, <1>2, <1>4, Members, SMTT(60) DEF IInv, AcceptSent, Agree, Remote
<1>13. QED
  BY <1>5, <1>6, <1>7, <1>8, <1>9, <1>10, <1>11, <1>12 DEF IInv

\* connect makes the session pending and the request is not sent.
LEMMA RequestFailsInv ==
  ASSUME IInv, NEW c \in Conn, NEW n \in Node, NEW p, p = server[c], RequestFails(c, n)
  PROVE  IInv'
<1>1. /\ client[c] = n /\ ep[c][n] = "shaking" /\ ep[c][p] # "shaking"
      /\ p \in Node /\ p # n /\ Remote(c, n) = p
      /\ wasActive[c] = {} /\ declinedBy[c] = {}
      /\ \A q, r \in Node : pending[q][r] # c
      /\ Tail(chan[c][n]) \in Seq(Message)
      /\ ~ Has(Tail(chan[c][n]), ConnectRequest)
      /\ ~ Has(Tail(chan[c][n]), ConnectAccept)
  BY RepliedFacts DEF RequestFails
<1>2. active[n][p] = None
  BY DEF RequestFails
<1>3. /\ UNCHANGED <<client, server, loop, active, shown, wasActive, acceptedBy, declinedBy>>
      /\ \A d \in Conn, q \in Node :
           /\ chan'[d][q] = IF d = c /\ q = n THEN Tail(chan[c][n]) ELSE chan[d][q]
           /\ ep'[d][q] = IF d = c /\ q = n THEN "open"
                           ELSE IF d = pending[n][p] /\ q = n THEN "closed" ELSE ep[d][q]
      /\ \A q, r \in Node : pending'[q][r] = IF q = n /\ r = p THEN c ELSE pending[q][r]
  BY <1>1 DEF RequestFails, BecomesPending, IInv, Types, nodes
<1>4. Types'
  BY <1>1 DEF RequestFails, Replied, DialEnded, BecomesPending, IInv, Types, EndState, nodes
<1>5. Exclusive' /\ ShownIsListed' /\ Listed'
  BY <1>1, <1>2, <1>3, Members DEF IInv, Exclusive, ShownIsListed, Listed
<1>6. PendingEnds'
  BY <1>1, <1>3, Members, SMTT(20) DEF IInv, PendingEnds, Between
<1>7. Undecided' /\ Declined'
  BY <1>1, <1>3, Members DEF IInv, Undecided, Declined
<1>8. Fresh' /\ Ends'
  BY <1>1, <1>3, Members, SMTT(20) DEF IInv, Fresh, Ends, PendingEnds
<1>9. Unsent' /\ Unanswered'
  <2>1. Unsent'
    BY <1>1, <1>3, Members, SMTT(40) DEF IInv, Unsent, Ends
  <2>2. Unanswered'
    BY <1>1, <1>3, Members DEF IInv, Unanswered, Ends
  <2>3. QED
    BY <2>1, <2>2
<1>10. RequestFirst'
  BY <1>1, <1>3, Members DEF IInv, RequestFirst
<1>11. AcceptSent' /\ Agree'
  BY <1>1, <1>3, Members DEF IInv, AcceptSent, Agree, Remote
<1>12. QED
  BY <1>4, <1>5, <1>6, <1>7, <1>8, <1>9, <1>10, <1>11 DEF IInv

-----------------------------------------------------------------------------
(* The steps of the receive loop *)

\* A request of a peer with an active session closes the connection.
LEMMA ReceiveRequestAgainInv ==
  ASSUME IInv, NEW c \in Conn, NEW n \in Node, ReceiveRequestAgain(c, n)
  PROVE  IInv'
<1>1. chan[c][n] # <<>> /\ ep[c][n] = "open" /\ Head(chan[c][n]) = ConnectRequest
  BY DEF ReceiveRequestAgain, Arrived
<1>2. Head(chan[c][n]) # ConnectAccept
  BY <1>1, Kinds
<1>3. \A r \in Node : pending[n][r] # c
  BY <1>1, Read DEF IInv, RequestFirst
<1>4. Types'
  BY <1>1, Read DEF ReceiveRequestAgain, IInv, Types, EndState, tables, nodes, history
<1>5. QED
  BY <1>1, <1>2, <1>3, <1>4, EndCloses DEF ClosesEnd, MayRead, ReceiveRequestAgain, tables

\* A request makes the session pending and closes an older pending one.
LEMMA ReceiveRequestInv ==
  ASSUME IInv, NEW c \in Conn, NEW n \in Node, NEW p, p = Remote(c, n),
         ReceiveRequest(c, n)
  PROVE  IInv'
<1>1. /\ ep[c][n] = "open" /\ chan[c][n] # <<>>
      /\ Head(chan[c][n]) = ConnectRequest
      /\ active[n][p] = None
  BY DEF ReceiveRequest, Arrived
<1>2. /\ p \in Node /\ p # n /\ Remote(c, p) = n /\ Between(c, n, p)
  BY <1>1, Peer
<1>3. /\ Has(chan[c][n], ConnectRequest)
      /\ ~ Has(Tail(chan[c][n]), ConnectRequest)
      /\ Has(Tail(chan[c][n]), ConnectAccept) => Has(chan[c][n], ConnectAccept)
      /\ Has(chan[c][n], ConnectAccept) => Has(Tail(chan[c][n]), ConnectAccept)
      /\ Tail(chan[c][n]) \in Seq(Message)
  BY <1>1, Read, Kinds
<1>4. /\ UNCHANGED <<client, server, loop, active, dialing, route, up, exits, wasActive, acceptedBy, declinedBy>>
      /\ \A d \in Conn, q \in Node :
           /\ chan'[d][q] = IF d = c /\ q = n THEN Tail(chan[c][n]) ELSE chan[d][q]
           /\ ep'[d][q] = IF d = c /\ q = n THEN "open"
                           ELSE IF d = pending[n][p] /\ q = n THEN "closed" ELSE ep[d][q]
      /\ \A q, r \in Node :
           /\ pending'[q][r] = IF q = n /\ r = p THEN c ELSE pending[q][r]
           /\ shown'[q][r] = IF q = n /\ r = p THEN "request" ELSE shown[q][r]
  BY <1>2 DEF ReceiveRequest, BecomesPending, IInv, Types, nodes
<1>5. Types'
  BY <1>1, <1>2, <1>3 DEF IInv, Types, ReceiveRequest, BecomesPending, EndState, Shown, nodes
<1>6. Exclusive' /\ ShownIsListed' /\ Listed'
  BY <1>1, <1>2, <1>4, Members DEF IInv, Exclusive, ShownIsListed, Listed
<1>7. PendingEnds'
  BY <1>1, <1>2, <1>3, <1>4, Members, SMTT(20) DEF IInv, PendingEnds, Between, RequestFirst
<1>8. Undecided'
  BY <1>1, <1>2, <1>3, <1>4, Members DEF IInv, Undecided, RequestFirst
<1>9. RequestFirst'
  BY <1>1, <1>2, <1>3, <1>4, Members DEF IInv, RequestFirst
<1>10. AcceptSent'
  BY <1>1, <1>2, <1>3, <1>4, Members DEF IInv, AcceptSent, Remote
<1>11. Agree'
  BY <1>1, <1>2, <1>3, <1>4, Members, SMTT(20) DEF IInv, Agree, Remote
<1>12. Fresh' /\ Ends'
  BY <1>1, <1>2, <1>3, <1>4, Members, SMTT(20) DEF IInv, Fresh, Ends, PendingEnds, Between
<1>13. Unsent' /\ Unanswered'
  BY <1>1, <1>2, <1>3, <1>4, Members, SMTT(60) DEF IInv, Unsent, Unanswered, Ends, PendingEnds, Between
<1>14. Declined'
  BY <1>1, <1>2, <1>3, <1>4, Members DEF IInv, Declined, PendingEnds
<1>15. QED
  BY <1>5, <1>6, <1>7, <1>8, <1>9, <1>10, <1>11, <1>12, <1>13, <1>14 DEF IInv

\* An acceptance makes the session active; the other end is active already.
LEMMA ReceiveAcceptInv ==
  ASSUME IInv, NEW c \in Conn, NEW n \in Node, NEW p, p = Remote(c, n), ReceiveAccept(c, n)
  PROVE  IInv'
<1>1. /\ ep[c][n] = "open" /\ chan[c][n] # <<>> /\ Head(chan[c][n]) = ConnectAccept
  BY DEF ReceiveAccept, Arrived
<1>2. /\ client[c] \in Node /\ p \in Node /\ p # n /\ Remote(c, p) = n /\ Between(c, n, p)
  BY <1>1, Peer
<1>3. /\ p \in wasActive[c]
      /\ Tail(chan[c][n]) \in Seq(Message) /\ ~ Has(Tail(chan[c][n]), ConnectRequest)
  BY <1>1, <1>2, Read DEF IInv, AcceptSent
<1>4. /\ ~ Has(chan[c][p], ConnectRequest)
      /\ \A q, r \in Node : pending[q][r] = c /\ q = n => r = p
      /\ n \notin declinedBy[c]
      /\ ep[c][client[c]] # "shaking" /\ ep[c][server[c]] # "shaking"
  BY <1>1, <1>2, <1>3, Members DEF IInv, RequestFirst, PendingEnds, Between, Unsent, Unanswered, Declined
<1>5. chan[c][p] \in Seq(Message)
  BY <1>2 DEF IInv, Types
<1>6. PICK t : t = chan[c][p] \o PostHandshake(n, p)
  OBVIOUS
<1>7. /\ t \in Seq(Message) /\ ~ Has(t, ConnectRequest)
      /\ Has(t, ConnectAccept) => Has(chan[c][p], ConnectAccept)
  BY <1>2, <1>4, <1>5, <1>6, Announcements, ConcatHas
<1>8. chan' = [chan EXCEPT ![c][n] = Tail(chan[c][n]), ![c][p] = t]
  BY <1>2, <1>6 DEF ReceiveAccept
<1>9. chan' \in [Conn -> [Node -> Seq(Message)]]
  <2>1. chan \in [Conn -> [Node -> Seq(Message)]]
    BY DEF IInv, Types
  <2>2. QED
    BY <1>2, <1>3, <1>7, <1>8, <2>1
<1>10. \A d \in Conn, q \in Node :
        chan'[d][q] = IF d = c /\ q = n THEN Tail(chan[c][n])
                      ELSE IF d = c /\ q = p THEN t ELSE chan[d][q]
  BY <1>2, <1>8 DEF IInv, Types
<1>11. /\ UNCHANGED <<client, server, ep, loop, acceptedBy, declinedBy>>
      /\ \A q, r \in Node :
           /\ active'[q][r] = IF q = n /\ r = p THEN c ELSE active[q][r]
           /\ pending'[q][r] = IF q = n /\ r = p THEN None ELSE pending[q][r]
           /\ shown'[q][r] = IF q = n /\ r = p THEN "connected" ELSE shown[q][r]
      /\ \A d \in Conn :
           wasActive'[d] = IF d = c THEN wasActive[c] \cup {n} ELSE wasActive[d]
  BY <1>2 DEF ReceiveAccept, Activate, IInv, Types, nodes
<1>12. Types'
  <2>1. /\ active' \in [Node -> [Node -> Conn \cup {None, RelayOut, RelayIn}]]
        /\ pending' \in [Node -> [Node -> Conn \cup {None}]]
        /\ wasActive' \in [Conn -> SUBSET Node]
    BY <1>2 DEF ReceiveAccept, Activate, IInv, Types
  <2>2. /\ route' \in [Node -> [Node -> RouteKind]]
        /\ shown' \in [Node -> [Node -> Shown]]
    BY <1>2 DEF ReceiveAccept, Activate, AddressKind, IInv, Types, RouteKind, Published, Shown
  <2>3. QED
    BY <1>9, <2>1, <2>2 DEF ReceiveAccept, IInv, Types, nodes
<1>13. Exclusive' /\ ShownIsListed' /\ Listed'
  BY <1>2, <1>11, Members, SMTT(20) DEF IInv, Exclusive, ShownIsListed, Listed
<1>14. PendingEnds' /\ Undecided' /\ Declined'
  BY <1>2, <1>4, <1>11, Members, SMTT(20) DEF IInv, PendingEnds, Between, Undecided, Declined
<1>15. Fresh' /\ Ends'
  BY <1>2, <1>10, <1>11, Members DEF IInv, Fresh, Ends
<1>16. Unsent' /\ Unanswered'
  <2>1. Unsent'
    BY <1>2, <1>4, <1>10, <1>11, Members, SMTT(40) DEF IInv, Unsent, Ends
  <2>2. Unanswered'
    BY <1>2, <1>4, <1>10, <1>11, Members DEF IInv, Unanswered, Ends
  <2>3. QED
    BY <2>1, <2>2
<1>17. RequestFirst'
  BY <1>2, <1>3, <1>4, <1>7, <1>10, <1>11, Members DEF IInv, RequestFirst
<1>18. AcceptSent'
  <2>1. Has(t, ConnectAccept) => n \in wasActive[c]
    BY <1>2, <1>7 DEF IInv, AcceptSent
  <2>2. QED
    BY <1>2, <1>3, <1>10, <1>11, <2>1 DEF IInv, AcceptSent, Remote
<1>19. Agree'
  BY <1>2, <1>3, <1>10, <1>11, Members, SMTT(20) DEF IInv, Agree, Remote
<1>20. QED
  BY <1>12, <1>13, <1>14, <1>15, <1>16, <1>17, <1>18, <1>19 DEF IInv

\* A refusal closes the connection and drops the pending session.
LEMMA ReceiveDeclineInv ==
  ASSUME IInv, NEW c \in Conn, NEW n \in Node, ReceiveDecline(c, n)
  PROVE  IInv'
<1>1. chan[c][n] # <<>> /\ ep[c][n] = "open" /\ Head(chan[c][n]) = ConnectDecline
  BY DEF ReceiveDecline, Arrived
<1>2. Head(chan[c][n]) # ConnectAccept
  BY <1>1, Kinds
<1>3. \A q, r \in Node :
        pending'[q][r] = IF q = n /\ r = Remote(c, n) THEN None ELSE pending[q][r]
  BY <1>1, Peer DEF ReceiveDecline, TurnDown, IInv, Types
<1>4. \A r \in Node : pending[n][r] = c => r = Remote(c, n)
  BY <1>1, Peer, Members DEF IInv, PendingEnds, Between, Remote
<1>5. Types'
  BY <1>1, Peer, Read DEF ReceiveDecline, TurnDown, IInv, Types, EndState, nodes, history
<1>6. /\ \A q, r \in Node : pending'[q][r] \in {pending[q][r], None}
      /\ \A r \in Node : pending'[n][r] # c
  BY <1>3, <1>4, Members
<1>7. QED
  BY <1>1, <1>2, <1>5, <1>6, EndCloses DEF ClosesEnd, MayRead, ReceiveDecline, TurnDown

\* A peer list leaves routes of the kinds that there are.
LEMMA RoutesAdded ==
  ASSUME IInv, NEW n \in Node, NEW ks \in [Node -> Published], AddRoutes(n, ks)
  PROVE  route' \in [Node -> [Node -> RouteKind]]
<1>1. [p \in Node |-> IF ks[p] = "none" THEN route[n][p] ELSE ks[p]] \in [Node -> RouteKind]
  BY DEF IInv, Types, RouteKind
<1>2. QED
  BY <1>1 DEF AddRoutes, IInv, Types

\* A peer list changes routes only.
LEMMA ReceivePeerListInv ==
  ASSUME IInv, NEW c \in Conn, NEW n \in Node, ReceivePeerList(c, n)
  PROVE  IInv'
<1>1. PICK ks \in [Node -> Published] :
        /\ Arrived(c, n, PeerList(ks))
        /\ chan' = [chan EXCEPT ![c][n] = Tail(@)]
        /\ AddRoutes(n, ks)
        /\ UNCHANGED <<client, server, ep, loop, tables, dialing, shown, nodes, history>>
  BY DEF ReceivePeerList
<1>2. /\ ep[c][n] = "open" /\ chan[c][n] # <<>> /\ Head(chan[c][n]) # ConnectAccept
  BY <1>1, Kinds DEF Arrived
<1>3. /\ Tail(chan[c][n]) \in Seq(Message) /\ ~ Has(Tail(chan[c][n]), ConnectRequest)
      /\ Has(Tail(chan[c][n]), ConnectAccept) => Has(chan[c][n], ConnectAccept)
      /\ Has(chan[c][n], ConnectAccept) => Has(Tail(chan[c][n]), ConnectAccept)
  BY <1>2, Read
<1>4. /\ UNCHANGED <<client, server, ep, loop, active, pending, shown, acceptedBy,
                     declinedBy, wasActive>>
      /\ \A d \in Conn, q \in Node :
           chan'[d][q] = IF d = c /\ q = n THEN Tail(chan[c][n]) ELSE chan[d][q]
  BY <1>1 DEF IInv, Types, tables, history
<1>5. Types'
  <2>1. chan' \in [Conn -> [Node -> Seq(Message)]]
    BY <1>1, <1>3 DEF IInv, Types
  <2>2. route' \in [Node -> [Node -> RouteKind]]
    BY <1>1, RoutesAdded
  <2>3. QED
    BY <1>1, <2>1, <2>2 DEF IInv, Types, tables, nodes, history
<1>6. /\ Exclusive' /\ ShownIsListed' /\ Listed'
      /\ PendingEnds' /\ Undecided' /\ Declined' /\ Ends'
  BY <1>4 DEF IInv, Exclusive, ShownIsListed, Listed, PendingEnds, Between,
              Undecided, Declined, Ends
<1>7. Fresh' /\ Unsent' /\ Unanswered'
  BY <1>2, <1>4, Members DEF IInv, Fresh, Unsent, Unanswered, Ends
<1>8. RequestFirst' /\ AcceptSent'
  BY <1>3, <1>4 DEF IInv, RequestFirst, AcceptSent, Remote
<1>9. Agree'
  BY <1>3, <1>4, Members DEF IInv, Agree, Remote
<1>10. QED
  BY <1>5, <1>6, <1>7, <1>8, <1>9 DEF IInv

\* The end of a receive loop drops the sessions with the peer.
LEMMA LoopExitInv ==
  ASSUME IInv, NEW c \in Conn, NEW n \in Node, NEW p, p = Remote(c, n), LoopExit(c, n)
  PROVE  IInv'
<1>1. loop[c][n] = "on" /\ ep[c][n] # "none"
  BY DEF LoopExit, IInv, Ends
<1>2. /\ client[c] \in Node /\ p \in Node /\ p # n /\ Between(c, n, p)
      /\ \A r \in Node : pending[n][r] = c => r = p
  <2>1. client[c] \in Node /\ p \in Node /\ p # n /\ Between(c, n, p)
    BY <1>1, Peer
  <2>2. QED
    BY <2>1, Members DEF IInv, PendingEnds, Between
<1>3. \A d \in Conn, q \in Node :
        chan'[d][q] = IF d = c /\ ep[c][p] = "closed" THEN <<>> ELSE chan[d][q]
  BY DEF LoopExit, Drained, IInv, Types
<1>4. chan' \in [Conn -> [Node -> Seq(Message)]]
  BY DEF LoopExit, Drained, IInv, Types
<1>5. /\ UNCHANGED <<client, server, acceptedBy, declinedBy, wasActive>>
      /\ \A d \in Conn, q \in Node :
           /\ ep'[d][q] = IF d = c /\ q = n THEN "closed" ELSE ep[d][q]
           /\ loop'[d][q] = IF d = c /\ q = n THEN "done" ELSE loop[d][q]
      /\ \A q, r \in Node :
           /\ active'[q][r] = IF q = n /\ r = p THEN None ELSE active[q][r]
           /\ pending'[q][r] = IF q = n /\ r = p THEN None ELSE pending[q][r]
           /\ shown'[q][r] = IF q = n /\ r = p THEN "disconnected" ELSE shown[q][r]
  BY <1>2 DEF LoopExit, Drop, IInv, Types, history
<1>6. Types'
  <2>1. /\ active' \in [Node -> [Node -> Conn \cup {None, RelayOut, RelayIn}]]
        /\ pending' \in [Node -> [Node -> Conn \cup {None}]]
        /\ shown' \in [Node -> [Node -> Shown]]
    BY DEF LoopExit, Drop, IInv, Types, Shown
  <2>2. /\ ep' \in [Conn -> [Node -> EndState]]
        /\ loop' \in [Conn -> [Node -> {"off", "on", "done"}]]
    BY DEF LoopExit, IInv, Types, EndState
  <2>3. QED
    BY <1>4, <2>1, <2>2 DEF LoopExit, IInv, Types, nodes, history
<1>7. Exclusive' /\ ShownIsListed' /\ Listed'
  BY <1>5, Members, SMTT(20) DEF IInv, Exclusive, ShownIsListed, Listed
<1>8. PendingEnds' /\ Undecided' /\ Declined'
  BY <1>2, <1>5, Members, SMTT(20) DEF IInv, PendingEnds, Between, Undecided, Declined
<1>9. Fresh' /\ Ends'
  BY <1>1, <1>2, <1>3, <1>5, Members, SMTT(20) DEF IInv, Fresh, Ends
<1>10. Unsent'
  BY <1>3, <1>5, Members, SMTT(40) DEF IInv, Unsent, Ends
<1>11. Unanswered'
  BY <1>3, <1>5, Members DEF IInv, Unanswered, Ends
<1>12. RequestFirst' /\ AcceptSent'
  BY <1>3, <1>5, Nothing, Members DEF IInv, RequestFirst, AcceptSent, Remote
<1>13. Agree'
  BY <1>2, <1>3, <1>5, Members, SMTT(20) DEF IInv, Agree, Remote, Between
<1>14. QED
  BY <1>6, <1>7, <1>8, <1>9, <1>10, <1>11, <1>12, <1>13 DEF IInv

-----------------------------------------------------------------------------
(* The steps of sessions over the relay *)

\* A session over the relay that is entered, or a receive loop of one that
\* ends: the connections stay as they are, and the entries of one peer become
\* a session over the relay, or go away.
LEMMA RelayedEntry ==
  ASSUME IInv, Types', NEW n \in Node, NEW p \in Node,
         UNCHANGED <<conns, nodes, history>>,
         \A q, r \in Node : q # n \/ r # p =>
           /\ active'[q][r] = active[q][r] /\ pending'[q][r] = pending[q][r]
           /\ shown'[q][r] = shown[q][r],
         active'[n][p] \in {None, RelayOut, RelayIn},
         pending'[n][p] \in {None, pending[n][p]},
         shown'[n][p] = "connected" => active'[n][p] # None
  PROVE  IInv'
<1>1. /\ UNCHANGED <<client, server, ep, loop, chan>>
      /\ UNCHANGED <<acceptedBy, declinedBy, wasActive>>
  BY DEF conns, history
<1>2. /\ \A q, r \in Node : active'[q][r] \in Conn => active'[q][r] = active[q][r]
      /\ \A q, r \in Node : pending'[q][r] # None => pending'[q][r] = pending[q][r]
  BY Members
<1>3. Exclusive' /\ ShownIsListed' /\ Listed'
  BY <1>1, <1>2, Members DEF IInv, Exclusive, ShownIsListed, Listed
<1>4. PendingEnds' /\ Undecided'
  BY <1>1, <1>2, Members DEF IInv, PendingEnds, Between, Undecided
<1>5. Unsent' /\ RequestFirst'
  BY <1>1, <1>2, Members DEF IInv, Unsent, RequestFirst
<1>6. Agree' /\ Fresh' /\ Ends' /\ Unanswered' /\ AcceptSent' /\ Declined'
  BY <1>1 DEF IInv, Agree, Fresh, Ends, Unanswered, AcceptSent, Declined, Remote
<1>7. QED
  BY <1>3, <1>4, <1>5, <1>6 DEF IInv

LEMMA RelayInv ==
  ASSUME IInv, NEW n \in Node, NEW p \in Node, Relay(n, p)
  PROVE  IInv'
<1>1. ASSUME NEW x \in {RelayOut, RelayIn}, Enters(n, p, x)
      PROVE  IInv'
  <2>1. Types'
    <3>1. relayed[n][p] + 1 \in 0 .. MaxRelayed
      BY <1>1, SessionsAssumption DEF Enters, IInv, Types
    <3>2. /\ active' \in [Node -> [Node -> Conn \cup {None, RelayOut, RelayIn}]]
          /\ relayed' \in [Node -> [Node -> 0 .. MaxRelayed]]
          /\ shown' \in [Node -> [Node -> Shown]]
      BY <1>1, <3>1 DEF Enters, IInv, Types, Shown
    <3>3. QED
      BY <1>1, <3>2 DEF Enters, IInv, Types, conns, nodes, history
  <2>2. \A q, r \in Node :
          /\ active'[q][r] = IF q = n /\ r = p THEN x ELSE active[q][r]
          /\ pending'[q][r] = pending[q][r]
          /\ shown'[q][r] = IF q = n /\ r = p THEN "connected" ELSE shown[q][r]
    BY <1>1 DEF Enters, IInv, Types
  <2>3. QED
    BY <1>1, <2>1, <2>2, Members, RelayedEntry DEF Enters
<1>2. CASE RelayPeerList(n, p)
  <2>1. PICK ks \in [Node -> Published] : AddRoutes(n, ks)
    BY <1>2 DEF RelayPeerList
  <2>2. route' \in [Node -> [Node -> RouteKind]]
    BY <2>1, RoutesAdded
  <2>3. UNCHANGED <<conns, tables, dialing, shown, nodes, history>>
    BY <1>2 DEF RelayPeerList
  <2>4. Types'
    BY <2>2, <2>3 DEF IInv, Types, conns, tables, nodes, history
  <2>5. /\ UNCHANGED <<client, server, ep, loop, chan>> /\ UNCHANGED <<active, pending, shown>>
        /\ UNCHANGED <<acceptedBy, declinedBy, wasActive>>
    BY <2>3 DEF conns, tables, history
  <2>6. /\ Exclusive' /\ PendingEnds' /\ ShownIsListed' /\ Agree'
        /\ Fresh' /\ Ends' /\ Unsent' /\ Unanswered' /\ RequestFirst' /\ AcceptSent'
        /\ Listed' /\ Undecided' /\ Declined'
    BY <2>5 DEF IInv, Exclusive, PendingEnds, Between, ShownIsListed, Agree,
                Fresh, Ends, Unsent, Unanswered, RequestFirst, AcceptSent, Remote,
                Listed, Undecided, Declined
  <2>7. QED
    BY <2>4, <2>6 DEF IInv
<1>3. CASE RelayLoopExit(n, p)
  <2>1. Types'
    <3>1. relayed[n][p] - 1 \in 0 .. MaxRelayed
      BY <1>3, SessionsAssumption DEF RelayLoopExit, IInv, Types
    <3>2. /\ active' \in [Node -> [Node -> Conn \cup {None, RelayOut, RelayIn}]]
          /\ pending' \in [Node -> [Node -> Conn \cup {None}]]
          /\ relayed' \in [Node -> [Node -> 0 .. MaxRelayed]]
          /\ shown' \in [Node -> [Node -> Shown]]
      BY <1>3, <3>1 DEF RelayLoopExit, Drop, IInv, Types, Shown
    <3>3. QED
      BY <1>3, <3>2 DEF RelayLoopExit, IInv, Types, conns, nodes, history
  <2>2. \A q, r \in Node :
          /\ active'[q][r] = IF q = n /\ r = p THEN None ELSE active[q][r]
          /\ pending'[q][r] = IF q = n /\ r = p THEN None ELSE pending[q][r]
          /\ shown'[q][r] = IF q = n /\ r = p THEN "disconnected" ELSE shown[q][r]
    BY <1>3 DEF RelayLoopExit, Drop, IInv, Types
  <2>3. UNCHANGED <<conns, nodes, history>>
    BY <1>3 DEF RelayLoopExit
  <2>4. QED
    BY <2>1, <2>2, <2>3, RelayedEntry
<1>4. QED
  BY <1>1, <1>2, <1>3 DEF Relay, RelayConnected, RelayAnswered

-----------------------------------------------------------------------------
(* The steps of users and processes *)

\* /accept makes the session active and announces it.
LEMMA UserAcceptsInv ==
  ASSUME IInv, NEW n \in Node, NEW p \in Node, NEW c \in Conn, UserAccepts(n, p, c)
  PROVE  IInv'
<1>1. pending[n][p] = c
  BY DEF UserAccepts
<1>2. /\ ep[c][n] = "open" /\ Between(c, n, p)
      /\ client[c] \in Node /\ p # n /\ Remote(c, n) = p /\ Remote(c, p) = n
      /\ n \notin declinedBy[c]
      /\ chan[c][p] \in Seq(Message)
      /\ ~ Has(chan[c][n], ConnectRequest)
      /\ \A r \in Node : pending[n][r] = c => r = p
      /\ ep[c][client[c]] # "shaking" /\ ep[c][server[c]] # "shaking"
  BY <1>1, PendingFacts
<1>3. PICK t : t = chan[c][p] \o Acceptance(n, p)
  OBVIOUS
<1>4. /\ t \in Seq(Message) /\ Has(t, ConnectAccept)
      /\ Has(t, ConnectRequest) => Has(chan[c][p], ConnectRequest)
      /\ OnlyFirst(chan[c][p], ConnectRequest) => OnlyFirst(t, ConnectRequest)
  BY <1>2, <1>3, Announcements, ConcatHas
<1>5. chan' = [chan EXCEPT ![c][p] = t]
  BY <1>3 DEF UserAccepts
<1>6. chan' \in [Conn -> [Node -> Seq(Message)]]
  <2>1. chan \in [Conn -> [Node -> Seq(Message)]]
    BY DEF IInv, Types
  <2>2. QED
    BY <1>4, <1>5, <2>1
<1>7. \A d \in Conn, q \in Node :
        chan'[d][q] = IF d = c /\ q = p THEN t ELSE chan[d][q]
  BY <1>5 DEF IInv, Types
<1>8. /\ UNCHANGED <<client, server, ep, loop, declinedBy>>
      /\ \A q, r \in Node :
           /\ active'[q][r] = IF q = n /\ r = p THEN c ELSE active[q][r]
           /\ pending'[q][r] = IF q = n /\ r = p THEN None ELSE pending[q][r]
           /\ shown'[q][r] = IF q = n /\ r = p THEN "connected" ELSE shown[q][r]
      /\ \A d \in Conn :
           /\ wasActive'[d] = IF d = c THEN wasActive[c] \cup {n} ELSE wasActive[d]
           /\ acceptedBy'[d] = IF d = c THEN acceptedBy[c] \cup {n} ELSE acceptedBy[d]
  BY DEF UserAccepts, Activate, IInv, Types, nodes
<1>9. Types'
  <2>1. /\ active' \in [Node -> [Node -> Conn \cup {None, RelayOut, RelayIn}]]
        /\ pending' \in [Node -> [Node -> Conn \cup {None}]]
        /\ wasActive' \in [Conn -> SUBSET Node] /\ acceptedBy' \in [Conn -> SUBSET Node]
    BY DEF UserAccepts, Activate, IInv, Types
  <2>2. /\ route' \in [Node -> [Node -> RouteKind]]
        /\ shown' \in [Node -> [Node -> Shown]]
    BY DEF UserAccepts, Activate, AddressKind, IInv, Types, RouteKind, Published, Shown
  <2>3. QED
    BY <1>6, <2>1, <2>2 DEF UserAccepts, IInv, Types, nodes
<1>10. Exclusive' /\ ShownIsListed' /\ Listed'
  <2>1. Exclusive' /\ ShownIsListed'
    BY <1>8, Members DEF IInv, Exclusive, ShownIsListed
  <2>2. Listed'
    BY <1>8, Members DEF IInv, Listed
  <2>3. QED
    BY <2>1, <2>2
<1>11. PendingEnds' /\ Undecided' /\ Declined'
  BY <1>2, <1>8, Members, SMTT(20) DEF IInv, PendingEnds, Between, Undecided, Declined
<1>12. Fresh' /\ Ends'
  BY <1>2, <1>7, <1>8, Members, SMTT(20) DEF IInv, Fresh, Ends
<1>13. Unsent'
  BY <1>2, <1>7, <1>8, Members, SMTT(20) DEF IInv, Unsent, Ends
<1>14. Unanswered'
  BY <1>2, <1>7, <1>8, Members DEF IInv, Unanswered, Ends
<1>15. RequestFirst'
  BY <1>2, <1>4, <1>7, <1>8, Members, SMTT(60) DEF IInv, RequestFirst
<1>16. AcceptSent'
  BY <1>2, <1>7, <1>8 DEF IInv, AcceptSent, Remote
<1>17. Agree'
  BY <1>2, <1>4, <1>7, <1>8, Members, SMTT(20) DEF IInv, Agree, Remote
<1>18. QED
  BY <1>9, <1>10, <1>11, <1>12, <1>13, <1>14, <1>15, <1>16, <1>17 DEF IInv

\* /accept when the peer is gone: the session is active at this end alone.
LEMMA UserAcceptFailsInv ==
  ASSUME IInv, NEW n \in Node, NEW p \in Node, NEW c \in Conn, UserAcceptFails(n, p, c)
  PROVE  IInv'
<1>1. pending[n][p] = c /\ ep[c][p] = "closed"
  BY DEF UserAcceptFails
<1>2. /\ ep[c][n] = "open" /\ Between(c, n, p)
      /\ client[c] \in Node /\ p # n /\ Remote(c, n) = p /\ Remote(c, p) = n
      /\ n \notin declinedBy[c]
      /\ ~ Has(chan[c][n], ConnectRequest)
      /\ \A r \in Node : pending[n][r] = c => r = p
      /\ ep[c][client[c]] # "shaking" /\ ep[c][server[c]] # "shaking"
  BY <1>1, PendingFacts
<1>3. /\ UNCHANGED <<client, server, ep, loop, chan, shown, declinedBy>>
      /\ \A q, r \in Node :
           /\ active'[q][r] = IF q = n /\ r = p THEN c ELSE active[q][r]
           /\ pending'[q][r] = IF q = n /\ r = p THEN None ELSE pending[q][r]
      /\ \A d \in Conn :
           /\ wasActive'[d] = IF d = c THEN wasActive[c] \cup {n} ELSE wasActive[d]
           /\ acceptedBy'[d] = IF d = c THEN acceptedBy[c] \cup {n} ELSE acceptedBy[d]
  BY DEF UserAcceptFails, Activate, IInv, Types, nodes
<1>4. Types'
  <2>1. /\ active' \in [Node -> [Node -> Conn \cup {None, RelayOut, RelayIn}]]
        /\ pending' \in [Node -> [Node -> Conn \cup {None}]]
        /\ wasActive' \in [Conn -> SUBSET Node] /\ acceptedBy' \in [Conn -> SUBSET Node]
    BY DEF UserAcceptFails, Activate, IInv, Types
  <2>2. route' \in [Node -> [Node -> RouteKind]]
    BY DEF UserAcceptFails, Activate, AddressKind, IInv, Types, RouteKind, Published
  <2>3. QED
    BY <2>1, <2>2 DEF UserAcceptFails, IInv, Types, nodes
<1>5. Exclusive' /\ ShownIsListed' /\ Listed'
  <2>1. Exclusive' /\ ShownIsListed'
    BY <1>3, Members DEF IInv, Exclusive, ShownIsListed
  <2>2. Listed'
    BY <1>3, Members DEF IInv, Listed
  <2>3. QED
    BY <2>1, <2>2
<1>6. PendingEnds' /\ Undecided' /\ Declined'
  BY <1>2, <1>3, Members, SMTT(40) DEF IInv, PendingEnds, Between, Undecided, Declined
<1>7. Fresh' /\ Ends'
  BY <1>2, <1>3, Members DEF IInv, Fresh, Ends
<1>8. Unsent' /\ Unanswered'
  BY <1>2, <1>3, Members, SMTT(20) DEF IInv, Unsent, Unanswered, Ends
<1>9. RequestFirst'
  BY <1>2, <1>3, Members DEF IInv, RequestFirst
<1>10. AcceptSent'
  BY <1>3 DEF IInv, AcceptSent, Remote
<1>11. Agree'
  BY <1>1, <1>2, <1>3, Members DEF IInv, Agree, Remote
<1>12. QED
  BY <1>4, <1>5, <1>6, <1>7, <1>8, <1>9, <1>10, <1>11 DEF IInv

\* /decline drops the session, closes the end and announces it.
LEMMA UserDeclinesInv ==
  ASSUME IInv, NEW n \in Node, NEW p \in Node, NEW c \in Conn, UserDeclines(n, p, c)
  PROVE  IInv'
<1>1. pending[n][p] = c
  BY DEF UserDeclines
<1>2. /\ ep[c][n] = "open" /\ Between(c, n, p)
      /\ client[c] \in Node /\ p # n /\ Remote(c, n) = p /\ Remote(c, p) = n
      /\ n \notin wasActive[c]
      /\ chan[c][p] \in Seq(Message)
      /\ ~ Has(chan[c][n], ConnectRequest)
      /\ \A r \in Node : pending[n][r] = c => r = p
      /\ ep[c][client[c]] # "shaking" /\ ep[c][server[c]] # "shaking"
  BY <1>1, PendingFacts
<1>3. PICK t : t = Append(chan[c][p], ConnectDecline)
  OBVIOUS
<1>4. /\ t \in Seq(Message)
      /\ Has(t, ConnectRequest) => Has(chan[c][p], ConnectRequest)
      /\ OnlyFirst(chan[c][p], ConnectRequest) => OnlyFirst(t, ConnectRequest)
      /\ Has(t, ConnectAccept) => Has(chan[c][p], ConnectAccept)
      /\ Has(chan[c][p], ConnectAccept) => Has(t, ConnectAccept)
  BY <1>2, <1>3, Kinds, AppendHas
<1>5. chan' = [chan EXCEPT ![c][p] = t]
  BY <1>3 DEF UserDeclines
<1>6. chan' \in [Conn -> [Node -> Seq(Message)]]
  <2>1. chan \in [Conn -> [Node -> Seq(Message)]]
    BY DEF IInv, Types
  <2>2. QED
    BY <1>4, <1>5, <2>1
<1>7. \A d \in Conn, q \in Node :
        chan'[d][q] = IF d = c /\ q = p THEN t ELSE chan[d][q]
  BY <1>5 DEF IInv, Types
<1>8. /\ UNCHANGED <<client, server, loop, active, shown, acceptedBy, wasActive>>
      /\ \A d \in Conn, q \in Node :
           ep'[d][q] = IF d = c /\ q = n THEN "closed" ELSE ep[d][q]
      /\ \A q, r \in Node :
           pending'[q][r] = IF q = n /\ r = p THEN None ELSE pending[q][r]
      /\ \A d \in Conn :
           declinedBy'[d] = IF d = c THEN declinedBy[c] \cup {n} ELSE declinedBy[d]
  BY DEF UserDeclines, TurnDown, IInv, Types, nodes
<1>9. Types'
  <2>1. /\ pending' \in [Node -> [Node -> Conn \cup {None}]]
        /\ ep' \in [Conn -> [Node -> EndState]]
        /\ declinedBy' \in [Conn -> SUBSET Node]
    BY SMTT(40) DEF UserDeclines, TurnDown, IInv, Types, EndState
  <2>2. QED
    BY <1>6, <2>1 DEF UserDeclines, IInv, Types, nodes
<1>10. Exclusive' /\ ShownIsListed' /\ Listed'
  <2>1. Exclusive' /\ ShownIsListed'
    BY <1>8, Members DEF IInv, Exclusive, ShownIsListed
  <2>2. Listed'
    BY <1>8, Members DEF IInv, Listed
  <2>3. QED
    BY <2>1, <2>2
<1>11. PendingEnds' /\ Undecided' /\ Declined'
  BY <1>2, <1>8, Members, SMTT(20) DEF IInv, PendingEnds, Between, Undecided, Declined
<1>12. Fresh' /\ Ends'
  BY <1>2, <1>7, <1>8, Members DEF IInv, Fresh, Ends
<1>13. Unsent'
  BY <1>2, <1>7, <1>8, Members, SMTT(20) DEF IInv, Unsent, Ends
<1>14. Unanswered'
  BY <1>2, <1>7, <1>8, Members DEF IInv, Unanswered, Ends
<1>15. RequestFirst'
  BY <1>2, <1>4, <1>7, <1>8, Members, SMTT(20) DEF IInv, RequestFirst
<1>16. AcceptSent'
  BY <1>2, <1>4, <1>7, <1>8 DEF IInv, AcceptSent, Remote
<1>17. Agree'
  <2>1. ASSUME NEW d \in Conn, NEW q \in wasActive[d]
        PROVE  LET r == Remote(d, q) IN
               \/ r \in wasActive[d] \/ Has(chan'[d][r], ConnectAccept)
               \/ ep'[d][r] # "open" \/ ep'[d][q] # "open"
    <3>1. PICK r \in Node : r = Remote(d, q)
      BY Members
    <3>2. \/ r \in wasActive[d] \/ Has(chan[d][r], ConnectAccept)
          \/ ep[d][r] # "open" \/ ep[d][q] # "open"
      BY <3>1 DEF IInv, Agree
    <3>3. /\ Has(chan[d][r], ConnectAccept) => Has(chan'[d][r], ConnectAccept)
          /\ \A x \in Node : ep[d][x] # "open" => ep'[d][x] # "open"
      BY <1>4, <1>7, <1>8
    <3>4. QED
      BY <3>1, <3>2, <3>3, Members
  <2>2. wasActive' = wasActive /\ \A d \in Conn, q \in Node : Remote(d, q)' = Remote(d, q)
    BY <1>8 DEF Remote
  <2>3. QED
    BY <2>1, <2>2, Members DEF Agree
<1>18. QED
  BY <1>9, <1>10, <1>11, <1>12, <1>13, <1>14, <1>15, <1>16, <1>17 DEF IInv

\* A process that ends takes its tables with it and closes its ends.
LEMMA ExitInv ==
  ASSUME IInv, NEW n \in Node, Exit(n)
  PROVE  IInv'
<1>1. /\ UNCHANGED <<client, server, chan, acceptedBy, declinedBy, wasActive>>
      /\ \A d \in Conn, q \in Node :
           /\ ep'[d][q] = IF q = n /\ ep[d][q] # "none" THEN "closed" ELSE ep[d][q]
           /\ loop'[d][q] = IF q = n /\ loop[d][q] = "on" THEN "done" ELSE loop[d][q]
      /\ \A q, r \in Node :
           /\ active'[q][r] = IF q = n THEN None ELSE active[q][r]
           /\ pending'[q][r] = IF q = n THEN None ELSE pending[q][r]
           /\ shown'[q][r] = IF q = n THEN "none" ELSE shown[q][r]
  BY DEF Exit, IInv, Types, history
<1>2. Types'
  <2>1. /\ active' \in [Node -> [Node -> Conn \cup {None, RelayOut, RelayIn}]]
        /\ pending' \in [Node -> [Node -> Conn \cup {None}]]
        /\ shown' \in [Node -> [Node -> Shown]]
    BY DEF Exit, IInv, Types, Shown
  <2>2. /\ ep' \in [Conn -> [Node -> EndState]]
        /\ loop' \in [Conn -> [Node -> {"off", "on", "done"}]]
    BY DEF Exit, IInv, Types, EndState
  <2>3. exits' \in 0 .. MaxExits /\ up' \in [Node -> BOOLEAN]
    BY SessionsAssumption DEF Exit, IInv, Types
  <2>4. relayed' \in [Node -> [Node -> 0 .. MaxRelayed]] /\ dialing' \in [Node -> SUBSET Address]
    BY SessionsAssumption DEF Exit, IInv, Types
  <2>5. QED
    BY <2>1, <2>2, <2>3, <2>4 DEF Exit, IInv, Types, history
<1>3. Exclusive' /\ ShownIsListed' /\ Listed'
  BY <1>1, Members DEF IInv, Exclusive, ShownIsListed, Listed
<1>4. PendingEnds' /\ Undecided' /\ Declined'
  BY <1>1, Members, SMTT(20) DEF IInv, PendingEnds, Between, Undecided, Declined
<1>5. Fresh' /\ Ends'
  BY <1>1, Members DEF IInv, Fresh, Ends
<1>6. Unsent' /\ Unanswered'
  BY <1>1, Members, SMTT(40) DEF IInv, Unsent, Unanswered, Ends
<1>7. RequestFirst' /\ AcceptSent'
  BY <1>1, Members DEF IInv, RequestFirst, AcceptSent, Remote
<1>8. Agree'
  BY <1>1, Members DEF IInv, Agree, Remote
<1>9. QED
  BY <1>2, <1>3, <1>4, <1>5, <1>6, <1>7, <1>8 DEF IInv

\* Starting a process, and steps of nobody, leave the invariant alone.
LEMMA IdleInv ==
  ASSUME IInv, up' \in [Node -> BOOLEAN],
         UNCHANGED <<conns, tables, dialing, route, shown, exits, history>>
  PROVE  IInv'
<1>1. /\ UNCHANGED <<client, server, ep, loop, chan>> /\ UNCHANGED tables
      /\ UNCHANGED <<active, pending, relayed>>
      /\ UNCHANGED <<acceptedBy, declinedBy, wasActive>>
  BY DEF conns, tables, history
<1>2. Types'
  BY <1>1 DEF IInv, Types
<1>3. /\ Exclusive' /\ PendingEnds' /\ ShownIsListed' /\ Agree'
      /\ Fresh' /\ Ends' /\ Unsent' /\ Unanswered' /\ RequestFirst' /\ AcceptSent'
      /\ Listed' /\ Undecided' /\ Declined'
  BY <1>1 DEF IInv, Exclusive, PendingEnds, Between, ShownIsListed, Agree,
              Fresh, Ends, Unsent, Unanswered, RequestFirst, AcceptSent, Remote,
              Listed, Undecided, Declined
<1>4. QED
  BY <1>2, <1>3 DEF IInv

-----------------------------------------------------------------------------
(* The theorems *)

\* The invariant holds initially.
LEMMA InitInv == Init => IInv
<1> SUFFICES ASSUME Init
             PROVE  IInv
  OBVIOUS
<1>1. Types
  BY SessionsAssumption DEF Init, Types, EndState, RouteKind, Published, Shown
<1>2. /\ \A c \in Conn : /\ client[c] = None /\ server[c] = None
                        /\ wasActive[c] = {} /\ declinedBy[c] = {}
      /\ \A c \in Conn, n \in Node :
           ep[c][n] = "none" /\ loop[c][n] = "off" /\ chan[c][n] = <<>>
      /\ \A n, p \in Node :
           active[n][p] = None /\ pending[n][p] = None /\ shown[n][p] = "none"
  BY DEF Init
<1>3. QED
  BY <1>1, <1>2, Nothing, SessionsAssumption DEF IInv, Exclusive, PendingEnds, ShownIsListed, Agree,
       Fresh, Ends, Unsent, Unanswered, RequestFirst, AcceptSent, Listed, Undecided, Declined

\* The invariant implies the ones of Sessions that are not parts of it.
LEMMA Implied ==
  ASSUME IInv
  PROVE  /\ TypeOK /\ PendingIsOpen /\ DeclineIsFinal /\ EndsAgree
<1>1. TypeOK
  <2>1. \A c \in Conn, n \in Node : \A i \in DOMAIN chan[c][n] : chan[c][n][i] \in Message
    BY DEF IInv, Types
  <2>2. \A c \in Conn : client[c] = server[c] => client[c] = None
    BY DEF IInv, Ends
  <2>3. QED
    BY <2>1, <2>2 DEF IInv, Types, TypeOK
<1>2. PendingIsOpen
  BY DEF IInv, PendingEnds, Between, PendingIsOpen
<1>3. DeclineIsFinal
  BY Members DEF IInv, Declined, Listed, DeclineIsFinal
<1>4. EndsAgree
  BY DEF IInv, Agree, Has, AcceptInFlight, EndsAgree
<1>5. QED
  BY <1>1, <1>2, <1>3, <1>4

\* Every step preserves the invariant.
LEMMA StepInv == IInv /\ [Next]_vars => IInv'
<1> SUFFICES ASSUME IInv, [Next]_vars
             PROVE  IInv'
  OBVIOUS
<1>1. ASSUME NEW c \in Conn, NEW n \in Node, HandshakeTask(c, n)
      PROVE  IInv'
  BY <1>1, RespondInv, RespondFailsInv, AlreadyActiveInv, RequestInv, RequestFailsInv,
     InitiateFailsInv DEF HandshakeTask
<1>2. ASSUME NEW c \in Conn, NEW n \in Node, ReceiveTask(c, n)
      PROVE  IInv'
  BY <1>2, ReceiveRequestAgainInv, ReceiveRequestInv, ReceiveAcceptInv, ReceiveDeclineInv,
     ReceivePeerListInv, LoopExitInv DEF ReceiveTask
<1>3. ASSUME NEW n \in Node, NEW p \in Node, NEW c \in Conn, User(n, p, c)
      PROVE  IInv'
  BY <1>3, DialInv, UserAcceptsInv, UserAcceptFailsInv, UserDeclinesInv DEF User
<1>4. ASSUME NEW n \in Node, Exit(n)
      PROVE  IInv'
  BY <1>4, ExitInv
<1>5. ASSUME NEW n \in Node, Start(n)
      PROVE  IInv'
  <2>1. up' \in [Node -> BOOLEAN]
    BY <1>5 DEF Start, IInv, Types
  <2>2. QED
    BY <1>5, <2>1, IdleInv DEF Start
<1>6. CASE UNCHANGED vars
  <2>1. up' \in [Node -> BOOLEAN]
    BY <1>6 DEF vars, nodes, IInv, Types
  <2>2. QED
    BY <1>6, <2>1, IdleInv DEF vars, nodes
<1>7. ASSUME NEW c \in Conn, NEW n \in Node, Collect(c, n)
      PROVE  IInv'
  BY <1>7, CollectInv
<1>8. ASSUME NEW n \in Node, NEW p \in Node, Relay(n, p)
      PROVE  IInv'
  BY <1>8, RelayInv
<1>9. QED
  BY <1>1, <1>2, <1>3, <1>4, <1>5, <1>6, <1>7, <1>8 DEF Next

\* The inductive invariant holds in every reachable state.
THEOREM Invariance == Spec => []IInv
<1>1. Init => IInv
  BY InitInv
<1>2. IInv /\ [Next]_vars => IInv'
  BY StepInv
<1>3. QED
  BY <1>1, <1>2, PTL DEF Spec

\* The state is of its types, and a connection never has both ends at one node.
THEOREM TypesCorrect == Spec => []TypeOK
<1>1. IInv => TypeOK
  BY Implied
<1>2. QED
  BY <1>1, Invariance, PTL

\* Whatever requests, answers, disconnections and sessions over the relay cross,
\* a peer with a direct session is not in pending_sessions of the same node.
THEOREM AnswersAreExclusive == Spec => []Exclusive
<1>1. IInv => Exclusive
  BY DEF IInv
<1>2. QED
  BY <1>1, Invariance, PTL

\* A request that the user can answer is on a connection with that peer which
\* this node has not closed.
THEOREM PendingAnswerable == Spec => []PendingIsOpen
<1>1. IInv => PendingIsOpen
  BY Implied
<1>2. QED
  BY <1>1, Invariance, PTL

\* A peer last shown as connected is in sessions.
THEOREM ShownTruthfully == Spec => []ShownIsListed
<1>1. IInv => ShownIsListed
  BY DEF IInv
<1>2. QED
  BY <1>1, Invariance, PTL

\* A connection that a user declined never becomes a session of that user,
\* even if the other user accepts it at the same time.
THEOREM DeclinedForGood == Spec => []DeclineIsFinal
<1>1. IInv => DeclineIsFinal
  BY Implied
<1>2. QED
  BY <1>1, Invariance, PTL

\* If an end listed a connection then the other did so too, or the acceptance
\* is on its way to it, or one of the ends is not open any more.
THEOREM BothEndsAgree == Spec => []EndsAgree
<1>1. IInv => EndsAgree
  BY Implied
<1>2. QED
  BY <1>1, Invariance, PTL
=============================================================================

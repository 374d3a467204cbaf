--------------------------- MODULE SessionsClaims ---------------------------
(***************************************************************************)
(* What the documentation says of sessions and the code does not do.       *)
(***************************************************************************)
EXTENDS Sessions

(***************************************************************************)
(* "/peers - list connected peers" (README.md, cli.py): two nodes that     *)
(* accepted each other over a connection whose ends are both open and      *)
(* read from it list each other.  The end of any other connection between  *)
(* the same two nodes removes the session from the table, because          *)
(* _receive_loop pops by peer id and not by session.                       *)
(***************************************************************************)
ConnectedIsListed ==
  \A c \in Conn : \A n \in wasActive[c] :
    LET p == Remote(c, n) IN
    (p \in wasActive[c] /\ \A e \in {n, p} : ep[c][e] = "open" /\ loop[c][e] = "on")
      => active[n][p] # None

(***************************************************************************)
(* "/accept <id|nickname|fingerprint> - accept an incoming connection      *)
(* request" (README.md, accept_connection): a node that was dialled lists  *)
(* the connection as a session only if its own user accepted the request.  *)
(* The table pending_sessions holds requests that a node sent together     *)
(* with those that it got, /accept takes either, and the node that was     *)
(* asked obeys the connect_accept of the dialler.                          *)
(***************************************************************************)
AcceptedByAsked ==
  \A c \in Conn : server[c] \in wasActive[c] => server[c] \in acceptedBy[c]
=============================================================================

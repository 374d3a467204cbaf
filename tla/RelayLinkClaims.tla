--------------------------- MODULE RelayLinkClaims ---------------------------
(***************************************************************************)
(* RelayLink with a history of the dials that nothing stands in the way    *)
(* of, and what README.md says of sessions over the relay.                 *)
(***************************************************************************)
EXTENDS RelayLink

VARIABLES calm,         \* streams that were opened by a dial while the peer
                        \* was up, knew of no session and did not dial, and
                        \* nothing was under way; and so it stayed
          refused       \* streams whose handshake failed

varsH == <<vars, patient, calm, refused>>

InitH == Init /\ patient /\ calm = {} /\ refused = {}

Quiet(n, p) ==
  /\ up[p] /\ linked[p] /\ sessions[p][n] = None /\ n \notin dialing[p]
  /\ net[n][p] = <<>> /\ net[p][n] = <<>>

NextH ==
  \/ \E n \in Node, p \in Node, s \in Stream :
       /\ RelayConnect(n, p, s)
       /\ calm' = {t \in calm : owner[t] # p} \cup IF Quiet(n, p) THEN {s} ELSE {}
       /\ UNCHANGED refused
  \/ \E s \in Stream :
       InitiateFails(s) /\ refused' = refused \cup {s} /\ UNCHANGED calm
  \/ \E s \in Stream :
       /\ \/ InitiateDone(s) \/ InitiateLate(s)
          \/ RespondDone(s) \/ RespondFails(s) \/ Receive(s) \/ LoopEnds(s)
       /\ UNCHANGED <<calm, refused>>
  \/ \E n \in Node, p \in Node :
       (ReadLoop(n, p) \/ SendMessage(n, p)) /\ UNCHANGED <<calm, refused>>
  \/ \E n \in Node :
       (Exit(n) \/ Start(n) \/ LinkEnds(n)) /\ calm' = {} /\ UNCHANGED refused

SpecH == InitH /\ [][NextH /\ UNCHANGED patient]_varsH

(***************************************************************************)
(* "Both clients connect to the relay [...] Then Bob can message Alice by  *)
(* fingerprint" (README.md): a dial that nothing stands in the way of is   *)
(* answered.  Streams are never removed from the table of RelayClient, so  *)
(* a node that once had a stream with the peer, in a session or in a       *)
(* handshake that is over, feeds the dial to that stream, which nobody     *)
(* reads.                                                                  *)
(***************************************************************************)
CalmDialAnswered == calm \cap refused = {}
=============================================================================

--------------------------- MODULE MCGatewayCore ----------------------------
(* GatewayCore instantiated for TLC.  Client ids c1..c3 and addresses   *)
(* a1..a3; the sets used, the topic names and predefined ids per run.   *)
EXTENDS GatewayCore, TLC

CONSTANTS c1, c2, c3, a1, a2, a3, n1, n2

(* TOPICS.PRE: predefined id 2 names n1, so a predefined id and the id a *)
(* client registered n1 under (1) differ.                                  *)
MCPredefined == 2 :> n1

(* Each client id connects from its own address. *)
MCConnectFrom == {<<c1, a1>>, <<c2, a2>>}

(* Three client ids, each from its own address. *)
MCConnectThree == {<<c1, a1>>, <<c2, a2>>, <<c3, a3>>}

(* Only c1 connects, from a1. *)
MCConnectOne == {<<c1, a1>>}

=============================================================================

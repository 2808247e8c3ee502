--------------------------- MODULE ClientLifecycle ---------------------------
(***************************************************************************)
(* What the session engine promises about a client's status (spec §4.2): *)
(* the status of every client id moves only along the edges of the       *)
(* lifecycle state machine.  A pass of the engine's loop may move many   *)
(* clients at once, so one step lets any set of clients take one edge     *)
(* each.  EMPTY stands for "no record".                                    *)
(***************************************************************************)
CONSTANT ClientIds

VARIABLE session      \* client id -> status

States == {"EMPTY", "ACTIVE", "ASLEEP", "AWAKE", "DISCONNECTED", "LOST"}

(* The edges of the state machine, from -> to. *)
Edge(from, to) ==
    \/ to = "ACTIVE"                                        \* add_client: new or reconnect
    \/ from \in {"ACTIVE", "AWAKE"} /\ to = "ASLEEP"        \* sleep request, idle AWAKE
    \/ from = "ASLEEP" /\ to = "AWAKE"                      \* PINGREQ with client id
    \/ from \in {"ACTIVE", "AWAKE"} /\ to = "DISCONNECTED"  \* DISCONNECT, drained offline
    \/ from # "EMPTY" /\ to = "LOST"                        \* keep-alive, both links down
    \/ from \in {"ACTIVE", "ASLEEP", "AWAKE", "LOST"} /\ to = "EMPTY"  \* lost with a will: deleted

Init == session = [c \in ClientIds |-> "EMPTY"]

Move ==
    /\ session' \in [ClientIds -> States]
    /\ session' # session
    /\ \A c \in ClientIds : session'[c] = session[c] \/ Edge(session[c], session'[c])

Spec == Init /\ [][Move]_session

=============================================================================

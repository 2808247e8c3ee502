---------------------------- MODULE SessionStore ----------------------------
(***************************************************************************)
(* The session store of the gateway, SDPersistentImpl.h.  The store keeps *)
(* its tables in files on an SD card and writes every mutation through at *)
(* once; a "transaction" is only a cursor on one registry line plus an    *)
(* error flag, never a rollback.  This module holds the files' contents   *)
(* as TLA+ values and each store primitive as a pure operator on them:    *)
(*                                                                         *)
(*   CLIENTS        registry, one line per slot     -> reg[slot]          *)
(*   <slot>.REG     the client's topic registrations -> regs[slot] (Seq)  *)
(*   <slot>.SUB     the client's subscriptions       -> subs[slot] (Seq)  *)
(*   <slot>.WIL     the client's will                -> will[slot]        *)
(*   <slot>.PUB     the client's queued publishes    -> pubs[slot] (Seq)  *)
(*   MQTT.SUB       per-topic count of subscribers   -> gsub[name]        *)
(*   TOPICS.PRE     predefined topic ids             -> Predefined        *)
(*                                                                         *)
(* A file line that the code zeroes stays in the file as a hole; the      *)
(* sequences keep those holes (Hole, NoPub) because the code's searches   *)
(* (first/last empty line, n-th line) see them.                            *)
(***************************************************************************)
EXTENDS Naturals, SequencesExt

CONSTANTS
    ClientIds,      \* client identifiers a CONNECT may carry
    Addrs,          \* transport addresses; none of them is the zero address
    Names,          \* topic names
    Predefined,     \* TOPICS.PRE: a function from predefined topic ids to names
    MaxClients,     \* registry lines the model gives the CLIENTS file
    NoClient,       \* the empty client id of a zeroed registry line
    NoAddr,         \* the all-zero device_address of a zeroed registry line
    NoName          \* nullptr returned by a failed topic-name lookup

ASSUME /\ MaxClients \in Nat \ {0}
       /\ NoClient \notin ClientIds
       /\ NoAddr \notin Addrs
       /\ NoName \notin Names
       /\ DOMAIN Predefined \subseteq Nat \ {0}
       /\ \A i \in DOMAIN Predefined : Predefined[i] \in Names

Slots == 0 .. MaxClients - 1
NoSlot == -1

Statuses == {"EMPTY", "ACTIVE", "ASLEEP", "AWAKE", "DISCONNECTED", "LOST"}
Awaits   == {"NONE", "PINGREQ", "WILLTOPIC", "WILLMSG", "REGACK", "PUBACK", "PUBREL"}

(* A zeroed line of the CLIENTS file (memset 0): status EMPTY.             *)
EmptyEntry == [cid |-> NoClient, addr |-> NoAddr, status |-> "EMPTY",
               dur |-> 0, timeout |-> 0, await |-> "NONE", awaitId |-> 0]

(* The registry line add_client writes; reset_client writes the same     *)
(* fields into the existing line.                                          *)
NewEntry(c, a, d) == [cid |-> c, addr |-> a, status |-> "ACTIVE",
                      dur |-> d, timeout |-> 0, await |-> "PINGREQ", awaitId |-> 0]

(* A zeroed line of a .SUB file, and of a .PUB file (publish_id 0).       *)
Hole  == [tid |-> 0, name |-> NoName, qos |-> 0]
NoPub == [tid |-> 0, qos |-> 0, msgId |-> 0, intact |-> TRUE]

-----------------------------------------------------------------------------
(* Registry (CLIENTS) *)

FirstSlot(S) == IF S = {} THEN NoSlot ELSE Min(S)

(* start_client_transaction(address): the first line whose address       *)
(* matches, whatever its status.                                           *)
FirstByAddr(reg, a) == FirstSlot({s \in Slots : reg[s].addr = a})

(* start_client_transaction(client_id) *)
FirstByCid(reg, c) == FirstSlot({s \in Slots : reg[s].cid = c})

(* The setters of the client a transaction found on line t: each does   *)
(* nothing when the transaction found no client (NoSlot), and rewrites    *)
(* the client's whole line with one field changed.                        *)
set_client_state(r, t, st) == IF t = NoSlot THEN r ELSE [r EXCEPT ![t].status = st]

set_timeout(r, t, tm) == IF t = NoSlot THEN r ELSE [r EXCEPT ![t].timeout = tm]

set_client_await_message(r, t, m) == IF t = NoSlot THEN r ELSE [r EXCEPT ![t].await = m]

(* get_client_await_msg_id: 0 when no client was found. *)
get_client_await_msg_id(r, t) == IF t = NoSlot THEN 0 ELSE r[t].awaitId

(* set_client_await_msg_id: the statement meant to store the msg id is a *)
(* comparison (==), so the line is written back unchanged.                *)
set_client_await_msg_id(r, t, id) == r

(* reset_client: the first line carrying the client id gets a fresh line *)
(* (ACTIVE, timeout 0, awaiting PINGREQ, msg id 0) with the new address   *)
(* and duration.                                                           *)
reset_client(r, c, a, dur) ==
    LET t == FirstByCid(r, c) IN IF t = NoSlot THEN r ELSE [r EXCEPT ![t] = NewEntry(c, a, dur)]

(* find_empty_entry_space_in_registry: the first line with an empty id,   *)
(* or the line after the end of the file.                                  *)
find_empty_entry_space_in_registry(reg) == FirstSlot({s \in Slots : reg[s].cid = NoClient})

(* get_last_client_address: the address of the last line whose status is *)
(* not EMPTY, the zero address if there is none.                           *)
get_last_client_address(reg) ==
    LET used == {s \in Slots : reg[s].status # "EMPTY"}
    IN  IF used = {} THEN NoAddr ELSE reg[Max(used)].addr

(* handle_timeout: duration + duration/10.0 above 60 s, else + /2.0,      *)
(* truncated to an integer.                                                *)
Tolerance(d) == IF d > 60000 THEN d + d \div 10 ELSE d + d \div 2

-----------------------------------------------------------------------------
(* Registrations (<slot>.REG): the id of a name is its line number.       *)

(* add_client_registration: the existing id of the name, or a new line.   *)
add_client_registration(r, n) == IF \E i \in 1..Len(r) : r[i] = n THEN r ELSE Append(r, n)

RegistrationId(r, n) == SelectInSeq(r, LAMBDA x : x = n)

(* get_topic_name: the name registered under the id, nullptr if none.     *)
get_topic_name(r, tid) == IF tid \in 1..Len(r) THEN r[tid] ELSE NoName

(* is_topic_known: the known flag of the id's line.  add_client_         *)
(* registration always writes known = true and set_topic_known has an     *)
(* empty body, so an existing line is known; for a missing line the code  *)
(* falls off the end of the function.                                      *)
is_topic_known(r, tid) == tid \in 1..Len(r)

(* get_predefined_topic_name *)
get_predefined_topic_name(tid) == IF tid \in DOMAIN Predefined THEN Predefined[tid] ELSE NoName

-----------------------------------------------------------------------------
(* Subscriptions (<slot>.SUB) *)

(* is_subscribed: some line carries the name. *)
is_subscribed(sb, n) == n # NoName /\ \E i \in 1..Len(sb) : sb[i].name = n

(* add_subscription: nothing if the id is 0 or the line exists; else the *)
(* last hole of the file, or a new line.                                   *)
add_subscription(sb, n, tid, q) ==
    LET e    == [tid |-> tid, name |-> n, qos |-> q]
        hole == SelectLastInSeq(sb, LAMBDA x : x = Hole)
    IN  IF n = NoName \/ tid = 0 \/ \E i \in 1..Len(sb) : sb[i].tid = tid /\ sb[i].name = n
        THEN sb
        ELSE IF hole = 0 THEN Append(sb, e) ELSE [sb EXCEPT ![hole] = e]

(* get_client_subscription_count: lines with a non-zero topic id. *)
get_client_subscription_count(sb) == Cardinality({i \in 1..Len(sb) : sb[i].tid # 0})

(* get_nth_subscribed_topic_id: the topic id on line n (0-based), 0 for  *)
(* a hole or past the end.                                                 *)
get_nth_subscribed_topic_id(sb, n) == IF n + 1 \in 1..Len(sb) THEN sb[n + 1].tid ELSE 0

(* delete_subscription: zero the first line with the topic id; a missing *)
(* line sets the transaction's error flag.  Topic id 0 does nothing.      *)
delete_subscription(sb, tid) ==
    LET i == SelectInSeq(sb, LAMBDA x : x.tid = tid)
    IN  IF tid = 0 THEN [file |-> sb, err |-> FALSE]
        ELSE IF i = 0 THEN [file |-> sb, err |-> TRUE]
        ELSE [file |-> [sb EXCEPT ![i] = Hole], err |-> FALSE]

(* get_subscription_qos / get_subscription_topic_id: of the first line   *)
(* carrying the name.                                                      *)
SubscriptionOf(sb, n) == sb[SelectInSeq(sb, LAMBDA x : x.name = n)]

-----------------------------------------------------------------------------
(* Global subscription counts (MQTT.SUB) *)

increment_global_subscription_count(g, n) ==
    IF n = NoName THEN g ELSE [g EXCEPT ![n] = @ + 1]

(* A name whose count is 0 has no line, so it is not decremented. *)
decrement_global_subscription_count(g, n) ==
    IF n = NoName \/ g[n] = 0 THEN g ELSE [g EXCEPT ![n] = @ - 1]

get_global_topic_subscription_count(g, n) == IF n = NoName THEN 0 ELSE g[n]

-----------------------------------------------------------------------------
(* Will (<slot>.WIL): the parts of the one will record that have been     *)
(* written, a subset of {"topic", "msg"}.  Topic and message text are      *)
(* abstracted.                                                             *)

WillParts == {"topic", "msg"}

(* delete_will: the file is removed and created again, empty. *)
delete_will(w) == {}

(* has_client_will: the file holds a whole will record. *)
has_client_will(w) == w # {}

(* set_client_willtopic / set_client_willmessage: read the record (zeros  *)
(* if the file is empty), overwrite its topic or its message, and write  *)
(* the whole record back.                                                  *)
set_client_willtopic(w) == w \cup {"topic"}

set_client_willmessage(w) == w \cup {"msg"}

-----------------------------------------------------------------------------
(* Queued publishes (<slot>.PUB): publish_id is the line number. *)

has_client_publishes(p) == \E i \in 1..Len(p) : p[i] # NoPub

(* add_client_publish: the last empty line, or a new line; msg_id 0. *)
add_client_publish(p, tid, q) ==
    LET e    == [tid |-> tid, qos |-> q, msgId |-> 0, intact |-> TRUE]
        hole == SelectLastInSeq(p, LAMBDA x : x = NoPub)
    IN  IF hole = 0 THEN Append(p, e) ELSE [p EXCEPT ![hole] = e]

(* get_next_publish: the LAST non-empty line. *)
get_next_publish(p) == SelectLastInSeq(p, LAMBDA x : x # NoPub)

(* remove_publish_by_publish_id *)
remove_publish_by_publish_id(p, pid) == [p EXCEPT ![pid] = NoPub]

(* set_publish_msg_id *)
set_publish_msg_id(p, pid, m) == [p EXCEPT ![pid].msgId = m]

(* remove_publish_by_msg_id: finds the first line whose msg_id matches,  *)
(* then writes sizeof(uint16_t) zero bytes at offset 2*line instead of   *)
(* zeroing that line.  The bytes land in the payload of line 1; for the  *)
(* first line (offset 0) they are the payload's first bytes.  Payload    *)
(* length is abstracted, so only that case is recorded.                   *)
remove_publish_by_msg_id(p, m) ==
    LET i == SelectInSeq(p, LAMBDA x : x.msgId = m)
    IN  IF i = 1 /\ p[1] # NoPub THEN [p EXCEPT ![1].intact = FALSE] ELSE p

=============================================================================

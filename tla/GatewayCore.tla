---------------------------- MODULE GatewayCore -----------------------------
(***************************************************************************)
(* The gateway's session engine (CoreImpl.cpp) driven by its router       *)
(* (MqttSnMessageHandler.cpp) over the session store (SessionStore).      *)
(*                                                                         *)
(* The gateway is one thread: Gateway::loop calls mqtt->loop(),           *)
(* socket->loop() and core.loop() in turn, and each of them runs a        *)
(* handler to completion.  So every handler is one atomic action here:   *)
(* a datagram from a client (Recv...), a message or link event from the  *)
(* broker (Broker..., Mqtt...), one pass of CoreImpl::loop (Loop...).     *)
(* The socket and broker implementations are not in the repository; what *)
(* they may do is the environment's choice.                               *)
(***************************************************************************)
EXTENDS SessionStore

CONSTANTS
    Durations,       \* keep-alive durations (seconds) a CONNECT may carry
    Elapsed,         \* milliseconds get_elapsed_time() may report at a heartbeat
    ConnectFrom,     \* pairs <<client id, address>> a CONNECT may come from
    TopicIds,        \* topic ids a client may put in SUBSCRIBE/UNSUBSCRIBE
    BrokerOk,        \* outcomes a call into the broker bridge may have
    MaxPubs,         \* lines a .PUB file may grow to
    ClientMsgs,      \* which MQTT-SN message types clients send
    LinkEvents,      \* which of "mqtt", "mqttsn", "restart" the environment may do
    MaxCount,        \* SUBSCRIBE is modelled while every MQTT.SUB count is below it
    MaxTimeout       \* heartbeats are modelled while no connected client's timeout exceeds it

ASSUME /\ Durations \subseteq 1..65535
       /\ Elapsed \subseteq Nat
       /\ ConnectFrom \subseteq ClientIds \X Addrs
       /\ TopicIds \subseteq Nat \ {0}
       /\ BrokerOk \subseteq BOOLEAN /\ BrokerOk # {}
       /\ MaxPubs \in Nat /\ MaxTimeout \in Nat /\ MaxCount \in Nat
       /\ ClientMsgs \subseteq {"CONNECT", "WILLTOPIC", "WILLMSG", "REGISTER", "SUBSCRIBE", "UNSUBSCRIBE",
                             "PUBLISH", "PUBACK", "PINGREQ", "DISCONNECT"}
       /\ LinkEvents \subseteq {"mqtt", "mqttsn", "restart"}

VARIABLES
    reg,          \* CLIENTS: slot -> registry line
    regs,         \* <slot>.REG: slot -> sequence of registered names
    subs,         \* <slot>.SUB: slot -> sequence of subscription lines
    will,         \* <slot>.WIL: slot -> the parts of the will record written
    pubs,         \* <slot>.PUB: slot -> sequence of queued publishes
    gsub,         \* MQTT.SUB: name -> number of subscribed clients
    upstream,     \* names the broker connection is subscribed to
    mqttOnline,   \* is_mqtt_online()
    mqttsnOnline, \* is_mqttsn_online()
    running,      \* FALSE once system->exit() has ended the process
    hung          \* the process spins in a loop it never leaves

vars == <<reg, regs, subs, will, pubs, gsub, upstream, mqttOnline, mqttsnOnline, running, hung>>

(* The persistent and broker-side state as one record, so that the       *)
(* engine's functions can be written as operators that thread it.         *)
Db == [reg |-> reg, regs |-> regs, subs |-> subs, will |-> will, pubs |-> pubs,
       gsub |-> gsub, upstream |-> upstream, hung |-> hung]

Commit(d) == /\ reg' = d.reg /\ regs' = d.regs /\ subs' = d.subs /\ will' = d.will
             /\ pubs' = d.pubs /\ gsub' = d.gsub /\ upstream' = d.upstream /\ hung' = d.hung

Live == {"ACTIVE", "ASLEEP", "AWAKE"}

(* The result of apply_transaction as the engine reads it: 0 on error,   *)
(* (uint8_t)-1 when the client was not found, 1 on success.               *)
apply_transaction(err, found) ==
    IF err THEN "ZERO" ELSE IF ~found THEN "CLIENTNONEXISTENCE" ELSE "SUCCESS"

-----------------------------------------------------------------------------
(* Engine functions (CoreImpl) over a Db record *)

(* Mutant of delete_client: the .WIL file is not removed. *)
delete_client_keep_will(d, s, c) ==
    IF get_client_subscription_count(d.subs[s]) > 0 THEN d
    ELSE LET z == FirstByCid(d.reg, c)
         IN  [d EXCEPT !.regs[s] = <<>>, !.subs[s] = <<>>, !.pubs[s] = <<>>,
                       !.reg = IF z = NoSlot THEN @ ELSE [@ EXCEPT ![z] = EmptyEntry]]

(* delete_client: refused while the slot has subscriptions; removes the  *)
(* slot's files and zeroes the registry line of the client id.           *)
delete_client(d, s, c) ==
    IF get_client_subscription_count(d.subs[s]) > 0 THEN d
    ELSE LET z == FirstByCid(d.reg, c)
         IN  [d EXCEPT !.regs[s] = <<>>, !.subs[s] = <<>>, !.will[s] = {},
                       !.pubs[s] = <<>>,
                       !.reg = IF z = NoSlot THEN @ ELSE [@ EXCEPT ![z] = EmptyEntry]]

(* Mutant of remove_client_subscriptions: the lines are deleted but     *)
(* MQTT.SUB is not decremented.                                            *)
RECURSIVE remove_client_subscriptions_keep_count(_, _)
remove_client_subscriptions_keep_count(d, s) ==
    LET n   == get_client_subscription_count(d.subs[s])
        tid == get_nth_subscribed_topic_id(d.subs[s], n - 1)
    IN  IF n = 0 THEN d
        ELSE IF tid = 0 THEN [d EXCEPT !.hung = TRUE]
        ELSE remove_client_subscriptions_keep_count(
                 [d EXCEPT !.subs[s] = delete_subscription(@, tid).file], s)

(* remove_client_subscriptions: while the slot counts subscriptions,     *)
(* take the topic id on line count-1, delete it, decrement its name and  *)
(* unsubscribe upstream when the count reaches 0.  A hole on that line   *)
(* gives topic id 0: nothing is deleted, the count never drops and the   *)
(* loop (calling mqtt->unsubscribe(nullptr)) never ends.                  *)
RECURSIVE remove_client_subscriptions(_, _)
remove_client_subscriptions(d, s) ==
    LET n    == get_client_subscription_count(d.subs[s])
        tid  == get_nth_subscribed_topic_id(d.subs[s], n - 1)
        name == get_topic_name(d.regs[s], tid)
        g    == decrement_global_subscription_count(d.gsub, name)
        up   == IF get_global_topic_subscription_count(g, name) = 0
                THEN d.upstream \ {name} ELSE d.upstream
    IN  IF n = 0 THEN d
        ELSE IF tid = 0 THEN [d EXCEPT !.hung = TRUE]
        ELSE remove_client_subscriptions(
                 [d EXCEPT !.subs[s] = delete_subscription(@, tid).file,
                           !.gsub = g, !.upstream = up], s)

(* Mutants of add_client: the duration stored in seconds, not           *)
(* milliseconds; an existing client id not looked up.                      *)
add_client_seconds(d, c, a, dur, clean) ==
    LET s == FirstByCid(d.reg, c)
        AddAt(x) == LET e == find_empty_entry_space_in_registry(x.reg)
                    IN  [x EXCEPT !.reg[e] = NewEntry(c, a, dur)]
        cleaned == remove_client_subscriptions(d, s)
        refused == get_client_subscription_count(cleaned.subs[s]) > 0
    IN  IF s = NoSlot THEN [db |-> AddAt(d), res |-> "SUCCESS"]
        ELSE IF ~clean THEN [db |-> [d EXCEPT !.reg = reset_client(@, c, a, dur)], res |-> "SUCCESS"]
        ELSE IF cleaned.hung \/ refused THEN [db |-> cleaned, res |-> "ZERO"]
        ELSE [db |-> AddAt(delete_client(cleaned, s, c)), res |-> "SUCCESS"]

add_client_always_new(d, c, a, dur, clean) ==
    LET e == find_empty_entry_space_in_registry(d.reg)
    IN  [db |-> [d EXCEPT !.reg[e] = NewEntry(c, a, dur * 1000)], res |-> "SUCCESS"]

(* CoreImpl::add_client, the broker link already checked by the caller.  *)
(* An existing client is reset in place (no clean session) or has its    *)
(* subscriptions removed, is deleted and added again (clean session).    *)
(* delete_client refusing sets the error flag, and add_client then does  *)
(* nothing.                                                                *)
add_client(d, c, a, dur, clean) ==
    LET s == FirstByCid(d.reg, c)
        AddAt(x) == LET e == find_empty_entry_space_in_registry(x.reg)
                    IN  [x EXCEPT !.reg[e] = NewEntry(c, a, dur * 1000)]
        cleaned == remove_client_subscriptions(d, s)
        refused == get_client_subscription_count(cleaned.subs[s]) > 0
    IN  IF s = NoSlot THEN [db |-> AddAt(d), res |-> "SUCCESS"]
        ELSE IF ~clean THEN [db |-> [d EXCEPT !.reg = reset_client(@, c, a, dur * 1000)],
                             res |-> "SUCCESS"]
        ELSE IF cleaned.hung \/ refused THEN [db |-> cleaned, res |-> "ZERO"]
        ELSE [db |-> AddAt(delete_client(cleaned, s, c)), res |-> "SUCCESS"]

(* await_message / set_client_await_message on the client at address a. *)
await_message(d, a, m) ==
    LET t == FirstByAddr(d.reg, a)
    IN  [d EXCEPT !.reg = set_client_await_message(@, t, m)]

(* get_client_await_message_type: PINGREQ when the client is not found.  *)
AwaitOf(d, a) ==
    LET t == FirstByAddr(d.reg, a) IN IF t = NoSlot THEN "PINGREQ" ELSE d.reg[t].await

(* The topic id add_subscription stores: the client's own id for a      *)
(* short (registered) topic, the id add_client_registration gave the name *)
(* of a predefined topic.                                                  *)
(* Mutant: the id from the SUBSCRIBE stored for a predefined topic too. *)
SubscriptionTopicIdRaw(short, tid, r, name) == tid

SubscriptionTopicId(short, tid, r, name) == IF short THEN tid ELSE RegistrationId(r, name)

(* CoreImpl::add_subscription, the broker link already checked by the    *)
(* caller; ok is what mqtt->subscribe returns.  Only a client's first     *)
(* subscription to a name counts it, and only the count's step to 1      *)
(* subscribes upstream; a failed upstream subscribe decrements the count *)
(* again and leaves the client's subscription line in place.             *)
add_subscription_core(d, a, tid, short, qos, ok) ==
    LET t       == FirstByAddr(d.reg, a)
        granted == IF qos >= 1 THEN 1 ELSE 0
        name    == IF short THEN get_topic_name(d.regs[t], tid) ELSE get_predefined_topic_name(tid)
        r       == IF short THEN d.regs[t] ELSE add_client_registration(d.regs[t], name)
        fresh   == ~is_subscribed(d.subs[t], name)
        g       == IF fresh THEN increment_global_subscription_count(d.gsub, name) ELSE d.gsub
        first   == fresh /\ get_global_topic_subscription_count(g, name) = 1
        d1      == [d EXCEPT !.regs[t] = r, !.gsub = g,
                     !.subs[t] = IF fresh
                                 THEN add_subscription(@, name, SubscriptionTopicId(short, tid, r, name), granted)
                                 ELSE @]
    IN  IF t = NoSlot \/ name = NoName THEN [db |-> d, res |-> "ZERO"]
        ELSE IF first /\ ~ok
             THEN [db |-> [d1 EXCEPT !.gsub = decrement_global_subscription_count(@, name)],
                   res |-> "ZERO"]
        ELSE [db |-> [d1 EXCEPT !.upstream = IF first THEN @ \cup {name} ELSE @],
              res |-> "SUCCESS"]

(* The tail both delete_subscription overloads share: unless the client  *)
(* is subscribed to the name (the guard is inverted in the code), delete *)
(* the line with the topic id, decrement the name, and unsubscribe       *)
(* upstream when the count read back is 0.  An error earlier in the      *)
(* transaction skips the decrement and makes the count read back 0.  A   *)
(* result of CLIENTNONEXISTENCE returns before the upstream unsubscribe.  *)
unsubscribe_tail(d, t, tid, name) ==
    LET del == IF t = NoSlot THEN [file |-> <<>>, err |-> tid # 0]
               ELSE delete_subscription(d.subs[t], tid)
        g   == IF del.err THEN d.gsub ELSE decrement_global_subscription_count(d.gsub, name)
        cnt == IF del.err THEN 0 ELSE get_global_topic_subscription_count(g, name)
        res == apply_transaction(del.err, t # NoSlot)
        d1  == [d EXCEPT !.gsub = g,
                         !.subs = IF t = NoSlot THEN @ ELSE [@ EXCEPT ![t] = del.file]]
    IN  IF is_subscribed(IF t = NoSlot THEN <<>> ELSE d.subs[t], name) THEN d
        ELSE IF cnt = 0 /\ res # "CLIENTNONEXISTENCE"
             THEN [d1 EXCEPT !.upstream = @ \ {name}]
        ELSE d1

(* CoreImpl::delete_subscription(address, topic_id, ..., short_topic) *)
delete_subscription_by_id(d, a, tid, short) ==
    LET t    == FirstByAddr(d.reg, a)
        name == IF short THEN (IF t = NoSlot THEN NoName ELSE get_topic_name(d.regs[t], tid))
                ELSE get_predefined_topic_name(tid)
    IN  unsubscribe_tail(d, t, tid, name)

(* CoreImpl::delete_subscription(address, topic_name, ...): the topic id *)
(* comes from get_topic_id, which always returns 0.                        *)
delete_subscription_by_name(d, a, name) ==
    unsubscribe_tail(d, FirstByAddr(d.reg, a), 0, name)

-----------------------------------------------------------------------------
(* Datagrams from clients: MqttSnMessageHandler::receiveData and the     *)
(* handler it dispatches to, with the engine call it makes.  A reply that *)
(* fails to send calls notify_mqttsn_disconnected, which MqttSnLinkDown   *)
(* models.  A datagram is only processed by a running, responsive         *)
(* process.                                                                *)

Serving == running /\ ~hung

(* A handler whose effect on the store and broker state is d. *)
Handled(d) == /\ Commit(d)
              /\ UNCHANGED <<mqttOnline, mqttsnOnline, running>>

(* CONNECT: handle_connect -> CoreImpl::add_client, then, with the will  *)
(* flag, await_message(WILLTOPIC).  The registry file has MaxClients      *)
(* lines in the model: a new client id needs a free line.                  *)
RecvConnect(c, a, dur, clean, wl) ==
    /\ Serving /\ mqttOnline
    /\ FirstByCid(reg, c) # NoSlot \/ find_empty_entry_space_in_registry(reg) # NoSlot
    /\ LET r == add_client(Db, c, a, dur, clean)
       IN  Handled(IF r.res = "SUCCESS" /\ wl THEN await_message(r.db, a, "WILLTOPIC") ELSE r.db)

(* WILLTOPIC with an empty topic, qos 0 and no retain: handle_willtopic  *)
(* -> CoreImpl::remove_will, whatever the client awaits.                  *)
RecvWillTopicEmpty(a) ==
    LET t == FirstByAddr(reg, a)
    IN  /\ Serving /\ t # NoSlot
        /\ Handled([Db EXCEPT !.will[t] = delete_will(@)])

(* WILLTOPIC with a topic: CoreImpl::add_will_topic, accepted only while *)
(* the client awaits WILLTOPIC, then await_message(WILLMSG).               *)
RecvWillTopic(a) ==
    LET t == FirstByAddr(reg, a)
    IN  /\ Serving /\ mqttOnline /\ AwaitOf(Db, a) = "WILLTOPIC" /\ t # NoSlot
        /\ Handled(await_message([Db EXCEPT !.will[t] = set_client_willtopic(@)], a, "WILLMSG"))

(* CoreImpl::register_topic: add_client_registration in the transaction *)
(* of the client at a (nothing without one).                               *)
register_topic(d, a, n) ==
    LET t == FirstByAddr(d.reg, a)
    IN  IF t = NoSlot THEN d ELSE [d EXCEPT !.regs[t] = add_client_registration(@, n)]

(* REGISTER: handle_register -> register_topic, which refuses while the   *)
(* broker link is down; every result is answered with a REGACK only.      *)
RecvRegister(a, n) ==
    /\ Serving /\ mqttOnline /\ FirstByAddr(reg, a) # NoSlot
    /\ Handled(register_topic(Db, a, n))

(* The bound on the MQTT.SUB counts, which a lost decrement lets grow.   *)
CountRoom == \A n \in Names : gsub[n] < MaxCount

(* SUBSCRIBE by topic id (short or predefined). *)
RecvSubscribe(a, tid, short, qos, ok) ==
    /\ Serving /\ mqttOnline /\ CountRoom
    /\ Handled(add_subscription_core(Db, a, tid, short, qos, ok).db)

(* SUBSCRIBE by topic name: register_topic, then add_subscription with    *)
(* the id it returned as a short topic.                                    *)
RecvSubscribeName(a, n, qos, ok) ==
    LET t == FirstByAddr(reg, a)
        d == [Db EXCEPT !.regs[t] = add_client_registration(@, n)]
    IN  /\ Serving /\ mqttOnline /\ t # NoSlot /\ CountRoom
        /\ Handled(add_subscription_core(d, a, RegistrationId(d.regs[t], n), TRUE, qos, ok).db)

(* UNSUBSCRIBE by topic id, and by topic name; neither checks the broker *)
(* link.                                                                   *)
RecvUnsubscribe(a, tid, short) ==
    /\ Serving
    /\ Handled(delete_subscription_by_id(Db, a, tid, short))

RecvUnsubscribeName(a, n) ==
    /\ Serving
    /\ Handled(delete_subscription_by_name(Db, a, n))

(* The engine's status setters, each one set_client_state in the        *)
(* transaction of the client at a, whatever its current status.           *)
(* set_asleep's set_client_duration has an empty body, so the duration is *)
(* dropped.                                                                *)
set_disconnected(d, a) == [d EXCEPT !.reg = set_client_state(@, FirstByAddr(d.reg, a), "DISCONNECTED")]

set_asleep(d, a) == [d EXCEPT !.reg = set_client_state(@, FirstByAddr(d.reg, a), "ASLEEP")]

set_awake(d, a) == [d EXCEPT !.reg = set_client_state(@, FirstByAddr(d.reg, a), "AWAKE")]

(* DISCONNECT without duration: handle_disconnect -> set_disconnected,   *)
(* answered by DISCONNECT.                                                 *)
RecvDisconnect(a) ==
    /\ Serving /\ FirstByAddr(reg, a) # NoSlot
    /\ Handled(set_disconnected(Db, a))

(* DISCONNECT with duration: handle_disconnect(duration) -> set_asleep,  *)
(* which refuses while the broker link is down.                            *)
RecvSleep(a) ==
    /\ Serving /\ mqttOnline /\ FirstByAddr(reg, a) # NoSlot
    /\ Handled(set_asleep(Db, a))

(* PINGREQ with a client id: handle_pingreq(client_id) -> set_awake.  A  *)
(* PINGREQ without one only answers PINGRESP (reset_timeout is commented *)
(* out), a step that changes no state.                                     *)
RecvPingreqId(a) ==
    /\ Serving /\ FirstByAddr(reg, a) # NoSlot
    /\ Handled(set_awake(Db, a))

(* CoreImpl::add_will_msg, accepted only while the client awaits WILLMSG. *)
(* set_client_willmessage writes a whole will record, so the client has a *)
(* will afterwards even if an empty WILLTOPIC removed it in between.       *)
(* Nothing changes what the client awaits.                                 *)
add_will_msg(d, a) ==
    LET t == FirstByAddr(d.reg, a)
    IN  IF AwaitOf(d, a) # "WILLMSG" \/ t = NoSlot THEN d
        ELSE [d EXCEPT !.will[t] = set_client_willmessage(@)]

(* WILLMSG: handle_willmsg -> add_will_msg (refused while the broker link *)
(* is down), answered by CONNACK.                                          *)
RecvWillMsg(a) ==
    /\ Serving /\ mqttOnline /\ AwaitOf(Db, a) = "WILLMSG" /\ FirstByAddr(reg, a) # NoSlot
    /\ Handled(add_will_msg(Db, a))

(* CoreImpl::notify_puback_arrived: every known return code calls        *)
(* remove_publish_by_msg_id with the msg id it was given.                  *)
notify_puback_arrived(d, a, m) ==
    LET t == FirstByAddr(d.reg, a)
    IN  IF t = NoSlot THEN d ELSE [d EXCEPT !.pubs[t] = remove_publish_by_msg_id(@, m)]

(* PUBACK: parse_puback passes the datagram's topic id where              *)
(* handle_puback, and then notify_puback_arrived, expect the msg id, so m *)
(* is the topic id field.                                                  *)
RecvPuback(a, m) ==
    /\ Serving /\ FirstByAddr(reg, a) # NoSlot
    /\ Handled(notify_puback_arrived(Db, a, m))

(* CoreImpl::publish(address, ...), the engine half of a client PUBLISH: *)
(* the result it returns and how many times it called mqtt->publish.  A   *)
(* client that is unknown, DISCONNECTED or LOST may still publish with    *)
(* QoS -1 to a predefined topic.  ok is what mqtt->publish returns.        *)
client_publish(d, a, short, tid, qos, ok) ==
    LET t       == FirstByAddr(d.reg, a)
        offline == t = NoSlot \/ d.reg[t].status \in {"DISCONNECTED", "LOST"}
        pname   == get_predefined_topic_name(tid)
        name    == IF short THEN get_topic_name(d.regs[t], tid) ELSE pname
    IN  IF offline
        THEN IF qos = -1 /\ ~short /\ pname # NoName
             THEN [res |-> IF ok /\ t # NoSlot THEN "SUCCESS" ELSE "ZERO", fwd |-> 1]
             ELSE [res |-> IF t # NoSlot THEN "CLIENTNONEXISTENCE" ELSE "ZERO", fwd |-> 0]
        ELSE IF name = NoName THEN [res |-> "TOPICIDNONEXISTENCE", fwd |-> 0]
        ELSE [res |-> IF ok THEN "SUCCESS" ELSE "ZERO", fwd |-> 1]

(* The topic id types of a PUBLISH: normal (00), predefined (01), short  *)
(* name (10).  parse_publish looks a short-name id up as a registered id  *)
(* and any other as a predefined id, and because of the operator          *)
(* precedence in its condition it calls handle_publish twice for a normal *)
(* topic id; the second call only forwards again, which the model does not *)
(* record (the broker side is not state).                                  *)
TopicIdTypes == {"normal", "predefined", "short"}

(* PUBLISH: parse_publish -> handle_publish (once or twice); a QoS 2     *)
(* publish that the engine accepted, or whose topic id it did not know,   *)
(* makes the client await PUBREL.                                          *)
RecvPublish(a, tt, tid, qos, ok) ==
    LET r == IF mqttOnline THEN client_publish(Db, a, tt = "short", tid, qos, ok)
             ELSE [res |-> "ZERO", fwd |-> 0]
        d == IF qos = 2 /\ r.res \in {"SUCCESS", "TOPICIDNONEXISTENCE"}
             THEN await_message(Db, a, "PUBREL") ELSE Db
    IN  /\ Serving
        /\ Handled(d)

-----------------------------------------------------------------------------
(* Messages from the broker: CoreImpl::publish(topic_name, ...) fans a   *)
(* publish out to the clients subscribed to it.                            *)

(* Mutant of handle_receive_mqtt_publish_for_client: the publish queued   *)
(* under the gateway's predefined id of the topic, where there is one,    *)
(* instead of the id of the client's subscription.                         *)
handle_receive_mqtt_publish_for_client_predefined_id(d, n, a) ==
    LET t   == FirstByAddr(d.reg, a)
        pre == {i \in DOMAIN Predefined : Predefined[i] = n}
        tid == IF pre # {} THEN CHOOSE i \in pre : TRUE ELSE SubscriptionOf(d.subs[t], n).tid
    IN  IF t # NoSlot /\ d.reg[t].status \in Live /\ is_subscribed(d.subs[t], n)
        THEN [d EXCEPT !.pubs[t] = add_client_publish(@, tid, SubscriptionOf(d.subs[t], n).qos)]
        ELSE d

(* handle_receive_mqtt_publish_for_client: queue the publish for the     *)
(* first client with the address, if it is connected and subscribed, with *)
(* its subscription's topic id and QoS.                                    *)
handle_receive_mqtt_publish_for_client(d, n, a) ==
    LET t == FirstByAddr(d.reg, a)
    IN  IF t # NoSlot /\ d.reg[t].status \in Live /\ is_subscribed(d.subs[t], n)
        THEN [d EXCEPT !.pubs[t] = add_client_publish(@, SubscriptionOf(d.subs[t], n).tid,
                                                         SubscriptionOf(d.subs[t], n).qos)]
        ELSE d

(* The fan-out loop after the first line: read line i; stop at an empty  *)
(* address, or, without handling it, at the last client's address.        *)
RECURSIVE FanOutFrom(_, _, _, _)
FanOutFrom(d, n, i, last) ==
    LET a == IF i \in Slots THEN d.reg[i].addr ELSE NoAddr
    IN  IF a = NoAddr \/ a = last THEN d
        ELSE FanOutFrom(handle_receive_mqtt_publish_for_client(d, n, a), n, i + 1, last)

(* CoreImpl::publish: nothing if no line is in use; else line 0, then    *)
(* the lines after it.                                                     *)
fan_out(d, n) ==
    LET last == get_last_client_address(d.reg)
    IN  IF last = NoAddr THEN d
        ELSE FanOutFrom(handle_receive_mqtt_publish_for_client(d, n, d.reg[0].addr), n, 1, last)

(* A .PUB file can take one more publish: it has a free line, or fewer   *)
(* than MaxPubs lines.                                                     *)
PubRoom(p) == Len(p) < MaxPubs \/ SelectInSeq(p, LAMBDA x : x = NoPub) # 0

(* The broker delivers a publish on a name the gateway is subscribed to. *)
BrokerPublish(n) ==
    /\ Serving /\ mqttOnline /\ n \in upstream
    /\ \A s \in Slots : PubRoom(pubs[s])
    /\ Handled(fan_out(Db, n))

-----------------------------------------------------------------------------
(* CoreImpl::loop and the procedures it runs when a link is down.        *)

(* The msg id after id.  The wrap test msg_id + 1 == 0 is done in int    *)
(* after promotion and never holds, so 65535 is followed by 0, not 1.     *)
NextMsgId(id) == (id + 1) % 65536

(* handle_client_publishes: for an ACTIVE or AWAKE client awaiting       *)
(* nothing (PINGREQ) with a queued publish, send the LAST queued one.     *)
(* QoS 0 is removed at once; QoS 1 gets the next msg id and the client   *)
(* then awaits PUBACK.  set_client_await_msg_id has no effect (it         *)
(* compares instead of assigning), so the msg id is always awaitId + 1.  *)
(* An unknown topic id would make the client await REGACK first.          *)
handle_client_publishes(d, status, a) ==
    LET t   == FirstByAddr(d.reg, a)
        pid == get_next_publish(d.pubs[t])
        p   == d.pubs[t][pid]
        m   == NextMsgId(get_client_await_msg_id(d.reg, t))
    IN  IF status \notin {"AWAKE", "ACTIVE"} \/ t = NoSlot THEN d
        ELSE IF d.reg[t].await # "PINGREQ" \/ ~has_client_publishes(d.pubs[t]) THEN d
        ELSE IF ~is_topic_known(d.regs[t], p.tid)
             THEN IF get_topic_name(d.regs[t], p.tid) = NoName THEN d
                  ELSE [d EXCEPT !.reg = set_client_await_message(set_client_await_msg_id(@, t, m), t, "REGACK")]
        ELSE IF p.qos = 0 THEN [d EXCEPT !.pubs[t] = remove_publish_by_publish_id(@, pid)]
        ELSE IF p.qos = 1 THEN [d EXCEPT !.reg = set_client_await_message(set_client_await_msg_id(@, t, m), t, "PUBACK"),
                                         !.pubs[t] = set_publish_msg_id(@, pid, m)]
        ELSE d

(* handle_timeout for the registry line read as e: a connected client's  *)
(* timeout grows by the elapsed time; past the tolerance of its duration *)
(* it is LOST, and a client with a will has its will published, its      *)
(* subscriptions removed and its record deleted.  The store calls act on *)
(* the first line with e's address.                                        *)
handle_timeout(d, e, el) ==
    LET t  == FirstByAddr(d.reg, e.addr)
        tm == e.timeout + el
        d1 == [d EXCEPT !.reg = set_timeout(@, t, tm)]
        d2 == [d1 EXCEPT !.reg = set_client_state(@, t, "LOST")]
    IN  IF e.status \notin Live \/ t = NoSlot THEN d
        ELSE IF tm <= Tolerance(e.dur) THEN d1
        ELSE IF ~has_client_will(d.will[t]) THEN d2
        ELSE delete_client(remove_client_subscriptions(d2, t), t, e.cid)

(* Mutant of Visit: the offline sweep disconnects every client without  *)
(* publishes, whatever its status.                                         *)
Visit_any_status(d, e, beaten, el, offline) ==
    LET d1 == handle_client_publishes(d, e.status, e.addr)
        t  == FirstByAddr(d1.reg, e.addr)
        idle(st) == t # NoSlot /\ e.status \in st /\ ~has_client_publishes(d1.pubs[t])
        d2 == IF ~offline /\ idle({"AWAKE"}) THEN [d1 EXCEPT !.reg = set_client_state(@, t, "ASLEEP")]
              ELSE IF offline /\ idle(Statuses \ {"EMPTY"})
                   THEN [d1 EXCEPT !.reg = set_client_state(@, t, "DISCONNECTED")]
              ELSE d1
    IN  IF beaten THEN handle_timeout(d2, e, el) ELSE d2

(* One client of the sweep of CoreImpl::loop (online) or of               *)
(* process_mqtt_offline_procedure (offline), for the line read as e:      *)
(* deliver, then send an AWAKE client without publishes back to sleep     *)
(* (online) or disconnect an ACTIVE or AWAKE client without publishes     *)
(* (offline), then, on a heartbeat, check its keep-alive.                 *)
Visit(d, e, beaten, el, offline) ==
    LET d1 == handle_client_publishes(d, e.status, e.addr)
        t  == FirstByAddr(d1.reg, e.addr)
        idle(st) == t # NoSlot /\ e.status \in st /\ ~has_client_publishes(d1.pubs[t])
        d2 == IF ~offline /\ idle({"AWAKE"}) THEN [d1 EXCEPT !.reg = set_client_state(@, t, "ASLEEP")]
              ELSE IF offline /\ idle({"ACTIVE", "AWAKE"})
                   THEN [d1 EXCEPT !.reg = set_client_state(@, t, "DISCONNECTED")]
              ELSE d1
    IN  IF beaten THEN handle_timeout(d2, e, el) ELSE d2

(* The line get_nth_client reads: past the end of the file it is zero.   *)
LineAt(d, i) == IF i \in Slots THEN d.reg[i] ELSE EmptyEntry

(* The do-while of the sweep after the visit of line i-1: read line i;  *)
(* the online sweep returns at an empty address; at the last client's    *)
(* address the loop ends and that line is visited after it.  The offline *)
(* sweep has no empty-address exit: read past the end of the file, it    *)
(* never meets the last address again and spins.  A spinning remove_     *)
(* client_subscriptions ends the sweep.                                   *)
RECURSIVE SweepFrom(_, _, _, _, _, _)
SweepFrom(d, i, last, beaten, el, offline) ==
    LET e == LineAt(d, i)
    IN  IF d.hung THEN d
        ELSE IF ~offline /\ e.addr = NoAddr THEN d
        ELSE IF offline /\ i \notin Slots THEN [d EXCEPT !.hung = TRUE]
        ELSE IF e.addr = last THEN Visit(d, e, beaten, el, offline)
        ELSE SweepFrom(Visit(d, e, beaten, el, offline), i + 1, last, beaten, el, offline)

(* has_beaten: a heartbeat is taken only while no connected client's     *)
(* timeout exceeds MaxTimeout, the bound on the model's timeout counters. *)
Beat(beaten) == beaten => \A s \in Slots : reg[s].status \in Live => reg[s].timeout <= MaxTimeout

(* A sweep over the registry from line 0, once some line is in use. *)
Sweep(d, last, beaten, el, offline) ==
    SweepFrom(Visit(d, LineAt(d, 0), beaten, el, offline), 1, last, beaten, el, offline)

(* CoreImpl::loop with both links up: has_beaten and get_elapsed_time    *)
(* are the environment's; nothing happens while no line is in use.        *)
Loop(beaten, el) ==
    LET last == get_last_client_address(reg)
    IN  /\ Serving /\ mqttOnline /\ mqttsnOnline /\ last # NoAddr /\ Beat(beaten)
        /\ Handled(Sweep(Db, last, beaten, el, FALSE))

(* CoreImpl::loop with only the broker link down: process_mqtt_offline_  *)
(* procedure.  With no line in use the gateway exits; otherwise it sweeps *)
(* with the elapsed time divided by 1000.                                 *)
LoopMqttOffline(beaten, el) ==
    LET last == get_last_client_address(reg)
    IN  /\ Serving /\ ~mqttOnline /\ mqttsnOnline /\ Beat(beaten)
        /\ IF last = NoAddr
           THEN /\ running' = FALSE
                /\ UNCHANGED <<reg, regs, subs, will, pubs, gsub, upstream, hung,
                               mqttOnline, mqttsnOnline>>
           ELSE Handled(Sweep(Db, last, beaten, el \div 1000, TRUE))

(* CoreImpl::loop with only the client link down: process_mqttsn_offline_*)
(* procedure publishes the gateway's will, disconnects from the broker  *)
(* and exits; set_all_clients_lost after it is never reached.             *)
LoopMqttSnOffline ==
    /\ Serving /\ mqttOnline /\ ~mqttsnOnline
    /\ running' = FALSE /\ mqttOnline' = FALSE /\ upstream' = {}
    /\ UNCHANGED <<reg, regs, subs, will, pubs, gsub, hung, mqttsnOnline>>

(* set_all_clients_lost: mark LOST every line in use before the line of  *)
(* the last client's address.  last is read uninitialised when no line is *)
(* in use (get_last_client_address writes it only for a line in use);    *)
(* then every line's address is zero, and any other value makes the loop *)
(* read past the end of the file forever.                                 *)
RECURSIVE LostFrom(_, _, _)
LostFrom(d, i, last) ==
    LET e == LineAt(d, i)
        t == FirstByAddr(d.reg, e.addr)
    IN  IF e.addr = last THEN d
        ELSE IF i \notin Slots THEN [d EXCEPT !.hung = TRUE]
        ELSE LostFrom(IF e.status # "EMPTY" /\ t # NoSlot
                      THEN [d EXCEPT !.reg = set_client_state(@, t, "LOST")] ELSE d, i + 1, last)

set_all_clients_lost(d, garbage) ==
    LET last == get_last_client_address(d.reg)
    IN  LostFrom(d, 0, IF last = NoAddr THEN garbage ELSE last)

(* Mutant of LoopBothOffline: system->exit() left out. *)
LoopBothOffline_no_exit(garbage) ==
    LET d == set_all_clients_lost(Db, garbage)
    IN  /\ Serving /\ ~mqttOnline /\ ~mqttsnOnline
        /\ Commit([d EXCEPT !.upstream = {}])
        /\ UNCHANGED <<mqttOnline, mqttsnOnline, running>>

(* CoreImpl::loop with both links down: set_all_clients_lost, then exit  *)
(* (if set_all_clients_lost returns).                                     *)
LoopBothOffline(garbage) ==
    LET d == set_all_clients_lost(Db, garbage)
    IN  /\ Serving /\ ~mqttOnline /\ ~mqttsnOnline
        /\ Commit([d EXCEPT !.upstream = {}])
        /\ running' = d.hung
        /\ UNCHANGED <<mqttOnline, mqttsnOnline>>

-----------------------------------------------------------------------------
(* The links and the process.  The broker bridge (PahoMqttMessageHandler) *)
(* and the socket (UdpSocketImpl) are not in the repository: they may     *)
(* report a link down or up whenever the process is serving.  A broker session is taken to be *)
(* clean, so a lost broker link loses the gateway's subscriptions.         *)

MqttLinkDown ==
    /\ "mqtt" \in LinkEvents
    /\ Serving /\ mqttOnline
    /\ mqttOnline' = FALSE /\ upstream' = {}
    /\ UNCHANGED <<reg, regs, subs, will, pubs, gsub, mqttsnOnline, running, hung>>

MqttLinkUp ==
    /\ "mqtt" \in LinkEvents
    /\ Serving /\ ~mqttOnline
    /\ mqttOnline' = TRUE
    /\ UNCHANGED <<reg, regs, subs, will, pubs, gsub, upstream, mqttsnOnline, running, hung>>

MqttSnLinkDown ==
    /\ "mqttsn" \in LinkEvents
    /\ Serving /\ mqttsnOnline
    /\ mqttsnOnline' = FALSE
    /\ UNCHANGED <<reg, regs, subs, will, pubs, gsub, upstream, mqttOnline, running, hung>>

MqttSnLinkUp ==
    /\ "mqttsn" \in LinkEvents
    /\ Serving /\ ~mqttsnOnline
    /\ mqttsnOnline' = TRUE
    /\ UNCHANGED <<reg, regs, subs, will, pubs, gsub, upstream, mqttOnline, running, hung>>

(* After system->exit() the device restarts: setup() runs Gateway::begin, *)
(* whose persistent begin() only creates the files that do not exist, so *)
(* the store survives; both links come up; nothing is subscribed at the   *)
(* broker (there is no resubscription on startup).                         *)
Restart ==
    /\ "restart" \in LinkEvents
    /\ ~running
    /\ running' = TRUE /\ mqttOnline' = TRUE /\ mqttsnOnline' = TRUE /\ upstream' = {}
    /\ UNCHANGED <<reg, regs, subs, will, pubs, gsub, hung>>

(* A process stuck in a loop that never ends keeps running it. *)
Spin == hung /\ UNCHANGED vars

-----------------------------------------------------------------------------

(* Gateway::begin succeeded: both links up, empty store. *)
Init ==
    /\ reg = [s \in Slots |-> EmptyEntry]
    /\ regs = [s \in Slots |-> <<>>]
    /\ subs = [s \in Slots |-> <<>>]
    /\ will = [s \in Slots |-> {}]
    /\ pubs = [s \in Slots |-> <<>>]
    /\ gsub = [n \in Names |-> 0]
    /\ upstream = {}
    /\ mqttOnline = TRUE /\ mqttsnOnline = TRUE
    /\ running = TRUE /\ hung = FALSE

PubQos == {-1, 0, 1, 2}
SubQos == {0, 1}

Sends(m) == m \in ClientMsgs

Client ==
    \/ \E c \in ClientIds, a \in Addrs, dur \in Durations, clean, wl \in BOOLEAN :
           /\ Sends("CONNECT") /\ <<c, a>> \in ConnectFrom
           /\ wl => Sends("WILLTOPIC")
           /\ RecvConnect(c, a, dur, clean, wl)
    \/ \E a \in Addrs :
           \/ Sends("WILLTOPIC") /\ (RecvWillTopicEmpty(a) \/ RecvWillTopic(a))
           \/ Sends("DISCONNECT") /\ (RecvDisconnect(a) \/ RecvSleep(a))
           \/ Sends("WILLMSG") /\ RecvWillMsg(a)
           \/ Sends("PINGREQ") /\ RecvPingreqId(a)
           \/ Sends("REGISTER") /\ \E n \in Names : RecvRegister(a, n)
           \/ Sends("SUBSCRIBE") /\ \E q \in SubQos, ok \in BrokerOk :
                  \/ \E n \in Names : RecvSubscribeName(a, n, q, ok)
                  \/ \E tid \in TopicIds, short \in BOOLEAN : RecvSubscribe(a, tid, short, q, ok)
           \/ Sends("UNSUBSCRIBE") /\
                  \/ \E n \in Names : RecvUnsubscribeName(a, n)
                  \/ \E tid \in TopicIds, short \in BOOLEAN : RecvUnsubscribe(a, tid, short)
           \/ Sends("PUBLISH") /\ \E tt \in TopicIdTypes, tid \in TopicIds, q \in PubQos, ok \in BrokerOk :
                  RecvPublish(a, tt, tid, q, ok)
           \/ Sends("PUBACK") /\ \E m \in {0} \cup TopicIds : RecvPuback(a, m)

Core ==
    \/ \E beaten \in BOOLEAN, el \in Elapsed : Loop(beaten, el) \/ LoopMqttOffline(beaten, el)
    \/ LoopMqttSnOffline
    \/ \E garbage \in {NoAddr} \cup Addrs : LoopBothOffline(garbage)

Environment ==
    \/ \E n \in Names : BrokerPublish(n)
    \/ MqttLinkDown \/ MqttLinkUp \/ MqttSnLinkDown \/ MqttSnLinkUp
    \/ Restart \/ Spin

Next == Client \/ Core \/ Environment

Spec == Init /\ [][Next]_vars

-----------------------------------------------------------------------------
(* Properties *)

Entries == [cid : ClientIds \cup {NoClient}, addr : Addrs \cup {NoAddr},
            status : Statuses, dur : {0} \cup {d * 1000 : d \in Durations},
            timeout : Nat, await : Awaits, awaitId : 0..65535]

TypeOK ==
    /\ reg \in [Slots -> Entries]
    /\ \A s \in Slots : /\ regs[s] \in Seq(Names)
                        /\ subs[s] \in Seq([tid : Nat, name : Names \cup {NoName}, qos : {0, 1}])
                        /\ pubs[s] \in Seq([tid : Nat, qos : {0, 1}, msgId : Nat, intact : BOOLEAN])
    /\ will \in [Slots -> SUBSET WillParts]
    /\ gsub \in [Names -> Nat]
    /\ upstream \subseteq Names
    /\ {mqttOnline, mqttsnOnline, running, hung} \subseteq BOOLEAN


Subscribers(n) == {s \in Slots : is_subscribed(subs[s], n)}

(* Client identifiers are unique in the registry: add_client looks the   *)
(* id up (start_client_transaction by id) before it adds a line, and      *)
(* delete_client zeroes the line of the id it removes.                     *)
ClientIdsUnique ==
    \A s1, s2 \in Slots : s1 # s2 /\ reg[s1].cid # NoClient => reg[s1].cid # reg[s2].cid

(* Every subscription line names, under its topic id, a topic the client *)
(* registered: add_subscription stores the id the name is registered     *)
(* under (the given id for a short topic, the id add_client_registration  *)
(* returns for a predefined one), and only delete_client, which refuses   *)
(* while subscriptions remain, empties the .REG file.  remove_client_     *)
(* subscriptions and the keep-alive sweep rely on it to find the name of  *)
(* a subscription they remove.                                             *)
SubscriptionsResolve ==
    \A s \in Slots : \A i \in 1..Len(subs[s]) :
        subs[s][i] # Hole => get_topic_name(regs[s], subs[s][i].tid) = subs[s][i].name

(* MQTT.SUB never counts more clients for a topic than there are clients *)
(* subscribed to it: add_subscription increments only when it adds the   *)
(* client's first line for the name, and every path that removes a line  *)
(* (delete_subscription, remove_client_subscriptions) decrements.  Too   *)
(* high a count would keep the broker subscription after the last client  *)
(* left.                                                                   *)
CountWithinSubscribers ==
    \A n \in Names : gsub[n] <= Cardinality(Subscribers(n))

(* MQTT.SUB counts exactly the clients subscribed to each topic name,    *)
(* along subscribes the broker accepts (by name, short or predefined id),  *)
(* broker publishes and their delivery, clean reconnects and keep-alive    *)
(* expiry with a will: add_subscription increments only for the client's  *)
(* first line of the name, and the last two remove every line of the      *)
(* client through remove_client_subscriptions, which resolves each line's  *)
(* name through the .REG file and decrements it, before delete_client      *)
(* frees the registry line.  It is not claimed for UNSUBSCRIBE (by a       *)
(* predefined id it deletes another line and leaks the count, see          *)
(* CountWithinSubscribers) nor for a refused broker subscribe (the count is *)
(* rolled back while the line stays, see SubscribedIsUpstream).             *)
RefcountExact ==
    \A n \in Names : gsub[n] = Cardinality(Subscribers(n))

(* A queued publish's topic id is registered for the client, so          *)
(* handle_client_publishes never takes its REGISTER branch (and the      *)
(* client never awaits a REGACK that would block its deliveries).        *)
PublishesResolve ==
    \A s \in Slots : \A i \in 1..Len(pubs[s]) :
        pubs[s][i] # NoPub => is_topic_known(regs[s], pubs[s][i].tid)


(* A line that is not in use carries no files: delete_client removes the *)
(* .REG, .SUB, .WIL and .PUB files of the line it zeroes, so a client     *)
(* that later gets the line (add_client takes the first free one) starts *)
(* with no registrations, subscriptions, will or queued publishes.        *)
FreeLineHasNoFiles ==
    \A s \in Slots : reg[s].status = "EMPTY" =>
        regs[s] = <<>> /\ subs[s] = <<>> /\ will[s] = {} /\ pubs[s] = <<>>

(* A client's subscription means it receives the topic's broker messages *)
(* (spec §3, Per-client Subscription): while the broker link is up, every *)
(* name a connected client is subscribed to is subscribed upstream.  A    *)
(* failed mqtt->subscribe in add_subscription rolls the count back but    *)
(* keeps the client's subscription line.                                   *)
SubscribedIsUpstream ==
    mqttOnline => \A s \in Slots, n \in Names :
                      reg[s].status \in Live /\ is_subscribed(subs[s], n) => n \in upstream

(* A connected client that the registry's address lookups find (the     *)
(* first line with its address).                                          *)
Reached(s) == reg[s].status \in Live /\ FirstByAddr(reg, reg[s].addr) = s

(* Both walks over the registry reach every connected client: a publish  *)
(* from the broker is queued for every connected client subscribed to its *)
(* topic (CoreImpl::publish), and a heartbeat of the loop checks every     *)
(* connected client's keep-alive, so its timeout grows by the elapsed time *)
(* or it is declared LOST (CoreImpl::loop, spec §4 timeout algorithm).     *)
(* Both do-whiles end at the first zeroed line, which a client deleted     *)
(* earlier leaves behind, and the fan-out ends before the last client's    *)
(* line.                                                                   *)
RegistryWalksReachAll ==
    [][/\ \A n \in Names :
             BrokerPublish(n) =>
                 \A s \in Slots : Reached(s) /\ is_subscribed(subs[s], n) => pubs'[s] # pubs[s]
       /\ \A el \in Elapsed :
             Loop(TRUE, el) =>
                 \A s \in Slots : Reached(s) =>
                     reg'[s].timeout = reg[s].timeout + el \/ reg'[s].status \in {"LOST", "EMPTY"}]_vars

(* At most one QoS 1 publish of a client is in flight (spec §3): only   *)
(* one queued entry carries a msg id.  handle_client_publishes sends only *)
(* while the client awaits nothing (PINGREQ), and a non-clean reconnect   *)
(* sets it back to PINGREQ without touching the queue.                     *)
AtMostOneInFlight ==
    \A s \in Slots : Cardinality({i \in 1..Len(pubs[s]) : pubs[s][i] # NoPub /\ pubs[s][i].msgId # 0}) <= 1

(* The queue lines of slot s sent as QoS 1 and not yet acknowledged.     *)
InFlight(s) == {i \in 1..Len(pubs[s]) : pubs[s][i] # NoPub /\ pubs[s][i].msgId # 0}

(* A reply the gateway awaits, once it arrives and is accepted, ends the  *)
(* wait (spec §4: add_will_msg advances to the next expected message on   *)
(* acceptance; notify_puback_arrived drops the acknowledged entry, and    *)
(* only while a publish is unacknowledged may the client not be sent the  *)
(* next).  Only add_client ever sets the awaited message back to PINGREQ; *)
(* the PUBACK handler passes the topic id field as the msg id, and        *)
(* remove_publish_by_msg_id writes its zeros at the wrong offset.         *)
AwaitedReplyReleases ==
    [][\A a \in Addrs :
          LET t == FirstByAddr(reg, a)
          IN  /\ RecvWillMsg(a) => reg'[t].await # "WILLMSG"
              /\ \A m \in {0} \cup TopicIds :
                     (RecvPuback(a, m) /\ t # NoSlot /\ \E i \in InFlight(t) : pubs[t][i].tid = m)
                         => reg'[t].await # "PUBACK" /\ InFlight(t)' = {}]_vars

(* The status get_client_status reports for a client id: that of the    *)
(* first registry line carrying the id, EMPTY when there is none.          *)
SessionStatus ==
    [c \in ClientIds |-> LET s == FirstByCid(reg, c) IN IF s = NoSlot THEN "EMPTY" ELSE reg[s].status]

Lifecycle == INSTANCE ClientLifecycle WITH session <- SessionStatus

(* Every status change the engine makes follows the lifecycle state       *)
(* machine of spec §4.2 (ClientLifecycle): set_awake, set_asleep and      *)
(* set_disconnected write the status whatever it was before.               *)
LifecycleRefined == Lifecycle!Spec

(* The process never gets stuck in a loop that never ends. *)
NeverHangs == ~hung

(* With the broker link down and no client connected any more, the       *)
(* gateway exits (spec Scenario E; process_mqtt_offline_procedure: "if    *)
(* [there are no connected clients] we shutdown the gateway").  A sweep  *)
(* that hangs is NeverHangs' concern, so it counts as an end here.        *)
NoneConnected == \A s \in Slots : reg[s].status \notin Live

OfflineGatewayExits ==
    (~mqttOnline /\ mqttsnOnline /\ Serving /\ NoneConnected) ~> (~running \/ hung \/ mqttOnline \/ ~mqttsnOnline)

(* When the gateway exits because the client link is down, no session is *)
(* left connected (spec §4.2: mark every session LOST, then exit).  The     *)
(* client-link branch of CoreImpl::loop exits inside process_mqttsn_      *)
(* offline_procedure, before set_all_clients_lost, and set_all_clients_   *)
(* lost stops at the last client's line without marking it.                *)
ExitLeavesNoneConnected ==
    [][Serving /\ ~mqttsnOnline /\ ~running' => \A s \in Slots : reg'[s].status \notin Live]_vars

(* The dual-link failure handling of spec §4.2, as one property: with only *)
(* the broker down the gateway exits once no client is connected, and an *)
(* exit for a lost client link leaves no session connected.                *)
DegradedLinksHandled == OfflineGatewayExits /\ ExitLeavesNoneConnected

(* Once the client link is down the process ends, unless the link comes  *)
(* back or a loop hangs: whichever the broker link's state, the next      *)
(* CoreImpl::loop takes process_mqttsn_offline_procedure or the both-     *)
(* down branch, and each ends in system->exit().                           *)
ClientLinkLossEndsProcess ==
    (Serving /\ ~mqttsnOnline) ~> (~running \/ hung \/ mqttsnOnline)

(* A queued publish that has not been sent, on line i of slot s. *)
Waiting(s, i) == i \in 1..Len(pubs[s]) /\ pubs[s][i] # NoPub /\ pubs[s][i].msgId = 0

(* The loop may send to the client of slot s: both links up, the client  *)
(* ACTIVE or AWAKE and awaiting nothing (PINGREQ).                         *)
Ready(s) == Serving /\ mqttOnline /\ mqttsnOnline
            /\ reg[s].status \in {"ACTIVE", "AWAKE"} /\ reg[s].await = "PINGREQ"

(* Every queued publish of a client the loop may send to is eventually    *)
(* sent, unless the client stops being ready (spec §2: each tick drains   *)
(* one queued publish per eligible session, from the head of the queue).  *)
(* get_next_publish takes the LAST queued line, and add_client_publish    *)
(* refills the last hole.                                                  *)
QueuedEventuallySent ==
    \A s \in Slots, i \in 1..MaxPubs :
        (Waiting(s, i) /\ Ready(s)) ~> (~Waiting(s, i) \/ ~Ready(s))

(* The loop is called again and again: Gateway::loop runs core.loop()   *)
(* on every iteration of main's while(true).                               *)
(* CoreImpl::loop is called again as soon as it returns, and a heartbeat *)
(* is due only once per keep-alive period, so a pass of the loop without  *)
(* a heartbeat is taken whenever one is possible.  Which elapsed time it   *)
(* reads is immaterial without a heartbeat.  With the client link down,   *)
(* the loop takes the client-link branch or the both-down branch,         *)
(* whichever state the broker link is in, so their disjunction is taken    *)
(* while either is possible, even under a flapping broker link.            *)
AnyElapsed == CHOOSE el \in Elapsed : TRUE

ClientLinkDownLoop == LoopMqttSnOffline \/ \E garbage \in {NoAddr} \cup Addrs : LoopBothOffline(garbage)

Fairness ==
    /\ WF_vars(Loop(FALSE, AnyElapsed))
    /\ WF_vars(LoopMqttOffline(FALSE, AnyElapsed))
    /\ WF_vars(ClientLinkDownLoop)

FairSpec == Spec /\ Fairness

(* Only the fairness of the client-link branches: what the process does   *)
(* once the client link is down needs no other.  A property that holds    *)
(* under it holds under FairSpec.                                          *)
ClientLinkFairSpec == Spec /\ WF_vars(ClientLinkDownLoop)

=============================================================================

# TLA+ model of the Arduino MQTT-SN gateway

This directory holds a TLC-checkable model of the gateway in `src/src/`.
The gateway is an MQTT-SN to MQTT bridge: MQTT-SN clients talk to it over a
datagram socket, and it keeps their sessions in files on an SD card and forwards
traffic to one MQTT broker connection.

## The system

| Part | Source | Role |
|---|---|---|
| Router | `MqttSnMessageHandler.cpp` | parses each datagram, calls the engine, sends the reply |
| Session engine | `CoreImpl.cpp` | connect/will/register/subscribe/publish logic; `loop()` delivers queued publishes and checks keep-alives; offline procedures |
| Session store | `Implementation/SDPersistentImpl.h`, `SD_table_entries.h` | the CLIENTS registry and the per-client `.REG` `.SUB` `.WIL` `.PUB` files, `MQTT.SUB` counts, `TOPICS.PRE` |
| Wiring | `Gateway.h`, `main.cpp` | `setup()`; `while(true) gateway.loop()`, which runs broker loop, socket loop and `core.loop()` in turn |
| Platform | `ArduinoSystem`, `ArduinoLogger`, `SDLinuxFake`, `UdpSocketImpl` | clock, exit, logging, file shim, socket |

The process has one thread. Every handler runs to completion, and handlers
interact only through the store and the two link flags (`is_mqtt_online`,
`is_mqttsn_online`). The Paho broker bridge is not in the repository.

## Modules

- **`SessionStore.tla`** holds the store's files as TLA+ values, with each
  store primitive as a pure operator that keeps the file's holes and search
  order:
  - `reg`: the CLIENTS lines, one per slot;
  - `regs`, `subs`, `pubs`: sequences of lines;
  - `will`: the parts of the `.WIL` record written so far (topic, message);
  - `gsub`: `MQTT.SUB`.

  The registry setters (`set_client_state`, `set_timeout`,
  `set_client_await_message`, `reset_client`) each rewrite the line of the
  client the transaction found and do nothing without one.
  `set_client_await_msg_id` is the identity: the code compares (`==`) where it
  means to assign.

  Examples of search order: the first line by address, the last hole for a
  new subscription, the last queued publish first. The store is only a cursor
  plus an error flag, with no rollback. The model keeps the error's effects
  that the engine can see: a skipped decrement, and a count that reads 0.
- **`GatewayCore.tla`** (it EXTENDS SessionStore) holds the engine and the
  router as actions:
  - `Recv*`: one per router handler that reaches the engine. Each calls an
    engine operator named after the `CoreImpl` function (`register_topic`,
    `set_disconnected`, `set_asleep`, `set_awake`, `add_will_msg`,
    `notify_puback_arrived`, `add_client`, ...);
  - `BrokerPublish`: `CoreImpl::publish(topic_name)`;
  - `Loop`, `LoopMqttOffline`, `LoopMqttSnOffline`, `LoopBothOffline`: the
    four branches of `CoreImpl::loop`;
  - link events and `Restart` (exit, then `setup()` again; the SD files
    survive, and nothing resubscribes);
  - `Spin`: a process stuck in an endless loop.

  Engine functions are operators over a `Db` record. Each action commits the
  whole handler's effect, including the nested store calls, in one step.
- **`ClientLifecycle.tla`** is the abstract specification of a client's
  status: the lifecycle state machine of spec §4.2. Its one variable `session`
  maps each client id to a status, and one step may move any set of clients
  along one edge each, because one pass of the loop may change many clients.
  `GatewayCore` instantiates it with `session <- SessionStatus`. That is the
  status `get_client_status` reports for the first line carrying the id, or
  EMPTY if no line does. The property `LifecycleRefined` (`Lifecycle!Spec`)
  states the refinement.
- **`MCGatewayCore.tla`** instantiates the model for TLC. It has three client ids
  and three addresses (most runs use two, each id from its own address), and predefined topic id 2 names `n1`, so that the id a
  client registers `n1` under (1) differs from it.

Undefined behaviour is modelled as a choice: `set_all_clients_lost` reads an
uninitialised address when the registry is empty, so `LoopBothOffline` takes
that address from `{NoAddr} \cup Addrs`. A loop that cannot end sets `hung`.

## Runs

| Run | cfg | Expect | What it shows |
|---|---|---|---|
| core | MCGatewayCore.cfg | pass | `ClientIdsUnique`, `SubscriptionsResolve` under connect, register, subscribe (broker ok or failing), unsubscribe and disconnect by two clients |
| delivery | MCDelivery.cfg | pass | `PublishesResolve`: fan-out plus loop delivery, with CONNECT (with a will), WILLTOPIC, SUBSCRIBE, PINGREQ, PUBLISH and PUBACK, never queues a topic id the client has not registered. `RefcountExact`: along accepted subscribes, clean reconnects and keep-alive expiry with a will, each `MQTT.SUB` count equals the number of clients subscribed to the topic. The last two paths go through `remove_client_subscriptions`. The property is not claimed for UNSUBSCRIBE (`refcount_leak` shows the leak) or for a refused broker subscribe (the count is rolled back while the line stays), so this run sends no UNSUBSCRIBE and the broker accepts every subscribe |
| links | MCLinks.cfg | pass | `FreeLineHasNoFiles`: under link loss, the offline procedures, restart and keep-alive expiry with wills (CONNECT, WILLTOPIC, WILLMSG), a freed line never keeps files. `LifecycleRefined`: the status changes the engine makes by itself (connect, the loop's sweep and keep-alive, both offline procedures, `set_all_clients_lost`, restart) refine `ClientLifecycle`. `ClientLinkLossEndsProcess` (under `ClientLinkFairSpec`): once the client link is down the process ends, unless the link comes back or a loop hangs, even while the broker link flaps between the two client-link branches of `CoreImpl::loop`. Client DISCONNECT and PINGREQ are left out of this run: `lifecycle` shows they break the refinement, and `core` exercises DISCONNECT |
| refcount_leak | MCRefcountLeak.cfg | violation | `CountWithinSubscribers`: predefined UNSUBSCRIBE deletes another line and leaks the count |
| upstream_dropped | MCUpstreamDropped.cfg | violation | `SubscribedIsUpstream`: a failed unsubscribe transaction unsubscribes at the broker while another connected client is still subscribed. The same property covers a failed broker subscribe, which keeps the client's line (`SubscribedIsUpstream` fails there too with `BrokerOk = {FALSE}`), and a broker reconnect or a restart, after neither of which anything resubscribes (with `LinkEvents = {"mqtt", "restart"}` TLC finds a link down and up break it in four steps) |
| fanout | MCFanOut.cfg | violation | `RegistryWalksReachAll`: every walk over the registry (the fan-out of a broker publish, the loop's heartbeat sweep) reaches every live client that address lookups find. The run has three lines, three ids and wills. TLC's shortest trace is the fan-out stopping before the last client in use (6 states). The sweep hole is in the same state space: with `SUBSCRIBE` left out, TLC breaks the property in 9 steps. The middle client, with a will, expires and is deleted, the other two reconnect, and the next sweep stops at the zeroed line, so the third client is never checked again |
| in_flight | MCInFlight.cfg | violation | `AtMostOneInFlight`: a non-clean reconnect lets a second QoS 1 publish go out |
| hang | MCHang.cfg | violation | `NeverHangs`: the offline sweep reads past the registry's end (4 states). The same run also reaches the endless `remove_client_subscriptions`: with `LinkEvents = {}`, TLC shows two subscribes, an unsubscribe of the first and a clean reconnect hanging on the hole |
| offline_exit | MCOfflineExit.cfg | violation | `DegradedLinksHandled`: the dual-link failure handling of spec §4.2, the conjunction of `OfflineGatewayExits` (with only the broker down the gateway exits once no client is connected) and `ExitLeavesNoneConnected` (an exit for a lost client link leaves no session connected). TLC breaks the second in 4 steps: a client connects, the client link drops, and `process_mqttsn_offline_procedure` exits before `set_all_clients_lost` runs. `set_all_clients_lost` would also skip the last client's line. With `LinkEvents = {"mqtt", "restart"}` TLC breaks the first in 9 steps: both clients DISCONNECT, the broker link drops, and the offline sweep never exits because DISCONNECTED lines are not emptied |
| lifecycle | MCLifecycle.cfg | violation | `LifecycleRefined`: `set_awake` moves an ACTIVE, DISCONNECTED or LOST client to AWAKE |
| starvation | MCStarvation.cfg | violation | `QueuedEventuallySent` (under `FairSpec`): delivery is last-in first-out, so while the broker keeps publishing an older queued publish is never sent |
| puback | MCPuback.cfg | violation | `AwaitedReplyReleases`: the reply a client awaits releases it (spec §4: on acceptance, advance to the next expected message). A PUBACK for the in-flight publish leaves it queued and the client awaiting PUBACK. With `ClientMsgs = {CONNECT, WILLTOPIC, WILLMSG}` TLC breaks it in 4 steps through the will: after an accepted WILLMSG the client still awaits WILLMSG, so the loop never sends it anything |

Each property of a passing run has a mutant in `PROJECT.json`: an operator
placed just before the definition it replaces, which TLC shows breaks the
property. Examples: `add_client` storing seconds, `add_client` not looking
the id up, the raw topic id stored for a predefined subscription, the
fan-out queuing the gateway's predefined id instead of the subscription's,
`delete_client` keeping the will, `remove_client_subscriptions` not
decrementing the counts, the both-down branch without its `exit()`.

## Bounds

- **Sizes:** two registry lines (three where a hole between live lines is
  needed); one or two topic names; topic ids {1, 2}.
- **Queues:** `MaxPubs` caps the `.PUB` files.
- **`MaxCount`:** caps the `MQTT.SUB` counts. The refcount leak makes them
  grow without end.
- **`MaxTimeout`:** caps timeout counters. A heartbeat is taken only while no
  connected client's timeout exceeds it.
  - The core runs use a keep-alive of 10 s and a heartbeat of 20000 ms, so one
    heartbeat makes a client LOST.
  - The links run uses `MaxTimeout = 60` because the offline sweep adds only
    elapsed/1000 per heartbeat, and the counters would otherwise take about
    750 steps.
- **Message gating:** `ClientMsgs` and `LinkEvents` choose which message kinds
  and link events a run enables. Every action fires in one of the three
  passing runs.

## Fairness

`CoreImpl::loop` runs again as soon as it returns (main's `while(true)`).
Weak fairness is assumed on:
- the loop pass without a heartbeat, in each link state;
- `ClientLinkDownLoop`, the disjunction of `LoopMqttSnOffline` and
  `LoopBothOffline`. With the client link down, the loop takes one of the two,
  whichever state the broker link is in. Fairness on each branch alone would
  let a flapping broker link keep both from being taken.

Nothing is assumed of clients, the broker or the links. In `starvation`, the
broker may therefore publish forever. `offline_exit` and `starvation` use
`FairSpec`. `links` uses `ClientLinkFairSpec`, which keeps only the
`ClientLinkDownLoop` fairness. That is enough for `ClientLinkLossEndsProcess`,
and a property that holds under it holds under `FairSpec` too. The loop-pass
fairness makes TLC's liveness check of the links state space far too slow.

## Not modelled

- Payloads, will text, file names, and the configuration getters.
- SEARCHGW/GWINFO/ADVERTISE.
- Frame-length checks and the QoS 0 msg-id check in `parse_publish`.
- The second `handle_publish` call `parse_publish` makes for a normal topic
  id: it only forwards the publish to the broker again, and the broker side
  is not state of the model.
- Two client ids from one address: `add_client` never checks the address, so
  one CONNECT makes the duplicate. The runs connect each id from its own
  address (`MCConnectFrom`) so that their properties concern the other steps.
- Reply encoding. A failed send is `MqttSnLinkDown`.
- `notify_regack_arrived` (REGACK is dispatched by `receiveData`). It changes
  state only for a client that awaits REGACK with a matching msg id.
  `PublishesResolve` shows that no client ever awaits REGACK, so in every
  reachable state a REGACK only opens and applies an empty transaction.
- The REGISTER branch of delivery, which `PublishesResolve` shows unreachable.
- PINGREQ without a client id, which changes no state because `reset_timeout`
  is commented out. As a result every client is eventually LOST. Heartbeats
  carry no fairness, so `QueuedEventuallySent` excuses a client only when it
  stops being ready.
- Flag values and return codes from `core_defines.h` / `mqttsn_messages.h`,
  which are not in the repository. They are taken from the MQTT-SN standard.

-------------------------------- MODULE Mqtt --------------------------------
(***************************************************************************)
(* The two integrations over an MQTT broker.                               *)
(*                                                                         *)
(* mqtt (mqtt.integration.ts, mqtt-client.service.ts): the state topics of *)
(* the devices are subscribed to at each connection, and the broker then   *)
(* sends what it retains; discovery messages add and remove entities.      *)
(* Entities have a command topic of their own.                             *)
(*                                                                         *)
(* rti (rti.integration.ts) goes the other way: `actual' is the entity in  *)
(* the state machine, `shown' what the broker retains for the panel; every *)
(* change of an entity is published, and the panel's commands are service  *)
(* calls.  mqtt.js (external) reconnects by itself and keeps what is       *)
(* published while it is offline, but a QoS 0 message that was on its way  *)
(* when the connection broke is gone.                                      *)
(***************************************************************************)
EXTENDS Bridge

IsMqtt == integration = "mqtt"
IsRti  == integration = "rti"

(* setup(): the configured entities are unavailable until the broker       *)
(* speaks; the others may be announced on the discovery topic.             *)
MqttSetup ==
    /\ Initially("mqtt", "unavailable")
    /\ link = "down"
    /\ topics \in {{}, Devices}
    /\ opener = "nobody" /\ ready = TRUE

RtiSetup ==
    /\ Initially("rti", "absent")
    /\ link = "down"
    /\ topics = Devices
    /\ opener = "nobody" /\ ready = TRUE

(* What the broker sends for the topics of D: their retained messages.     *)
Retained(D, content) ==
    LET s == CHOOSE s \in [1..Cardinality(D) -> D] :
                 {s[i] : i \in 1..Cardinality(D)} = D
    IN  [i \in 1..Cardinality(D) |-> Message(s[i], content[s[i]])]

DiscoveryConfigs == [d \in Devices |-> "config"]

(* Faulty variant: only the discovery topic is subscribed to again.        *)
SubscribeDiscovery == inbox' = Retained(announced, DiscoveryConfigs)

(* subscribeAll(): the state topics and the discovery topic.               *)
SubscribeAll ==
    inbox' = Retained(topics, actual)
             \o Retained(announced, DiscoveryConfigs)

(* mqtt.js has connected, for the first time or again.                     *)
MqttConnected ==
    /\ IsMqtt /\ link = "down" /\ ~torn
    /\ link' = "up"
    /\ SubscribeAll
    /\ UNCHANGED <<quietVars, actual, shown, outbox, retry, http, left>>

(* offline or close: 'disconnected' marks every entry of topicMap.         *)
MqttLost ==
    /\ IsMqtt /\ link = "up"
    /\ Spend("faults")
    /\ link' = "down" /\ inbox' = << >> /\ outbox' = << >>
    /\ shown' = [d \in Devices |-> IF d \in topics THEN "unavailable" ELSE shown[d]]
    /\ UNCHANGED <<quietVars, actual, retry, http>>

(* A device publishes its discovery message, or an empty one: external.    *)
Announce(d) ==
    /\ IsMqtt /\ d \notin topics \cup announced /\ Spend("flips")
    /\ announced' = announced \cup {d}
    /\ inbox' = IF link = "up" THEN Append(inbox, Message(d, "config")) ELSE inbox
    /\ UNCHANGED <<integration, actual, shown, link, outbox, retry, ready,
                   opener, asking, http, torn, topics>>

Withdraw(d) ==
    /\ IsMqtt /\ d \in announced /\ Spend("faults")
    /\ announced' = announced \ {d}
    /\ inbox' = IF link = "up" THEN Append(inbox, Message(d, "removed")) ELSE inbox
    /\ UNCHANGED <<integration, actual, shown, link, outbox, retry, ready,
                   opener, asking, http, torn, topics>>

(* handleDiscoveryMessage(): a config adds the entry and subscribes to its *)
(* state topic, which brings the retained state; an empty payload removes  *)
(* the entity, but its entry stays.                                        *)
DiscoveryMessage ==
    LET m == Head(inbox)
    IN  /\ IsMqtt /\ link = "up" /\ inbox # << >>
        /\ m.value \in {"config", "removed"}
        /\ IF m.value = "config"
           THEN /\ topics' = topics \cup {m.device}
                /\ inbox' = Append(Tail(inbox), Message(m.device, actual[m.device]))
                /\ UNCHANGED shown
           ELSE /\ shown' = [shown EXCEPT ![m.device] = "absent"]
                /\ inbox' = Tail(inbox)
                /\ UNCHANGED topics
        /\ UNCHANGED <<integration, actual, link, outbox, retry, ready, opener,
                       asking, http, torn, announced, left>>

(* handleMessage(): a payload on a state topic.                            *)
StateMessage ==
    LET m == Head(inbox)
    IN  /\ IsMqtt /\ link = "up" /\ inbox # << >>
        /\ m.value \in OnOff
        /\ inbox' = Tail(inbox)
        /\ shown' = IF m.device \in topics
                    THEN [shown EXCEPT ![m.device] = m.value] ELSE shown
        /\ UNCHANGED <<quietVars, actual, link, outbox, retry, http, left>>

(* turn_on, turn_off and toggle: published if connected, and shown in any  *)
(* case; toggle is left to the device and flipped here.                    *)
MqttCall(d, v) ==
    /\ IsMqtt /\ d \in topics /\ Spend("calls")
    /\ outbox' = IF link = "up" THEN Append(outbox, Message(d, v)) ELSE outbox
    /\ shown' = [shown EXCEPT ![d] = IF v = "toggle" THEN Opposite(@) ELSE v]
    /\ UNCHANGED <<quietVars, actual, link, inbox, retry, http>>

(* teardown(): end(true); no event is emitted any more.                    *)
MqttTeardown ==
    /\ IsMqtt \/ IsRti
    /\ ~torn
    /\ torn' = TRUE
    /\ link' = "down" /\ inbox' = << >> /\ outbox' = << >>
    /\ UNCHANGED <<integration, actual, shown, retry, ready, opener, asking,
                   http, topics, announced, left>>

-----------------------------------------------------------------------------
(* publishStateToRti(): every state_changed, queued while offline.         *)
PublishStateToRti(d, v) ==
    outbox' = IF torn THEN outbox ELSE Append(outbox, Message(d, v))

(* An entity changes in the state machine.                                 *)
EntityChanges(d) ==
    /\ IsRti /\ Spend("flips")
    /\ actual' = [actual EXCEPT ![d] = Opposite(@)]
    /\ PublishStateToRti(d, actual'[d])
    /\ UNCHANGED <<quietVars, shown, link, inbox, retry, http>>

RtiConnected ==
    /\ IsRti /\ link = "down" /\ ~torn
    /\ link' = "up"
    /\ UNCHANGED <<quietVars, actual, shown, inbox, outbox, retry, http, left>>

RtiLost ==
    /\ IsRti /\ link = "up" /\ Spend("faults")
    /\ link' = "down" /\ inbox' = << >> /\ outbox' = << >>
    /\ UNCHANGED <<quietVars, actual, shown, retry, http>>

(* The broker takes a published state and retains it: external.            *)
BrokerRetains ==
    /\ IsRti /\ link = "up" /\ outbox # << >>
    /\ shown' = [shown EXCEPT ![Head(outbox).device] = Head(outbox).value]
    /\ outbox' = Tail(outbox)
    /\ UNCHANGED <<quietVars, actual, link, inbox, retry, http, left>>

(* The panel publishes a command: external.                                *)
PanelCommands(d, v) ==
    /\ IsRti /\ link = "up" /\ Spend("calls")
    /\ inbox' = Append(inbox, Message(d, v))
    /\ UNCHANGED <<quietVars, actual, shown, link, outbox, retry, http>>

(* handleCommand(), handleEntityMapping(), handleServiceCall(): the        *)
(* service is called and awaited; nothing keeps two commands in order.     *)
HandleCommand ==
    /\ IsRti /\ inbox # << >>
    /\ http' = http \cup {[Exchange("set", Head(inbox).device, Head(inbox).value)
                           EXCEPT !.nr = Cardinality(http)]}
    /\ inbox' = Tail(inbox)
    /\ UNCHANGED <<quietVars, actual, shown, link, outbox, retry, left>>

(* The service runs: it sets the entity, or fails and is logged.           *)
CallService(x) ==
    /\ IsRti
    /\ http' = http \ {x}
    /\ \/ UNCHANGED <<actual, outbox>>
       \/ LET v == IF x.value = "toggle" THEN Opposite(actual[x.device]) ELSE x.value
          IN  /\ actual' = [actual EXCEPT ![x.device] = v]
              /\ IF v # actual[x.device] THEN PublishStateToRti(x.device, v)
                                         ELSE UNCHANGED outbox
    /\ UNCHANGED <<quietVars, shown, link, inbox, retry, left>>

MqttNext == \/ MqttConnected \/ MqttLost \/ DiscoveryMessage \/ StateMessage
            \/ \E d \in Devices : Announce(d) \/ Withdraw(d) \/ EntityChanges(d)
            \/ \E d \in Devices, v \in OnOff \cup {"toggle"} :
                   MqttCall(d, v) \/ PanelCommands(d, v)
            \/ MqttTeardown
            \/ RtiConnected \/ RtiLost \/ BrokerRetains \/ HandleCommand
            \/ \E x \in http : CallService(x)

MqttWorks == MqttConnected \/ DiscoveryMessage \/ StateMessage
             \/ RtiConnected \/ BrokerRetains

=============================================================================

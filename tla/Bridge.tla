------------------------------- MODULE Bridge -------------------------------
(***************************************************************************)
(* What the device integrations (src/src/integrations/built-in) have in    *)
(* common: devices in the house, each with a value of its own; the entity  *)
(* of each device in the state machine; a link to the hub of the devices   *)
(* that brings events and takes commands and may be lost; HTTP exchanges   *)
(* that may fail.  The modules TcpBridges, Mqtt and Polled                 *)
(* extend this one with what each integration does of its own, and         *)
(* Bridges puts them together.  The hubs, the broker and the people at the *)
(* switches are external: modelled from how the integrations use them.     *)
(***************************************************************************)
EXTENDS Integers, Sequences, FiniteSets

CONSTANTS
    Integrations,  \* the integrations a behaviour may be about
    Devices,       \* the devices behind the hub
    MaxFlips,      \* bound: how often somebody operates a switch
    MaxCalls,      \* bound: how many service calls there are
    MaxFaults      \* bound: links lost, requests failed, devices withdrawn

ASSUME BridgeAssumption ==
    /\ IsFiniteSet(Devices) /\ Devices # {}
    /\ MaxFlips \in Nat /\ MaxCalls \in Nat /\ MaxFaults \in Nat

VARIABLES
    integration,   \* the integration this behaviour is about; never changes
    actual,        \* [Devices -> value]: what the device really is
    shown,         \* [Devices -> value]: the state of its entity
    link,          \* the connection to the hub: "down", "opening" or "up"
    inbox,         \* messages of the hub on this link, not yet processed
    outbox,        \* commands on this link, not yet executed by the hub
    retry,         \* reconnection timers that are armed
    ready,         \* are the event handlers attached?
    opener,        \* who awaits the opening of the link
    asking,        \* the devices whose level is still to be asked for
    http,          \* HTTP exchanges under way
    torn,          \* has teardown() run?
    topics,        \* the devices the integration has an entry for
    announced,     \* devices whose discovery message the broker retains
    left           \* what is left of the bounds

vars == <<integration, actual, shown, link, inbox, outbox, retry, ready,
          opener, asking, http, torn, topics, announced, left>>

linkVars == <<link, inbox, outbox, retry, ready, opener, asking, topics,
              announced>>
quietVars == <<integration, ready, opener, asking, torn, topics, announced>>

OnOff == {"off", "on"}
Values == OnOff \cup {"unavailable", "absent"}
Opposite(v) == IF v = "on" THEN "off" ELSE "on"

(* A message of the hub, and a command to it.                              *)
Message(d, v) == [device |-> d, value |-> v]

(* An HTTP exchange: "poll" asks for all devices, "set" commands one,      *)
(* "read" reads all of them back for one.  nr tells the exchanges apart;   *)
(* step is "asked", "answered" or "failed".                                *)
Exchange(what, d, v) ==
    [what |-> what, device |-> d, value |-> v, nr |-> left.calls,
     step |-> "asked", answer |-> actual]

Polling == \E x \in http : x.what = "poll"

Spend(what) == left[what] > 0 /\ left' = [left EXCEPT ![what] = @ - 1]

(* The state every integration starts from; each adds its own conjuncts.   *)
Initially(name, value) ==
    /\ integration = name
    /\ actual \in [Devices -> OnOff]
    /\ shown = [d \in Devices |-> value]
    /\ inbox = << >> /\ outbox = << >> /\ http = {}
    /\ retry = 0
    /\ asking = << >>
    /\ torn = FALSE
    /\ announced = {}
    /\ left = [flips |-> MaxFlips, calls |-> MaxCalls, faults |-> MaxFaults]

-----------------------------------------------------------------------------
(* The house.                                                              *)

(* Which integrations hear of a change at once, on the link.               *)
Heard == {"lutron_caseta", "isy994", "mqtt", "envisalink"}

(* The hub tells of the new value of a device, over MQTT when its topic is *)
(* subscribed to.                                                          *)
Report(d, v) ==
    IF link = "up" /\ integration \in Heard /\ d \in topics
    THEN inbox' = Append(inbox, Message(d, v))
    ELSE UNCHANGED inbox

(* Somebody operates the switch of d.                                      *)
Flip(d) ==
    /\ integration \notin {"rti", "yamaha_avr"}
    /\ Spend("flips")
    /\ actual' = [actual EXCEPT ![d] = Opposite(@)]
    /\ Report(d, actual'[d])
    /\ UNCHANGED <<quietVars, shown, link, outbox, retry, http>>

(* The hub executes the oldest command on the link and tells the outcome.  *)
HubExecutes ==
    LET c == Head(outbox)
        v == CASE c.value = "toggle" -> Opposite(actual[c.device])
               [] c.value = "query"  -> actual[c.device]
               [] OTHER              -> c.value
    IN  /\ link = "up" /\ outbox # << >>
        /\ integration \notin {"rti", "yamaha_avr"}
        /\ outbox' = Tail(outbox)
        /\ actual' = [actual EXCEPT ![c.device] = v]
        /\ Report(c.device, v)
        /\ UNCHANGED <<quietVars, shown, link, retry, http, left>>

(* The hub answers an HTTP exchange: a command is executed, and for the    *)
(* others the answer is what the devices are at this moment.               *)
HubAnswers(x) ==
    /\ x.step = "asked" /\ integration # "rti"
    /\ actual' = IF x.what = "set" THEN [actual EXCEPT ![x.device] = x.value]
                                   ELSE actual
    /\ IF x.what = "set" THEN Report(x.device, x.value) ELSE UNCHANGED inbox
    /\ http' = (http \ {x}) \cup {[x EXCEPT !.step = "answered", !.answer = actual']}
    /\ UNCHANGED <<quietVars, shown, link, outbox, retry, left>>

(* The exchange fails: a command may have been executed or not.            *)
HubFails(x) ==
    /\ x.step = "asked" /\ integration # "rti"
    /\ Spend("faults")
    /\ \/ UNCHANGED <<actual, inbox>>
       \/ /\ x.what = "set"
          /\ actual' = [actual EXCEPT ![x.device] = x.value]
          /\ Report(x.device, x.value)
    /\ http' = (http \ {x}) \cup {[x EXCEPT !.step = "failed"]}
    /\ UNCHANGED <<quietVars, shown, link, outbox, retry>>

House == \/ \E d \in Devices : Flip(d)
         \/ HubExecutes
         \/ \E x \in http : HubAnswers(x) \/ HubFails(x)

=============================================================================

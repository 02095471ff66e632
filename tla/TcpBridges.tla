----------------------------- MODULE TcpBridges -----------------------------
(***************************************************************************)
(* The integrations that hold a session with a hub of their own: Lutron    *)
(* Caseta and Envisalink speak to it by lines over TCP, ISY994 hears from  *)
(* it over a WebSocket and commands it over HTTP.                          *)
(***************************************************************************)
EXTENDS Bridge

-----------------------------------------------------------------------------
(***************************************************************************)
(* The Lutron Caseta integration (lutron-caseta.integration.ts and         *)
(* lutron-caseta-client.service.ts): a telnet session with the Smart       *)
(* Bridge.  setup() opens it; when it is lost a timer opens it again; at   *)
(* each opening the level of every device is asked for, one after the      *)
(* other, and an answer that does not come counts as level 0.              *)
(*                                                                         *)
(* The events of the client are only listened to when the very first       *)
(* opening succeeded (`ready'), and a session closed cleanly while it logs *)
(* in leaves the promise of openSocket unresolved (`opener' still waits    *)
(* while the link is down): both as in the code.  Bounds of time: the      *)
(* bridge answers a query within its 3 s while the session stands, and the *)
(* queries of one opening are over before the 10 s of the next (up to      *)
(* three devices).                                                         *)
(***************************************************************************)

IsLutron == integration = "lutron_caseta"

(* The devices in the order of deviceMap.                                  *)
Order == CHOOSE s \in [1..Cardinality(Devices) -> Devices] :
             {s[i] : i \in 1..Cardinality(Devices)} = Devices

(* setup(): the devices are registered as unavailable, the first opening   *)
(* is under way.                                                           *)
LutronSetup ==
    /\ Initially("lutron_caseta", "unavailable")
    /\ link = "opening"
    /\ topics = Devices
    /\ opener = "setup"
    /\ ready = FALSE

MarkAllUnavailable == shown' = [d \in Devices |-> "unavailable"]

(* Faulty variant: the timer is armed without looking for another one.     *)
ScheduleAnother(times) == retry' = retry + times

(* scheduleReconnect(), called that many times: one timer at a time.       *)
Schedule(times) == retry' = 1

(* Faulty variant: nothing is asked for when the session is opened.        *)
GetNoLevel(rest) == asking' = << >> /\ outbox' = outbox

(* The next device of fetchAllStates: its level is asked for.  send() does *)
(* nothing without a session.                                              *)
GetLevel(rest) ==
    /\ asking' = rest
    /\ outbox' = IF rest # << >> /\ link' = "up"
                 THEN Append(outbox, Message(Head(rest), "query")) ELSE outbox

(* GNET>: the session is open.  setup() then attaches the handlers; both   *)
(* setup() and the timer go on to fetch all states.                        *)
LoggedIn ==
    /\ IsLutron /\ link = "opening"
    /\ link' = "up"
    /\ ready' = (ready \/ opener = "setup")
    /\ opener' = "nobody"
    /\ inbox' = << >>
    /\ GetLevel(Order)
    /\ UNCHANGED <<integration, actual, shown, retry, http, torn, left,
                   topics, announced>>

(* The opening fails or times out: 'disconnected' is emitted and the       *)
(* promise resolves to false; in both places a reconnection is scheduled.  *)
OpeningFails ==
    /\ IsLutron /\ link = "opening"
    /\ Spend("faults")
    /\ link' = "down"
    /\ IF ready \/ opener = "setup" THEN MarkAllUnavailable
                                    ELSE UNCHANGED shown
    /\ Schedule(IF ready THEN 2 ELSE 1)
    /\ opener' = "nobody"
    /\ UNCHANGED <<integration, actual, inbox, outbox, ready, asking, http,
                   torn, topics, announced>>

(* The bridge closes the session cleanly before the login is over: nobody  *)
(* is told.                                                                *)
ClosedAtLogin ==
    /\ IsLutron /\ link = "opening"
    /\ Spend("faults")
    /\ link' = "down"
    /\ UNCHANGED <<quietVars, actual, shown, inbox, outbox, retry, http>>

(* An open session is lost, with what was under way on it.                 *)
SessionLost ==
    /\ IsLutron /\ link = "up"
    /\ Spend("faults")
    /\ link' = "down" /\ inbox' = << >> /\ outbox' = << >>
    /\ IF ready THEN MarkAllUnavailable /\ Schedule(1)
                ELSE UNCHANGED <<shown, retry>>
    /\ UNCHANGED <<quietVars, actual, http>>

(* The timer of scheduleReconnect; see the bounds of time above.           *)
TimerReconnects ==
    /\ IsLutron /\ retry > 0 /\ asking = << >>
    /\ retry' = retry - 1
    /\ link' = "opening"
    /\ opener' = "timer"
    /\ UNCHANGED <<integration, actual, shown, inbox, outbox, ready, asking,
                   http, torn, left, topics, announced>>

(* A line ~OUTPUT: it resolves the pending query of its device, which      *)
(* shows the level and goes on to the next device; and the event shows it. *)
Output ==
    LET m == Head(inbox)
        answers == asking # << >> /\ Head(asking) = m.device
    IN  /\ IsLutron /\ link = "up" /\ inbox # << >>
        /\ inbox' = Tail(inbox)
        /\ link' = link
        /\ shown' = IF ready \/ answers
                    THEN [shown EXCEPT ![m.device] = m.value] ELSE shown
        /\ IF answers THEN GetLevel(Tail(asking))
                      ELSE UNCHANGED <<asking, outbox>>
        /\ UNCHANGED <<integration, actual, retry, ready, opener, http, torn,
                       left, topics, announced>>

(* No answer within three seconds: the level counts as 0.                  *)
QueryTimesOut ==
    /\ IsLutron /\ asking # << >> /\ link # "up"
    /\ link' = link
    /\ shown' = [shown EXCEPT ![Head(asking)] = "off"]
    /\ GetLevel(Tail(asking))
    /\ UNCHANGED <<integration, actual, inbox, retry, ready, opener, http,
                   torn, left, topics, announced>>

(* light.turn_on, turn_off and toggle (which picks one of them): the       *)
(* command is sent if there is a session, and shown in any case.  (The     *)
(* services exist once the first fetch is over, here a little earlier.)    *)
LutronCall(d, v) ==
    /\ IsLutron /\ ready /\ Spend("calls")
    /\ outbox' = IF link = "up" THEN Append(outbox, Message(d, v)) ELSE outbox
    /\ shown' = [shown EXCEPT ![d] = v]
    /\ UNCHANGED <<quietVars, actual, link, inbox, retry, http>>

LutronTeardown ==
    /\ IsLutron /\ ~torn
    /\ torn' = TRUE
    /\ retry' = 0
    /\ link' = "down" /\ inbox' = << >> /\ outbox' = << >>
    /\ opener' = "nobody"
    /\ UNCHANGED <<integration, actual, shown, ready, asking, http, left,
                   topics, announced>>

LutronNext == \/ LoggedIn \/ OpeningFails \/ ClosedAtLogin \/ SessionLost
              \/ TimerReconnects \/ Output \/ QueryTimesOut
              \/ \E d \in Devices, v \in OnOff : LutronCall(d, v)
              \/ LutronTeardown

(* What the integration does without being asked to.                       *)
LutronWorks == LoggedIn \/ TimerReconnects \/ Output \/ QueryTimesOut

-----------------------------------------------------------------------------
(***************************************************************************)
(* The Envisalink integration (envisalink.integration.ts): a TCP session   *)
(* with an alarm panel.  Its close event, and nothing else, arms the timer *)
(* that connects again after 30 s, whoever closed the session; statuses    *)
(* are asked for after each login and then at intervals.  Nothing is ever  *)
(* marked unavailable, and the entities start as off.                      *)
(***************************************************************************)

IsEvl == integration = "envisalink"

EvlSetup ==
    /\ Initially("envisalink", "off")
    /\ link = "opening"
    /\ topics = Devices
    /\ opener = "nobody" /\ ready = TRUE

(* startPolls(): the statuses are asked for, the panel tells them in any   *)
(* order; then zonedump and keepalive ask again and again.                 *)
StatusQueries ==
    LET s == CHOOSE s \in [1..Cardinality(Devices) -> Devices] :
                 {s[i] : i \in 1..Cardinality(Devices)} = Devices
    IN  [i \in DOMAIN s |-> Message(s[i], "query")]

StartPolls == outbox' = StatusQueries

Authenticated ==
    /\ IsEvl /\ link = "opening" /\ ~torn
    /\ link' = "up" /\ inbox' = << >>
    /\ StartPolls
    /\ UNCHANGED <<quietVars, actual, shown, retry, http, left>>

(* The interval timers; one round of queries at a time.                    *)
PollTimer ==
    /\ IsEvl /\ link = "up" /\ ~torn /\ outbox = << >> /\ inbox = << >>
    /\ outbox' = StatusQueries
    /\ UNCHANGED <<quietVars, actual, shown, link, inbox, retry, http, left>>

(* The close event: of a session the panel closed, that was silent for     *)
(* 10 s, or that teardown() destroyed.                                     *)
EvlClosed ==
    /\ IsEvl /\ link # "down"
    /\ left.faults > 0
    /\ left' = [left EXCEPT !.faults = @ - 1]
    /\ link' = "down" /\ inbox' = << >> /\ outbox' = << >>
    /\ retry' = retry + 1
    /\ UNCHANGED <<quietVars, actual, shown, http>>

(* connect(): a session that is still there is destroyed, and its close    *)
(* event arms a timer of its own.                                          *)
EvlConnect ==
    /\ IsEvl /\ retry > 0
    /\ retry' = IF link = "down" THEN retry - 1 ELSE retry
    /\ link' = "opening" /\ inbox' = << >> /\ outbox' = << >>
    /\ UNCHANGED <<quietVars, actual, shown, http, left>>

(* A 510, 511 or 60x message.                                              *)
ParseMessage ==
    /\ IsEvl /\ link = "up" /\ ~torn /\ inbox # << >>
    /\ shown' = [shown EXCEPT ![Head(inbox).device] = Head(inbox).value]
    /\ inbox' = Tail(inbox)
    /\ UNCHANGED <<quietVars, actual, link, outbox, retry, http, left>>

(* alarm_disarm, alarm_arm_home, alarm_arm_away: sent if logged in; the    *)
(* entity waits for the panel.                                             *)
EvlCall(d, v) ==
    /\ IsEvl /\ Spend("calls")
    /\ outbox' = IF link = "up" /\ ~torn THEN Append(outbox, Message(d, v))
                                         ELSE outbox
    /\ UNCHANGED <<quietVars, actual, shown, link, inbox, retry, http>>

(* teardown(): the timers are cleared, the socket is destroyed: its close  *)
(* event, EvlClosed, is still to come.                                     *)
EvlTeardown ==
    /\ IsEvl /\ ~torn
    /\ torn' = TRUE
    /\ retry' = 0
    /\ UNCHANGED <<integration, actual, shown, link, inbox, outbox, ready,
                   opener, asking, http, topics, announced, left>>

EvlNext == \/ Authenticated \/ PollTimer \/ EvlClosed \/ EvlConnect
           \/ ParseMessage
           \/ \E d \in Devices, v \in OnOff : EvlCall(d, v)
           \/ EvlTeardown

EvlWorks == Authenticated \/ EvlConnect \/ ParseMessage

-----------------------------------------------------------------------------
(***************************************************************************)
(* The ISY994 integration (isy994.integration.ts,                          *)
(* isy994-subscription.service.ts, isy994-client.service.ts): commands and *)
(* polls go over HTTP, changes come over a WebSocket that reconnects 5 s   *)
(* after it closed.  The entity is written by three hands that do not      *)
(* know of each other: an event, the answer to a poll (with what the hub   *)
(* said when it was asked), and a service call when its command has been   *)
(* acknowledged.  An HTTP request lasts at most 10 s, a poll starts every  *)
(* 30 s: polls do not overlap.                                             *)
(***************************************************************************)

IsIsy == integration = "isy994"

(* discoverNodes() in setup(): the entities get the statuses read from the *)
(* controller, or unavailable when they could not be read; then the        *)
(* subscription starts.                                                    *)
IsySetup ==
    /\ integration = "isy994"
    /\ actual \in [Devices -> OnOff]
    /\ shown \in {actual, [d \in Devices |-> "unavailable"]}
    /\ link = "opening" /\ inbox = << >> /\ outbox = << >>
    /\ http = {} /\ asking = << >> /\ retry = 0
    /\ topics = Devices /\ announced = {} /\ torn = FALSE
    /\ left = [flips |-> MaxFlips, calls |-> MaxCalls, faults |-> MaxFaults]
    /\ opener = "nobody" /\ ready = TRUE

(* startPolling(): all statuses are asked for.                             *)
PollStatuses ==
    /\ IsIsy /\ ~torn /\ ~Polling
    /\ http' = http \cup {Exchange("poll", CHOOSE d \in Devices : TRUE, "on")}
    /\ UNCHANGED <<integration, actual, shown, linkVars, torn, left>>

(* The answer: every entity that differs is written.                       *)
PollAnswered(x) ==
    /\ IsIsy /\ x.what = "poll" /\ x.step # "asked"
    /\ http' = http \ {x}
    /\ shown' = IF x.step = "failed" THEN shown ELSE x.answer
    /\ UNCHANGED <<integration, actual, linkVars, torn, left>>

WsOpened ==
    /\ IsIsy /\ link = "opening" /\ ~torn
    /\ link' = "up" /\ inbox' = << >>
    /\ UNCHANGED <<quietVars, actual, shown, outbox, retry, http, left>>

(* Faulty variant: the closing of a stopped subscription reconnects.       *)
ScheduleAlways == retry' = 1

(* scheduleReconnect(): not when stopped, nor while a timer is armed.      *)
ScheduleReconnect == retry' = IF torn THEN retry ELSE 1

(* The WebSocket closes, after an error or not; terminate() closes it too. *)
WsClosed ==
    /\ IsIsy /\ link # "down"
    /\ torn \/ left.faults > 0
    /\ left' = [left EXCEPT !.faults = IF torn THEN @ ELSE @ - 1]
    /\ link' = "down" /\ inbox' = << >>
    /\ ScheduleReconnect
    /\ UNCHANGED <<quietVars, actual, shown, outbox, http>>

WsReconnects ==
    /\ IsIsy /\ retry > 0
    /\ retry' = retry - 1
    /\ link' = "opening"
    /\ UNCHANGED <<quietVars, actual, shown, inbox, outbox, http, left>>

(* An event DON, DOF, DFOF or ST of a node.                                *)
NodeEvent ==
    /\ IsIsy /\ link = "up" /\ ~torn /\ inbox # << >>
    /\ shown' = [shown EXCEPT ![Head(inbox).device] = Head(inbox).value]
    /\ inbox' = Tail(inbox)
    /\ UNCHANGED <<quietVars, actual, link, outbox, retry, http, left>>

(* turn_on, turn_off, toggle: the command is sent and awaited.             *)
IsyCall(d, v) ==
    /\ IsIsy /\ Spend("calls")
    /\ http' = http \cup {Exchange("set", d, v)}
    /\ UNCHANGED <<integration, actual, shown, linkVars, torn>>

(* The command is acknowledged: the entity is set to what was asked for.   *)
(* After an error it is left alone.                                        *)
IsyCommandReturns(x) ==
    /\ IsIsy /\ x.what = "set" /\ x.step # "asked"
    /\ http' = http \ {x}
    /\ shown' = IF x.step = "failed" THEN shown
                ELSE [shown EXCEPT ![x.device] = x.value]
    /\ UNCHANGED <<integration, actual, linkVars, torn, left>>

(* teardown(): polling ends and the subscription is stopped; the socket is *)
(* closed by its close event, WsClosed.                                    *)
IsyTeardown ==
    /\ IsIsy /\ ~torn
    /\ torn' = TRUE
    /\ retry' = 0
    /\ UNCHANGED <<integration, actual, shown, link, inbox, outbox, ready,
                   opener, asking, http, left, topics, announced>>

IsyNext == \/ PollStatuses \/ WsOpened \/ WsClosed \/ WsReconnects \/ NodeEvent
           \/ \E x \in http : PollAnswered(x) \/ IsyCommandReturns(x)
           \/ \E d \in Devices, v \in OnOff : IsyCall(d, v)
           \/ IsyTeardown

IsyWorks == \/ WsOpened \/ WsReconnects \/ NodeEvent
            \/ \E x \in http : PollAnswered(x) \/ IsyCommandReturns(x)

=============================================================================

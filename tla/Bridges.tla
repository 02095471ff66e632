------------------------------ MODULE Bridges -------------------------------
(***************************************************************************)
(* The device integrations together: a behaviour is about one of them, in  *)
(* the house of Bridge.  What each must do is the same: keep the entities  *)
(* equal to the devices, whatever is lost in between.                      *)
(***************************************************************************)
EXTENDS TcpBridges, Mqtt, Polled

Init == /\ \/ LutronSetup \/ IsySetup \/ MqttSetup \/ RtiSetup \/ EvlSetup
           \/ ThermostatSetup \/ WeatherSetup \/ YamahaSetup
        /\ integration \in Integrations

Next == \/ House
        \/ IsLutron /\ LutronNext
        \/ IsIsy /\ IsyNext
        \/ MqttNext
        \/ IsEvl /\ EvlNext
        \/ PolledNext

(* The hubs answer and execute; the integrations do what is due; polls go  *)
(* on.  Nothing is assumed of the people, and links are lost and requests  *)
(* fail only as often as the bounds say.                                   *)
Fairness == /\ WF_vars(HubExecutes)
            /\ WF_vars(\E x \in http : HubAnswers(x))
            /\ WF_vars(LutronWorks)
            /\ WF_vars(IsyWorks) /\ WF_vars(PollStatuses)
            /\ WF_vars(MqttWorks)
            /\ WF_vars(EvlWorks)
            /\ WF_vars(PolledWorks) /\ WF_vars(Poll)

Spec == Init /\ [][Next]_vars /\ Fairness

-----------------------------------------------------------------------------
Commands == OnOff \cup {"toggle", "query"}

(* The state has the shape the code gives it.                              *)
BridgeTypeOK ==
    /\ integration \in Integrations
    /\ actual \in [Devices -> OnOff]
    /\ shown \in [Devices -> Values]
    /\ link \in {"down", "opening", "up"}
    /\ \A i \in DOMAIN inbox : inbox[i].value \in OnOff \cup
                                 {"toggle", "config", "removed"}
    /\ \A i \in DOMAIN outbox : outbox[i].value \in Commands
    /\ retry \in 0 .. 1
    /\ topics \subseteq Devices /\ announced \subseteq Devices
    /\ \A i \in DOMAIN asking : asking[i] \in Devices
    /\ \A x \in http : /\ x.step \in {"asked", "answered", "failed"}
                        /\ x.answer \in [Devices -> OnOff]

(* The two ways in which the Lutron client is left without a future: the   *)
(* first opening failed, so nobody listens to the later ones; or a login   *)
(* was closed cleanly, so the opening never ends.                          *)
Deaf == IsLutron /\ ~ready
Stranded == IsLutron /\ link = "down" /\ opener # "nobody"

(* A hub is never given up, nor connected to twice: at every moment there  *)
(* is a session (or one being opened) or a reconnection timer, and never   *)
(* both; so no timer can open a second session beside a living one.        *)
(* (scheduleReconnect() of lutron and isy994, the close event of           *)
(* envisalink.)                                                            *)
LinkOrTimer ==
    (IsLutron \/ IsIsy \/ IsEvl) /\ ~torn /\ ~Deaf /\ ~Stranded
        => (link = "down") = (retry = 1)

(* While the link stands and nothing is on its way, every entity shows     *)
(* what its device is: whatever calls, switches, losses, optimistic states *)
(* and reconnections came before.  (With isy994 a late answer may have the *)
(* last word until the next poll, see EventuallyAgrees; an rti message on  *)
(* its way when the connection broke is not sent again.)                   *)
AgreesWhenQuiet ==
    /\ inbox = << >> /\ outbox = << >> /\ asking = << >> /\ http = {} /\ ~torn
    /\ \/ link = "up" /\ (IsLutron \/ IsMqtt \/ IsEvl) /\ ~Deaf
       \/ link = "up" /\ IsRti /\ left.faults = MaxFaults
       \/ IsYamaha
    => \A d \in topics : \/ shown[d] = actual[d]
                         \/ (IsMqtt \/ IsRti) /\ shown[d] = "absent"

(* After teardown() no link is opened any more, by a timer that was armed  *)
(* or by the closing of the old link.  (Envisalink is left out: its close  *)
(* event arms the timer that teardown() has just cleared.)                 *)
StaysDown == torn /\ ~IsEvl => ~(link = "down" /\ link' # "down") /\ retry' = 0

(* Once the switches are left alone and the faults are over, every entity  *)
(* shows what its device is, and goes on to do so: reconnections, queries, *)
(* polls and read-backs make up for everything that was lost or came late. *)
Agrees == \A d \in topics : \/ shown[d] = actual[d]
                            \/ (IsMqtt \/ IsRti) /\ shown[d] = "absent"
EventuallyAgrees ==
    <>[](\/ Agrees \/ torn \/ Deaf \/ Stranded
         \/ IsRti /\ left.faults < MaxFaults)

(* A hub has one link, until teardown ends it for good.                    *)
OneLink == [][LinkOrTimer' /\ StaysDown]_vars
=============================================================================

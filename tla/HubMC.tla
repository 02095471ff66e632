------------------------------- MODULE HubMC -------------------------------
(* An instance for TLC of three parts of the hub that listen to its event  *)
(* bus, side by side: the WebSocket gateway, the automation engine and the *)
(* triggers.  None of them shares state with the others, so a behaviour is *)
(* about one of them, and the others rest.                                 *)
EXTENDS HaGateway, Automation, TriggerEvaluator

CONSTANTS a, b, x, y

(* The contents of automations.yaml.                                       *)

CallX == [kind |-> "call", ev |-> x]
CallY == [kind |-> "call", ev |-> y]
Delaying == [kind |-> "delay"]
OffB == [kind |-> "turn_off", id |-> b]
OnB == [kind |-> "turn_on", id |-> b]
EitherWay == [kind |-> "condition", then |-> <<Delaying>>, else |-> <<>>]
AllActions == {CallX, CallY, Delaying, OffB, OnB, EitherWay}

Auto(id, mode, on, conditional, actions) ==
    [id |-> id, mode |-> mode, max |-> 2, on |-> {on},
     conditional |-> conditional, actions |-> actions]

(* Two automations that trigger each other, a version of the file without  *)
(* the first, and one whose automation is switched off by the other.       *)
Answering == << Auto(a, "single", x, FALSE, <<CallY, Delaying>>),
                Auto(b, "parallel", y, TRUE, <<CallX, EitherWay>>) >>
Shorter == << Auto(b, "restart", x, FALSE, <<Delaying>>) >>
Switching == << Auto(a, "parallel", x, FALSE, <<OffB, Delaying, OnB>>),
                Auto(b, "single", x, FALSE, <<Delaying>>) >>
ReloadedFiles == {Answering, Shorter, Switching}
-----------------------------------------------------------------------------
VARIABLE part

hubVars == <<part, gatewayVars, vars, triggerVars>>

(* The trigger rests on an entity that is gone.                            *)
HubInit ==
    /\ part \in {"gateway", "engine", "triggers"}
    /\ GatewayInit /\ Init /\ TriggersInit
    /\ part # "triggers" => value = Gone

HubNext ==
    /\ UNCHANGED part
    /\ \/ part = "gateway"  /\ (GatewayNext \/ AnyClient) /\ UNCHANGED <<vars, triggerVars>>
       \/ part = "engine"   /\ Next         /\ UNCHANGED <<gatewayVars, triggerVars>>
       \/ part = "triggers" /\ TriggersNext /\ UNCHANGED <<gatewayVars, vars>>

HubSpec == HubInit /\ [][HubNext]_hubVars /\ EngineFairness
=============================================================================

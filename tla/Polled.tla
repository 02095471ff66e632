------------------------------- MODULE Polled -------------------------------
(***************************************************************************)
(* The integrations without a link: yamaha_avr in its mock mode (the only  *)
(* one in which zones are registered), the thermostats of nest and ecobee, *)
(* and weather.  All they show is what an HTTP answer said.  The requests  *)
(* of nest and ecobee have no time limit, so polls may overlap and be      *)
(* answered in any order; those of weather last 10 s at most, far less     *)
(* than its interval.                                                      *)
(***************************************************************************)
EXTENDS Bridge

IsThermostat == integration \in {"nest", "ecobee"}
IsWeather == integration = "weather"
IsYamaha == integration = "yamaha_avr"

Unlinked == link = "down" /\ topics = Devices /\ opener = "nobody" /\ ready = TRUE

(* setup() of nest and ecobee: the list of thermostats was read.           *)
ThermostatSetup ==
    /\ \E name \in {"nest", "ecobee"} : Initially(name, "absent")
    /\ Unlinked

WeatherSetup == Initially("weather", "absent") /\ Unlinked

(* setup() of yamaha_avr in mock mode: the zones are registered and shown; *)
(* nobody else operates them.                                              *)
YamahaSetup ==
    /\ integration = "yamaha_avr"
    /\ actual \in [Devices -> OnOff]
    /\ shown = actual
    /\ inbox = << >> /\ outbox = << >> /\ http = {} /\ asking = << >>
    /\ retry = 0 /\ torn = FALSE /\ announced = {}
    /\ left = [flips |-> 0, calls |-> MaxCalls, faults |-> 0]
    /\ Unlinked

Any == CHOOSE d \in Devices : TRUE

(* startPolling(): the interval of the integration; the bound is on what   *)
(* is under way at one time.                                               *)
Poll ==
    /\ IsThermostat \/ IsWeather
    /\ ~torn
    /\ Cardinality({x \in http : x.what = "poll"}) < (IF IsWeather THEN 1 ELSE 2)
    /\ \E n \in {10, 11} :
           LET x == [Exchange("poll", Any, "on") EXCEPT !.nr = n]
           IN  /\ \A y \in http : y.nr # n
               /\ http' = http \cup {x}
    /\ UNCHANGED <<integration, actual, shown, linkVars, torn, left>>

(* The answer, or an error that is logged: pushState of every device.      *)
PollReturns(x) ==
    /\ IsThermostat \/ IsWeather
    /\ x.what = "poll" /\ x.step # "asked"
    /\ http' = http \ {x}
    /\ shown' = IF x.step = "failed" THEN shown ELSE x.answer
    /\ UNCHANGED <<integration, actual, linkVars, torn, left>>

(* set_hvac_mode: the command goes to the cloud.  set_temperature is the   *)
(* same with a command that leaves the mode as it is.                      *)
SetHvacMode(d, v) ==
    /\ IsThermostat /\ shown[d] # "absent" /\ Spend("calls")
    /\ http' = http \cup {Exchange("set", d, v)}
    /\ UNCHANGED <<integration, actual, shown, linkVars, torn>>

(* refreshEntity(): when the command has been executed the thermostat is   *)
(* read back; an error is logged and nothing more happens.                 *)
RefreshEntity(x) ==
    /\ IsThermostat
    /\ x.what = "set" /\ x.step # "asked"
    /\ http' = (http \ {x}) \cup
                   (IF x.step = "failed" THEN {}
                    ELSE {[x EXCEPT !.what = "read", !.step = "asked"]})
    /\ UNCHANGED <<integration, actual, shown, linkVars, torn, left>>

Refreshed(x) ==
    /\ IsThermostat
    /\ x.what = "read" /\ x.step # "asked"
    /\ http' = http \ {x}
    /\ shown' = IF x.step = "failed" THEN shown
                ELSE [shown EXCEPT ![x.device] = x.answer[x.device]]
    /\ UNCHANGED <<integration, actual, linkVars, torn, left>>

(* handlePower and handleToggle: the zone is set, then read back.          *)
HandlePower(d, v) ==
    /\ IsYamaha /\ Spend("calls")
    /\ actual' = [actual EXCEPT ![d] = v]
    /\ asking' = Append(asking, d)
    /\ UNCHANGED <<integration, shown, link, inbox, outbox, retry, ready,
                   opener, http, torn, topics, announced>>

PushState ==
    /\ IsYamaha /\ asking # << >>
    /\ shown' = [shown EXCEPT ![Head(asking)] = actual[Head(asking)]]
    /\ asking' = Tail(asking)
    /\ UNCHANGED <<integration, actual, link, inbox, outbox, retry, ready,
                   opener, http, torn, topics, announced, left>>

(* teardown(): no more polls; what is under way still returns.             *)
StopPolling ==
    /\ IsThermostat \/ IsWeather \/ IsYamaha
    /\ ~torn
    /\ torn' = TRUE
    /\ UNCHANGED <<integration, actual, shown, linkVars, http, left>>

PolledNext == \/ Poll
              \/ \E x \in http : PollReturns(x) \/ RefreshEntity(x) \/ Refreshed(x)
              \/ \E d \in Devices, v \in OnOff : SetHvacMode(d, v) \/ HandlePower(d, v)
              \/ PushState \/ StopPolling

PolledWorks == \/ PushState
               \/ \E x \in http : PollReturns(x) \/ RefreshEntity(x) \/ Refreshed(x)

=============================================================================

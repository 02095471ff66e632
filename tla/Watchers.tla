------------------------------ MODULE Watchers ------------------------------
(***************************************************************************)
(* The services that look at the clock: SunService, which tells of sunrise *)
(* and sunset, and AnomalyService, which tells of doors left open and of   *)
(* power spikes.  Their timers fire once a minute, or a little late, and   *)
(* they see the world only as it is at that moment.                        *)
(***************************************************************************)
EXTENDS Integers, Sequences, SequencesExt

CONSTANTS MinutesPerDay,
          MaxStall,            \* by how many minutes a timer may be late
          Powers,              \* readings of a power sensor, in watts
          PowerHistorySize, PowerSpikeFactor, PowerBaselineMin, MinReadings,
          DoorOpenThreshold    \* in minutes

ASSUME WatchersAssumption ==
    /\ MinutesPerDay \in Nat /\ MinutesPerDay >= 8 /\ MaxStall \in {0, 1}
    /\ PowerSpikeFactor \in Nat \ {0} /\ PowerBaselineMin \in Nat
    /\ PowerHistorySize \in Nat \ {0} /\ MinReadings \in 1 .. PowerHistorySize
    /\ Powers \subseteq Nat /\ DoorOpenThreshold \in Nat

VARIABLES
    sun,         \* the minute of the day, today's rise and set, lastFiredMinute,
                 \* the entity sun.sun, and the notices since the middle of the
                 \* night before sunrise and of the day before sunset
    door,        \* the sensor's state; for how long it has been on; minutes of
                 \* being on that the service has seen
    doorSeen,    \* doorOpenedAt as an age (-1 when absent), alertedDoor
    power        \* powerHistory, alertedPower

watcherVars == <<sun, door, doorSeen, power>>
anomalyVars == <<door, doorSeen, power>>

Minutes == 0 .. MinutesPerDay - 1
Since(a, m) == (m - a) % MinutesPerDay        \* minutes from a to m
Half == MinutesPerDay \div 2
Near(m, event) == m - event \in -1 .. 1       \* Math.abs(minuteOfDay - riseMod) <= 1

(* The services start at any minute; an event that is passing counts as    *)
(* told.                                                                   *)
WatchersInit ==
    /\ \E m, rise, set \in Minutes :
          /\ rise # set
          /\ sun = [minute |-> m, rise |-> rise, set |-> set, last |-> -1,
                    above |-> Since(rise, m) < Since(rise, set),
                    riseTold |-> IF Since(rise - 1, m) <= Half THEN 1 ELSE 0,
                    setTold |-> IF Since(set - 1, m) <= Half THEN 1 ELSE 0]
    /\ door = [state |-> "off", on |-> 0, seen |-> 0]
    /\ doorSeen = [age |-> -1, alerted |-> FALSE]
    /\ power = [history |-> << >>, alerted |-> FALSE]

(* Faulty variant: a notice only in the very minute.                       *)
SunTickExact ==
    \E k \in 0 .. 1 + MaxStall :
       LET m == (sun.minute + k) % MinutesPerDay
           told(event, n) == IF Since(event, m) >= Half THEN 0 ELSE n
           notice(event) == IF m = event THEN 1 ELSE 0
       IN /\ sun' = IF m = sun.last THEN [sun EXCEPT !.minute = m]
                    ELSE [sun EXCEPT !.minute = m, !.last = m,
                             !.above = Since(sun.rise, m) < Since(sun.rise, sun.set),
                             !.riseTold = told(sun.rise, @) + notice(sun.rise),
                             !.setTold = told(sun.set, @) + notice(sun.set)]
          /\ UNCHANGED anomalyVars

(* SunService.tick(), k minutes after the one before; k is 0 when two      *)
(* firings fall into one minute.                                           *)
SunTick ==
    \E k \in 0 .. 1 + MaxStall :
       LET m == (sun.minute + k) % MinutesPerDay
           \* half a day away from an event its notices are counted anew
           told(event, n) == IF Since(event, m) >= Half THEN 0 ELSE n
           notice(event) == IF Near(m, event) THEN 1 ELSE 0
       IN /\ sun' = IF m = sun.last THEN [sun EXCEPT !.minute = m]
                    ELSE [sun EXCEPT !.minute = m, !.last = m,
                             !.above = Since(sun.rise, m) < Since(sun.rise, sun.set),
                             !.riseTold = told(sun.rise, @) + notice(sun.rise),
                             !.setTold = told(sun.set, @) + notice(sun.set)]
          /\ UNCHANGED anomalyVars

-----------------------------------------------------------------------------
(* A door sensor changes between two ticks.                                *)
DoorChanges ==
    /\ \E s \in {"on", "off", "unavailable"} \ {door.state} :
          door' = [door EXCEPT !.state = s, !.on = 0]
    /\ UNCHANGED <<sun, doorSeen, power>>

(* The average is over the readings before the latest one.                 *)
Sum(s) == LET upto[i \in 0 .. Len(s)] == IF i = 0 THEN 0 ELSE upto[i - 1] + s[i]
          IN upto[Len(s)]
Spike(h) == LET n == Len(h) - 1
                before == Sum(Front(h))
            IN /\ before >= PowerBaselineMin * n
               /\ Last(h) * n > before * PowerSpikeFactor

(* Faulty variant: the history is not cut.                                 *)
RecordedAll(w) == Append(power.history, w)
Recorded(w) == LET h == Append(power.history, w)
               IN IF Len(h) > PowerHistorySize THEN Tail(h) ELSE h

(* Faulty variant: an alarm never ends.                                    *)
CheckPowerForever ==
    \/ UNCHANGED power
    \/ \E w \in Powers :
          LET h == Recorded(w)
          IN power' = [history |-> h,
                       alerted |-> power.alerted \/ (Len(h) >= MinReadings /\ Spike(h))]

(* checkPower(): a reading that is no number is skipped.                   *)
CheckPower ==
    \/ UNCHANGED power
    \/ \E w \in Powers :
          LET h == Recorded(w)
          IN power' = [history |-> h,
                       alerted |-> IF Len(h) < MinReadings THEN power.alerted
                                   ELSE Spike(h)]

(* Faulty variant: each tick sets the time of opening.                     *)
CheckDoorsResets(k) ==
    doorSeen' = IF door.state # "on" THEN [age |-> -1, alerted |-> FALSE]
                ELSE [age |-> 0, alerted |-> doorSeen.alerted \/ 0 >= DoorOpenThreshold]

(* Faulty variant: the time of opening is kept when the door closes.       *)
CheckDoorsKeeps(k) ==
    LET age == IF doorSeen.age = -1 THEN 0 ELSE doorSeen.age + k
    IN doorSeen' = IF door.state # "on"
                   THEN [age |-> IF doorSeen.age = -1 THEN -1 ELSE age, alerted |-> FALSE]
                   ELSE [age |-> age,
                         alerted |-> doorSeen.alerted \/ age >= DoorOpenThreshold]

(* checkDoors(), k minutes after the last time.                            *)
CheckDoors(k) ==
    LET age == IF doorSeen.age = -1 THEN 0 ELSE doorSeen.age + k
    IN doorSeen' = IF door.state # "on" THEN [age |-> -1, alerted |-> FALSE]
                   ELSE [age |-> age,
                         alerted |-> doorSeen.alerted \/ age >= DoorOpenThreshold]

(* AnomalyService.tick().  (Ages are counted up to twice the threshold.)   *)
AnomalyTick ==
    \E k \in 1 .. 1 + MaxStall :
       LET capped(n) == IF n > 2 * DoorOpenThreshold THEN 2 * DoorOpenThreshold ELSE n
       IN /\ door.state = "on" => doorSeen.age + k <= 2 * DoorOpenThreshold
          /\ CheckPower /\ CheckDoors(k)
          /\ door' = [door EXCEPT !.on = IF door.state = "on" THEN capped(@ + k) ELSE 0,
                         !.seen = IF door.state = "on" THEN capped(@ + k) ELSE 0]
          /\ UNCHANGED sun

WatchersNext == SunTick \/ DoorChanges \/ AnomalyTick

WatchersSpec == WatchersInit /\ [][WatchersNext]_watcherVars

-----------------------------------------------------------------------------
WatchersTypeOK ==
    /\ sun.minute \in Minutes /\ sun.last \in Minutes \cup {-1}
    /\ door.state \in {"on", "off", "unavailable"}
    /\ doorSeen.age \in -1 .. 2 * DoorOpenThreshold
    /\ Len(power.history) <= PowerHistorySize

(* Every sunrise and every sunset is told, also by timers that skip a      *)
(* minute and when the event is next to midnight, where the window of      *)
(* three minutes is cut; and never more than three times.                  *)
SunIsTold ==
    /\ sun.riseTold <= 3 /\ sun.setTold <= 3
    /\ Since(sun.rise, sun.minute) \in 2 .. Half - 1 => sun.riseTold >= 1
    /\ Since(sun.set, sun.minute) \in 2 .. Half - 1 => sun.setTold >= 1

(* A door whose sensor has been on for longer than the threshold (and the  *)
(* minute or two until the next tick) has been told of, though the service *)
(* only sees it when it looks.                                             *)
LongOpenIsTold ==
    door.on >= DoorOpenThreshold + 1 + MaxStall => doorSeen.alerted

(* And no alarm stands unless the sensor was on each time the service      *)
(* looked during that long: a closed or unavailable door starts anew.      *)
ToldWasOpen == doorSeen.alerted /\ door.state = "on" => door.seen >= DoorOpenThreshold

(* A level that stays is no spike, however high it is: when the history    *)
(* holds nothing but the present reading, the alarm is over.               *)
SteadyIsQuiet ==
    Len(power.history) = PowerHistorySize
      /\ (\A i \in DOMAIN power.history : power.history[i] = Last(power.history))
          => ~power.alerted

(* What should be told is told, and nothing else, though the service only  *)
(* looks once a minute.                                                    *)
AlarmsAreTrue == SunIsTold /\ LongOpenIsTold /\ ToldWasOpen /\ SteadyIsQuiet
=============================================================================

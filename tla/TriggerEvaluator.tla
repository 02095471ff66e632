-------------------------- MODULE TriggerEvaluator --------------------------
(***************************************************************************)
(* The triggers of an automation that watch one entity                     *)
(* (automations/triggers/trigger-evaluator.service.ts): a state trigger    *)
(* and a numeric_state trigger, both with a `for:' duration, through       *)
(* changes, updates and removals of the entity and reloads that detach and *)
(* attach them again.                                                      *)
(***************************************************************************)
EXTENDS Integers

CONSTANTS
    Values,      \* state strings of the entity
    Inside,      \* those that parse to a number within the thresholds
    NotNumeric,  \* those parseFloat makes NaN ("unavailable")
    Gone,        \* the entity is removed: new_state is null
    AnyState,    \* `from' or `to' is not given
    From, To,    \* the states the state trigger is for, or AnyState
    For,         \* trigger.for in clock ticks, 0 when absent
    MaxTime,     \* bound: last value of the clock
    Updates      \* whether the entity reports without changing its state

None == -1
Time == 0 .. MaxTime
EntityStates == Values \cup {Gone}
Triggers == {"state", "numeric"}

ASSUME TriggerAssumption ==
    /\ Inside \subseteq Values /\ NotNumeric \subseteq Values \ Inside
    /\ Gone \notin Values /\ AnyState \notin EntityStates
    /\ From \in Values \cup {AnyState} /\ To \in Values \cup {AnyState}
    /\ For \in Nat /\ MaxTime \in Nat /\ Updates \in BOOLEAN

VARIABLES
    value,      \* the state of the entity, as the state machine has it
    forTimers,  \* when the pending timer of a trigger goes off, None without one
    wasInside,  \* the closure variable of the numeric listener
    now,
    since,      \* auxiliary: since when the entity has its state
    fitting,    \* auxiliary: whether it had the state `from' asks for before
    inside,     \* auxiliary: since when all numeric readings were inside
    watched,    \* auxiliary: the triggers that saw the whole of that, see Saw
    fires       \* auxiliary: the calls of the automation, see Firing

triggerVars == <<value, forTimers, wasInside, now, since, fitting, inside, watched, fires>>

Firing == [trigger : Triggers, at : Time, since : Time \cup {None}, fitting : BOOLEAN]

TriggersTypeOK ==
    /\ value \in EntityStates /\ fitting \in BOOLEAN
    /\ forTimers \in [Triggers -> Nat \cup {None}]
    /\ wasInside \in BOOLEAN
    /\ now \in Time /\ since \in Time /\ inside \in Time \cup {None}
    /\ watched \subseteq Triggers
    /\ fires \subseteq Firing

Fits(wanted, v) == wanted = AnyState \/ wanted = v

(* The listeners are attached whatever the state of the entity is then.    *)
TriggersInit ==
    /\ value \in EntityStates /\ fitting = Fits(From, Gone)
    /\ forTimers = [t \in Triggers |-> None] /\ wasInside = FALSE
    /\ now = 0 /\ since = 0 /\ inside = None
    /\ watched = {} /\ fires = {}
-----------------------------------------------------------------------------
(* Faulty variant: the two states are swapped.                             *)
MatchesSwapped(old, new) == Fits(From, new) /\ Fits(To, old)

Matches(old, new) == Fits(From, old) /\ Fits(To, new)

(* Faulty variants: a timer due in the past; a pending timer is kept.      *)
StateTimerPast(v) ==
    IF Matches(value, v) /\ For > 0 THEN now - For ELSE forTimers["state"]
StateTimerOnce(v) ==
    IF Matches(value, v) /\ For > 0 /\ forTimers["state"] = None THEN now + For
    ELSE forTimers["state"]

(* The state trigger: a match replaces the pending timer, an event that    *)
(* does not match leaves it alone.                                         *)
StateTimer(v) ==
    IF Matches(value, v) /\ For > 0 THEN now + For ELSE forTimers["state"]

IsNumber(v) == v \in Values \ NotNumeric

(* Faulty variant: every reading inside counts as a crossing.              *)
Level(v) == v \in Inside

Crossing(v) == ~wasInside /\ v \in Inside

(* Faulty variants: a pending timer is kept when the thresholds are        *)
(* entered; leaving them does not cancel it.                               *)
NumericTimerOnce(v) ==
    IF Crossing(v) /\ For > 0 /\ forTimers["numeric"] = None THEN now + For
    ELSE forTimers["numeric"]
NumericTimerKept(v) ==
    IF Crossing(v) /\ For > 0 THEN now + For ELSE forTimers["numeric"]

(* The numeric trigger: only the crossing from outside to inside starts    *)
(* the timer, leaving cancels it, what parseFloat rejects is ignored.      *)
NumericTimer(v) ==
    IF Crossing(v) /\ For > 0 THEN now + For
    ELSE IF v \in Inside \/ ~IsNumber(v) THEN forTimers["numeric"]
    ELSE None

(* For the properties: since when readings have been inside, with v the    *)
(* newest; and the triggers that have been attached and fed ever since.    *)
InsideSince(v) ==
    IF ~IsNumber(v) THEN inside
    ELSE IF v \notin Inside THEN None
    ELSE IF inside = None THEN now ELSE inside

Saw(v) ==
    {t \in Triggers : IF t = "state" THEN v # value \/ t \in watched
                      ELSE IsNumber(v) /\ (inside = None \/ t \in watched)}

FitsNow(v) == IF v = value THEN fitting ELSE Fits(From, value)

Firings(ts, v) ==
    {[trigger |-> t, at |-> now,
      since |-> IF t = "state" THEN IF v = value THEN since ELSE now ELSE InsideSince(v),
      fitting |-> t = "state" /\ FitsNow(v)] : t \in ts}

(* A state_changed event, with a new state or the old one and other        *)
(* attributes.                                                             *)
Changed(v) ==
    /\ v # value \/ (Updates /\ v # Gone)
    /\ value' = v
    /\ wasInside' = IF IsNumber(v) THEN v \in Inside ELSE wasInside
    /\ forTimers' = [t \in Triggers |-> IF t = "state" THEN StateTimer(v) ELSE NumericTimer(v)]
    /\ fires' = IF For > 0 THEN fires
                ELSE fires \cup Firings({t \in Triggers : IF t = "state" THEN Matches(value, v)
                                                          ELSE Crossing(v)}, v)
    /\ since' = IF v = value THEN since ELSE now
    /\ fitting' = FitsNow(v)
    /\ inside' = InsideSince(v) /\ watched' = Saw(v)
    /\ UNCHANGED now

(* What the callback of a timer looks at again before it fires.            *)
StillHolds(t) ==
    IF t = "state" THEN value # Gone /\ Fits(To, value) ELSE value \in Inside

GoesOff(t) ==
    /\ forTimers[t] # None /\ forTimers[t] <= now
    /\ forTimers' = [forTimers EXCEPT ![t] = None]
    /\ fires' = IF StillHolds(t) THEN fires \cup Firings({t}, value) ELSE fires
    /\ UNCHANGED <<value, wasInside, now, since, fitting, inside, watched>>

(* reloadAutomations: unsubscribing clears the timers, the new listeners   *)
(* start with a fresh closure.                                             *)
Reattach ==
    /\ forTimers' = [t \in Triggers |-> None] /\ wasInside' = FALSE
    /\ watched' = {}
    /\ UNCHANGED <<value, now, since, fitting, inside, fires>>

(* A timer that is due goes off before the clock moves on.                 *)
Tick ==
    /\ now < MaxTime
    /\ \A t \in Triggers : forTimers[t] # None => now < forTimers[t]
    /\ now' = now + 1
    /\ UNCHANGED <<value, forTimers, wasInside, since, fitting, inside, watched, fires>>

TriggersNext ==
    \/ \E v \in EntityStates : Changed(v)
    \/ \E t \in Triggers : GoesOff(t)
    \/ Reattach
    \/ Tick

TriggersSpec == TriggersInit /\ [][TriggersNext]_triggerVars
-----------------------------------------------------------------------------
Of(t) == {f \in fires : f.trigger = t}

(* The state trigger only calls the automation when the entity has held    *)
(* the state for the duration - unless the state was entered anew, while   *)
(* the timer ran, from another than the `from' asked for: that event the   *)
(* filter rejects before it could clear the timer.                         *)
Held(f) == f.since # None /\ f.at - f.since >= For

StateHeld == \A f \in Of("state") : f.fitting => Held(f)

(* What the manual says of a `for:' duration, without that exception: the  *)
(* state has to last for the duration before the actions are triggered.    *)
(* The code does not keep it: an entity that left the state and came back  *)
(* from elsewhere is fired for by the timer of its first stay.             *)
OnlyHeldFires == \A f \in Of("state") : Held(f)

(* The numeric trigger only does when every reading of the last For ticks  *)
(* was inside the thresholds, whatever gaps and reloads there were.        *)
NumericHeld == \A f \in Of("numeric") : Held(f)

(* What StateHeld rests on: a change to the wanted state from the one      *)
(* asked for replaces the timer.                                           *)
StateHoldInv ==
    /\ since <= now
    /\ For = 0 => forTimers["state"] = None
    /\ forTimers["state"] # None /\ Fits(To, value) /\ fitting
          => forTimers["state"] >= since + For
    /\ StateHeld

(* What NumericHeld rests on: a timer is pending only while the last       *)
(* reading is inside, and never goes off before the readings have been     *)
(* inside for the duration.                                                *)
TimerCoversHold ==
    forTimers["numeric"] # None =>
        wasInside /\ inside # None /\ forTimers["numeric"] >= inside + For

NumericHoldInv ==
    /\ inside # None => inside <= now
    /\ TimerCoversHold
    /\ NumericHeld

(* A state that is held for the duration under the eyes of the trigger,    *)
(* having come from the state asked for, triggers the automation.          *)
StateFires ==
    (/\ "state" \in watched /\ now > since + For
     /\ value # Gone /\ Fits(To, value) /\ fitting)
        => \E f \in Of("state") : f.since = since

(* So do readings that stay inside for the duration without a gap ...      *)
NumericFires ==
    "numeric" \in watched /\ inside # None /\ now > inside + For
        => \E f \in Of("numeric") : f.since = inside

(* ... and only once, however many readings follow, until the trigger is   *)
(* attached again or the readings leave the thresholds.                    *)
NumericFiresOnce ==
    [][\A f \in fires' \ fires :
          f.trigger = "numeric" /\ "numeric" \in watched'
              => \A g \in Of("numeric") : g.since # f.since]_triggerVars

(* What is held under the eyes of its trigger calls the automation, and    *)
(* readings that go on being inside do so once.                            *)
HeldIsFired == [](StateFires /\ NumericFires) /\ NumericFiresOnce
=============================================================================

----------------------------- MODULE Automation -----------------------------
(***************************************************************************)
(* The automation engine (automations/automation-engine.service.ts) with   *)
(* the action executor: loading and reloading the configured automations,  *)
(* the checks a trigger passes, the runs it starts and how they interleave.*)
(*                                                                         *)
(* A trigger is called synchronously by the event bus.  The run it starts  *)
(* executes up to its first await inside that call, then continues in      *)
(* tasks of its own; `stack' holds the synchronous calls in progress, the  *)
(* innermost last.  What the triggers compute (thresholds, `for:') is the  *)
(* subject of TriggerEvaluator; here a trigger listens to a set of events. *)
(***************************************************************************)
EXTENDS Integers, Sequences, FiniteSets, FiniteSetsExt

CONSTANTS
    Autos,       \* automation ids, after slugify
    Events,      \* changes the automations listen to or cause
    Actions,     \* the actions that occur in the files, see ActionsOK
    Files,       \* contents automations.yaml may have: sequences of Config
    MaxRuns,     \* bound: runs started
    MaxRuntimes  \* bound: runtime objects created by loads

Config == [id : Autos, mode : {"single", "parallel", "restart"}, max : Nat \ {0},
           on : SUBSET Events, conditional : BOOLEAN, actions : Seq(Actions)]

(* call      a service call whose handler sets a state (event ev) before   *)
(*           its first await                                               *)
(* delay     wait for a timer                                              *)
(* condition go on with one of two lists                                   *)
(* turn_off / turn_on   the services of the automation domain              *)
ActionsOK(a) ==
    \/ a.kind = "call" /\ a.ev \in Events
    \/ a.kind = "delay"
    \/ a.kind = "condition" /\ a.then \in Seq(Actions) /\ a.else \in Seq(Actions)
    \/ a.kind \in {"turn_off", "turn_on"} /\ a.id \in Autos

ASSUME AutomationAssumption ==
    /\ \A a \in Actions : ActionsOK(a)
    /\ \A f \in Files : f \in Seq(Config)
    /\ MaxRuns \in Nat /\ MaxRuntimes \in Nat

VARIABLES
    runtimes,     \* every AutomationRuntime ever created, in order
    automations,  \* the map id -> runtime (its index), 0 when absent
    attached,     \* runtimes whose triggers are registered on the bus
    active,       \* activeContextIds
    runs,         \* every run started: executions of executor.execute
    stack,        \* synchronous calls in progress
    entity        \* state of automation.<id>: "none", "on" or "off"

vars == <<runtimes, automations, attached, active, runs, stack, entity>>
engine == <<runtimes, automations, attached, active, entity>>
-----------------------------------------------------------------------------
Runtime == [config : Config, activeRuns : Int, enabled : BOOLEAN]

Run == [rt : Nat \ {0}, id : Autos, todo : Seq(Actions), done : BOOLEAN]

(* An emission still has to call the listeners in `left' (the emitter's    *)
(* copy of them); a run frame executes the next actions of its run.        *)
EmitFrame == [kind : {"emit"}, left : SUBSET Nat]
RunFrame == [kind : {"run"}, run : Nat \ {0}]

Idle == stack = <<>>
Top == stack[Len(stack)]
Below == SubSeq(stack, 1, Len(stack) - 1)
Loaded == {id \in Autos : automations[id] # 0}
Pending(r) == ~runs[r].done

EngineTypeOK ==
    /\ runtimes \in Seq(Runtime)
    /\ automations \in [Autos -> 0 .. Len(runtimes)]
    /\ attached \subseteq DOMAIN runtimes
    /\ active \subseteq Autos
    /\ runs \in Seq(Run)
    /\ stack \in Seq(EmitFrame \cup RunFrame)
    /\ entity \in [Autos -> {"none", "on", "off"}]

Init ==
    /\ runtimes = <<>> /\ automations = [id \in Autos |-> 0]
    /\ attached = {} /\ active = {} /\ runs = <<>> /\ stack = <<>>
    /\ entity = [id \in Autos |-> "none"]
-----------------------------------------------------------------------------
(* Loading. *)

Fresh(config) == [config |-> config, activeRuns |-> 0, enabled |-> TRUE]

(* Faulty variant: off by one.                                             *)
LastEntryOff(n, entries) == n + Max(entries) + 1

LastEntry(n, entries) == n + Max(entries)

(* registerAutomation for each entry of the file: a later entry with the   *)
(* same id takes over the map, the triggers of both stay registered.       *)
Load(file, before) ==
    LET n == Len(runtimes)
        At(id) == {i \in DOMAIN file : file[i].id = id}
    IN  /\ runtimes' = runtimes \o [i \in DOMAIN file |-> Fresh(file[i])]
        /\ automations' = [id \in Autos |-> IF At(id) = {} THEN 0 ELSE LastEntry(n, At(id))]
        /\ attached' = before \cup {n + i : i \in DOMAIN file}
        /\ entity' = [id \in Autos |-> IF At(id) = {} THEN entity[id] ELSE "on"]

(* Faulty variant: the triggers stay registered.                           *)
NoneTornDown == {}

TornDown == {automations[id] : id \in Loaded}

(* reloadAutomations, from the watcher of the file (and the first load):   *)
(* the triggers of the runtimes in the map are torn down; runs go on.      *)
Reload ==
    /\ Idle
    /\ \E file \in Files :
          /\ Len(runtimes) + Len(file) <= MaxRuntimes
          /\ Load(file, attached \ TornDown)
    /\ UNCHANGED <<active, runs, stack>>
-----------------------------------------------------------------------------
(* Triggers. *)

Listening(ev) == {rt \in attached : ev \in runtimes[rt].config.on}

Emission(ev) == [kind |-> "emit", left |-> Listening(ev)]

(* What onTriggered checks, in terms of the runtime the map holds now.     *)
SingleBusy(rt) == rt.config.mode = "single" /\ rt.activeRuns > 0
ParallelFull(rt) == rt.config.mode = "parallel" /\ rt.activeRuns >= rt.config.max

(* Faulty variant: `enabled' is not looked at.                             *)
NeverDisabled(rt) == FALSE

Disabled(rt) == ~rt.enabled

(* Faulty variant: no loop protection.                                     *)
Unprotected(id) == FALSE

Protected(id) == id \in active

Refused(id) ==
    \/ automations[id] = 0
    \/ LET rt == runtimes[automations[id]]
       IN  Disabled(rt) \/ SingleBusy(rt) \/ ParallelFull(rt)
    \/ Protected(id)

(* onTriggered up to the first action.                                     *)
StartRun(id, base) ==
    LET k == automations[id]
    IN  /\ ~Refused(id)
        /\ Len(runs) < MaxRuns
        /\ runtimes' = [runtimes EXCEPT ![k].activeRuns = @ + 1]
        /\ active' = active \cup {id}
        /\ entity' = [entity EXCEPT ![id] = "on"]
        /\ runs' = Append(runs, [rt |-> k, id |-> id, done |-> FALSE,
                                 todo |-> runtimes[k].config.actions])
        /\ stack' = Append(base, [kind |-> "run", run |-> Len(runs) + 1])
        /\ UNCHANGED <<automations, attached>>

(* A state change from outside, or an event of another component.          *)
Happen(ev) ==
    /\ Idle
    /\ stack' = <<Emission(ev)>>
    /\ UNCHANGED <<runtimes, automations, attached, active, runs, entity>>

(* The innermost emission calls the next trigger, in registration order.   *)
NextTrigger == Min(Top.left)
Called == Append(Below, [Top EXCEPT !.left = @ \ {NextTrigger}])

Delivering == stack # <<>> /\ Top.kind = "emit" /\ Top.left # {}

DeliverStart ==
    /\ Delivering
    /\ StartRun(runtimes[NextTrigger].config.id, Called)

(* The trigger is refused, or its conditions fail (they depend on states   *)
(* and times that are not modelled), or the bound is reached.              *)
DeliverRefused ==
    /\ Delivering
    /\ LET id == runtimes[NextTrigger].config.id
       IN  \/ Refused(id)
           \/ runtimes[automations[id]].config.conditional
           \/ Len(runs) = MaxRuns
    /\ stack' = Called
    /\ UNCHANGED <<engine, runs>>

EmitReturns ==
    /\ stack # <<>> /\ Top.kind = "emit" /\ Top.left = {}
    /\ stack' = Below
    /\ UNCHANGED <<engine, runs>>

(* A time trigger, the end of a `for:' timer or automation.trigger.        *)
Trigger(id) ==
    /\ Idle
    /\ StartRun(id, stack)
-----------------------------------------------------------------------------
(* Actions. *)

Executing == stack # <<>> /\ Top.kind = "run"
R == Top.run
Action == Head(runs[R].todo)
Doing(kind) == Executing /\ runs[R].todo # <<>> /\ Action.kind = kind
Advance == runs' = [runs EXCEPT ![R].todo = Tail(@)]

(* The handler sets a state: its event is delivered within the call; the   *)
(* run then waits for the handler's promise.                               *)
Call ==
    /\ Doing("call")
    /\ Advance
    /\ stack' = Append(Below, Emission(Action.ev))
    /\ UNCHANGED engine

(* The service is missing, or rejects before it sets anything: the error   *)
(* is logged and the run goes on with the next action.                     *)
CallFails ==
    /\ Doing("call")
    /\ Advance
    /\ stack' = Below
    /\ UNCHANGED engine

Delay ==
    /\ Doing("delay")
    /\ Advance
    /\ stack' = Below
    /\ UNCHANGED engine

Condition ==
    /\ Doing("condition")
    /\ \E branch \in {Action.then, Action.else} :
          runs' = [runs EXCEPT ![R].todo = branch \o Tail(@)]
    /\ UNCHANGED <<engine, stack>>

(* enable and disable, called by an action or, between tasks, by a client. *)
SetEnabled(id, on) ==
    IF automations[id] = 0 THEN UNCHANGED <<runtimes, entity>>
    ELSE /\ runtimes' = [runtimes EXCEPT ![automations[id]].enabled = on]
         /\ entity' = [entity EXCEPT ![id] = IF on THEN "on" ELSE "off"]

Switch ==
    /\ Doing("turn_off") \/ Doing("turn_on")
    /\ SetEnabled(Action.id, Action.kind = "turn_on")
    /\ Advance
    /\ stack' = Below
    /\ UNCHANGED <<automations, attached, active>>

ClientSwitch(id, on) ==
    /\ Idle /\ id \in Loaded
    /\ SetEnabled(id, on)
    /\ UNCHANGED <<automations, attached, active, runs, stack>>

(* execute returns: its caller continues in a later task.                  *)
Executed ==
    /\ Executing /\ runs[R].todo = <<>>
    /\ stack' = Below
    /\ UNCHANGED <<engine, runs>>

(* The promise or the timer the run waits for settles.                     *)
Resume(r) ==
    /\ Idle /\ Pending(r) /\ runs[r].todo # <<>>
    /\ stack' = <<[kind |-> "run", run |-> r]>>
    /\ UNCHANGED <<engine, runs>>

(* Faulty variants: the runtime object the map holds now; no release.      *)
CurrentRuntime(r) == automations[runs[r].id]
NoRelease(r) == active

RuntimeOf(r) == runs[r].rt
Release(r) == active \ {runs[r].id}

(* The finally block, on the runtime object the run was started with.      *)
Finish(r) ==
    /\ Idle /\ Pending(r) /\ runs[r].todo = <<>>
    /\ runs' = [runs EXCEPT ![r].done = TRUE]
    /\ runtimes' = [runtimes EXCEPT ![RuntimeOf(r)].activeRuns = @ - 1]
    /\ active' = Release(r)
    /\ UNCHANGED <<automations, attached, stack, entity>>
-----------------------------------------------------------------------------
Synchronous ==
    \/ DeliverStart \/ DeliverRefused \/ EmitReturns
    \/ Call \/ CallFails \/ Delay \/ Condition \/ Switch \/ Executed

Next ==
    \/ Reload
    \/ \E ev \in Events : Happen(ev)
    \/ \E id \in Autos : Trigger(id)
    \/ \E id \in Autos, on \in BOOLEAN : ClientSwitch(id, on)
    \/ Synchronous
    \/ \E r \in DOMAIN runs : Resume(r) \/ Finish(r)

EngineSpec == Init /\ [][Next]_vars

(* Calls return, and the promises and timers runs wait for settle (a delay *)
(* is at most an hour; a service call that never settles is excluded).     *)
(* Strong fairness: other tasks may run first, but the event loop gets to  *)
(* every settled promise.                                                  *)
EngineFairness ==
    /\ WF_vars(Synchronous)
    /\ \A r \in 1 .. MaxRuns : SF_vars(r \in DOMAIN runs /\ (Resume(r) \/ Finish(r)))
-----------------------------------------------------------------------------
(* Runs of one automation do not overlap when one of them was started in a *)
(* mode that forbids it (any but `parallel'), not even a run that outlives *)
(* a reload with the first run of the reloaded automation.                 *)
MayOverlap(r) == runtimes[runs[r].rt].config.mode = "parallel"

NoOverlap ==
    \A q, r \in DOMAIN runs :
        Pending(q) /\ Pending(r) /\ runs[q].id = runs[r].id /\ ~MayOverlap(q) => q = r

(* The loop protection is held exactly by the automations with a run in    *)
(* progress, and activeRuns counts the runs of its own runtime object.     *)
ProtectionMatchesRuns ==
    /\ active = {runs[r].id : r \in {q \in DOMAIN runs : Pending(q)}}
    /\ \A k \in DOMAIN runtimes :
          runtimes[k].activeRuns
              = Cardinality({r \in DOMAIN runs : Pending(r) /\ runs[r].rt = k})

(* The entity automation.<id> shows whether the automation is enabled.     *)
EntityShowsEnabled ==
    \A id \in Loaded :
        entity[id] = IF runtimes[automations[id]].enabled THEN "on" ELSE "off"

(* The triggers on the bus are those of the automations in the map: a      *)
(* reload tears down all existing ones.                                    *)
TriggersAreCurrent == attached = {automations[id] : id \in Loaded}

(* A started run ends and gives up the loop protection.                    *)
RunsEnd == \A id \in Autos : id \in active ~> id \notin active
=============================================================================

----------------------------- MODULE Platforms -----------------------------
(***************************************************************************)
(* Loading the integrations, the registry of services, and the platforms   *)
(* whose devices exist only as entities (integration-loader.service.ts,    *)
(* service-registry.service.ts, built-in/{demo,light,switch,fan,sensor,    *)
(* binary_sensor}) next to one that drives hardware (built-in/isy994).     *)
(* A service has one handler: whoever registered it last.                  *)
(***************************************************************************)
EXTENDS Integers, Sequences, FiniteSets

CONSTANTS Things,         \* the entities
          DomainOf,       \* the part of an entity id before the dot
          PlatformOf,     \* the integration that brings the entity
          Scene,          \* the states the scene holds: a function on some Things
          Configs,        \* the lists of integrations configuration.yaml may hold
          Callers, MaxCalls, MaxSetupFaults

BuiltIn == {"demo", "light", "switch", "fan", "sensor", "binary_sensor", "isy994",
            "scene"}
NoHandler == "nobody"
Verbs == {"turn_on", "turn_off", "toggle"}
Domains == {"light", "switch", "fan", "scene"}

ASSUME ThingsAssumption ==
    /\ DomainOf \in [Things -> Domains \cup {"sensor", "binary_sensor"}]
    /\ PlatformOf \in [Things -> BuiltIn]
    /\ DOMAIN Scene \subseteq {e \in Things : PlatformOf[e] # "scene"}
    /\ \A e \in DOMAIN Scene : Scene[e] \in {"on", "off"}
    /\ \A e \in Things : PlatformOf[e] = "sensor" => DomainOf[e] = "sensor"
    /\ Configs \subseteq Seq(STRING)

VARIABLES
    config,     \* the integrations configuration.yaml lists, demo included
    toLoad,     \* those still to load
    setup,      \* the setup() under way: its integration and entities left
    status,     \* integrationStatuses
    handler,    \* who answers a service, by domain and verb
    value,      \* the state of each entity; "none" before it has one
    device,     \* what the hardware of an isy994 entity does
    call,       \* the service call each caller waits for
    wanted,     \* auxiliary: the state the calls ask for, taken as they came
    up,         \* the process runs
    plat        \* how much has happened

platVars == <<config, toLoad, setup, status, handler, value, device, call, wanted,
              up, plat>>

NoSetup == [domain |-> NoHandler, left |-> << >>]
NoCall  == [verb |-> "none", by |-> NoHandler, todo |-> << >>, sent |-> "no"]
Hardware == {e \in Things : PlatformOf[e] = "isy994"}

(* demo is loaded first, unless the list names it itself.                  *)
WithDemo(cfg) == IF \E i \in DOMAIN cfg : cfg[i] = "demo" THEN cfg ELSE <<"demo">> \o cfg

PlatInit ==
    /\ \E cfg \in Configs : config = WithDemo(cfg)
    /\ toLoad = config
    /\ setup = NoSetup
    /\ status = [d \in {} |-> "loading"]
    /\ handler = [s \in Domains \X Verbs |-> NoHandler]
    /\ value = [e \in Things |-> "none"]
    /\ device = [e \in Hardware |-> "off"]
    /\ call = [c \in Callers |-> NoCall]
    /\ wanted = [e \in Things |-> "off"]
    /\ up = TRUE
    /\ plat = [calls |-> 0, faults |-> 0]

Booted == toLoad = << >> /\ setup = NoSetup

-----------------------------------------------------------------------------
(* register(): one by one; a handler there was is replaced.                *)
(* Faulty variant: a new map for the domain forgets its other services.    *)
RegisterFresh(by, services) ==
    [s \in DOMAIN handler |->
        IF s \in services THEN by
        ELSE IF \E t \in services : t[1] = s[1] THEN NoHandler ELSE handler[s]]
Register(by, services) ==
    [s \in DOMAIN handler |-> IF s \in services THEN by ELSE handler[s]]

(* What demo registers: no toggle for switches.                            *)
DemoServices == ({"light", "switch"} \X {"turn_on", "turn_off"}) \cup {<<"light", "toggle">>}

(* isy994 leaves a domain alone that can be turned on already.             *)
IsyServices ==
    {s \in Domains \X Verbs : /\ handler[<<s[1], "turn_on">>] = NoHandler
                              /\ \E e \in Hardware : DomainOf[e] = s[1]}

LightServices  == {"light"} \X Verbs
SwitchServices == {"switch"} \X Verbs
FanServices    == {"fan"} \X Verbs

(* setup() of light, switch and fan registers services first.              *)
First(domain) == CASE domain = "light"  -> LightServices
                   [] domain = "switch" -> SwitchServices
                   [] domain = "fan"    -> FanServices
                   [] OTHER             -> {}

SceneServices == {<<"scene", "turn_on">>}

(* demo, scene and isy994 register them when the entities are there.       *)
AfterEntities(domain) == CASE domain = "demo"   -> DemoServices
                  [] domain = "scene"  -> SceneServices
                  [] domain = "isy994" -> IsyServices
                  [] OTHER             -> {}

Own(domain) == {e \in Things : PlatformOf[e] = domain}
AsSeq(S) == CHOOSE s \in [1 .. Cardinality(S) -> S] : \A e \in S : \E i \in DOMAIN s : s[i] = e

SetStatus(d, st) == [x \in DOMAIN status \cup {d} |-> IF x = d THEN st ELSE status[x]]

(* loadIntegration(): an unknown domain fails at once.  Fans and scenes    *)
(* get their state before setup() waits for anything.                      *)
LoadNext ==
    /\ up /\ setup = NoSetup /\ toLoad # << >>
    /\ LET d == Head(toLoad)
       IN IF d \notin BuiltIn
          THEN /\ status' = SetStatus(d, "failed")
               /\ toLoad' = Tail(toLoad)
               /\ UNCHANGED <<setup, handler, value>>
          ELSE /\ status' = SetStatus(d, "loading")
               /\ handler' = Register(d, First(d))
               /\ setup' = [domain |-> d, left |-> IF d \in {"fan", "scene"} THEN << >>
                                                   ELSE AsSeq(Own(d))]
               /\ value' = [e \in Things |-> IF d \in {"fan", "scene"} /\ e \in Own(d) THEN "off"
                                             ELSE value[e]]
               /\ UNCHANGED toLoad
    /\ UNCHANGED <<config, device, call, wanted, up, plat>>

(* registerEntity() is waited for, then the state is set: off whatever it  *)
(* was, or what the controller says.                                       *)
StateShows(e, v) == value' = [value EXCEPT ![e] = v]
DemoEntity(e)         == e \in Own("demo") /\ StateShows(e, "off")
LightEntity(e)        == e \in Own("light") /\ StateShows(e, "off")
SwitchEntity(e)       == e \in Own("switch") /\ StateShows(e, "off")
SensorEntity(e)       == e \in Own("sensor") /\ StateShows(e, "off")
BinarySensorEntity(e) == e \in Own("binary_sensor") /\ StateShows(e, "off")
IsyEntity(e)          == e \in Hardware /\ StateShows(e, device[e])

SetupEntity ==
    /\ up /\ setup.left # << >>
    /\ LET e == Head(setup.left)
       IN \/ DemoEntity(e) \/ LightEntity(e) \/ SwitchEntity(e) \/ SensorEntity(e)
          \/ BinarySensorEntity(e) \/ IsyEntity(e)
    /\ setup' = [setup EXCEPT !.left = Tail(@)]
    /\ UNCHANGED <<config, toLoad, status, handler, device, call, wanted, up, plat>>

(* The database or the controller fails; what is registered so far stays.  *)
(* Faulty variant: the failure ends the loading.                           *)
SetupFailsAll ==
    /\ up /\ setup # NoSetup /\ setup.domain \notin {"fan", "scene"} /\ plat.faults < MaxSetupFaults
    /\ plat' = [plat EXCEPT !.faults = @ + 1]
    /\ status' = SetStatus(setup.domain, "failed")
    /\ setup' = NoSetup
    /\ toLoad' = << >>
    /\ UNCHANGED <<config, handler, value, device, call, wanted, up>>
SetupFails ==
    /\ up /\ setup # NoSetup /\ setup.domain \notin {"fan", "scene"} /\ plat.faults < MaxSetupFaults
    /\ plat' = [plat EXCEPT !.faults = @ + 1]
    /\ status' = SetStatus(setup.domain, "failed")
    /\ setup' = NoSetup
    /\ toLoad' = Tail(toLoad)
    /\ UNCHANGED <<config, handler, value, device, call, wanted, up>>

SetupDone ==
    /\ up /\ setup # NoSetup /\ setup.left = << >>
    /\ status' = SetStatus(setup.domain, "loaded")
    /\ handler' = Register(setup.domain, AfterEntities(setup.domain))
    /\ setup' = NoSetup
    /\ toLoad' = Tail(toLoad)
    /\ UNCHANGED <<config, value, device, call, wanted, up, plat>>

(* createFan() registers its entity without a platform and does not wait:  *)
(* the row is refused and nobody catches it.                               *)
FanRowRefused ==
    /\ up /\ "fan" \in DOMAIN status /\ Own("fan") # {}
    /\ up' = FALSE
    /\ call' = [c \in Callers |-> NoCall]
    /\ UNCHANGED <<config, toLoad, setup, status, handler, value, device, wanted, plat>>

-----------------------------------------------------------------------------
(* The handlers.  Off becomes on and anything else that is not on too.     *)
Flipped(v) == IF v = "on" THEN "off" ELSE "on"
ResultOf(verb, v) == CASE verb = "turn_on" -> "on" [] verb = "turn_off" -> "off"
                    [] OTHER -> Flipped(v)

InSeq(e, s) == \E i \in DOMAIN s : s[i] = e

(* turn_on and turn_off do every target in one go; demo does toggle so too,*)
(* and skips an entity that has no state.                                  *)
DemoHandler(verb, targets) ==
    [e \in Things |-> IF InSeq(e, targets) /\ value[e] # "none"
                      THEN ResultOf(verb, value[e]) ELSE value[e]]
LightHandler(verb, targets) ==
    [e \in Things |-> IF InSeq(e, targets) THEN ResultOf(verb, value[e]) ELSE value[e]]
SwitchHandler(verb, targets) ==
    [e \in Things |-> IF InSeq(e, targets) THEN ResultOf(verb, value[e]) ELSE value[e]]

(* The fan handlers look at the first target only.                         *)
FanHandler(verb, targets) ==
    [e \in Things |-> IF e = targets[1] /\ value[e] # "none"
                      THEN ResultOf(verb, value[e]) ELSE value[e]]

(* A scene writes the states of its entities, whoever they belong to.      *)
SceneHandler(targets) ==
    [e \in Things |-> IF PlatformOf[targets[1]] = "scene" /\ e \in DOMAIN Scene
                      THEN Scene[e] ELSE value[e]]

Waits(by, verb) == \/ by = "isy994"
                   \/ by \in {"light", "switch"} /\ verb = "toggle"

(* What the caller wants of e: a toggle reverses it; a turn_on that         *)
(* overtakes a toggle under way, or a toggle of hardware, leaves it open.  *)
Pending(e) == \E c \in Callers : InSeq(e, call[c].todo)
Wanted(by, verb, targets) ==
    [e \in Things |->
        IF \/ by = "scene" /\ (PlatformOf[targets[1]] # "scene" \/ e \notin DOMAIN Scene)
           \/ by # "scene" /\ ~InSeq(e, targets)
           \/ by \in {"demo", "fan"} /\ value[e] = "none"
           \/ by = "fan" /\ e # targets[1] THEN wanted[e]
        ELSE IF by = "scene" THEN IF Pending(e) THEN "any" ELSE Scene[e]
        ELSE IF by = "isy994" \/ (verb # "toggle" /\ Pending(e)) THEN "any"
        ELSE IF verb = "toggle" /\ wanted[e] = "any" THEN "any"
        ELSE ResultOf(verb, wanted[e])]

(* Requests come after the bootstrap: main.ts listens last.  A service     *)
(* nobody registered is not found.                                         *)
CallService(c) ==
    /\ up /\ Booted /\ call[c] = NoCall /\ plat.calls < MaxCalls
    /\ plat' = [plat EXCEPT !.calls = @ + 1]
    /\ \E verb \in Verbs, targets \in UNION {[1 .. n -> Things] : n \in 1 .. 2} :
       /\ \A i \in DOMAIN targets : DomainOf[targets[i]] = DomainOf[targets[1]]
       /\ DomainOf[targets[1]] \in Domains
       /\ Len(targets) = 2 => targets[1] # targets[2]
       /\ LET by == handler[<<DomainOf[targets[1]], verb>>]
          IN IF by = NoHandler THEN UNCHANGED <<value, call, wanted>>
             ELSE /\ wanted' = Wanted(by, verb, targets)
                  /\ IF Waits(by, verb)
                     THEN /\ call' = [call EXCEPT ![c] =
                                [verb |-> verb, by |-> by, todo |-> targets, sent |-> "no"]]
                          /\ UNCHANGED value
                     ELSE /\ value' = CASE by = "fan"    -> FanHandler(verb, targets)
                                        [] by = "scene"  -> SceneHandler(targets)
                                        [] by = "demo"   -> DemoHandler(verb, targets)
                                        [] by = "light"  -> LightHandler(verb, targets)
                                        [] by = "switch" -> SwitchHandler(verb, targets)
                          /\ UNCHANGED call
    /\ UNCHANGED <<config, toLoad, setup, status, handler, device, up>>

Rest(c) == IF Len(call[c].todo) = 1 THEN NoCall
           ELSE [call[c] EXCEPT !.todo = Tail(@), !.sent = "no"]

Rests == UNCHANGED <<config, toLoad, setup, status, handler, device, wanted, up, plat>>

(* Faulty variant: the state is read before an await and used after it.    *)
LightToggleStale(c) ==
    /\ call[c].by = "light"
    /\ LET e == Head(call[c].todo)
       IN IF call[c].sent = "no"
          THEN /\ call' = [call EXCEPT ![c].sent = Flipped(value[e])]
               /\ UNCHANGED value
          ELSE /\ StateShows(e, call[c].sent)
               /\ call' = [call EXCEPT ![c] = Rest(c)]
    /\ Rests

(* handleToggle() of light and of switch: one target, then an await.       *)
LightToggle(c) ==
    /\ call[c].by = "light"
    /\ LET e == Head(call[c].todo) IN StateShows(e, Flipped(value[e]))
    /\ call' = [call EXCEPT ![c] = Rest(c)]
    /\ Rests
SwitchToggle(c) ==
    /\ call[c].by = "switch"
    /\ LET e == Head(call[c].todo) IN StateShows(e, Flipped(value[e]))
    /\ call' = [call EXCEPT ![c] = Rest(c)]
    /\ Rests

(* isy994 sends a command for a target that is a node, and skips others.   *)
IsySends(c) ==
    /\ call[c].by = "isy994" /\ call[c].sent = "no"
    /\ LET e == Head(call[c].todo)
       IN call' = [call EXCEPT ![c] =
             IF e \in Hardware THEN [call[c] EXCEPT !.sent = ResultOf(call[c].verb, value[e])]
             ELSE Rest(c)]
    /\ UNCHANGED <<config, toLoad, setup, status, handler, value, device, wanted, up,
                   plat>>

(* The command is carried out and acknowledged.                            *)
IsyAcknowledged(c) ==
    /\ call[c].by = "isy994" /\ call[c].sent # "no"
    /\ LET e == Head(call[c].todo)
       IN /\ device' = [device EXCEPT ![e] = call[c].sent]
          /\ value' = [value EXCEPT ![e] = call[c].sent]
    /\ call' = [call EXCEPT ![c] = Rest(c)]
    /\ UNCHANGED <<config, toLoad, setup, status, handler, wanted, up, plat>>

(* The simulated sensors report a new value every 30 s.                    *)
SensorTick ==
    /\ up
    /\ \E e \in Own("sensor") : /\ value[e] # "none"
                                /\ value' = [value EXCEPT ![e] = Flipped(@)]
    /\ UNCHANGED <<config, toLoad, setup, status, handler, device, call, wanted, up,
                   plat>>

ServiceCalled(c) == CallService(c) \/ LightToggle(c) \/ SwitchToggle(c) \/ IsySends(c)
            \/ IsyAcknowledged(c)

PlatNext == \/ LoadNext \/ SetupEntity \/ SetupFails \/ SetupDone \/ FanRowRefused
            \/ SensorTick \/ \E c \in Callers : ServiceCalled(c)

PlatSpec == PlatInit /\ [][PlatNext]_platVars

-----------------------------------------------------------------------------
(* The state has the shape the code gives it.                              *)
PlatTypeOK ==
    /\ toLoad \in Seq(BuiltIn \cup {NoHandler} \cup DOMAIN status
                      \cup {config[i] : i \in DOMAIN config})
    /\ \A d \in DOMAIN status : status[d] \in {"loading", "loaded", "failed"}
    /\ handler \in [Domains \X Verbs -> BuiltIn \cup {NoHandler}]
    /\ value \in [Things -> {"none", "on", "off"}]
    /\ device \in [Hardware -> {"on", "off"}]
    /\ \A c \in Callers : Len(call[c].todo) \in 0 .. 2

(* A failed integration does not take the others with it: when loading is  *)
(* over every listed integration has been tried, and only those that are   *)
(* unknown or met a fault have failed (loadIntegrations()).                *)
EveryoneIsTried ==
    Booted =>
        /\ \A i \in DOMAIN config :
              config[i] \in DOMAIN status /\ status[config[i]] # "loading"
        /\ Cardinality({d \in DOMAIN status \cap BuiltIn : status[d] = "failed"})
              <= plat.faults

(* A service that could be called once can be called for ever: whoever     *)
(* registers later replaces the handler of a service and takes no other    *)
(* away, whatever the order of the list (register()).                      *)
ServicesStay ==
    [][\A s \in DOMAIN handler : handler[s] # NoHandler => handler'[s] # NoHandler]_platVars

(* No toggle is lost, nor done twice: when nobody waits, a simulated entity*)
(* is in the state the calls asked for, though handleToggle() waits        *)
(* between the targets and other calls come in between.  (As long as the   *)
(* process runs: what it has not done when it ends is not done.)           *)
TogglesCount ==
    up /\ (\A c \in Callers : call[c] = NoCall) =>
        \A e \in Things : DomainOf[e] \in Domains \ {"scene"} /\ value[e] # "none"
                           /\ wanted[e] # "any" /\ Booted
                         => (value[e] = wanted[e])

(* What the documentation says of isy994 (light.turn_on/turn_off and       *)
(* switch.turn_on/turn_off are its services): when nobody waits, the       *)
(* hardware does what its entity shows.                                    *)
ShownIsDone ==
    (\A c \in Callers : call[c] = NoCall) =>
        \A e \in Hardware : value[e] # "none" => value[e] = device[e]

(* The failure of one integration leaves the others, their services and    *)
(* the calls under way alone.                                              *)
PlatformsStand == [](EveryoneIsTried /\ TogglesCount) /\ ServicesStay
=============================================================================

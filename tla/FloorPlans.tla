----------------------------- MODULE FloorPlans -----------------------------
(***************************************************************************)
(* The floor plans: what the 3D plan has in its scene, what touching a     *)
(* fixture does on both plans, and the map of meshes to devices.           *)
(***************************************************************************)
EXTENDS Integers, Sequences, FiniteSets

-----------------------------------------------------------------------------
(***************************************************************************)
(* What the 3D floor plan has in its scene (useSceneContent): the model of *)
(* the floor, loaded in the background, and the fixtures tied to its       *)
(* meshes, which become known before, while and after it loads.            *)
(***************************************************************************)

CONSTANTS Floors,
          Fixtures,       \* the entities with a place on a floor
          SortOf,         \* "light", "sphere", "sensor", "marker" or "player"
          FloorOf,        \* glb_floor
          Meshless,       \* the fixtures whose mesh the model does not have
          Filters,        \* the sets of sorts ?filter= may name
          MaxSwitches, MaxFlips, MaxModelFaults

ASSUME SceneAssumption ==
    \A f \in Fixtures : SortOf[f] \in {"light", "sphere", "sensor", "marker", "player"}

VARIABLES
    floor,      \* the floor that is selected
    loads,      \* GLTFLoader.load() under way: [no, floor, players]
    inScene,    \* the models that were added to the scene and not removed
    model,      \* glbModelRef
    badge,      \* glbLoading, glbLoaded, glbError; "idle" after none of them
    knownStates,      \* the fixtures whose state the page has
    lit,        \* which of them are on
    ties,       \* glbRefs, sphRefs, senRefs and senGlbRefs: fixture -> load
    players,    \* mediaGlbRefs
    drawn,      \* the fixtures drawn as on by updateVisuals
    filter,     \* activeBehaviors
    overtaken,  \* a floor was left before its model had arrived
    spent

sceneVars == <<floor, loads, inScene, model, badge, knownStates, lit, ties, players, drawn,
               filter, overtaken, spent>>

NoModel == [no |-> 0, floor |-> 0]
Untied  == 0
Alone   == 1                \* a bulb or a marker of its own, tied to no model
Sort(sorts) == {f \in Fixtures : SortOf[f] \in sorts}
FixturesOn(g) == {f \in Fixtures : FloorOf[f] = g}
HasMesh(m) == {f \in FixturesOn(m.floor) \ Meshless : SortOf[f] \in {"light", "sensor", "player"}}

(* Model m is searched for the meshes of these; a sensor without one gets a*)
(* marker.                                                                 *)
TiedBy(m) == (HasMesh(m) \cap Sort({"light", "sensor"}))
                \cup (FixturesOn(m.floor) \cap Sort({"sensor"}) \cap Meshless)

-----------------------------------------------------------------------------
(* What ties fixtures to model m while g is the selected floor.  The       *)
(* callback of the loader reads the lights and sensors from refs, and the  *)
(* floor and the players from the render that began the load.              *)
Placed(f, m) == IF f \in HasMesh(m) THEN m.no ELSE Alone

(* Faulty variant: the lights and sensors known when the load began.       *)
LoadedTiesStale(m, since) ==
    [f \in Fixtures |-> IF f \in since \cap TiedBy(m) THEN Placed(f, m) ELSE ties[f]]

LoadedTies(m, since) ==
    [f \in Fixtures |-> IF f \in knownStates \cap TiedBy(m) THEN Placed(f, m) ELSE ties[f]]

(* The effects for fixtures that become known later; without a model only  *)
(* bulbs and markers of their own are added.                               *)
LateTies(now, tied, m, g) ==
    [f \in Fixtures |->
        IF f \notin now \cap FixturesOn(g) \/ tied[f] # Untied THEN tied[f]
        ELSE IF SortOf[f] \in {"sphere", "marker"} THEN Alone
        ELSE IF /\ m # NoModel
                /\ \/ SortOf[f] \in {"light", "sensor"} /\ f \in HasMesh(m)
                   \/ SortOf[f] = "sensor" /\ f \in Meshless
             THEN Placed(f, m) ELSE Untied]

(* processMedia: once tied, always tied.                                   *)
LatePlayers(now, m, g) == players \cup (now \cap FixturesOn(g) \cap Sort({"player"}) \cap HasMesh(m))

Tied(t) == {f \in Fixtures : t[f] # Untied}

(* updateVisuals: every fixture of the scene whose state is known.         *)
Visuals(now, on, t) ==
    [f \in Fixtures |-> IF f \in now \cap (Tied(t) \cup players) THEN f \in on ELSE drawn[f]]

-----------------------------------------------------------------------------
(* The page opens on floor 1 and nothing is known yet.                     *)
SceneInit ==
    /\ floor = CHOOSE g \in Floors : \A h \in Floors : g <= h
    /\ loads = {[no |-> 2, floor |-> floor, since |-> {}]}
    /\ inScene = {} /\ model = NoModel /\ badge = "loading"
    /\ knownStates = {} /\ lit \in SUBSET Sort({"light", "player"})
    /\ ties = [f \in Fixtures |-> Untied] /\ players = {}
    /\ drawn = [f \in Fixtures |-> FALSE]
    /\ filter \in Filters
    /\ overtaken = FALSE
    /\ spent = [switches |-> 0, flips |-> 0, faults |-> 0]

(* setFloor by a button or by the keys 1, 2 and 3: the scene is cleared    *)
(* and the next model is asked for.                                        *)
(* Faulty variant: the model of the floor that is left stays.              *)
SwitchFloorKeeps ==
    /\ spent.switches < MaxSwitches
    /\ \E g \in Floors \ {floor} :
          /\ floor' = g
          /\ loads' = loads \cup {[no |-> spent.switches + 3, floor |-> g, since |-> knownStates]}
          /\ ties' = LateTies(knownStates, [f \in Fixtures |-> Untied], NoModel, g)
    /\ model' = NoModel /\ badge' = "loading"
    /\ overtaken' = (overtaken \/ loads # {})
    /\ spent' = [spent EXCEPT !.switches = @ + 1]
    /\ UNCHANGED <<inScene, knownStates, lit, players, drawn, filter>>

SwitchFloor ==
    /\ spent.switches < MaxSwitches
    /\ \E g \in Floors \ {floor} :
          /\ floor' = g
          /\ loads' = loads \cup {[no |-> spent.switches + 3, floor |-> g, since |-> knownStates]}
          /\ ties' = LateTies(knownStates, [f \in Fixtures |-> Untied], NoModel, g)
    /\ inScene' = inScene \ {model}
    /\ model' = NoModel /\ badge' = "loading"
    /\ overtaken' = (overtaken \/ loads # {})
    /\ spent' = [spent EXCEPT !.switches = @ + 1]
    /\ UNCHANGED <<knownStates, lit, players, drawn, filter>>

(* The callback of the loader.  targetFloor and p.floor are both of the    *)
(* render that began the load, so the model of a floor that was left since *)
(* is added like any other.                                                *)
ModelLoads(l) ==
    LET m == [no |-> l.no, floor |-> l.floor] IN
    /\ loads' = loads \ {l}
    /\ inScene' = inScene \cup {m}
    /\ model' = m
    /\ ties' = LoadedTies(m, l.since)
    /\ players' = players
           \cup (l.since \cap HasMesh(m) \cap Sort({"player"}))
           \cup (IF badge # "loaded" THEN LatePlayers(knownStates, m, floor) ELSE {})
    /\ badge' = "loaded"
    /\ UNCHANGED <<floor, knownStates, lit, drawn, filter, overtaken, spent>>

ModelFails(l) ==
    /\ spent.faults < MaxModelFaults
    /\ loads' = loads \ {l}
    /\ badge' = "error"
    /\ spent' = [spent EXCEPT !.faults = @ + 1]
    /\ UNCHANGED <<floor, inScene, model, knownStates, lit, ties, players, drawn, filter, overtaken>>

(* "Tap to retry" sets the floor that is set already: no effect runs.      *)
TapToRetry ==
    /\ badge = "error" /\ badge' = "loading"
    /\ UNCHANGED <<floor, loads, inScene, model, knownStates, lit, ties, players, drawn, filter,
                   overtaken, spent>>

-----------------------------------------------------------------------------
(* A state is new or changes: the effects run in their order, and the last *)
(* one draws the lights.                                                   *)
NewStates(now, on) ==
    /\ knownStates' = now /\ lit' = on
    /\ ties' = LateTies(now, ties, model, floor)
    /\ players' = IF model = NoModel THEN players ELSE LatePlayers(now, model, floor)
    /\ drawn' = Visuals(now, on, ties')
    /\ UNCHANGED <<floor, loads, inScene, model, badge, filter, overtaken>>

StateArrives == /\ \E f \in Fixtures \ knownStates : NewStates(knownStates \cup {f}, lit)
                /\ UNCHANGED spent

StateFlips == /\ spent.flips < MaxFlips
              /\ \E f \in knownStates : NewStates(knownStates, IF f \in lit THEN lit \ {f} ELSE lit \cup {f})
              /\ spent' = [spent EXCEPT !.flips = @ + 1]

SceneNext ==
    \/ SwitchFloor \/ TapToRetry \/ StateArrives \/ StateFlips
    \/ \E l \in loads : ModelLoads(l) \/ ModelFails(l)

SceneSpec == SceneInit /\ [][SceneNext]_sceneVars

-----------------------------------------------------------------------------
(* What is seen.  The filter of the address hides what it does not name,   *)
(* doors never; a click on a hidden fixture does nothing.                  *)
InFilter(f) == filter = {} \/ SortOf[f] \in filter
Seen(f) == f \in Tied(ties) \cup players /\ (InFilter(f) \/ SortOf[f] \in {"sensor", "marker"})
Answers(f) == f \in Tied(ties) \cup players /\ InFilter(f)
Stands(f) == IF SortOf[f] \in {"sensor", "player"} THEN f \in lit ELSE drawn[f]
Legend == [f \in knownStates \cap FixturesOn(floor) |-> f \in lit]

-----------------------------------------------------------------------------
(* The variables have the shape the code gives them.                       *)
SceneTypeOK ==
    /\ floor \in Floors /\ knownStates \subseteq Fixtures /\ lit \subseteq Fixtures
    /\ \A l \in loads : l.floor \in Floors /\ l.since \subseteq knownStates
    /\ model \in inScene \cup {NoModel}
    /\ badge \in {"loading", "loaded", "error"}
    /\ ties \in [Fixtures -> {Untied, Alone} \cup {m.no : m \in inScene}]
    /\ players \subseteq knownStates /\ drawn \in [Fixtures -> BOOLEAN]

(* When the scene has the model of the selected floor, every fixture of    *)
(* that floor the page knows is in it, whether its state came before,      *)
(* while or after the model loaded and whatever other model loaded last,   *)
(* except lights and players that the model does not have.                 *)
(* (Players are tied by an effect that a second model does not start       *)
(* again: with a floor left too early they wait for the next state.)       *)
KnownAreInScene ==
    model # NoModel /\ model.floor = floor =>
        \A f \in knownStates \cap FixturesOn(floor) :
            IF SortOf[f] = "player" THEN f \in players \cup Meshless \/ overtaken
            ELSE ties[f] # Untied \/ f \in Meshless \cap Sort({"light"})

(* As long as no floor is left before its model has arrived, the scene     *)
(* has no model but the one of the selected floor.                         *)
OneModel == ~overtaken => inScene = {model} \ {NoModel} /\ model.floor \in {0, floor}

-----------------------------------------------------------------------------
(***************************************************************************)
(* Touching a fixture on the floor plans.  Both plans draw the wish before *)
(* the house has followed it; the 3D plan takes it back when the call      *)
(* fails, the 2D plan writes a state and never commands the device.        *)
(***************************************************************************)

CONSTANTS MaxShade,       \* levels of a fixture are 0 .. MaxShade
          MaxTouches, MaxOthers, MaxTouchFaults

VARIABLES
    planShows,      \* the fixture in the states map of the page
    real,       \* the fixture in the state machine
    news,       \* state_changed events on their way to the page
    touches,    \* the calls of the page: what was asked and where it stands
    popup,      \* selectedId is the fixture
    astray,     \* the page was left with a picture the house never confirmed
    others      \* how often the house changed by itself, and the faults left

touchVars == <<planShows, real, news, touches, popup, astray, others>>

Shades == 0 .. MaxShade
Fixture == [on : BOOLEAN, shade : Shades]
Open == {n \in DOMAIN touches : touches[n].step # "over"}

(* callService() and fetch(): keep is what a failure puts back, heard says *)
(* that the page had news of the fixture since.                            *)
TouchAsks(kind, to, keep) ==
    [kind |-> kind, to |-> to, keep |-> keep, back |-> kind = "hit", heard |-> FALSE, step |-> "sent"]

TouchPlan(asks) ==
    /\ Len(touches) + Len(asks) <= MaxTouches
    /\ touches' = touches \o asks
    /\ UNCHANGED <<real, news, astray, others>>

TouchInit ==
    /\ real \in Fixture /\ planShows = real
    /\ news = <<>> /\ touches = <<>> /\ popup = FALSE /\ astray = FALSE
    /\ others = [changes |-> 0, faults |-> 0]

-----------------------------------------------------------------------------
(* The 3D plan.  A click on the fixture selects it and toggles it; so does *)
(* the switch of the popup.                                                *)
Toggled == [planShows EXCEPT !.on = ~@]

HitFixture == /\ TouchPlan(<<TouchAsks("hit", Toggled, planShows)>>)
              /\ planShows' = Toggled /\ popup' = TRUE

PopupToggle == /\ popup
               /\ TouchPlan(<<TouchAsks("hit", Toggled, planShows)>>)
               /\ planShows' = Toggled /\ UNCHANGED popup

PopupCloses == popup /\ popup' = FALSE
               /\ UNCHANGED <<planShows, real, news, touches, astray, others>>

(* The slider previews every step and asks once, when it is let go; the    *)
(* call that fails is not taken back, and neither is the volume's.         *)
SlideShade == /\ popup
              /\ \E v \in Shades : /\ TouchPlan(<<TouchAsks("slide", [on |-> TRUE, shade |-> v], planShows)>>)
                                   /\ planShows' = [on |-> TRUE, shade |-> v]
              /\ UNCHANGED popup

(* A press on the legend selects or unselects, toggles, and is never taken *)
(* back.                                                                   *)
LegendPress == /\ TouchPlan(<<TouchAsks("legend", Toggled, planShows)>>)
               /\ planShows' = Toggled /\ popup' = ~popup

(* The 2D plan posts a whole state with the attributes it has.             *)
CardToggle == /\ TouchPlan(<<TouchAsks("post", Toggled, planShows)>>)
              /\ planShows' = Toggled /\ UNCHANGED popup

(* onBrightness, and for a fixture that is off toggleDevice too, which     *)
(* still reads the state of before: it posts the old attributes.           *)
CardSlide ==
    /\ \E v \in Shades :
          LET slid == [on |-> TRUE, shade |-> v] IN
          /\ TouchPlan(<<TouchAsks("post", slid, planShows)>>
                   \o IF planShows.on THEN <<>> ELSE <<TouchAsks("post", Toggled, planShows)>>)
          /\ planShows' = slid
    /\ UNCHANGED popup

-----------------------------------------------------------------------------
(* The house executes a call, in any order: they are different requests.   *)
(* A service keeps the attributes it is not told; a post replaces them.    *)
Done(t) == CASE t.kind \in {"hit", "legend"} -> [real EXCEPT !.on = t.to.on]
             [] OTHER -> t.to

HouseObeys(n) ==
    /\ touches[n].step = "sent"
    /\ touches' = [touches EXCEPT ![n].step = "done"]
    /\ real' = Done(touches[n]) /\ news' = Append(news, real')
    /\ UNCHANGED <<planShows, popup, astray, others>>

CallSucceeds(n) ==
    /\ touches[n].step = "done"
    /\ touches' = [touches EXCEPT ![n].step = "over"]
    /\ UNCHANGED <<planShows, real, news, popup, astray, others>>

(* A failure: refused by the house, or no answer within 10 s although the  *)
(* house may have done it.  Only a click and the popup's switch take back. *)
(* Faulty variant: only statesRef, which the click read, is put back.      *)
CallFailsHalf(n) ==
    /\ touches[n].step \in {"sent", "done"} /\ others.faults < MaxTouchFaults
    /\ touches' = [touches EXCEPT ![n].step = "over"]
    /\ planShows' = planShows
    /\ astray' = (astray \/ ~touches[n].back \/ touches[n].heard \/ Open # {n})
    /\ others' = [others EXCEPT !.faults = @ + 1]
    /\ UNCHANGED <<real, news, popup>>

CallFails(n) ==
    /\ touches[n].step \in {"sent", "done"} /\ others.faults < MaxTouchFaults
    /\ touches' = [touches EXCEPT ![n].step = "over"]
    /\ planShows' = IF touches[n].back THEN touches[n].keep ELSE planShows
    /\ astray' = (astray \/ ~touches[n].back \/ touches[n].heard \/ Open # {n})
    /\ others' = [others EXCEPT !.faults = @ + 1]
    /\ UNCHANGED <<real, news, popup>>

(* Somebody else changes the fixture.                                      *)
HouseChanges ==
    /\ others.changes < MaxOthers
    /\ real' \in Fixture \ {real}
    /\ news' = Append(news, real')
    /\ others' = [others EXCEPT !.changes = @ + 1]
    /\ UNCHANGED <<planShows, touches, popup, astray>>

(* The page hears of it.  The last news puts right whatever was astray,    *)
(* unless a press is still open.                                           *)
PageHears ==
    /\ news # <<>>
    /\ planShows' = Head(news) /\ news' = Tail(news)
    /\ touches' = [n \in DOMAIN touches |-> [touches[n] EXCEPT !.heard = TRUE]]
    /\ astray' = (astray /\ (Len(news) > 1 \/ Open # {}))
    /\ UNCHANGED <<real, popup, others>>

TouchNext ==
    \/ HitFixture \/ PopupToggle \/ PopupCloses \/ SlideShade \/ LegendPress
    \/ CardToggle \/ CardSlide \/ HouseChanges \/ PageHears
    \/ \E n \in DOMAIN touches : HouseObeys(n) \/ CallSucceeds(n) \/ CallFails(n)

TouchSpec == TouchInit /\ [][TouchNext]_touchVars

-----------------------------------------------------------------------------
(* What is drawn: the popup and the card of the 2D plan, with a bar that   *)
(* stands at the top for a level that is not known.                        *)
PopupDrawn == IF popup THEN {[switch |-> planShows.on, bar |-> planShows.shade]} ELSE {}
CardDrawn  == [lit |-> planShows.on, switch |-> planShows.on, bar |-> planShows.shade]

-----------------------------------------------------------------------------
(* The variables have the shape the code gives them.                       *)
TouchTypeOK ==
    /\ planShows \in Fixture /\ real \in Fixture
    /\ \A n \in DOMAIN news : news[n] \in Fixture
    /\ \A n \in DOMAIN touches : touches[n].step \in {"sent", "done", "over"}
    /\ popup \in BOOLEAN /\ astray \in BOOLEAN

(* When every call is over and no news is on its way the plan shows the    *)
(* fixture as it is, though calls fail in the middle of others' changes:   *)
(* unless a failure was not taken back, or was taken back past newer news  *)
(* or another press, and nothing was heard since.                          *)
PlanIsTrue == Open = {} /\ news = <<>> /\ ~astray => planShows = real

-----------------------------------------------------------------------------
(***************************************************************************)
(* Which mesh stands for which device: the file 3d-mappings.json, the edit *)
(* panel of the 3D plan, which writes the whole map at every pick, and the *)
(* 2D plan, which reads it every 5 s.                                      *)
(***************************************************************************)

CONSTANTS Meshes, Devices,
          Untagged,       \* no device
          MeshOf,         \* glb_mesh of the devices; Untagged for none
          MaxBinds, MaxReopens, MaxMapFaults

VARIABLES
    file,       \* the map in the file: mesh -> device
    met,        \* the devices whose state the page has
    editor,     \* the page of the 3D plan: step, map, hist, at
    puts,       \* its PUTs, on their way one after the other
    polled,     \* mappings of the 2D plan
    mapWanted,     \* what was last picked or deleted for each mesh
    undone,     \* the meshes an undo touched, which is not saved
    hasty,      \* a pick before the map was loaded, or one that failed
    tally

mapVars == <<file, met, editor, puts, polled, mapWanted, undone, hasty, tally>>

Bare == [m \in Meshes |-> Untagged]
Maps == [Meshes -> Devices \cup {Untagged}]
Reset == [step |-> "opened", seen |-> {}, map |-> Bare, hist |-> <<>>, at |-> 0]

MapInit ==
    /\ file = Bare /\ met \in SUBSET Devices
    /\ editor = Reset /\ puts = <<>> /\ polled = Bare
    /\ mapWanted = Bare /\ undone = {} /\ hasty = FALSE
    /\ tally = [binds |-> 0, reopens |-> 0, faults |-> 0]

(* saveMappings: a PUT of the whole map.                                   *)
PutsMap(m) == puts' = Append(puts, m)

(* pushHist: what can be undone is what the map was.                       *)
Kept == Append(SubSeq(editor.hist, 1, editor.at), editor.map)

-----------------------------------------------------------------------------
(* The map is asked for once, with the states the page has by then.        *)
AskForMap == /\ editor.step = "opened"
             /\ editor' = [editor EXCEPT !.step = "asked", !.seen = met]
             /\ UNCHANGED <<file, met, puts, polled, mapWanted, undone, hasty, tally>>

(* glb_mesh of the devices met; of two with one mesh the last counts.      *)
Merged(seen) == {m \in Maps : \A mesh \in Meshes :
                    LET tagged == {d \in seen : MeshOf[d] = mesh} IN
                    IF tagged = {} THEN m[mesh] = Untagged ELSE m[mesh] \in tagged}

MapArrives ==
    /\ editor.step = "asked"
    /\ IF file # Bare
       THEN /\ editor' = [editor EXCEPT !.step = "ready", !.map = file]
            /\ UNCHANGED <<puts, mapWanted>>
       ELSE \E m \in Merged(editor.seen) :
            /\ editor' = [editor EXCEPT !.step = "ready", !.map = m]
            /\ mapWanted' = m
            /\ IF m # Bare THEN PutsMap(m) ELSE UNCHANGED puts
    /\ UNCHANGED <<file, met, polled, undone, hasty, tally>>

MapDoesNotArrive ==
    /\ editor.step = "asked" /\ tally.faults < MaxMapFaults
    /\ editor' = [editor EXCEPT !.step = "failed"]
    /\ tally' = [tally EXCEPT !.faults = @ + 1]
    /\ UNCHANGED <<file, met, puts, polled, mapWanted, undone, hasty>>

-----------------------------------------------------------------------------
(* The edit panel, open whether the map has arrived or not.                *)
Edit == /\ tally.binds < MaxBinds
        /\ tally' = [tally EXCEPT !.binds = @ + 1]
        /\ UNCHANGED <<file, met, polled>>

Binds(mesh, d) ==
    LET next == [editor.map EXCEPT ![mesh] = d] IN
    /\ editor' = [editor EXCEPT !.map = next, !.hist = Kept, !.at = @ + 1]
    /\ mapWanted' = [mapWanted EXCEPT ![mesh] = d]
    /\ undone' = undone \ {mesh}
    /\ hasty' = (hasty \/ editor.step # "ready")

(* Faulty variant: the map of the last render is saved.                    *)
PickSavesOld == /\ Edit
                /\ \E mesh \in Meshes, d \in Devices :
                      /\ editor.map[mesh] = Untagged
                      /\ Binds(mesh, d) /\ PutsMap(editor.map)

Pick == /\ Edit
        /\ \E mesh \in Meshes, d \in Devices :
              /\ editor.map[mesh] = Untagged
              /\ Binds(mesh, d) /\ PutsMap([editor.map EXCEPT ![mesh] = d])

Unbind == /\ Edit
          /\ \E mesh \in Meshes :
                /\ editor.map[mesh] # Untagged
                /\ Binds(mesh, Untagged) /\ PutsMap([editor.map EXCEPT ![mesh] = Untagged])

(* The arrow: the map of before is shown, and not saved.                   *)
Undo == /\ Edit /\ editor.at > 0
        /\ LET back == editor.hist[editor.at] IN
           /\ editor' = [editor EXCEPT !.map = back, !.at = @ - 1]
           /\ undone' = undone \cup {mesh \in Meshes : back[mesh] # editor.map[mesh]}
        /\ UNCHANGED <<puts, mapWanted, hasty>>

SaveButton == /\ Edit
              /\ editor' = [editor EXCEPT !.hist = Kept, !.at = @ + 1]
              /\ PutsMap(editor.map)
              /\ mapWanted' = editor.map /\ undone' = {}
              /\ hasty' = (hasty \/ editor.step # "ready")

-----------------------------------------------------------------------------
PutArrives == /\ puts # <<>>
              /\ file' = Head(puts) /\ puts' = Tail(puts)
              /\ UNCHANGED <<met, editor, polled, mapWanted, undone, hasty, tally>>

(* "Save failed": the panel goes on with the map it has.                   *)
PutFails == /\ puts # <<>> /\ tally.faults < MaxMapFaults
            /\ puts' = Tail(puts) /\ hasty' = TRUE
            /\ tally' = [tally EXCEPT !.faults = @ + 1]
            /\ UNCHANGED <<file, met, editor, polled, mapWanted, undone>>

ReopenPlan == /\ tally.reopens < MaxReopens /\ puts = <<>>
              /\ editor' = Reset
              /\ tally' = [tally EXCEPT !.reopens = @ + 1]
              /\ UNCHANGED <<file, met, puts, polled, mapWanted, undone, hasty>>

Meets == /\ \E d \in Devices \ met : met' = met \cup {d}
         /\ UNCHANGED <<file, editor, puts, polled, mapWanted, undone, hasty, tally>>

(* The 2D plan takes what it reads, but not an empty map.                  *)
PollMap == /\ file # Bare /\ polled' = file
           /\ UNCHANGED <<file, met, editor, puts, mapWanted, undone, hasty, tally>>

MapNext == \/ AskForMap \/ MapArrives \/ MapDoesNotArrive
           \/ Pick \/ Unbind \/ Undo \/ SaveButton
           \/ PutArrives \/ PutFails \/ ReopenPlan \/ Meets \/ PollMap

MapSpec == MapInit /\ [][MapNext]_mapVars

-----------------------------------------------------------------------------
(* The 2D plan: all devices, the bound ones, or those of a floor (which    *)
(* devices that are placed nowhere are not on), grouped by behaviour.      *)
Bound(d) == \E mesh \in Meshes : polled[mesh] = d
OnTab(tab, placed) ==
    CASE tab = "all"   -> met
      [] tab = "bound" -> {d \in met : Bound(d) \/ placed[d] > 0}
      [] OTHER         -> {d \in met : placed[d] = tab}
TabsOffered(placed) ==
    {"all"} \cup {"bound" : d \in {x \in met : Bound(x) \/ placed[x] > 0}}
            \cup {placed[d] : d \in {x \in met : placed[x] > 0}}
Sections(tab, placed, behaviourOf) ==
    [b \in {behaviourOf[d] : d \in OnTab(tab, placed)} |->
        {d \in OnTab(tab, placed) : behaviourOf[d] = b}]

(* What the 3D plan makes of the map: a device without a tag of its own    *)
(* gets the mesh bound to it, on floor 1.                                  *)
MeshFor(d) == IF MeshOf[d] # Untagged THEN {MeshOf[d]}
              ELSE {mesh \in Meshes : editor.map[mesh] = d}

-----------------------------------------------------------------------------
(* The variables have the shape the code gives them.                       *)
MapTypeOK == /\ file \in Maps /\ polled \in Maps /\ mapWanted \in Maps
             /\ met \subseteq Devices /\ editor.map \in Maps
             /\ editor.at \in 0 .. Len(editor.hist)
             /\ \A n \in DOMAIN puts : puts[n] \in Maps

(* What was last picked or deleted for a mesh is in the file when all was  *)
(* sent, over reloads of the page and though every save writes the whole   *)
(* map: unless the map had not been loaded, a save failed, or the mesh was *)
(* undone, which nobody saves.                                             *)
PicksAreKept == puts = <<>> /\ ~hasty => \A mesh \in Meshes \ undone : file[mesh] = mapWanted[mesh]
=============================================================================

------------------------------- MODULE Cards --------------------------------
(***************************************************************************)
(* The cards of the wall panels (components/panel/cards): what a card      *)
(* shows while a finger is on it, which service it calls, and the echo of  *)
(* the call, which reaches every panel.  Two panels show one entity; the   *)
(* socket keeps the order of calls and of events.  Colours, sounds and     *)
(* layout are left out; brightness, volume, temperature, percentage and    *)
(* value are all levels.                                                   *)
(***************************************************************************)
EXTENDS Naturals, Sequences

CONSTANTS Panels,
          Layouts,      \* the cards the panels may show: functions on Panels
          MaxLevel,
          MaxGestures,  \* touches
          MaxMoves,     \* moves of the finger
          MaxRefusals   \* calls whose handler throws

Levels == 0 .. MaxLevel

VARIABLES
    card,      \* per panel: the kind of its card
    entity,    \* at the server: its state and its level
    keeps,     \* turn_off keeps the level (demo) or resets it (light)
    seen,      \* per panel: the entity as the panel has it
    knob,      \* per panel: the card's own state
    calls,     \* per panel: on their way to the server
    events,    \* per panel: on their way back
    wish,      \* the last thing asked for; alone: nobody else was asking
    cardSpent      \* gestures, moves, refusals

cardsVars == <<card, entity, keeps, seen, knob, calls, events, wish, cardSpent>>

-----------------------------------------------------------------------------
(* Calls: a service and its level, if it has one.                          *)
None == MaxLevel + 1
Call(service, level) == [service |-> service, level |-> level]
NoWish == [call |-> Call("none", None), by |-> "none", alone |-> FALSE]

LightCards == {"tile", "ring"}
MediaCards == {"player", "mring", "theater"}

(* The panels show one entity, so the cards of a layout are of one domain. *)
ASSUME CardsAssumption ==
    /\ MaxLevel \in Nat \ {0} /\ MaxGestures \in Nat /\ MaxMoves \in Nat /\ MaxRefusals \in Nat
    /\ \A l \in Layouts : \E kinds \in {LightCards, MediaCards, {"nest"}, {"number"}, {"fan"},
                                       {"cover"}, {"switch"}} : l \in [Panels -> kinds]

On(s) == s.state \notin {"off", "closed"}
AnyOf(kinds) == \E p \in Panels : card[p] \in kinds

(* The handlers.  The demo's, for lights, switches, players and covers;    *)
SimpleAfter(c, e) ==
    CASE c.service = "turn_on"  -> [state |-> "on", level |-> IF c.level = None THEN e.level ELSE c.level]
      [] c.service = "turn_off" -> [e EXCEPT !.state = "off"]
      [] c.service = "set"      -> [e EXCEPT !.level = c.level]
      [] OTHER                  -> [e EXCEPT !.state = c.service]

(* the demo's for the buttons of a player,                                 *)
MediaAfter(c, e) ==
    CASE c.service = "up"   -> [e EXCEPT !.level = IF @ = MaxLevel THEN @ ELSE @ + 1]
      [] c.service = "down" -> [e EXCEPT !.level = IF @ = 0 THEN 0 ELSE @ - 1]
      [] OTHER              -> [e EXCEPT !.state = c.service]

(* those of a thermostat: its setpoint and its mode;                       *)
SetpointAfter(c, e) == [e EXCEPT !.level = c.level]
ModeAfter(c, e) == [e EXCEPT !.state = c.service]

(* the light platform's, which puts a light off to level 0;                *)
LightAfter(c, e) ==
    IF c.service = "turn_off" THEN [state |-> "off", level |-> 0] ELSE SimpleAfter(c, e)

(* the fan platform's: a fan that is on has some speed.                    *)
FanAfter(c, e) ==
    CASE c.service = "turn_on"  -> [state |-> "on", level |-> IF e.level = 0 THEN 1 ELSE e.level]
      [] c.service = "turn_off" -> [e EXCEPT !.state = "off"]
      [] c.service = "set"      -> [state |-> IF c.level > 0 THEN "on" ELSE "off", level |-> c.level]

(* Which handler a call finds.                                             *)
AfterCall(c, e) ==
    CASE AnyOf({"fan"})  -> FanAfter(c, e)
      [] AnyOf({"nest"}) -> IF c.service = "set" THEN SetpointAfter(c, e) ELSE ModeAfter(c, e)
      [] AnyOf(LightCards) /\ ~keeps -> LightAfter(c, e)
      [] c.service \in {"up", "down", "playing", "paused"} -> MediaAfter(c, e)
      [] OTHER -> SimpleAfter(c, e)

(* The call that sets a card's entity to a level.                          *)
Setting(kind, v) ==
    IF kind \in LightCards
    THEN IF v > 0 THEN Call("turn_on", v) ELSE Call("turn_off", None)
    ELSE Call("set", v)

(* The call of a tap, by what the panel shows.                             *)
Toggling(p) == Call(IF On(seen[p]) THEN "turn_off" ELSE "turn_on", None)
TileTap(p)  == IF On(seen[p]) \/ ~knob[p].slid THEN Toggling(p) ELSE Call("turn_on", MaxLevel)
RingTap(p)  == IF On(seen[p]) THEN Toggling(p) ELSE Call("turn_on", MaxLevel)
MringTap(p) == IF seen[p].state = "playing" THEN Call("paused", None)
               ELSE IF On(seen[p]) THEN Call("playing", None) ELSE Toggling(p)
CoverTap(p) == Call(IF On(seen[p]) THEN "closed" ELSE "open", None)
Tapped(p) == CASE card[p] = "tile"  -> TileTap(p)
               [] card[p] = "ring"  -> RingTap(p)
               [] card[p] = "mring" -> MringTap(p)
               [] card[p] = "cover" -> CoverTap(p)
               [] OTHER -> Toggling(p)

(* The further buttons a card shows.                                       *)
TheaterButtons(p) ==
    IF ~On(seen[p]) THEN {}
    ELSE {Call(s, None) : s \in {IF seen[p].state = "playing" THEN "paused" ELSE "playing", "up", "down"}}
NestButtons == {Call(m, None) : m \in {"heat", "cool", "off"}}
Buttons(p) == CASE card[p] = "theater" -> TheaterButtons(p)
                [] card[p] = "nest"    -> NestButtons
                [] OTHER -> {}

Draggable == {"tile", "ring", "player", "mring", "nest"}   \* by the card itself
Slidable  == {"tile", "player", "fan", "number"}           \* with a FancySlider
Tappable  == {"tile", "ring", "player", "mring", "theater", "fan", "cover", "switch"}
EveryMoveSends == {"ring", "mring"}
Throttled == {"tile", "player"}        \* a move sends if 80 ms have passed

-----------------------------------------------------------------------------
(* The value a card hands to its slider: a tile's that is not lit has 0.   *)
Value(kind, s) == CASE kind = "tile" /\ ~On(s) -> 0
                    [] kind = "cover" -> IF On(s) THEN 1 ELSE 0
                    [] OTHER -> s.level

(* A card is drawn as dragged, its slider is held (a tile knows nothing of *)
(* that), or it still holds the value of the last slide.  A ring's finger  *)
(* is a ref, which draws nothing: it shows its own value if the finger was *)
(* on it when it was last drawn.                                           *)
CardDrag(kind, k) == IF kind \in EveryMoveSends THEN k.own ELSE k.grip = "card" /\ k.moved
Held(k) == k.grip # "none" \/ k.hold

(* The slider of a player is there only while the player is on.            *)
Unmounted(kind, k, s) ==
    IF kind = "player" /\ k.grip = "slider" /\ ~On(s)
    THEN [k EXCEPT !.grip = "none", !.moved = FALSE, !.cut = FALSE] ELSE k

(* Faulty variant: a value that comes while the card is held is missed.    *)
FollowedOnChange(kind, k, s, changed) ==
    [k EXCEPT !.local = IF changed /\ ~Held(k) THEN Value(kind, s) ELSE @,
              !.own = kind \in EveryMoveSends /\ k.grip # "none"]

(* A card is drawn anew and its effects run, after a new value or the end  *)
(* of a drag: the local value follows the entity's unless the card is      *)
(* held, and a light seen on forgets that it was slid to zero.  A ring     *)
(* looks only when the value changes, the thermostat even while turned.    *)
Followed(kind, k, s, changed) ==
    LET follows == CASE kind \in {"nest", "cover"} -> changed
                     [] kind \in EveryMoveSends -> changed /\ k.grip = "none"
                     [] OTHER -> k.grip # "slider" /\ ~CardDrag(kind, k) /\ ~k.hold
    IN [k EXCEPT !.local = IF follows THEN Value(kind, s) ELSE @,
                 !.own   = kind \in EveryMoveSends /\ k.grip # "none",
                 !.slid  = @ /\ ~(changed /\ On(s) /\ ~CardDrag(kind, k))]

(* What a card shows: the local value while it is held, else the entity's. *)
LocalOr(p, own) == IF own THEN knob[p].local ELSE Value(card[p], seen[p])
Dragged(p) == CardDrag(card[p], knob[p])
Sliding(p) == knob[p].grip = "slider"
Glows(p)   == On(seen[p]) \/ (Dragged(p) /\ knob[p].local > 0)
Drawing(on, level) == [on |-> on, level |-> level]

SliderDrawn(p) == LocalOr(p, Sliding(p) \/ knob[p].hold)
TileDrawn(p)   == Drawing(Glows(p), IF Dragged(p) THEN knob[p].local ELSE SliderDrawn(p))
RingDrawn(p)   == Drawing(Glows(p), LocalOr(p, Dragged(p)))
PlayerDrawn(p) == Drawing(On(seen[p]), IF Dragged(p) THEN knob[p].local ELSE SliderDrawn(p))
MringDrawn(p)  == Drawing(Glows(p), LocalOr(p, Dragged(p)))
TheaterDrawn(p) == Drawing(On(seen[p]), seen[p].level)
NestDrawn(p)   == Drawing(On(seen[p]), knob[p].local)
FanDrawn(p)    == Drawing(On(seen[p]), SliderDrawn(p))
NumberDrawn(p) == Drawing(On(seen[p]), SliderDrawn(p))
CoverDrawn(p)  == Drawing(knob[p].local = 1, seen[p].level)
SwitchDrawn(p) == Drawing(On(seen[p]), seen[p].level)
Drawn(p) == CASE card[p] = "tile"    -> TileDrawn(p)
              [] card[p] = "ring"    -> RingDrawn(p)
              [] card[p] = "player"  -> PlayerDrawn(p)
              [] card[p] = "mring"   -> MringDrawn(p)
              [] card[p] = "theater" -> TheaterDrawn(p)
              [] card[p] = "nest"    -> NestDrawn(p)
              [] card[p] = "fan"     -> FanDrawn(p)
              [] card[p] = "number"  -> NumberDrawn(p)
              [] card[p] = "cover"   -> CoverDrawn(p)
              [] card[p] = "switch"  -> SwitchDrawn(p)

(* A call goes out; what was asked before is overruled.                    *)
Busy(p) == calls[p] # <<>> \/ knob[p].grip # "none"
Sends(p, c) ==
    /\ calls' = [calls EXCEPT ![p] = Append(@, c)]
    /\ wish' = [call |-> c, by |-> p,
                alone |-> c.service \notin {"up", "down"} /\ \A q \in Panels \ {p} : ~Busy(q)]
Unchanged == UNCHANGED <<card, entity, keeps, seen, events>>
Spend(what) == cardSpent' = [cardSpent EXCEPT ![what] = @ - 1]

-----------------------------------------------------------------------------
CardsInit ==
    /\ card \in Layouts
    /\ entity \in {[state |-> "off", level |-> 0], [state |-> "on", level |-> MaxLevel]}
    /\ keeps \in (IF \E p \in Panels : card[p] \in LightCards THEN BOOLEAN ELSE {TRUE})
    /\ seen = [p \in Panels |-> entity]
    /\ knob = [p \in Panels |-> [grip |-> "none", moved |-> FALSE, at |-> entity.level, slid |-> FALSE,
                                 timers |-> 0, hold |-> FALSE, cut |-> FALSE, own |-> FALSE,
                                 local |-> Value(card[p], entity)]]
    /\ calls = [p \in Panels |-> <<>>] /\ events = [p \in Panels |-> <<>>]
    /\ wish = NoWish
    /\ cardSpent = [gestures |-> MaxGestures, moves |-> MaxMoves, refusals |-> MaxRefusals]

(* A finger comes down on the card or on its slider.                       *)
Press(p, grip) ==
    /\ knob[p].grip = "none" /\ cardSpent.gestures > 0
    /\ card[p] \in (IF grip = "slider" THEN Slidable ELSE Draggable)
    /\ grip = "slider" /\ card[p] = "player" => On(seen[p])
    /\ LET value == Value(card[p], seen[p])
       IN  knob' = [knob EXCEPT ![p] = [@ EXCEPT
                       !.grip = grip, !.moved = grip = "slider", !.cut = FALSE,
                       !.at = IF grip = "slider" THEN value ELSE seen[p].level,
                       !.local = IF grip = "slider" THEN value ELSE knob[p].local]]
    /\ wish' = [wish EXCEPT !.alone = @ /\ wish.by = p]
    /\ Spend("gestures") /\ UNCHANGED calls /\ Unchanged

(* It moves.  A ring sends every move, a tile or a player one that comes   *)
(* 80 ms after the last it sent; a slider and the thermostat send none.    *)
Quietly == UNCHANGED <<calls, wish>>
SendsLevel(p, v) == Sends(p, Setting(card[p], v))
TileMove(p, v)   == card[p] = "tile" /\ (SendsLevel(p, v) \/ Quietly)
RingMove(p, v)   == card[p] = "ring" /\ SendsLevel(p, v)
PlayerMove(p, v) == card[p] = "player" /\ (SendsLevel(p, v) \/ Quietly)
MringMove(p, v)  == card[p] = "mring" /\ SendsLevel(p, v)
NestMove(p, v)   == card[p] = "nest" /\ Quietly

Move(p, v) ==
    /\ knob[p].grip # "none" /\ ~knob[p].cut /\ cardSpent.moves > 0
    /\ v # knob[p].at \/ (card[p] \in EveryMoveSends /\ ~knob[p].moved)
    /\ knob' = [knob EXCEPT ![p] = [@ EXCEPT !.moved = TRUE, !.at = v, !.local = v,
                                             !.own = card[p] \in EveryMoveSends]]
    /\ \/ Sliding(p) /\ Quietly
       \/ /\ ~Sliding(p)
          /\ \/ TileMove(p, v) \/ RingMove(p, v) \/ PlayerMove(p, v) \/ MringMove(p, v)
             \/ NestMove(p, v)
    /\ Spend("moves") /\ Unchanged

(* It is lifted.  The end of a tile's drag runs its effect, so a light     *)
(* still shown on forgets at once that it was slid to zero.                *)
Lifted(p) == [knob[p] EXCEPT !.grip = "none", !.moved = FALSE]
Slid(p, k) == [k EXCEPT !.slid = @ \/ (card[p] = "tile" /\ k.local = 0)]
AfterDrag(p, k) == [k EXCEPT !.slid = @ /\ ~(Dragged(p) /\ On(seen[p]))]
Lets(p, k) == knob' = [knob EXCEPT ![p] = k]
Shows(p, k) == Lets(p, Followed(card[p], k, seen[p], FALSE))

(* A finger that did not move has tapped; the tile, the player, the        *)
(* thermostat and the slider send the last value, a ring has sent it and   *)
(* is not drawn anew.                                                      *)
TileUp(p) ==
    /\ card[p] = "tile" /\ ~Sliding(p)
    /\ \/ ~knob[p].moved /\ Sends(p, TileTap(p)) /\ Lets(p, Lifted(p))
       \/ knob[p].moved /\ SendsLevel(p, knob[p].at) /\ Shows(p, AfterDrag(p, Slid(p, Lifted(p))))
PlayerUp(p) ==
    /\ card[p] = "player" /\ ~Sliding(p)
    /\ \/ ~knob[p].moved /\ Sends(p, Toggling(p)) /\ Lets(p, Lifted(p))
       \/ knob[p].moved /\ SendsLevel(p, knob[p].at) /\ Shows(p, Lifted(p))
RingUp(p) ==
    /\ card[p] = "ring" /\ Lets(p, Lifted(p))
    /\ IF knob[p].moved THEN Quietly ELSE Sends(p, RingTap(p))
MringUp(p) ==
    /\ card[p] = "mring" /\ Lets(p, Lifted(p))
    /\ IF knob[p].moved THEN Quietly ELSE Sends(p, MringTap(p))
NestUp(p) ==
    /\ card[p] = "nest" /\ SendsLevel(p, knob[p].at)
    /\ Lets(p, [Lifted(p) EXCEPT !.local = knob[p].at])
SliderUp(p) ==
    /\ Sliding(p) /\ card[p] # "number"
    /\ SendsLevel(p, knob[p].at) /\ Shows(p, Slid(p, Lifted(p)))

(* A number keeps its value for 300 ms.                                    *)
NumberUp(p) ==
    /\ Sliding(p) /\ card[p] = "number" /\ SendsLevel(p, knob[p].at)
    /\ Lets(p, [Lifted(p) EXCEPT !.timers = @ + 1, !.hold = TRUE])

Release(p) ==
    /\ knob[p].grip # "none" /\ ~knob[p].cut
    /\ \/ TileUp(p) \/ PlayerUp(p) \/ RingUp(p) \/ MringUp(p) \/ NestUp(p)
       \/ SliderUp(p) \/ NumberUp(p)
    /\ UNCHANGED cardSpent /\ Unchanged

(* The browser takes the pointer away.  Tile and player treat it as        *)
(* lifted; the others have no handler and stay held until the next touch.  *)
TakenAway(p) ==
    /\ knob[p].grip # "none" /\ ~knob[p].cut
    /\ Sliding(p) \/ card[p] \notin Throttled
    /\ knob' = [knob EXCEPT ![p].cut = TRUE]
    /\ UNCHANGED <<calls, wish, cardSpent>> /\ Unchanged
TouchAgain(p) ==
    /\ knob[p].cut /\ cardSpent.gestures > 0
    /\ knob' = [knob EXCEPT ![p].cut = FALSE]
    /\ Spend("gestures") /\ UNCHANGED <<calls, wish>> /\ Unchanged

(* The number tile shows its own value for 300 ms after a slide.           *)
HoldEnds(p) ==
    /\ knob[p].timers > 0
    /\ knob' = [knob EXCEPT ![p] =
                  Followed(card[p], [knob[p] EXCEPT !.timers = @ - 1, !.hold = FALSE], seen[p], FALSE)]
    /\ UNCHANGED <<calls, wish, cardSpent>> /\ Unchanged

(* A button, or a card that is one; the garage door is drawn at once in    *)
(* the position it was asked for.                                          *)
Tap(p) ==
    /\ card[p] \in Tappable \ Draggable /\ knob[p].grip = "none" /\ cardSpent.gestures > 0
    /\ Sends(p, Tapped(p))
    /\ knob' = IF card[p] = "cover" THEN [knob EXCEPT ![p].local = IF On(seen[p]) THEN 0 ELSE 1]
               ELSE knob
    /\ Spend("gestures") /\ Unchanged
PressButton(p) ==
    /\ cardSpent.gestures > 0 /\ knob[p].grip = "none"
    /\ \E c \in Buttons(p) : Sends(p, c)
    /\ Spend("gestures") /\ UNCHANGED knob /\ Unchanged

-----------------------------------------------------------------------------
(* The server executes the next call of a panel; a changed state is told   *)
(* to every panel.  Nobody serves number.set_value.                        *)
Execute(p) ==
    /\ calls[p] # <<>> /\ card[p] # "number"
    /\ calls' = [calls EXCEPT ![p] = Tail(@)]
    /\ entity' = AfterCall(Head(calls[p]), entity)
    /\ events' = [q \in Panels |-> IF entity' = entity THEN events[q] ELSE Append(events[q], entity')]
    /\ wish' = [wish EXCEPT !.alone = @ /\ wish.by = p]
    /\ UNCHANGED <<card, keeps, seen, knob, cardSpent>>

(* No service or a handler that throws: the card is not told.              *)
CallRefused(p) ==
    /\ calls[p] # <<>>
    /\ \/ card[p] = "number" /\ UNCHANGED cardSpent
       \/ card[p] # "number" /\ cardSpent.refusals > 0 /\ Spend("refusals")
    /\ calls' = [calls EXCEPT ![p] = Tail(@)]
    /\ wish' = [wish EXCEPT !.alone = FALSE]
    /\ UNCHANGED <<card, entity, keeps, seen, knob, events>>

Receive(p) ==
    /\ events[p] # <<>>
    /\ LET s == Head(events[p]) IN
       /\ seen' = [seen EXCEPT ![p] = s]
       /\ knob' = [knob EXCEPT ![p] =
             Followed(card[p], Unmounted(card[p], @, s), s,
                      IF card[p] = "nest" THEN s.level # seen[p].level ELSE s # seen[p])]
    /\ events' = [events EXCEPT ![p] = Tail(@)]
    /\ UNCHANGED <<card, entity, keeps, calls, wish, cardSpent>>

(* Every card reads the states of all entities, so another entity's change *)
(* draws it anew; what it shows changes only if it is a ring.              *)
DrawnAnew(p) ==
    /\ card[p] \in EveryMoveSends /\ knob[p].own # (knob[p].grip # "none")
    /\ knob' = [knob EXCEPT ![p].own = ~@]
    /\ UNCHANGED <<calls, wish, cardSpent>> /\ Unchanged

CardsNext == \E p \in Panels :
    \/ \E grip \in {"card", "slider"} : Press(p, grip)
    \/ \E v \in Levels : Move(p, v)
    \/ Release(p) \/ TakenAway(p) \/ TouchAgain(p) \/ HoldEnds(p) \/ Tap(p) \/ PressButton(p)
    \/ Execute(p) \/ CallRefused(p) \/ Receive(p) \/ DrawnAnew(p)

CardsSpec == CardsInit /\ [][CardsNext]_cardsVars

-----------------------------------------------------------------------------
(* The state has the shape the code gives it.                              *)
CardsTypeOK ==
    /\ card \in Layouts /\ keeps \in BOOLEAN
    /\ \A s \in {entity} \cup {seen[p] : p \in Panels} : s.level \in Levels
    /\ \A p \in Panels : /\ knob[p].grip \in {"none", "card", "slider"}
                         /\ knob[p].local \in Levels /\ knob[p].at \in Levels

Settled == \A p \in Panels : calls[p] = <<>>
MayRefuse == cardSpent.refusals < MaxRefusals

(* With nothing on its way and no finger on the card, every panel shows    *)
(* the state and the level the server holds, its slider too.  A ring that  *)
(* nothing has drawn anew since the finger was lifted still shows what it  *)
(* was dragged to; the thermostat and the garage door, which show what was *)
(* asked for, agree only if it was not refused.                            *)
CardsAgree ==
    \A p \in Panels :
       (Settled /\ events[p] = <<>> /\ ~Held(knob[p]) /\ ~knob[p].own
                /\ (card[p] \in {"nest", "cover"} => ~MayRefuse))
       => /\ Drawn(p) = Drawing(On(entity), IF card[p] = "tile" THEN Value("tile", entity)
                                            ELSE entity.level)
          /\ card[p] \in Slidable => knob[p].local = Value(card[p], entity)

(* The last gesture counts: when its calls have been executed, none was    *)
(* refused and nobody else was asking, its value is the entity's, though   *)
(* most moves of a drag were never sent.                                   *)
LastGestureCounts ==
    (Settled /\ wish.alone /\ \A p \in Panels : knob[p].grip = "none")
    => AfterCall(wish.call, entity) = entity

(* The value under the finger is the one it was moved to: no echo of an    *)
(* earlier move pulls it back (the thermostat excepted).                   *)
FingerLeads ==
    \A p \in Panels : (knob[p].grip # "none" /\ knob[p].moved /\ card[p] # "nest")
                      => Drawn(p).level = knob[p].at
=============================================================================

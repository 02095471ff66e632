---------------------------- MODULE PagesProofs -----------------------------
(* Proofs about the pages of the web UI that show lists of what the server *)
(* has: the tokens, the history, the scene of the 3D plan, the panel, the  *)
(* sections of the home page, the rules and the floors.                    *)
EXTENDS Pages, Auth, FloorPlans, SequenceTheorems, FiniteSetTheorems, TLAPS

-----------------------------------------------------------------------------
(* The tokens (Auth): ids are given in their order, so that the next one   *)
(* was never a token's before.                                             *)
TokensInv ==
    /\ \E k \in Nat : Issued = 1 .. k
    /\ RevokedStaysRevoked

LEMMA TokensInitially == TokensInit => TokensInv
<1>. SUFFICES ASSUME TokensInit PROVE TokensInv
  OBVIOUS
<1>1. revoked = {} /\ (DOMAIN rows = {} \/ DOMAIN rows = {1})
  BY DEF TokensInit
<1>2. Issued = 1 .. 0 \/ Issued = 1 .. 1
  BY <1>1 DEF Issued
<1>. QED
  BY <1>1, <1>2 DEF TokensInv, RevokedStaysRevoked

LEMMA NextIdIsFresh ==
    ASSUME TokensInv
    PROVE  NextId \notin Issued /\ \E k \in Nat : Issued \cup {NextId} = 1 .. k
<1>1. PICK k \in Nat : Issued = 1 .. k
  BY DEF TokensInv
<1>2. Cardinality(Issued) = k
  BY <1>1, FS_Interval
<1>3. NextId = k + 1 /\ 1 .. k + 1 = (1 .. k) \cup {k + 1} /\ k + 1 \notin 1 .. k
      /\ k + 1 \in Nat
  BY <1>1, <1>2 DEF NextId
<1>. QED
  BY <1>1, <1>3

LEMMA InsertKeeps ==
    ASSUME TokensInv, rows' = [i \in DOMAIN rows \cup {NextId} |->
                                 IF i \in DOMAIN rows THEN rows[i] ELSE rows'[NextId]],
           revoked' = revoked
    PROVE  TokensInv'
<1>1. DOMAIN rows' = DOMAIN rows \cup {NextId}
  OBVIOUS
<1>2. Issued' = Issued \cup {NextId} /\ NextId \notin revoked
  BY <1>1, NextIdIsFresh DEF Issued
<1>. QED
  BY <1>1, <1>2, NextIdIsFresh DEF TokensInv, RevokedStaysRevoked

(* A step that leaves the ids of the table and of the revoked as they are. *)
LEMMA OthersKeep ==
    ASSUME TokensInv, DOMAIN rows' = DOMAIN rows, revoked' = revoked
    PROVE  TokensInv'
BY DEF TokensInv, Issued, RevokedStaysRevoked

LEMMA TokensStep == TokensInv /\ [TokensNext]_tokVars => TokensInv'
<1>. SUFFICES ASSUME TokensInv, [TokensNext]_tokVars PROVE TokensInv'
  OBVIOUS
<1>1. CASE UNCHANGED tokVars
  BY <1>1, OthersKeep DEF tokVars
<1>2. CASE OpenTokens \/ CloseTokens \/ CreateToken \/ GenerateQr \/ QrButtons \/ DismissToken
           \/ SignedOut
  <2>1. rows' = rows /\ revoked' = revoked
    BY <1>2 DEF OpenTokens, CloseTokens, CreateToken, GenerateQr, QrButtons, DismissToken,
                SignedOut, TokenRequest
  <2>. QED
    BY <2>1, OthersKeep
<1>3. CASE CreateElsewhere
  BY <1>3, InsertKeeps DEF CreateElsewhere, Insert
<1>4. ASSUME NEW i \in Ids, RevokeToken(i) \/ ValidateToken(i)
      PROVE  TokensInv'
  BY <1>4, OthersKeep DEF RevokeToken, ValidateToken, TokenRequest
<1>5. ASSUME NEW i \in DOMAIN rows, TokenEnds(i)
      PROVE  TokensInv'
  BY <1>5, OthersKeep DEF TokenEnds
<1>6. ASSUME NEW i \in touching, Touch(i)
      PROVE  TokensInv'
  BY <1>6, OthersKeep DEF Touch
<1>7. ASSUME NEW n \in DOMAIN asked, ListTokens(n) \/ AnswerTo(n) \/ RefusedAsk(n) \/ AskLost(n)
      PROVE  TokensInv'
  <2>1. rows' = rows /\ revoked' = revoked
    BY <1>7 DEF ListTokens, AnswerTo, RefusedAsk, AskLost
  <2>. QED
    BY <2>1, OthersKeep
<1>8. ASSUME NEW n \in DOMAIN asked, CreateRow(n)
      PROVE  TokensInv'
  BY <1>8, InsertKeeps DEF CreateRow, Insert
<1>9. ASSUME NEW n \in DOMAIN asked, DeleteRow(n)
      PROVE  TokensInv'
  <2>1. /\ DOMAIN rows' = DOMAIN rows \ {asked[n].id}
        /\ revoked' = revoked \cup ({asked[n].id} \cap DOMAIN rows)
    BY <1>9 DEF DeleteRow
  <2>2. Issued' = Issued
    BY <2>1 DEF Issued
  <2>. QED
    BY <2>1, <2>2 DEF TokensInv, RevokedStaysRevoked
<1>. QED
  BY <1>1, <1>2, <1>3, <1>4, <1>5, <1>6, <1>7, <1>8, <1>9 DEF TokensNext

(* A token that was revoked never comes back, though it was being used at  *)
(* that moment and its last use is written afterwards.                     *)
THEOREM RevokedNeverReturns == TokensSpec => []RevokedStaysRevoked
<1>1. TokensInv => RevokedStaysRevoked
  BY DEF TokensInv
<1>. QED
  BY <1>1, TokensInitially, TokensStep, PTL DEF TokensSpec
-----------------------------------------------------------------------------
(* The least of some natural numbers.                                      *)
LEMMA Least ==
    ASSUME NEW S \in SUBSET Nat, S # {}
    PROVE  \E m \in S : \A k \in S : m <= k
<1>. DEFINE Smaller == {ss \in Nat \X Nat : ss[1] < ss[2]}
<1>1. IsWellFoundedOn(Smaller, Nat)
  BY NatLessThanWellFounded DEF OpToRel
<1>2. PICK m \in S : \A k \in S : ~ (<<k, m>> \in Smaller)
  <2>. HIDE DEF Smaller
  <2>. QED
    BY <1>1, WFMin
<1>3. \A k \in S : k \in Nat /\ m \in Nat /\ ~ (k < m)
  BY <1>2
<1>. QED
  BY <1>3

-----------------------------------------------------------------------------
(* The history page (Pages).  The request for what is chosen is the latest *)
(* and still on its way, or it was answered, and what is held is its       *)
(* answer unless an older one came after it.                               *)
LastAsked(a) == /\ a \in chartAsks /\ a.choice = chosen /\ newest <= a.no
                /\ \A b \in chartAsks : b = a \/ b.no < a.no

LastAnswered == /\ \A b \in chartAsks : b.no < newest
                /\ ~disordered /\ ~failed
                      => data = chosen /\ (Points[chosen] >= 2 => canvas = chosen)

AsksAreNumbered == \A a \in chartAsks : a.no \in Nat /\ a.no <= picks /\ a.choice \in Selections

ChartInv ==
    /\ picks \in Nat /\ newest \in Nat /\ newest <= picks
    /\ AsksAreNumbered
    /\ chosen # NoChoice => LastAnswered \/ \E a \in chartAsks : LastAsked(a)

LEMMA ChartBegins == ChartInit => ChartInv
<1>. SUFFICES ASSUME ChartInit PROVE ChartInv
  OBVIOUS
<1>. DEFINE a == [choice |-> chosen, no |-> 0]
<1>1. chartAsks = {a} /\ a.no = 0 /\ a.choice = chosen /\ chosen \in Selections
      /\ picks = 0 /\ newest = 0
  BY DEF ChartInit
<1>. HIDE DEF a
<1>2. LastAsked(a) /\ AsksAreNumbered
  BY <1>1 DEF LastAsked, AsksAreNumbered
<1>. QED
  BY <1>1, <1>2 DEF ChartInv

LEMMA ChartStep == ChartInv /\ [ChartNext]_chartVars => ChartInv'
<1>. SUFFICES ASSUME ChartInv, [ChartNext]_chartVars PROVE ChartInv'
  OBVIOUS
<1>1. CASE UNCHANGED chartVars \/ EventsRefused
  <2>1. UNCHANGED <<chosen, chartAsks, data, canvas, disordered, newest, failed, picks>>
    BY <1>1 DEF chartVars, EventsRefused
  <2>. QED
    BY <2>1 DEF ChartInv, AsksAreNumbered, LastAsked, LastAnswered
<1>2. CASE PauseEvents
  <2>1. UNCHANGED <<chosen, chartAsks, data, canvas, disordered, newest, failed>> /\ picks' = picks + 1
    BY <1>2 DEF PauseEvents, Pick1
  <2>2. AsksAreNumbered'
    BY <2>1 DEF ChartInv, AsksAreNumbered
  <2>. QED
    BY <2>1, <2>2 DEF ChartInv, LastAsked, LastAnswered
<1>3. CASE OpenHistoryTab
  <2>1. picks' = picks + 1 /\ newest' = 0 /\ picks \in Nat
    BY <1>3 DEF OpenHistoryTab, MountsTab, Pick1, ChartInv
  <2>2. CASE chosen' = NoChoice /\ chartAsks' = {}
    BY <2>1, <2>2 DEF ChartInv, AsksAreNumbered
  <2>3. CASE chosen' \in Selections /\ chartAsks' = {[choice |-> chosen', no |-> picks']}
    <3>. DEFINE a == [choice |-> chosen', no |-> picks']
    <3>1. chartAsks' = {a} /\ a.no = picks' /\ a.choice = chosen'
      BY <2>3
    <3>. HIDE DEF a
    <3>2. AsksAreNumbered'
      BY <2>1, <2>3, <3>1 DEF AsksAreNumbered
    <3>3. \E b \in chartAsks' : LastAsked(b)'
      BY <2>1, <3>1 DEF LastAsked
    <3>. QED
      BY <2>1, <3>2, <3>3 DEF ChartInv
  <2>. QED
    BY <1>3, <2>2, <2>3 DEF OpenHistoryTab, MountsTab
<1>4. CASE PickChart
  <2>1. PICK c \in Selections : chosen' = c /\ chartAsks' = chartAsks \cup {[choice |-> c, no |-> picks']}
    BY <1>4 DEF PickChart
  <2>2. picks' = picks + 1 /\ newest' = newest /\ picks \in Nat /\ newest <= picks /\ newest \in Nat
    BY <1>4 DEF PickChart, Pick1, ChartInv
  <2>. PICK n : n = picks'
    OBVIOUS
  <2>. DEFINE a == [choice |-> c, no |-> n]
  <2>3. chartAsks' = chartAsks \cup {a} /\ a.no = picks' /\ a.choice = c
    BY <2>1
  <2>. HIDE DEF a
  <2>4. \A b \in chartAsks : b.no \in Nat /\ b.no <= picks /\ b.choice \in Selections
    BY DEF ChartInv, AsksAreNumbered
  <2>5. AsksAreNumbered'
    BY <2>2, <2>3, <2>4 DEF AsksAreNumbered
  <2>6. LastAsked(a)'
    BY <2>1, <2>2, <2>3, <2>4 DEF LastAsked
  <2>. QED
    BY <2>2, <2>3, <2>5, <2>6 DEF ChartInv
<1>5. CASE CloseDetail
  <2>1. picks' = picks + 1 /\ newest' = 0 /\ picks \in Nat /\ chosen' = NoChoice /\ chartAsks' = {}
    BY <1>5 DEF CloseDetail, Pick1, ChartInv
  <2>. QED
    BY <2>1 DEF ChartInv, AsksAreNumbered
<1>6. CASE ChartAnswers
  <2>1. PICK b \in chartAsks, ok \in BOOLEAN :
          /\ chartAsks' = chartAsks \ {b}
          /\ data' = IF ok THEN b.choice ELSE NoChoice
          /\ canvas' = DrawnFor(data')
          /\ failed' = ~ok
          /\ newest' = IF b.no < newest THEN newest ELSE b.no
          /\ disordered' = (b.no < newest)
          /\ UNCHANGED <<chosen, picks>>
    BY <1>6 DEF ChartAnswers
  <2>2. /\ picks \in Nat /\ newest \in Nat /\ newest <= picks
        /\ \A a \in chartAsks : a.no \in Nat /\ a.no <= picks /\ a.choice \in Selections
        /\ b.no \in Nat /\ b.no <= picks /\ b.choice \in Selections
    BY DEF ChartInv, AsksAreNumbered
  <2>3. AsksAreNumbered' /\ newest' \in Nat /\ newest' <= picks' /\ picks' \in Nat
    BY <2>1, <2>2 DEF AsksAreNumbered
  <2>4. ASSUME chosen # NoChoice, LastAnswered
        PROVE  LastAnswered'
    BY <2>1, <2>2, <2>4 DEF LastAnswered
  <2>5. ASSUME NEW a \in chartAsks, LastAsked(a), a # b
        PROVE  a \in chartAsks' /\ LastAsked(a)'
    BY <2>1, <2>2, <2>5 DEF LastAsked
  <2>6. ASSUME chosen # NoChoice, LastAsked(b)
        PROVE  LastAnswered'
    <3>1. ~(b.no < newest) /\ newest' = b.no /\ chosen' = chosen /\ b.choice = chosen
      BY <2>1, <2>2, <2>6 DEF LastAsked
    <3>2. \A a \in chartAsks' : a.no < newest'
      BY <2>1, <2>6, <3>1 DEF LastAsked
    <3>3. ~failed' => data' = chosen
      BY <2>1, <3>1
    <3>4. ~failed' => (Points[chosen] >= 2 => canvas' = chosen)
      BY <2>1, <2>6, <3>3 DEF DrawnFor
    <3>. QED
      BY <3>1, <3>2, <3>3, <3>4 DEF LastAnswered
  <2>7. chosen' # NoChoice => LastAnswered' \/ \E a \in chartAsks' : LastAsked(a)'
    BY <2>1, <2>4, <2>5, <2>6 DEF ChartInv
  <2>. QED
    BY <2>3, <2>7 DEF ChartInv
<1>. QED
  BY <1>1, <1>2, <1>3, <1>4, <1>5, <1>6 DEF ChartNext

(* Once every answer is there, the caption and the line are those of what  *)
(* is chosen, unless the last answer to come was an older one or failed.   *)
THEOREM ChartsShowTheChoice == ChartSpec => []ChartIsChosen
<1>1. ChartInv => ChartIsChosen
  BY DEF ChartInv, ChartIsChosen, LastAnswered
<1>. QED
  BY <1>1, ChartBegins, ChartStep, PTL DEF ChartSpec

-----------------------------------------------------------------------------
(* The scene of the 3D plan (FloorPlans).  What has a place of its own is  *)
(* tied to it, and as long as no floor was left too early a model that     *)
(* loads is the only one and that of the selected floor.                   *)
OwnPlaces == \A f \in knownStates \cap FixturesOn(floor) \cap Sort({"sphere", "marker"}) :
                ties[f] # Untied

LoadsAlone(l) == /\ loads = {l} /\ l.floor = floor
                 /\ model = NoModel /\ inScene = {} /\ badge # "loaded"

SceneInv ==
    /\ spent \in [switches : Nat, flips : Nat, faults : Nat]
    /\ knownStates \subseteq Fixtures
    /\ \A l \in loads : l.no \in Nat /\ l.no >= 2
    /\ model = NoModel \/ (model.no \in Nat /\ model.no >= 2)
    /\ OwnPlaces
    /\ ~overtaken => \A l \in loads : LoadsAlone(l)
    /\ OneModel
    /\ KnownAreInScene

LEMMA SceneBegins == SceneInit => SceneInv
<1>. SUFFICES ASSUME SceneInit PROVE SceneInv
  OBVIOUS
<1>. DEFINE l == [no |-> 2, floor |-> floor, since |-> {}]
<1>1. loads = {l} /\ l.no = 2 /\ l.floor = floor
  BY DEF SceneInit
<1>. HIDE DEF l
<1>2. /\ model = NoModel /\ inScene = {} /\ knownStates = {} /\ badge = "loading"
      /\ spent = [switches |-> 0, flips |-> 0, faults |-> 0]
  BY DEF SceneInit
<1>3. LoadsAlone(l) /\ OneModel /\ KnownAreInScene /\ OwnPlaces
  BY <1>1, <1>2 DEF LoadsAlone, OneModel, KnownAreInScene, OwnPlaces, NoModel
<1>. QED
  BY <1>1, <1>2, <1>3 DEF SceneInv

(* The fixtures of a floor a model is for are tied by it.                  *)
LEMMA TiedOnFloor ==
    ASSUME NEW m, NEW f \in FixturesOn(m.floor)
    PROVE  \/ SortOf[f] \in {"sphere", "marker"} /\ f \in Sort({"sphere", "marker"}) /\ f \notin TiedBy(m)
           \/ SortOf[f] = "player" /\ f \in Sort({"player"}) /\ (f \in HasMesh(m) \/ f \in Meshless)
           \/ SortOf[f] \in {"light", "sensor"} /\ f \in TiedBy(m)
              /\ (f \in HasMesh(m) \/ (f \in Meshless /\ SortOf[f] = "sensor"))
           \/ SortOf[f] = "light" /\ f \in Meshless \cap Sort({"light"})
<1>1. f \in Fixtures /\ FloorOf[f] = m.floor
  BY DEF FixturesOn
<1>2. SortOf[f] \in {"light", "sphere", "sensor", "marker", "player"}
  BY <1>1, SceneAssumption
<1>3. f \in HasMesh(m) <=> f \notin Meshless /\ SortOf[f] \in {"light", "sensor", "player"}
  BY <1>1 DEF HasMesh
<1>4. f \in TiedBy(m) <=> \/ f \in HasMesh(m) /\ SortOf[f] \in {"light", "sensor"}
                          \/ SortOf[f] = "sensor" /\ f \in Meshless
  BY <1>1 DEF TiedBy, Sort
<1>5. \A sorts : f \in Sort(sorts) <=> SortOf[f] \in sorts
  BY <1>1 DEF Sort
<1>. QED
  BY <1>2, <1>3, <1>4, <1>5

LEMMA PlacedIsTied ==
    ASSUME NEW m, m.no \in Nat, m.no >= 2, NEW f
    PROVE  Placed(f, m) # Untied
BY DEF Placed, Untied, Alone

LEMMA SceneLoads == \A l \in loads : SceneInv /\ ModelLoads(l) => SceneInv'
<1>. SUFFICES ASSUME NEW l \in loads, SceneInv, ModelLoads(l) PROVE SceneInv'
  OBVIOUS
<1>. DEFINE m == [no |-> l.no, floor |-> l.floor]
<1>1. m.no = l.no /\ m.floor = l.floor /\ m.no \in Nat /\ m.no >= 2
  BY DEF SceneInv
<1>2. m # NoModel
  BY <1>1 DEF NoModel
<1>3. /\ loads' = loads \ {l} /\ inScene' = inScene \cup {m} /\ model' = m
      /\ ties' = LoadedTies(m, l.since)
      /\ players' = players \cup (l.since \cap HasMesh(m) \cap Sort({"player"}))
             \cup (IF badge # "loaded" THEN LatePlayers(knownStates, m, floor) ELSE {})
      /\ UNCHANGED <<floor, knownStates, overtaken, spent>>
  BY DEF ModelLoads
<1>. HIDE DEF m
<1>4. ASSUME ~overtaken
      PROVE  LoadsAlone(l) /\ loads' = {}
  BY <1>3, <1>4 DEF SceneInv, LoadsAlone
<1>5. OneModel'
  BY <1>1, <1>2, <1>3, <1>4 DEF OneModel, LoadsAlone
<1>6. \A f \in Fixtures : ties'[f] = IF f \in knownStates \cap TiedBy(m) THEN Placed(f, m) ELSE ties[f]
  BY <1>3 DEF LoadedTies
<1>7. \A f \in Fixtures : ties[f] # Untied => ties'[f] # Untied
  BY <1>1, <1>6, PlacedIsTied
<1>8. OwnPlaces'
  BY <1>3, <1>7 DEF SceneInv, OwnPlaces
<1>9. ASSUME model'.floor = floor', NEW f \in knownStates' \cap FixturesOn(floor')
      PROVE  IF SortOf[f] = "player" THEN f \in players' \cup Meshless \/ overtaken'
             ELSE ties'[f] # Untied \/ f \in Meshless \cap Sort({"light"})
  <2>1. f \in FixturesOn(m.floor) /\ f \in knownStates /\ m.floor = floor /\ f \in Fixtures
    BY <1>3, <1>9 DEF SceneInv
  <2>2. CASE SortOf[f] = "player"
    <3>1. f \in HasMesh(m) \/ f \in Meshless
      BY <2>1, <2>2, TiedOnFloor
    <3>2. CASE ~overtaken /\ f \in HasMesh(m)
      <4>1. badge # "loaded"
        BY <1>4, <3>2 DEF LoadsAlone
      <4>2. f \in LatePlayers(knownStates, m, floor)
        BY <2>1, <2>2, <3>2 DEF LatePlayers, Sort
      <4>. QED
        BY <1>3, <2>2, <4>1, <4>2
    <3>. QED
      BY <1>3, <2>2, <3>1, <3>2
  <2>3. CASE SortOf[f] \in {"sphere", "marker"}
    BY <1>3, <1>8, <2>1, <2>3 DEF OwnPlaces, Sort
  <2>4. CASE f \in TiedBy(m) /\ SortOf[f] # "player"
    BY <1>1, <1>6, <2>1, <2>4, PlacedIsTied
  <2>. QED
    BY <2>1, <2>2, <2>3, <2>4, TiedOnFloor
<1>10. KnownAreInScene'
  BY <1>9 DEF KnownAreInScene
<1>. QED
  BY <1>1, <1>3, <1>4, <1>5, <1>8, <1>10 DEF SceneInv

LEMMA SceneFollows ==
    ASSUME SceneInv, NEW know \in SUBSET Fixtures, NEW on, NewStates(know, on),
           spent' \in [switches : Nat, flips : Nat, faults : Nat]
    PROVE  SceneInv'
<1>1. /\ knownStates' = know /\ ties' = LateTies(know, ties, model, floor)
      /\ players' = IF model = NoModel THEN players ELSE LatePlayers(know, model, floor)
      /\ UNCHANGED <<floor, loads, inScene, model, badge, overtaken>>
  BY DEF NewStates
<1>2. \A f \in Fixtures : ties[f] # Untied => ties'[f] = ties[f]
  BY <1>1 DEF LateTies
<1>3. \A f \in know \cap FixturesOn(floor) \cap Sort({"sphere", "marker"}) : ties'[f] # Untied
  <2>. SUFFICES ASSUME NEW f \in know \cap FixturesOn(floor) \cap Sort({"sphere", "marker"}), ties[f] = Untied
                PROVE  ties'[f] # Untied
    BY <1>2
  <2>1. ties'[f] = Alone
    BY <1>1 DEF LateTies, Sort
  <2>. QED
    BY <2>1 DEF Alone, Untied
<1>4. OwnPlaces'
  BY <1>1, <1>3 DEF OwnPlaces
<1>5. ASSUME model # NoModel, model.floor = floor, NEW f \in know \cap FixturesOn(floor)
      PROVE  IF SortOf[f] = "player" THEN f \in players' \cup Meshless \/ overtaken
             ELSE ties'[f] # Untied \/ f \in Meshless \cap Sort({"light"})
  <2>1. f \in FixturesOn(model.floor) /\ model.no \in Nat /\ model.no >= 2 /\ f \in Fixtures
    BY <1>5 DEF SceneInv
  <2>2. CASE SortOf[f] = "player"
    <3>1. f \in HasMesh(model) \/ f \in Meshless
      BY <2>1, <2>2, TiedOnFloor
    <3>2. f \in HasMesh(model) => f \in players'
      BY <1>1, <1>5, <2>1, <2>2 DEF LatePlayers, Sort
    <3>. QED
      BY <2>2, <3>1, <3>2
  <2>3. CASE SortOf[f] \in {"sphere", "marker"}
    BY <1>3, <1>5, <2>1, <2>3 DEF Sort
  <2>4. CASE /\ SortOf[f] \in {"light", "sensor"}
             /\ f \in HasMesh(model) \/ (f \in Meshless /\ SortOf[f] = "sensor")
    <3>1. ties[f] = Untied => ties'[f] = Placed(f, model)
      BY <1>1, <1>5, <2>1, <2>4 DEF LateTies
    <3>2. Placed(f, model) # Untied
      BY <2>1, PlacedIsTied
    <3>. QED
      BY <1>2, <2>1, <2>4, <3>1, <3>2
  <2>. QED
    BY <2>1, <2>2, <2>3, <2>4, TiedOnFloor
<1>6. KnownAreInScene'
  BY <1>1, <1>5 DEF KnownAreInScene
<1>. QED
  BY <1>1, <1>4, <1>6 DEF SceneInv, OneModel, LoadsAlone

LEMMA SceneStep == SceneInv /\ [SceneNext]_sceneVars => SceneInv'
<1>. SUFFICES ASSUME SceneInv, [SceneNext]_sceneVars PROVE SceneInv'
  OBVIOUS
<1>0. spent \in [switches : Nat, flips : Nat, faults : Nat] /\ knownStates \subseteq Fixtures
  BY DEF SceneInv
<1>1. CASE UNCHANGED sceneVars
  BY <1>1 DEF sceneVars, SceneInv, OwnPlaces, LoadsAlone, OneModel, KnownAreInScene
<1>2. CASE SwitchFloor
  <2>1. PICK g \in Floors \ {floor} :
          /\ floor' = g
          /\ loads' = loads \cup {[no |-> spent.switches + 3, floor |-> g, since |-> knownStates]}
          /\ ties' = LateTies(knownStates, [f \in Fixtures |-> Untied], NoModel, g)
    BY <1>2 DEF SwitchFloor
  <2>. DEFINE l == [no |-> spent.switches + 3, floor |-> g, since |-> knownStates]
  <2>2. loads' = loads \cup {l} /\ l.no \in Nat /\ l.no >= 2 /\ l.floor = g
    BY <1>0, <2>1
  <2>. HIDE DEF l
  <2>3. /\ inScene' = inScene \ {model} /\ model' = NoModel /\ badge' = "loading"
        /\ overtaken' = (overtaken \/ loads # {})
        /\ spent' = [spent EXCEPT !.switches = @ + 1]
        /\ knownStates' = knownStates
    BY <1>2 DEF SwitchFloor
  <2>4. spent' \in [switches : Nat, flips : Nat, faults : Nat]
    BY <1>0, <2>3
  <2>5. OwnPlaces'
    <3>. SUFFICES ASSUME NEW f \in knownStates \cap FixturesOn(g) \cap Sort({"sphere", "marker"})
                  PROVE  ties'[f] # Untied
      BY <2>1, <2>3 DEF OwnPlaces
    <3>1. ties'[f] = Alone
      BY <1>0, <2>1 DEF LateTies, Sort
    <3>. QED
      BY <3>1 DEF Alone, Untied
  <2>6. ~overtaken' => loads = {} /\ inScene' = {}
    BY <2>3 DEF SceneInv, OneModel
  <2>7. ~overtaken' => (\A x \in loads' : LoadsAlone(x)') /\ OneModel'
    <3>. SUFFICES ASSUME ~overtaken' PROVE (\A x \in loads' : LoadsAlone(x)') /\ OneModel'
      OBVIOUS
    <3>1. inScene' = {} /\ model' = NoModel /\ loads' = {l} /\ l.floor = floor' /\ badge' = "loading"
      BY <2>1, <2>2, <2>3, <2>6
    <3>. QED
      BY <3>1 DEF LoadsAlone, OneModel, NoModel
  <2>8. OneModel' /\ KnownAreInScene'
    BY <2>3, <2>7 DEF OneModel, KnownAreInScene
  <2>. QED
    BY <1>0, <2>2, <2>3, <2>4, <2>5, <2>6, <2>7, <2>8 DEF SceneInv
<1>3. CASE TapToRetry
  BY <1>3 DEF TapToRetry, SceneInv, OwnPlaces, LoadsAlone, OneModel, KnownAreInScene
<1>4. CASE StateArrives
  <2>1. PICK f \in Fixtures \ knownStates : NewStates(knownStates \cup {f}, lit)
    BY <1>4 DEF StateArrives
  <2>2. spent' = spent /\ knownStates \cup {f} \in SUBSET Fixtures
    BY <1>0, <1>4 DEF StateArrives
  <2>. QED
    BY <1>0, <2>1, <2>2, SceneFollows
<1>5. CASE StateFlips
  <2>1. PICK f \in knownStates : NewStates(knownStates, IF f \in lit THEN lit \ {f} ELSE lit \cup {f})
    BY <1>5 DEF StateFlips
  <2>2. spent' = [spent EXCEPT !.flips = @ + 1]
    BY <1>5 DEF StateFlips
  <2>3. spent' \in [switches : Nat, flips : Nat, faults : Nat]
    BY <1>0, <2>2
  <2>. QED
    BY <1>0, <2>1, <2>3, SceneFollows
<1>6. ASSUME NEW l \in loads, ModelFails(l)
      PROVE  SceneInv'
  <2>1. /\ loads' = loads \ {l} /\ badge' = "error" /\ spent' = [spent EXCEPT !.faults = @ + 1]
        /\ UNCHANGED <<floor, inScene, model, knownStates, ties, players, overtaken>>
    BY <1>6 DEF ModelFails
  <2>2. spent' \in [switches : Nat, flips : Nat, faults : Nat]
    BY <1>0, <2>1
  <2>3. ~overtaken => loads' = {}
    BY <2>1 DEF SceneInv, LoadsAlone
  <2>. QED
    BY <2>1, <2>2, <2>3 DEF SceneInv, OwnPlaces, OneModel, KnownAreInScene
<1>. QED
  BY <1>1, <1>2, <1>3, <1>4, <1>5, <1>6, SceneLoads DEF SceneNext

(* When the scene has the model of the selected floor, what the page knows *)
(* of that floor is in it; and it has no other model as long as no floor   *)
(* is left before its model has arrived.                                   *)
THEOREM ScenesAreWhole == SceneSpec => [](KnownAreInScene /\ OneModel)
<1>1. SceneInv => KnownAreInScene /\ OneModel
  BY DEF SceneInv
<1>. QED
  BY <1>1, SceneBegins, SceneStep, PTL DEF SceneSpec

-----------------------------------------------------------------------------
(* Lists (Lists).  f is what is kept of the first elements of s, each in   *)
(* its turn.                                                               *)
KeptSoFar(f, s, S, n) ==
    IF n = 0 THEN <<>> ELSE IF s[n] \in S THEN Append(f[n - 1], s[n]) ELSE f[n - 1]

KeepsUpTo(f, s, S, m) == f = [n \in 0 .. m |-> KeptSoFar(f, s, S, n)]

LEMMA FilterIsDefined ==
    ASSUME NEW T, NEW s \in Seq(T), NEW S
    PROVE  \A m \in 0 .. Len(s) : \E f : KeepsUpTo(f, s, S, m)
<1>. DEFINE Has(k) == \E f : KeepsUpTo(f, s, S, k)
            wrong == {k \in 0 .. Len(s) : ~Has(k)}
<1>1. SUFFICES ASSUME wrong # {} PROVE FALSE
  OBVIOUS
<1>2. PICK k \in wrong : \A j \in wrong : k <= j
  <2>1. wrong \in SUBSET Nat
    OBVIOUS
  <2>. HIDE DEF wrong
  <2>. QED
    BY <1>1, <2>1, Least
<1>3. k \in 0 .. Len(s) /\ ~Has(k) /\ Len(s) \in Nat
  BY <1>2
<1>4. CASE k = 0
  <2>. DEFINE f == [n \in 0 .. 0 |-> <<>>]
  <2>1. KeepsUpTo(f, s, S, 0)
    BY DEF KeptSoFar, KeepsUpTo
  <2>. HIDE DEF f
  <2>2. Has(0)
    BY <2>1
  <2>. QED
    BY <1>3, <1>4, <2>2
<1>5. CASE k # 0
  <2>1. k - 1 \in 0 .. Len(s) /\ k - 1 < k /\ k \in Nat
    BY <1>3, <1>5
  <2>2. Has(k - 1)
    <3>. HIDE DEF Has
    <3>. QED
      BY <1>2, <2>1
  <2>3. PICK f : KeepsUpTo(f, s, S, k - 1)
    BY <2>2
  <2>. DEFINE g == [n \in 0 .. k |-> IF n = k THEN KeptSoFar(f, s, S, n) ELSE f[n]]
  <2>4. \A n \in 0 .. k : n # k => g[n] = f[n]
    OBVIOUS
  <2>5. ASSUME NEW n \in 0 .. k
        PROVE  g[n] = KeptSoFar(g, s, S, n)
    <3>1. CASE n = 0
      <4>1. g[n] = KeptSoFar(f, s, S, n)
        BY <1>5, <2>1, <2>3, <3>1 DEF KeepsUpTo
      <4>. QED
        BY <3>1, <4>1 DEF KeptSoFar
    <3>2. CASE n # 0
      <4>1. n - 1 \in 0 .. k /\ n - 1 # k
        BY <2>1, <3>2
      <4>2. g[n - 1] = f[n - 1]
        BY <2>4, <4>1
      <4>3. g[n] = KeptSoFar(f, s, S, n)
        <5>1. CASE n = k
          BY <5>1
        <5>2. CASE n # k
          <6>1. n \in 0 .. k - 1 /\ g[n] = f[n]
            BY <2>1, <5>2
          <6>. HIDE DEF g
          <6>. QED
            BY <2>3, <6>1 DEF KeepsUpTo
        <5>. QED
          BY <5>1, <5>2
      <4>. HIDE DEF g
      <4>. QED
        BY <3>2, <4>2, <4>3 DEF KeptSoFar
    <3>. QED
      BY <3>1, <3>2
  <2>6. KeepsUpTo(g, s, S, k)
    <3>1. g = [n \in 0 .. k |-> g[n]]
      OBVIOUS
    <3>. HIDE DEF g
    <3>. QED
      BY <2>5, <3>1 DEF KeepsUpTo
  <2>. HIDE DEF g
  <2>7. Has(k)
    BY <2>6
  <2>. QED
    BY <1>3, <2>7
<1>. QED
  BY <1>4, <1>5

LEMMA FilterSteps ==
    ASSUME NEW T, NEW s \in Seq(T), NEW S
    PROVE  \E f : /\ Filtered(s, S) = f[Len(s)]
                  /\ \A n \in 0 .. Len(s) : f[n] = KeptSoFar(f, s, S, n)
<1>. DEFINE kept == CHOOSE f : KeepsUpTo(f, s, S, Len(s))
<1>1. \E f : KeepsUpTo(f, s, S, Len(s))
  <2>1. Len(s) \in 0 .. Len(s)
    OBVIOUS
  <2>. QED
    BY <2>1, FilterIsDefined
<1>2. KeepsUpTo(kept, s, S, Len(s))
  BY <1>1
<1>3. Filtered(s, S) = kept[Len(s)]
  BY DEF Filtered, KeepsUpTo, KeptSoFar
<1>4. \A n \in 0 .. Len(s) : kept[n] = KeptSoFar(kept, s, S, n)
  <2>. HIDE DEF kept
  <2>. QED
    BY <1>2 DEF KeepsUpTo
<1>. HIDE DEF kept
<1>. QED
  BY <1>3, <1>4

(* What is kept: the elements in S, each as often as it was there.         *)
LEMMA FilteredIs ==
    ASSUME NEW T, NEW s \in Seq(T), NEW S
    PROVE  /\ Filtered(s, S) \in Seq(T)
           /\ Range(Filtered(s, S)) = Range(s) \cap S
           /\ IsInjective(s) => IsInjective(Filtered(s, S))
<1>1. PICK f : /\ Filtered(s, S) = f[Len(s)]
               /\ \A n \in 0 .. Len(s) : f[n] = KeptSoFar(f, s, S, n)
  BY FilterSteps
<1>. DEFINE Good(n) == /\ f[n] \in Seq(T)
                       /\ \A x : (\E k \in 1 .. Len(f[n]) : f[n][k] = x)
                                   <=> x \in S /\ \E k \in 1 .. n : s[k] = x
                       /\ IsInjective(s) => IsInjective(f[n])
            wrong == {n \in 0 .. Len(s) : ~Good(n)}
<1>2. wrong = {}
  <2>1. SUFFICES ASSUME wrong # {} PROVE FALSE
    OBVIOUS
  <2>2. PICK n \in wrong : \A j \in wrong : n <= j
    <3>1. wrong \in SUBSET Nat
      OBVIOUS
    <3>. HIDE DEF wrong
    <3>. QED
      BY <2>1, <3>1, Least
  <2>3. n \in 0 .. Len(s) /\ ~Good(n) /\ Len(s) \in Nat /\ f[n] = KeptSoFar(f, s, S, n)
    BY <1>1, <2>2
  <2>4. CASE n = 0
    <3>1. f[n] = <<>>
      BY <2>3, <2>4 DEF KeptSoFar
    <3>2. f[n] \in Seq(T) /\ Len(f[n]) = 0 /\ DOMAIN f[n] = {}
      BY <3>1
    <3>3. 1 .. n = {} /\ 1 .. Len(f[n]) = {}
      BY <2>4, <3>2
    <3>4. IsInjective(f[n])
      BY <3>2 DEF IsInjective
    <3>. QED
      BY <2>3, <3>2, <3>3, <3>4
  <2>5. CASE n # 0
    <3>1. n - 1 \in 0 .. Len(s) /\ n - 1 < n /\ n \in 1 .. Len(s) /\ s[n] \in T
      BY <2>3, <2>5
    <3>2. Good(n - 1)
      <4>. HIDE DEF Good
      <4>. QED
        BY <2>2, <3>1
    <3>3. CASE s[n] \notin S
      <4>1. f[n] = f[n - 1]
        BY <2>3, <2>5, <3>3 DEF KeptSoFar
      <4>2. \A x : x \in S /\ (\E k \in 1 .. n : s[k] = x) <=> x \in S /\ (\E k \in 1 .. n - 1 : s[k] = x)
        BY <3>1, <3>3
      <4>. QED
        BY <2>3, <3>2, <4>1, <4>2
    <3>4. CASE s[n] \in S
      <4>. DEFINE u == f[n - 1]
                  v == Append(u, s[n])
      <4>1. f[n] = v
        BY <2>3, <2>5, <3>4 DEF KeptSoFar
      <4>2. u \in Seq(T) /\ Len(u) \in Nat
            /\ (\A x : (\E k \in 1 .. Len(u) : u[k] = x) <=> x \in S /\ \E k \in 1 .. n - 1 : s[k] = x)
            /\ (IsInjective(s) => IsInjective(u))
        BY <3>2
      <4>. HIDE DEF u
      <4>3. v \in Seq(T) /\ Len(v) = Len(u) + 1 /\ v[Len(u) + 1] = s[n]
            /\ \A k \in 1 .. Len(u) : v[k] = u[k]
        BY <3>1, <4>2
      <4>. HIDE DEF v
      <4>4. \A x : (\E k \in 1 .. Len(v) : v[k] = x) <=> (\E k \in 1 .. Len(u) : u[k] = x) \/ x = s[n]
        BY <4>2, <4>3
      <4>5. \A x : (\E k \in 1 .. n : s[k] = x) <=> (\E k \in 1 .. n - 1 : s[k] = x) \/ x = s[n]
        BY <3>1
      <4>6. \A x : (\E k \in 1 .. Len(v) : v[k] = x) <=> x \in S /\ \E k \in 1 .. n : s[k] = x
        BY <3>4, <4>2, <4>4, <4>5
      <4>7. ASSUME IsInjective(s) PROVE IsInjective(v)
        <5>1. \A k \in 1 .. n - 1 : s[k] # s[n]
          BY <3>1, <4>7 DEF IsInjective
        <5>2. \A k \in 1 .. Len(u) : u[k] # s[n]
          BY <4>2, <5>1
        <5>. QED
          BY <4>2, <4>3, <4>7, <5>2 DEF IsInjective
      <4>. QED
        BY <2>3, <4>1, <4>3, <4>6, <4>7
    <3>. QED
      BY <3>3, <3>4
  <2>. QED
    BY <2>4, <2>5
<1>3. Len(s) \in 0 .. Len(s)
  OBVIOUS
<1>4. Good(Len(s))
  <2>. HIDE DEF Good
  <2>. QED
    BY <1>2, <1>3
<1>5. Range(Filtered(s, S)) = Range(s) \cap S
  BY <1>1, <1>4 DEF Range
<1>. QED
  BY <1>1, <1>4, <1>5

-----------------------------------------------------------------------------
(* The wall panel (Pages).                                                 *)
LEMMA SetAsSequence ==
    ASSUME NEW S, IsFiniteSet(S)
    PROVE  /\ SetToSeq(S) \in Seq(S) /\ Range(SetToSeq(S)) = S /\ IsInjective(SetToSeq(S))
           /\ Len(SetToSeq(S)) = Cardinality(S)
<1>1. Cardinality(S) \in Nat /\ ExistsBijection(1 .. Cardinality(S), S)
  BY FS_CardinalityType
<1>2. PICK f : f \in Bijection(1 .. Cardinality(S), S)
  BY <1>1 DEF ExistsBijection
<1>3. f \in [1 .. Cardinality(S) -> S] /\ IsInjective(f)
  BY <1>2 DEF Bijection, Injection, IsInjective
<1>. DEFINE n == Cardinality(S)
            g == SetToSeq(S)
<1>4. g \in [1 .. n -> S] /\ IsInjective(g)
  BY <1>3 DEF SetToSeq
<1>5. Cardinality(1 .. n) = n
  BY <1>1, FS_Interval
<1>6. g \in Surjection(1 .. n, S)
  <2>1. g \in Injection(1 .. n, S)
    BY <1>4 DEF Injection, IsInjective
  <2>. HIDE DEF n, g
  <2>. QED
    BY <1>5, <2>1, FS_Injection DEF n
<1>7. g \in Seq(S) /\ Len(g) = n /\ DOMAIN g = 1 .. n
  <2>. HIDE DEF g, n
  <2>1. n \in Nat
    BY <1>1 DEF n
  <2>. QED
    BY <1>4, <2>1
<1>8. Range(g) = S
  <2>. HIDE DEF g, n
  <2>. QED
    BY <1>6, <1>7 DEF Surjection, Range
<1>. QED
  BY <1>4, <1>7, <1>8

(* The toasts are of sensors the panel has seen.                           *)
ToldIsSeen == toasts \in Seq(Sensors) /\ \A n \in 1 .. Len(toasts) : heard[toasts[n]] # "unseen"

Listed(u) == u \in Seq(Range(u))

PanelInv ==
    /\ doors \in [Sensors -> {"on", "off"}]
    /\ dashboardFile \in Dashboards
    /\ yamlEditor \in [text : Dashboards, read : {"no", "asked", "yes", "failed"}, saving : BOOLEAN]
    /\ Listed(asking.read) /\ Listed(dashboard.views)
    /\ asking = [open |-> asking.open, read |-> asking.read, served |-> asking.served]
    /\ asking.open => ~dashboard.known
    /\ ~strayed => cat \in ActiveSet
    /\ ToldIsSeen

LEMMA NothingListed == Listed(<<>>)
BY DEF Listed

LEMMA ParsedIsListed == \A doc \in Dashboards : Listed(Parsed(doc))
BY PanelAssumption, NothingListed DEF Parsed, Listed

(* What is offered: the views of the text that the panel knows.            *)
LEMMA OfferedIs ==
    ASSUME Listed(dashboard.views)
    PROVE  /\ ActiveCats \in Seq(ActiveSet) /\ ActiveCats # <<>>
           /\ ActiveSet = IF dashboard.known /\ Range(dashboard.views) \cap CatSet # {}
                          THEN Range(dashboard.views) \cap CatSet ELSE CatSet
<1>. DEFINE k == KnownViews(dashboard.views)
<1>1. k \in Seq(Range(dashboard.views)) /\ Range(k) = Range(dashboard.views) \cap CatSet
  BY FilteredIs DEF KnownViews, Listed
<1>2. ActiveCats = IF dashboard.known /\ k # <<>> THEN k ELSE Cats
  BY DEF ActiveCats
<1>. HIDE DEF k
<1>3. k = <<>> <=> Range(k) = {}
  BY <1>1 DEF Range
<1>4. k \in Seq(Range(k))
  BY <1>1 DEF Range
<1>5. Cats \in Seq(CatSet) /\ Cats # <<>> /\ Range(Cats) = CatSet
  BY PanelAssumption DEF CatSet, Range
<1>. QED
  BY <1>1, <1>2, <1>3, <1>4, <1>5 DEF ActiveSet

SetOffered == IF dashboard.known /\ Range(dashboard.views) \cap CatSet # {}
              THEN Range(dashboard.views) \cap CatSet ELSE CatSet

LEMMA OfferedNext == (Listed(dashboard.views) => ActiveSet = SetOffered)'
<1>1. Listed(dashboard.views) => ActiveSet = SetOffered
  BY OfferedIs DEF SetOffered
<1>. QED
  BY <1>1, PTL

LEMMA BesideIsOffered ==
    ASSUME Listed(dashboard.views), NEW by \in {1, -1}
    PROVE  Beside(ActiveCats, by) \in ActiveSet
<1>. DEFINE cs == ActiveCats
<1>1. cs \in Seq(ActiveSet) /\ cs # <<>> /\ Len(cs) \in Nat /\ Len(cs) > 0
  BY OfferedIs
<1>2. Beside(cs, by) = cs[((IndexIn(cs, cat) + by + Len(cs)) % Len(cs)) + 1]
  BY DEF Beside
<1>. HIDE DEF cs
<1>3. IndexIn(cs, cat) \in Int
  BY <1>1 DEF IndexIn, Range
<1>. DEFINE n == (IndexIn(cs, cat) + by + Len(cs)) % Len(cs)
<1>4. n \in 0 .. Len(cs) - 1
  BY <1>1, <1>3
<1>. HIDE DEF n
<1>5. n + 1 \in 1 .. Len(cs)
  BY <1>1, <1>4
<1>. QED
  BY <1>1, <1>2, <1>5 DEF n, cs

LEMMA ToastsOf ==
    ASSUME NEW u \in Seq(Sensors), NEW A \in SUBSET Sensors
    PROVE  /\ NewestOf(u \o SetToSeq(A)) \in Seq(Sensors)
           /\ Range(NewestOf(u \o SetToSeq(A))) \subseteq Range(u) \cup A
<1>1. IsFiniteSet(A)
  BY PanelAssumption, FS_Subset
<1>. DEFINE v == SetToSeq(A)
            w == u \o v
<1>2. v \in Seq(A) /\ \A n \in 1 .. Len(v) : v[n] \in A
  BY <1>1, SetAsSequence
<1>. HIDE DEF v
<1>3. w \in Seq(Sensors) /\ \A n \in 1 .. Len(w) : w[n] \in Range(u) \cup A
  <2>1. \A n \in 1 .. Len(u) : u[n] \in Range(u)
    BY DEF Range
  <2>. QED
    BY <1>2, <2>1
<1>. HIDE DEF w
<1>. DEFINE a == IF Len(w) > MaxToasts THEN Len(w) - MaxToasts + 1 ELSE 1
<1>4. NewestOf(w) = SubSeq(w, a, Len(w)) /\ a \in 1 .. Len(w) + 1 /\ Len(w) \in Nat
  BY <1>3, PanelAssumption DEF NewestOf
<1>. HIDE DEF a
<1>. DEFINE z == SubSeq(w, a, Len(w))
<1>5. z \in Seq(Sensors) /\ \A n \in 1 .. Len(z) : z[n] \in Range(u) \cup A
  BY <1>3, <1>4
<1>6. NewestOf(w) = z
  BY <1>4
<1>. HIDE DEF z
<1>7. Range(z) \subseteq Range(u) \cup A
  BY <1>5 DEF Range
<1>. QED
  BY <1>5, <1>6, <1>7 DEF v, w

LEMMA PanelBegins == PanelInit => PanelInv
<1>. SUFFICES ASSUME PanelInit PROVE PanelInv
  OBVIOUS
<1>1. /\ dashboardFile \in Dashboards /\ dashboard = [known |-> FALSE, views |-> <<>>]
      /\ asking = [open |-> TRUE, read |-> <<>>, served |-> FALSE]
      /\ doors \in [Sensors -> {"on", "off"}] /\ toasts = <<>> /\ cat \in CatSet
      /\ yamlEditor = [text |-> EmptyDashboard, read |-> "no", saving |-> FALSE]
  BY DEF PanelInit, NoConfig, Nobody0
<1>2. Listed(asking.read) /\ Listed(dashboard.views) /\ ~dashboard.known
  BY <1>1, NothingListed
<1>3. cat \in ActiveSet
  BY <1>1, <1>2, OfferedIs
<1>4. ToldIsSeen
  BY <1>1 DEF ToldIsSeen
<1>. QED
  BY <1>1, <1>2, <1>3, <1>4, PanelAssumption DEF PanelInv

(* A step that changes nothing of what is offered and shown.               *)
LEMMA OfferStays ==
    ASSUME PanelInv, UNCHANGED <<dashboard, asking, cat, strayed>>
    PROVE  /\ Listed(asking.read)' /\ Listed(dashboard.views)'
           /\ (asking = [open |-> asking.open, read |-> asking.read, served |-> asking.served])'
           /\ (asking.open => ~dashboard.known)'
           /\ (~strayed => cat \in ActiveSet)'
BY DEF PanelInv, ActiveSet, ActiveCats, KnownViews

LEMMA PanelStep1 ==
    ASSUME PanelInv, PanelNext,
           ToggleMode \/ CycleSetting \/ PullDown \/ PanelRenders \/ ToastEnds
           \/ \E s \in Sensors : DoorMoves(s)
    PROVE  PanelInv'
<1>1. UNCHANGED <<dashboardFile, yamlEditor, dashboard, asking, cat, strayed>>
  BY DEF ToggleMode, CycleSetting, PullDown, PanelRenders, ToastEnds, DoorMoves
<1>2. doors' \in [Sensors -> {"on", "off"}]
  BY DEF PanelInv, ToggleMode, CycleSetting, PullDown, PanelRenders, ToastEnds, DoorMoves
<1>3. ToldIsSeen'
  <2>0. ToldIsSeen
    BY DEF PanelInv
  <2>1. CASE UNCHANGED <<toasts, heard>>
    BY <2>0, <2>1 DEF ToldIsSeen
  <2>2. CASE ToastEnds
    <3>1. toasts \in Seq(Sensors) /\ toasts # <<>> /\ toasts' = Tail(toasts) /\ heard' = heard
      BY <2>0, <2>2 DEF ToldIsSeen, ToastEnds
    <3>2. toasts' \in Seq(Sensors) /\ Len(toasts') = Len(toasts) - 1
          /\ \A n \in 1 .. Len(toasts') : toasts'[n] = toasts[n + 1] /\ n + 1 \in 1 .. Len(toasts)
      BY <3>1
    <3>. QED
      BY <2>0, <3>1, <3>2 DEF ToldIsSeen
  <2>3. CASE PanelRenders
    <3>1. heard' = doors /\ toasts' = NewestOf(toasts \o SetToSeq(Announced(doors)))
      BY <2>3 DEF PanelRenders
    <3>2. toasts' \in Seq(Sensors)
      <4>1. Announced(doors) \in SUBSET Sensors
        BY DEF Announced
      <4>. QED
        BY <2>0, <3>1, <4>1, ToastsOf DEF ToldIsSeen
    <3>3. \A s \in Sensors : doors[s] # "unseen"
      BY DEF PanelInv
    <3>. QED
      BY <3>1, <3>2, <3>3 DEF ToldIsSeen
  <2>. QED
    BY <2>1, <2>2, <2>3 DEF ToggleMode, CycleSetting, PullDown, DoorMoves
<1>. QED
  BY <1>1, <1>2, <1>3, OfferStays DEF PanelInv

LEMMA EditsFit ==
    ASSUME PanelInv, OpenEditor \/ DashboardTextArrives \/ TypeDoc \/ SaveDoc \/ DocServed
    PROVE  PanelInv'
<1>1. UNCHANGED <<dashboard, asking, cat, strayed, toasts, heard, doors>>
  BY DEF OpenEditor, DashboardTextArrives, TypeDoc, SaveDoc, DocServed, EditorUnchanged
<1>. DEFINE E == [text : Dashboards, read : {"no", "asked", "yes", "failed"}, saving : BOOLEAN]
<1>2. yamlEditor \in E /\ dashboardFile \in Dashboards
  BY DEF PanelInv
<1>3. yamlEditor' \in E /\ dashboardFile' \in Dashboards
  <2>1. CASE OpenEditor
    BY <1>2, <2>1, PanelAssumption DEF OpenEditor, Nobody0
  <2>2. CASE DashboardTextArrives
    BY <1>2, <2>2 DEF DashboardTextArrives
  <2>3. CASE TypeDoc
    BY <1>2, <2>3 DEF TypeDoc
  <2>4. CASE SaveDoc
    BY <1>2, <2>4 DEF SaveDoc
  <2>5. CASE DocServed
    BY <1>2, <2>5 DEF DocServed
  <2>. QED
    BY <2>1, <2>2, <2>3, <2>4, <2>5
<1>4. ToldIsSeen'
  BY <1>1 DEF PanelInv, ToldIsSeen
<1>. QED
  BY <1>1, <1>3, <1>4, OfferStays DEF PanelInv

(* A view that is chosen, by a tab, a swipe or a toast.                    *)
LEMMA ChangesFit ==
    ASSUME PanelInv, NEW c, ChangeCat(c), strayed' \/ c \in ActiveSet
    PROVE  PanelInv'
<1>1. cat' = c /\ UNCHANGED <<dashboardFile, yamlEditor, dashboard, asking, doors, heard, toasts>>
  BY DEF ChangeCat
<1>2. ActiveSet' = ActiveSet
  BY <1>1 DEF ActiveSet, ActiveCats, KnownViews
<1>3. ToldIsSeen'
  BY <1>1 DEF PanelInv, ToldIsSeen
<1>. QED
  BY <1>1, <1>2, <1>3 DEF PanelInv, Listed

LEMMA ConfigFits ==
    ASSUME PanelInv, DashboardServed \/ DashboardArrives \/ DashboardFails
    PROVE  PanelInv'
<1>1. UNCHANGED <<dashboardFile, yamlEditor, doors, heard, toasts>>
  BY DEF DashboardServed, DashboardArrives, DashboardFails
<1>2. ToldIsSeen'
  BY <1>1 DEF PanelInv, ToldIsSeen
<1>3. CASE DashboardServed
  <2>1. /\ asking' = [asking EXCEPT !.served = TRUE, !.read = Parsed(dashboardFile)]
        /\ UNCHANGED <<dashboard, cat, strayed>>
    BY <1>3 DEF DashboardServed
  <2>2. asking = [open |-> asking.open, read |-> asking.read, served |-> asking.served]
    BY DEF PanelInv
  <2>3. asking' = [open |-> asking.open, read |-> Parsed(dashboardFile), served |-> TRUE]
    BY <2>1, <2>2
  <2>4. Listed(asking'.read)
    BY <2>3, ParsedIsListed DEF PanelInv
  <2>5. ActiveSet' = ActiveSet
    BY <2>1 DEF ActiveSet, ActiveCats, KnownViews
  <2>. QED
    BY <1>1, <1>2, <2>1, <2>3, <2>4, <2>5 DEF PanelInv
<1>4. CASE DashboardFails
  <2>1. asking' = [open |-> FALSE, read |-> <<>>, served |-> FALSE] /\ UNCHANGED <<dashboard, cat, strayed>>
    BY <1>4 DEF DashboardFails
  <2>2. ActiveSet' = ActiveSet
    BY <2>1 DEF ActiveSet, ActiveCats, KnownViews
  <2>. QED
    BY <1>1, <1>2, <2>1, <2>2, NothingListed DEF PanelInv
<1>5. CASE DashboardArrives
  <2>1. /\ asking' = [open |-> FALSE, read |-> <<>>, served |-> FALSE]
        /\ dashboard' = [known |-> TRUE, views |-> asking.read]
        /\ cat' = IF cat \in Range(asking.read) \/ asking.read = <<>> THEN cat ELSE asking.read[1]
        /\ strayed' = (cat' \notin CatSet)
    BY <1>5 DEF DashboardArrives
  <2>2. Listed(asking.read) /\ Listed(dashboard.views)'
    BY <2>1 DEF PanelInv
  <2>3. ActiveSet' = IF Range(asking.read) \cap CatSet # {} THEN Range(asking.read) \cap CatSet ELSE CatSet
    <3>1. CatSet' = CatSet
      BY DEF CatSet
    <3>. QED
      BY <2>1, <2>2, <3>1, OfferedNext DEF SetOffered
  <2>4. asking.read # <<>> => cat' \in Range(asking.read)
    BY <2>1, <2>2 DEF Listed, Range
  <2>5. asking.read = <<>> => Range(asking.read) = {}
    BY DEF Range
  <2>6. ~strayed' => cat' \in ActiveSet'
    BY <2>1, <2>3, <2>4, <2>5
  <2>. QED
    BY <1>1, <1>2, <2>1, <2>2, <2>6, NothingListed DEF PanelInv
<1>. QED
  BY <1>3, <1>4, <1>5

LEMMA PanelKeeps == PanelInv /\ [PanelNext]_panelVars => PanelInv'
<1>. SUFFICES ASSUME PanelInv, [PanelNext]_panelVars PROVE PanelInv'
  OBVIOUS
<1>0. Listed(dashboard.views)
  BY DEF PanelInv
<1>1. CASE UNCHANGED panelVars
  BY <1>1 DEF panelVars, PanelInv, ToldIsSeen, ActiveSet, ActiveCats, KnownViews
<1>2. CASE PressTab
  BY <1>2, ChangesFit DEF PressTab
<1>3. CASE Swipe
  BY <1>0, <1>3, ChangesFit, BesideIsOffered DEF Swipe
<1>4. CASE ClickToast
  BY <1>4, ChangesFit DEF ClickToast
<1>5. CASE Reload
  <2>1. /\ dashboard' = [known |-> FALSE, views |-> <<>>] /\ cat' \in CatSet
        /\ asking' = [open |-> TRUE, read |-> <<>>, served |-> FALSE]
        /\ toasts' = <<>> /\ UNCHANGED <<dashboardFile, yamlEditor, doors>>
    BY <1>5, PanelAssumption DEF Reload, Mounts, NoConfig, CatSet
  <2>2. Listed(dashboard.views)' /\ Listed(asking.read)'
    BY <2>1, NothingListed
  <2>3. ActiveSet' = CatSet
    <3>1. CatSet' = CatSet
      BY DEF CatSet
    <3>. QED
      BY <2>1, <2>2, <3>1, OfferedNext DEF SetOffered
  <2>4. ToldIsSeen'
    BY <2>1 DEF ToldIsSeen
  <2>. QED
    BY <2>1, <2>2, <2>3, <2>4 DEF PanelInv
<1>. QED
  BY <1>1, <1>2, <1>3, <1>4, <1>5, PanelStep1, EditsFit, ConfigFits DEF PanelNext

LEMMA PanelTellsNews ==
    ASSUME PanelInv, [PanelNext]_panelVars, NEW s \in Sensors,
           heard[s] = "unseen", heard'[s] # "unseen"
    PROVE  s \notin Range(toasts')
<1>0. ToldIsSeen
  BY DEF PanelInv
<1>1. s \notin Range(toasts)
  BY <1>0 DEF ToldIsSeen, Range
<1>2. CASE PanelRenders
  <2>1. toasts' = NewestOf(toasts \o SetToSeq(Announced(doors)))
    BY <1>2 DEF PanelRenders
  <2>2. s \notin Announced(doors) /\ Announced(doors) \in SUBSET Sensors
    BY DEF Announced
  <2>. QED
    BY <1>0, <1>1, <2>1, <2>2, ToastsOf DEF ToldIsSeen
<1>3. CASE heard' = heard
  BY <1>3
<1>4. CASE Reload
  BY <1>4 DEF Reload, Mounts
<1>5. CASE UNCHANGED panelVars
  BY <1>5, <1>3 DEF panelVars
<1>6. CASE DashboardServed \/ DashboardArrives \/ DashboardFails \/ PressTab \/ Swipe \/ ClickToast
           \/ ToggleMode \/ CycleSetting \/ PullDown \/ ToastEnds \/ \E t \in Sensors : DoorMoves(t)
  <2>1. heard' = heard
    BY <1>6 DEF DashboardServed, DashboardArrives, DashboardFails, PressTab, Swipe, ClickToast,
                ToggleMode, CycleSetting, PullDown, ToastEnds, DoorMoves, ChangeCat
  <2>. QED
    BY <1>3, <2>1
<1>7. CASE OpenEditor \/ DashboardTextArrives \/ TypeDoc \/ SaveDoc \/ DocServed
  <2>1. heard' = heard
    BY <1>7 DEF OpenEditor, DashboardTextArrives, TypeDoc, SaveDoc, DocServed, EditorUnchanged
  <2>. QED
    BY <1>3, <2>1
<1>. QED
  BY <1>2, <1>4, <1>5, <1>6, <1>7 DEF PanelNext

(* Whatever comes first, the panel ends on a view that it offers a tab for,*)
(* unless a toast or an unknown view led away from them; and a panel that  *)
(* was just loaded announces nothing that was so before.                   *)
THEOREM PanelsOfferWhatTheyShow == PanelSpec => []ShowsWhatItOffers /\ NewsOnly
<1>1. PanelInv => ShowsWhatItOffers
  BY DEF PanelInv, ShowsWhatItOffers
<1>2. PanelInv /\ [PanelNext]_panelVars =>
        [\A s \in Sensors : heard[s] = "unseen" /\ heard'[s] # "unseen" => s \notin Range(toasts')]_panelVars
  BY PanelTellsNews
<1>. QED
  BY <1>1, <1>2, PanelBegins, PanelKeeps, PTL DEF PanelSpec, NewsOnly

-----------------------------------------------------------------------------
(* What the requests of the tokens page have done so far: tokens made, and *)
(* revoked, that the page is not told of yet, and those it asks to revoke. *)
AskShape == [op : {"none", "load", "create", "revoke", "panel"}, id : Nat, saw : Seq(Nat),
             got : Seq(Nat), step : {"sent", "done", "over"}]

MadeBy(a)    == a.step = "done" /\ a.op \in {"create", "panel"}
RevokedBy(a) == a.step = "done" /\ a.op = "revoke"
RevokingBy(a) == a.step # "over" /\ a.op = "revoke"

MadeIn(q)     == {i \in Nat : \E n \in DOMAIN q : MadeBy(q[n]) /\ q[n].id = i}
RevokedIn(q)  == {i \in Nat : \E n \in DOMAIN q : RevokedBy(q[n]) /\ q[n].id = i}
RevokingIn(q) == {i \in Nat : \E n \in DOMAIN q : RevokingBy(q[n]) /\ q[n].id = i}
LoadIn(q)     == \E n \in DOMAIN q : q[n].step # "over" /\ q[n].op = "load"
OneMaker(q)   == \A n, k \in DOMAIN q : MadeBy(q[n]) /\ MadeBy(q[k]) /\ q[n].id = q[k].id => n = k

(* The list, once loaded, is the table but for the answers on their way.   *)
ListFollows(q, l, here) ==
    /\ IsInjective(l) /\ OneMaker(q)
    /\ MadeIn(q) \cap (Range(l) \cup RevokingIn(q)) = {}
    /\ here = (Range(l) \cup MadeIn(q)) \ RevokedIn(q)

AsksAreSound(q, known) ==
    /\ q \in Seq(AskShape)
    /\ MadeIn(q) \cup RevokingIn(q) \subseteq known
    /\ \A n \in DOMAIN q : IsInjective(q[n].got) /\ Range(q[n].got) \subseteq known

ListInv ==
    /\ TokensInv
    /\ list \in Seq(Nat) /\ Range(list) \subseteq Issued
    /\ AsksAreSound(asked, Issued)
    /\ tokensPage = "open" /\ ~tokAstray => LoadIn(asked) \/ ListFollows(asked, list, DOMAIN rows)

LEMMA EmptyIsInjective == IsInjective(<<>>) /\ <<>> \in Seq(Nat) /\ Range(<<>>) = {}
BY DEF IsInjective, Range

(* One request more.                                                       *)
LEMMA AskAdded ==
    ASSUME NEW q \in Seq(AskShape), NEW a \in AskShape, a.step = "sent"
    PROVE  /\ Append(q, a) \in Seq(AskShape)
           /\ MadeIn(Append(q, a)) = MadeIn(q) /\ RevokedIn(Append(q, a)) = RevokedIn(q)
           /\ RevokingIn(Append(q, a)) = RevokingIn(q) \cup (IF a.op = "revoke" THEN {a.id} ELSE {})
           /\ LoadIn(q) \/ a.op = "load" => LoadIn(Append(q, a))
           /\ OneMaker(q) => OneMaker(Append(q, a))
<1>. DEFINE r == Append(q, a)
<1>1. /\ r \in Seq(AskShape) /\ DOMAIN r = DOMAIN q \cup {Len(q) + 1} /\ r[Len(q) + 1] = a
      /\ \A n \in DOMAIN q : r[n] = q[n] /\ q[n] \in AskShape
  OBVIOUS
<1>. HIDE DEF r
<1>2. ~MadeBy(a) /\ ~RevokedBy(a) /\ (RevokingBy(a) <=> a.op = "revoke") /\ a.id \in Nat
  BY DEF MadeBy, RevokedBy, RevokingBy, AskShape
<1>3. MadeIn(r) = MadeIn(q) /\ RevokedIn(r) = RevokedIn(q)
  BY <1>1, <1>2 DEF MadeIn, RevokedIn
<1>4. RevokingIn(r) = RevokingIn(q) \cup (IF a.op = "revoke" THEN {a.id} ELSE {})
  BY <1>1, <1>2 DEF RevokingIn
<1>5. LoadIn(q) \/ a.op = "load" => LoadIn(r)
  BY <1>1 DEF LoadIn
<1>6. OneMaker(q) => OneMaker(r)
  BY <1>1, <1>2 DEF OneMaker
<1>. QED
  BY <1>1, <1>3, <1>4, <1>5, <1>6 DEF r

(* A request is over.                                                      *)
LEMMA AskOver ==
    ASSUME NEW q \in Seq(AskShape), NEW n \in DOMAIN q, NEW r \in Seq(AskShape),
           DOMAIN r = DOMAIN q, \A k \in DOMAIN q : k # n => r[k] = q[k], r[n] = Past
    PROVE  /\ MadeIn(r) \subseteq MadeIn(q) /\ RevokingIn(r) \subseteq RevokingIn(q)
           /\ ~MadeBy(q[n]) => MadeIn(r) = MadeIn(q)
           /\ MadeBy(q[n]) /\ OneMaker(q) => MadeIn(r) = MadeIn(q) \ {q[n].id}
           /\ RevokedIn(r) \subseteq RevokedIn(q) /\ RevokedIn(q) \subseteq RevokedIn(r) \cup {q[n].id}
           /\ ~RevokedBy(q[n]) => RevokedIn(r) = RevokedIn(q)
           /\ LoadIn(q) /\ q[n].op # "load" => LoadIn(r)
           /\ OneMaker(q) => OneMaker(r)
<1>0. Past.step = "over"
  BY DEF Past
<1>2. ~MadeBy(r[n]) /\ ~RevokedBy(r[n]) /\ ~RevokingBy(r[n]) /\ q[n].id \in Nat
  <2>1. q[n] \in AskShape
    OBVIOUS
  <2>2. q[n].id \in Nat
    BY <2>1 DEF AskShape
  <2>. QED
    BY <1>0, <2>2 DEF MadeBy, RevokedBy, RevokingBy
<1>3. MadeIn(r) \subseteq MadeIn(q) /\ RevokingIn(r) \subseteq RevokingIn(q)
      /\ RevokedIn(r) \subseteq RevokedIn(q)
  BY <1>2 DEF MadeIn, RevokingIn, RevokedIn
<1>4. ~MadeBy(q[n]) => MadeIn(r) = MadeIn(q)
  BY <1>2 DEF MadeIn
<1>5. MadeBy(q[n]) /\ OneMaker(q) => MadeIn(r) = MadeIn(q) \ {q[n].id}
  BY <1>2 DEF MadeIn, OneMaker
<1>6. RevokedIn(q) \subseteq RevokedIn(r) \cup {q[n].id}
  BY <1>2 DEF RevokedIn
<1>7. ~RevokedBy(q[n]) => RevokedIn(r) = RevokedIn(q)
  BY <1>2 DEF RevokedIn
<1>8. LoadIn(q) /\ q[n].op # "load" => LoadIn(r)
  BY DEF LoadIn
<1>9. OneMaker(q) => OneMaker(r)
  BY <1>2 DEF OneMaker
<1>. QED
  BY <1>3, <1>4, <1>5, <1>6, <1>7, <1>8, <1>9

(* A request is served.                                                    *)
LEMMA AskDone ==
    ASSUME NEW q \in Seq(AskShape), NEW n \in DOMAIN q, NEW r \in Seq(AskShape),
           DOMAIN r = DOMAIN q, \A k \in DOMAIN q : k # n => r[k] = q[k],
           q[n].step = "sent", r[n].step = "done", r[n].op = q[n].op,
           r[n].op = "revoke" => r[n].id = q[n].id
    PROVE  /\ MadeIn(r) = MadeIn(q) \cup (IF MadeBy(r[n]) THEN {r[n].id} ELSE {})
           /\ RevokingIn(r) = RevokingIn(q)
           /\ RevokedIn(r) = RevokedIn(q) \cup (IF RevokedBy(r[n]) THEN {r[n].id} ELSE {})
           /\ LoadIn(r) <=> LoadIn(q)
           /\ OneMaker(q) /\ r[n].id \notin MadeIn(q) => OneMaker(r)
           /\ OneMaker(q) /\ ~MadeBy(r[n]) => OneMaker(r)
<1>. DEFINE a == r[n]
<1>1. a \in AskShape
  OBVIOUS
<1>2. ~MadeBy(q[n]) /\ ~RevokedBy(q[n]) /\ a.id \in Nat /\ \A k \in DOMAIN q : q[k].id \in Nat
  <2>1. a \in AskShape /\ \A k \in DOMAIN q : q[k] \in AskShape
    BY <1>1
  <2>2. a.id \in Nat /\ \A k \in DOMAIN q : q[k].id \in Nat
    BY <2>1 DEF AskShape
  <2>. QED
    BY <2>2 DEF MadeBy, RevokedBy
<1>3. RevokingBy(q[n]) <=> RevokingBy(a)
  BY DEF RevokingBy
<1>4. RevokingBy(a) => a.id = q[n].id
  BY DEF RevokingBy
<1>5. MadeIn(r) = MadeIn(q) \cup (IF MadeBy(a) THEN {a.id} ELSE {})
  BY <1>2 DEF MadeIn
<1>6. RevokedIn(r) = RevokedIn(q) \cup (IF RevokedBy(a) THEN {a.id} ELSE {})
  BY <1>2 DEF RevokedIn
<1>7. RevokingIn(r) = RevokingIn(q)
  <2>1. \A k \in DOMAIN q : RevokingBy(r[k]) <=> RevokingBy(q[k])
    BY <1>3
  <2>2. \A k \in DOMAIN q : RevokingBy(r[k]) => r[k].id = q[k].id
    BY <1>4
  <2>. QED
    BY <2>1, <2>2 DEF RevokingIn
<1>8. LoadIn(r) <=> LoadIn(q)
  BY DEF LoadIn
<1>9. OneMaker(q) /\ a.id \notin MadeIn(q) => OneMaker(r)
  BY <1>2 DEF OneMaker, MadeIn
<1>10. OneMaker(q) /\ ~MadeBy(a) => OneMaker(r)
  BY <1>2 DEF OneMaker
<1>. QED
  BY <1>5, <1>6, <1>7, <1>8, <1>9, <1>10

LEMMA ListBegins == TokensInit => ListInv
<1>. SUFFICES ASSUME TokensInit PROVE ListInv
  OBVIOUS
<1>1. list = <<>> /\ asked = <<>> /\ tokensPage = "closed"
  BY DEF TokensInit
<1>2. MadeIn(asked) = {} /\ RevokingIn(asked) = {} /\ DOMAIN asked = {} /\ asked \in Seq(AskShape)
  BY <1>1 DEF MadeIn, RevokingIn
<1>. QED
  BY <1>1, <1>2, TokensInitially, EmptyIsInjective DEF ListInv, AsksAreSound

(* The step of a request: it is sent.                                      *)
LEMMA RequestFits ==
    ASSUME ListInv, TokensInv', NEW op \in {"load", "create", "revoke", "panel"}, NEW i \in Nat,
           TokenRequest(op, i),
           op = "load" \/ (UNCHANGED <<tokensPage, list, tokAstray>> /\ tokensPage = "open"),
           op = "load" => list' = <<>>,
           op = "revoke" => i \in Range(list)
    PROVE  ListInv'
<1>. DEFINE a == [op |-> op, id |-> i, saw |-> IF op = "create" THEN list ELSE <<>>,
                  got |-> <<>>, step |-> "sent"]
<1>1. asked' = Append(asked, a) /\ UNCHANGED <<rows, revoked>>
  BY DEF TokenRequest
<1>2. a \in AskShape /\ a.step = "sent" /\ a.op = op /\ a.id = i /\ a.got = <<>>
  BY DEF AskShape, ListInv
<1>. HIDE DEF a
<1>3. asked \in Seq(AskShape) /\ AsksAreSound(asked, Issued) /\ list \in Seq(Nat)
      /\ Range(list) \subseteq Issued
  BY DEF ListInv, AsksAreSound
<1>4. Issued' = Issued
  BY <1>1 DEF Issued
<1>5. /\ asked' \in Seq(AskShape)
      /\ MadeIn(asked') = MadeIn(asked) /\ RevokedIn(asked') = RevokedIn(asked)
      /\ RevokingIn(asked') = RevokingIn(asked) \cup (IF op = "revoke" THEN {i} ELSE {})
      /\ LoadIn(asked) \/ op = "load" => LoadIn(asked')
      /\ OneMaker(asked) => OneMaker(asked')
  BY <1>1, <1>2, <1>3, AskAdded
<1>6. AsksAreSound(asked', Issued)
  <2>1. \A n \in DOMAIN asked' : (n \in DOMAIN asked /\ asked'[n] = asked[n]) \/ asked'[n] = a
    BY <1>1, <1>2, <1>3
  <2>2. \A n \in DOMAIN asked' : IsInjective(asked'[n].got) /\ Range(asked'[n].got) \subseteq Issued
    BY <1>2, <1>3, <2>1, EmptyIsInjective DEF AsksAreSound
  <2>. QED
    BY <1>3, <1>5, <2>2 DEF AsksAreSound
<1>7. list' \in Seq(Nat) /\ Range(list') \subseteq Issued
  BY <1>3, EmptyIsInjective
<1>8. ASSUME op # "load", tokensPage' = "open", ~tokAstray'
      PROVE  LoadIn(asked') \/ ListFollows(asked', list', DOMAIN rows')
  <2>1. LoadIn(asked) \/ ListFollows(asked, list, DOMAIN rows)
    BY <1>8 DEF ListInv
  <2>2. CASE ListFollows(asked, list, DOMAIN rows)
    BY <1>1, <1>5, <1>8, <2>2 DEF ListFollows
  <2>. QED
    BY <1>5, <2>1, <2>2
<1>. QED
  BY <1>4, <1>5, <1>6, <1>7, <1>8 DEF ListInv

(* A request is served: a token is made or revoked, or the table is read.  *)
LEMMA ServedFits ==
    ASSUME ListInv, TokensInv', NEW n \in DOMAIN asked,
           ListTokens(n) \/ CreateRow(n) \/ DeleteRow(n)
    PROVE  ListInv'
<1>. DEFINE t == SetToSeq(DOMAIN rows')
<1>0. asked \in Seq(AskShape) /\ AsksAreSound(asked, Issued) /\ list \in Seq(Nat)
      /\ Range(list) \subseteq Issued /\ asked[n] \in AskShape
  BY DEF ListInv, AsksAreSound
<1>1. /\ asked[n].step = "sent" /\ UNCHANGED <<tokensPage, list, tokAstray>>
      /\ asked' = [asked EXCEPT ![n].step = "done",
                              ![n].got = IF asked[n].op # "load" THEN <<>> ELSE t,
                              ![n].id = IF asked[n].op \in {"create", "panel"} THEN NextId ELSE @]
  BY DEF ListTokens, CreateRow, DeleteRow, Served
<1>3. /\ Issued' = Issued \cup (IF asked[n].op \in {"create", "panel"} THEN {NextId} ELSE {})
      /\ DOMAIN rows' = IF asked[n].op \in {"create", "panel"} THEN DOMAIN rows \cup {NextId}
                        ELSE IF asked[n].op = "revoke" THEN DOMAIN rows \ {asked[n].id}
                        ELSE DOMAIN rows
  <2>1. CASE ListTokens(n)
    BY <2>1 DEF ListTokens, Issued
  <2>2. CASE CreateRow(n)
    BY <2>2 DEF CreateRow, Insert, Issued
  <2>3. CASE DeleteRow(n)
    BY <2>3 DEF DeleteRow, Issued
  <2>. QED
    BY <2>1, <2>2, <2>3
<1>4. NextId \notin Issued /\ NextId \in Nat
  <2>1. TokensInv
    BY DEF ListInv
  <2>2. PICK k \in Nat : Issued \cup {NextId} = 1 .. k
    BY <2>1, NextIdIsFresh
  <2>3. NextId \in Nat
    BY <2>2
  <2>. QED
    BY <2>1, <2>3, NextIdIsFresh
<1>5. t \in Seq(Nat) /\ IsInjective(t) /\ Range(t) = DOMAIN rows'
  <2>1. PICK k \in Nat : Issued' = 1 .. k
    BY DEF TokensInv
  <2>2. DOMAIN rows' \subseteq 1 .. k /\ DOMAIN rows' \subseteq Nat
    BY <2>1 DEF Issued
  <2>3. IsFiniteSet(DOMAIN rows')
    BY <2>1, <2>2, FS_Interval, FS_Subset
  <2>. QED
    BY <2>2, <2>3, SetAsSequence
<1>6. PICK a \in AskShape :
        /\ a.op = asked[n].op /\ a.step = "done"
        /\ a.got = (IF asked[n].op # "load" THEN <<>> ELSE t)
        /\ a.id = (IF asked[n].op \in {"create", "panel"} THEN NextId ELSE asked[n].id)
        /\ asked' = [asked EXCEPT ![n] = a]
  <2>. DEFINE h == IF asked[n].op # "load" THEN <<>> ELSE t
              j == IF asked[n].op \in {"create", "panel"} THEN NextId ELSE asked[n].id
              a == [asked[n] EXCEPT !.step = "done", !.got = h, !.id = j]
  <2>1. asked[n].id \in Nat
    BY <1>0 DEF AskShape
  <2>2. h \in Seq(Nat) /\ j \in Nat
    BY <1>4, <1>5, <2>1
  <2>. HIDE DEF t
  <2>3. asked' = [asked EXCEPT ![n].step = "done", ![n].got = h, ![n].id = j]
    BY <1>1
  <2>. HIDE DEF h, j
  <2>3a. asked' = [asked EXCEPT ![n] = a]
    BY <1>0, <2>3
  <2>4. a \in AskShape
    BY <1>0, <2>2 DEF AskShape
  <2>5. a.op = asked[n].op /\ a.step = "done" /\ a.got = h /\ a.id = j
    BY <1>0 DEF AskShape
  <2>. HIDE DEF a
  <2>. QED
    BY <2>3a, <2>4, <2>5 DEF h, j
<1>7. /\ asked' \in Seq(AskShape) /\ DOMAIN asked' = DOMAIN asked /\ asked'[n] = a
      /\ \A k \in DOMAIN asked : k # n => asked'[k] = asked[k]
  BY <1>0, <1>6
<1>8. IsInjective(a.got) /\ Range(a.got) \subseteq Issued'
  BY <1>5, <1>6, EmptyIsInjective DEF Issued
<1>. HIDE DEF t
<1>9. /\ MadeIn(asked') = MadeIn(asked) \cup (IF MadeBy(a) THEN {a.id} ELSE {})
      /\ RevokingIn(asked') = RevokingIn(asked)
      /\ RevokedIn(asked') = RevokedIn(asked) \cup (IF RevokedBy(a) THEN {a.id} ELSE {})
      /\ LoadIn(asked') <=> LoadIn(asked)
      /\ OneMaker(asked) /\ a.id \notin MadeIn(asked) => OneMaker(asked')
      /\ OneMaker(asked) /\ ~MadeBy(a) => OneMaker(asked')
  <2>1. /\ asked[n].step = "sent" /\ asked'[n].step = "done" /\ asked'[n].op = asked[n].op
        /\ asked'[n].op = "revoke" => asked'[n].id = asked[n].id
    BY <1>1, <1>6, <1>7
  <2>2. /\ asked' \in Seq(AskShape) /\ DOMAIN asked' = DOMAIN asked
        /\ \A k \in DOMAIN asked : k # n => asked'[k] = asked[k]
        /\ asked \in Seq(AskShape)
    BY <1>0, <1>7
  <2>3. /\ MadeIn(asked') = MadeIn(asked) \cup (IF MadeBy(asked'[n]) THEN {asked'[n].id} ELSE {})
        /\ RevokingIn(asked') = RevokingIn(asked)
        /\ RevokedIn(asked') = RevokedIn(asked) \cup (IF RevokedBy(asked'[n]) THEN {asked'[n].id} ELSE {})
        /\ LoadIn(asked') <=> LoadIn(asked)
        /\ OneMaker(asked) /\ asked'[n].id \notin MadeIn(asked) => OneMaker(asked')
        /\ OneMaker(asked) /\ ~MadeBy(asked'[n]) => OneMaker(asked')
    BY <2>1, <2>2, AskDone
  <2>. QED
    BY <1>7, <2>3
<1>10. MadeBy(a) <=> asked[n].op \in {"create", "panel"}
  BY <1>6 DEF MadeBy
<1>11. RevokedBy(a) <=> asked[n].op = "revoke"
  BY <1>6 DEF RevokedBy
<1>12. AsksAreSound(asked', Issued')
  <2>1. MadeIn(asked') \cup RevokingIn(asked') \subseteq Issued'
    BY <1>0, <1>3, <1>6, <1>9, <1>10 DEF AsksAreSound
  <2>2. \A k \in DOMAIN asked' : IsInjective(asked'[k].got) /\ Range(asked'[k].got) \subseteq Issued'
    BY <1>0, <1>3, <1>7, <1>8 DEF AsksAreSound
  <2>. QED
    BY <1>7, <2>1, <2>2 DEF AsksAreSound
<1>13. list' \in Seq(Nat) /\ Range(list') \subseteq Issued'
  BY <1>0, <1>1, <1>3
<1>14. ASSUME tokensPage' = "open", ~tokAstray', ~LoadIn(asked')
       PROVE  ListFollows(asked', list', DOMAIN rows')
  <2>1. ListFollows(asked, list, DOMAIN rows)
    BY <1>1, <1>9, <1>14 DEF ListInv
  <2>2. asked[n].op # "load"
    BY <1>1, <1>9, <1>14 DEF LoadIn
  <2>3. MadeIn(asked) \cup RevokingIn(asked) \cup Range(list) \subseteq Issued
    BY <1>0 DEF AsksAreSound
  <2>4. RevokedIn(asked) \subseteq RevokingIn(asked)
    BY DEF RevokedIn, RevokingIn, RevokedBy, RevokingBy
  <2>5. CASE asked[n].op \in {"create", "panel"}
    <3>1. a.id = NextId /\ NextId \notin MadeIn(asked) \cup RevokingIn(asked) \cup Range(list)
      BY <1>4, <1>6, <2>3, <2>5
    <3>2. OneMaker(asked')
      BY <1>9, <2>1, <3>1 DEF ListFollows
    <3>3. MadeIn(asked') = MadeIn(asked) \cup {NextId} /\ RevokedIn(asked') = RevokedIn(asked)
          /\ DOMAIN rows' = DOMAIN rows \cup {NextId}
      BY <1>3, <1>9, <1>10, <1>11, <2>5, <3>1
    <3>4. IsInjective(list) /\ MadeIn(asked) \cap (Range(list) \cup RevokingIn(asked)) = {}
          /\ DOMAIN rows = (Range(list) \cup MadeIn(asked)) \ RevokedIn(asked)
      BY <2>1 DEF ListFollows
    <3>0. list' = list /\ Range(list') = Range(list) /\ RevokingIn(asked') = RevokingIn(asked)
      BY <1>1, <1>9
    <3>5. MadeIn(asked') \cap (Range(list') \cup RevokingIn(asked')) = {}
      BY <3>0, <3>1, <3>3, <3>4
    <3>6. DOMAIN rows' = (Range(list') \cup MadeIn(asked')) \ RevokedIn(asked')
      BY <3>0, <2>4, <3>1, <3>3, <3>4
    <3>. QED
      BY <3>0, <3>2, <3>4, <3>5, <3>6 DEF ListFollows
  <2>6. CASE asked[n].op = "revoke"
    <3>1. asked[n].id \in RevokingIn(asked)
      BY <1>0, <1>1, <2>6 DEF RevokingIn, RevokingBy, AskShape
    <3>2. MadeIn(asked') = MadeIn(asked) /\ OneMaker(asked')
          /\ RevokedIn(asked') = RevokedIn(asked) \cup {asked[n].id}
          /\ DOMAIN rows' = DOMAIN rows \ {asked[n].id}
      BY <1>3, <1>6, <1>9, <1>10, <1>11, <2>1, <2>6 DEF ListFollows
    <3>. QED
      BY <1>1, <1>9, <2>1, <3>1, <3>2 DEF ListFollows
  <2>. QED
    BY <2>2, <2>5, <2>6 DEF ListTokens, CreateRow, DeleteRow
<1>. QED
  BY <1>7, <1>12, <1>13, <1>14 DEF ListInv

(* What the end of a request leaves of the others.                         *)
LEMMA OverIs ==
    ASSUME ListInv, NEW n \in DOMAIN asked, Over(n)
    PROVE  /\ asked \in Seq(AskShape) /\ asked' \in Seq(AskShape) /\ DOMAIN asked' = DOMAIN asked
           /\ asked'[n] = Past /\ \A k \in DOMAIN asked : k # n => asked'[k] = asked[k]
           /\ AsksAreSound(asked', Issued)
           /\ MadeIn(asked') \subseteq MadeIn(asked) /\ RevokingIn(asked') \subseteq RevokingIn(asked)
           /\ ~MadeBy(asked[n]) => MadeIn(asked') = MadeIn(asked)
           /\ MadeBy(asked[n]) /\ OneMaker(asked) => MadeIn(asked') = MadeIn(asked) \ {asked[n].id}
           /\ RevokedIn(asked') \subseteq RevokedIn(asked)
           /\ RevokedIn(asked) \subseteq RevokedIn(asked') \cup {asked[n].id}
           /\ ~RevokedBy(asked[n]) => RevokedIn(asked') = RevokedIn(asked)
           /\ LoadIn(asked) /\ asked[n].op # "load" => LoadIn(asked')
           /\ OneMaker(asked) => OneMaker(asked')
<1>1. asked \in Seq(AskShape) /\ AsksAreSound(asked, Issued)
  BY DEF ListInv, AsksAreSound
<1>2. Past \in AskShape
  BY DEF Past, AskShape
<1>3. /\ asked' \in Seq(AskShape) /\ DOMAIN asked' = DOMAIN asked
      /\ asked'[n] = Past /\ \A k \in DOMAIN asked : k # n => asked'[k] = asked[k]
  BY <1>1, <1>2 DEF Over
<1>4. /\ MadeIn(asked') \subseteq MadeIn(asked) /\ RevokingIn(asked') \subseteq RevokingIn(asked)
      /\ ~MadeBy(asked[n]) => MadeIn(asked') = MadeIn(asked)
      /\ MadeBy(asked[n]) /\ OneMaker(asked) => MadeIn(asked') = MadeIn(asked) \ {asked[n].id}
      /\ RevokedIn(asked') \subseteq RevokedIn(asked)
      /\ RevokedIn(asked) \subseteq RevokedIn(asked') \cup {asked[n].id}
      /\ ~RevokedBy(asked[n]) => RevokedIn(asked') = RevokedIn(asked)
      /\ LoadIn(asked) /\ asked[n].op # "load" => LoadIn(asked')
      /\ OneMaker(asked) => OneMaker(asked')
  BY <1>1, <1>3, AskOver
<1>5. AsksAreSound(asked', Issued)
  <2>1. Past.got = <<>>
    BY DEF Past
  <2>2. \A k \in DOMAIN asked' : IsInjective(asked'[k].got) /\ Range(asked'[k].got) \subseteq Issued
    BY <1>1, <1>3, <2>1, EmptyIsInjective DEF AsksAreSound
  <2>. QED
    BY <1>1, <1>3, <1>4, <2>2 DEF AsksAreSound
<1>. QED
  BY <1>1, <1>3, <1>4, <1>5

(* The answer of the load, unless it was overtaken, is the table.          *)
LEMMA LoadFits ==
    ASSUME ListInv, NEW n \in DOMAIN asked, AnswerTo(n), asked[n].op = "load", ~tokAstray'
    PROVE  LoadIn(asked') \/ ListFollows(asked', list', DOMAIN rows')
<1>1. /\ Over(n) /\ asked[n].step = "done" /\ list' = asked[n].got /\ rows' = rows
      /\ ~Overtaken(n)
  BY DEF AnswerTo
<1>2. /\ asked \in Seq(AskShape) /\ asked' \in Seq(AskShape) /\ DOMAIN asked' = DOMAIN asked
      /\ asked'[n] = Past /\ \A k \in DOMAIN asked : k # n => asked'[k] = asked[k]
  BY <1>1, OverIs
<1>3. Range(asked[n].got) = DOMAIN rows /\ IsInjective(asked[n].got)
  BY <1>1 DEF Overtaken, Range, ListInv, AsksAreSound
<1>4. \A k \in DOMAIN asked : k # n => asked[k].step # "done"
  BY <1>1 DEF Overtaken, Waiting
<1>5. \A k \in DOMAIN asked' : asked'[k].step # "done"
  BY <1>2, <1>4 DEF Past
<1>6. MadeIn(asked') = {} /\ RevokedIn(asked') = {} /\ OneMaker(asked')
  BY <1>5 DEF MadeIn, RevokedIn, OneMaker, MadeBy, RevokedBy
<1>7. IsInjective(list') /\ Range(list') = DOMAIN rows'
  BY <1>1, <1>3
<1>. QED
  BY <1>6, <1>7 DEF ListFollows

(* A token that was made is put behind the list.                           *)
LEMMA AppendKeepsFit ==
    ASSUME NEW l \in Seq(Nat), NEW i \in Nat
    PROVE  /\ Append(l, i) \in Seq(Nat) /\ Range(Append(l, i)) = Range(l) \cup {i}
           /\ IsInjective(l) /\ i \notin Range(l) => IsInjective(Append(l, i))
<1>1. /\ Append(l, i) \in Seq(Nat) /\ DOMAIN Append(l, i) = DOMAIN l \cup {Len(l) + 1}
      /\ Append(l, i)[Len(l) + 1] = i /\ \A k \in DOMAIN l : Append(l, i)[k] = l[k]
  OBVIOUS
<1>. DEFINE m == Append(l, i)
<1>. HIDE DEF m
<1>2. Range(m) = Range(l) \cup {i}
  BY <1>1 DEF Range, m
<1>3. IsInjective(l) /\ i \notin Range(l) => IsInjective(m)
  BY <1>1 DEF Range, IsInjective, m
<1>. QED
  BY <1>1, <1>2, <1>3 DEF m

(* The answers that change the list one by one.                            *)
LEMMA AnswerFits ==
    ASSUME ListInv, NEW n \in DOMAIN asked, AnswerTo(n), asked[n].op # "load",
           tokensPage = "open", ~tokAstray'
    PROVE  LoadIn(asked') \/ ListFollows(asked', list', DOMAIN rows')
<1>1. /\ Over(n) /\ asked[n].step = "done" /\ rows' = rows /\ asked[n].op # "panel" /\ ~tokAstray
  BY DEF AnswerTo
<1>. DEFINE i == asked[n].id
<1>2. asked \in Seq(AskShape) /\ list \in Seq(Nat) /\ i \in Nat
  <2>1. asked \in Seq(AskShape) /\ list \in Seq(Nat) /\ asked[n] \in AskShape
    BY DEF ListInv, AsksAreSound
  <2>. QED
    BY <2>1 DEF AskShape
<1>. HIDE DEF i
<1>3. /\ MadeIn(asked') \subseteq MadeIn(asked) /\ RevokingIn(asked') \subseteq RevokingIn(asked)
      /\ ~MadeBy(asked[n]) => MadeIn(asked') = MadeIn(asked)
      /\ MadeBy(asked[n]) /\ OneMaker(asked) => MadeIn(asked') = MadeIn(asked) \ {i}
      /\ RevokedIn(asked') \subseteq RevokedIn(asked)
      /\ RevokedIn(asked) \subseteq RevokedIn(asked') \cup {i}
      /\ ~RevokedBy(asked[n]) => RevokedIn(asked') = RevokedIn(asked)
      /\ LoadIn(asked) /\ asked[n].op # "load" => LoadIn(asked')
      /\ OneMaker(asked) => OneMaker(asked')
  BY <1>1, OverIs DEF i
<1>4. CASE LoadIn(asked)
  BY <1>3, <1>4
<1>5. CASE ListFollows(asked, list, DOMAIN rows)
  <2>0. /\ IsInjective(list) /\ OneMaker(asked)
        /\ MadeIn(asked) \cap (Range(list) \cup RevokingIn(asked)) = {}
        /\ DOMAIN rows = (Range(list) \cup MadeIn(asked)) \ RevokedIn(asked)
    BY <1>5 DEF ListFollows
  <2>1. CASE asked[n].op = "create"
    <3>1. list' = Append(list, i) /\ MadeBy(asked[n]) /\ ~RevokedBy(asked[n])
      BY <1>1, <2>1 DEF AnswerTo, i, MadeBy, RevokedBy
    <3>2. i \in MadeIn(asked)
      BY <1>2, <3>1 DEF MadeIn, i
    <3>3. Range(list') = Range(list) \cup {i} /\ IsInjective(list')
      BY <1>2, <2>0, <3>1, <3>2, AppendKeepsFit
    <3>. QED
      BY <1>1, <1>3, <2>0, <3>1, <3>2, <3>3 DEF ListFollows
  <2>2. CASE asked[n].op = "revoke"
    <3>1. list' = Filtered(list, Range(list) \ {i}) /\ ~MadeBy(asked[n]) /\ RevokedBy(asked[n])
      BY <1>1, <2>2 DEF AnswerTo, i, MadeBy, RevokedBy, ListedTokens, Range
    <3>2. i \in RevokedIn(asked) /\ i \in RevokingIn(asked)
      BY <1>2, <3>1 DEF RevokedIn, RevokingIn, RevokedBy, RevokingBy, i
    <3>3. Range(list') = Range(list) \ {i} /\ IsInjective(list')
      BY <1>2, <2>0, <3>1, FilteredIs
    <3>. QED
      BY <1>1, <1>3, <2>0, <3>1, <3>2, <3>3 DEF ListFollows
  <2>3. CASE asked[n].op \notin {"create", "revoke"}
    <3>1. list' = list /\ ~MadeBy(asked[n]) /\ ~RevokedBy(asked[n])
      BY <1>1, <2>3 DEF AnswerTo, MadeBy, RevokedBy
    <3>2. Range(list') = Range(list)
      BY <3>1
    <3>. QED
      BY <1>1, <1>3, <2>0, <3>1, <3>2 DEF ListFollows
  <2>. QED
    BY <2>1, <2>2, <2>3
<1>. QED
  BY <1>1, <1>4, <1>5 DEF ListInv

LEMMA AnswersListTokens ==
    ASSUME ListInv, NEW n \in DOMAIN asked, AnswerTo(n)
    PROVE  list' \in Seq(Nat) /\ Range(list') \subseteq Issued
<1>0. /\ asked[n] \in AskShape /\ list \in Seq(Nat) /\ Range(list) \subseteq Issued
      /\ asked \in Seq(AskShape) /\ Range(asked[n].got) \subseteq Issued
      /\ MadeIn(asked) \subseteq Issued /\ asked[n].step = "done"
  BY DEF ListInv, AsksAreSound, AnswerTo
<1>1. asked[n].id \in Nat /\ asked[n].got \in Seq(Nat)
  BY <1>0 DEF AskShape
<1>2. CASE asked[n].op = "load"
  BY <1>0, <1>1, <1>2 DEF AnswerTo
<1>3. CASE asked[n].op = "create"
  <2>1. list' = Append(list, asked[n].id)
    BY <1>3 DEF AnswerTo
  <2>2. asked[n].id \in Issued
    BY <1>0, <1>1, <1>3 DEF MadeIn, MadeBy
  <2>. QED
    BY <1>0, <1>1, <2>1, <2>2, AppendKeepsFit
<1>4. CASE asked[n].op = "revoke"
  <2>1. list' = Filtered(list, ListedTokens \ {asked[n].id})
    BY <1>4 DEF AnswerTo
  <2>. QED
    BY <1>0, <2>1, FilteredIs
<1>5. CASE asked[n].op \notin {"load", "create", "revoke"}
  <2>1. list' = list
    BY <1>5 DEF AnswerTo
  <2>. QED
    BY <1>0, <2>1
<1>. QED
  BY <1>2, <1>3, <1>4, <1>5

LEMMA AnsweredFits ==
    ASSUME ListInv, TokensInv', NEW n \in DOMAIN asked, AnswerTo(n)
    PROVE  ListInv'
<1>1. /\ Over(n) /\ UNCHANGED <<rows, revoked, tokensPage>>
  BY DEF AnswerTo
<1>2. AsksAreSound(asked', Issued) /\ Issued' = Issued
  BY <1>1, OverIs DEF Issued
<1>3. list' \in Seq(Nat) /\ Range(list') \subseteq Issued
  BY AnswersListTokens
<1>4. tokensPage' = "open" /\ ~tokAstray' => LoadIn(asked') \/ ListFollows(asked', list', DOMAIN rows')
  BY <1>1, LoadFits, AnswerFits
<1>. QED
  BY <1>2, <1>3, <1>4 DEF ListInv

(* A request that nothing came of: sent, and not for the list.             *)
LEMMA UndoneFits ==
    ASSUME ListInv, TokensInv', NEW n \in DOMAIN asked, Over(n), UNCHANGED <<rows, revoked>>,
           list' \in Seq(Nat), Range(list') \subseteq Issued,
           ~tokAstray' => /\ UNCHANGED <<tokensPage, list>> /\ ~tokAstray
                          /\ asked[n].step = "sent" /\ asked[n].op # "load"
    PROVE  ListInv'
<1>1. AsksAreSound(asked', Issued) /\ Issued' = Issued
  BY OverIs DEF Issued
<1>2. ASSUME tokensPage' = "open", ~tokAstray'
      PROVE  LoadIn(asked') \/ ListFollows(asked', list', DOMAIN rows')
  <2>1. /\ UNCHANGED <<tokensPage, list>> /\ ~tokAstray /\ asked[n].op # "load"
        /\ ~MadeBy(asked[n]) /\ ~RevokedBy(asked[n])
    BY <1>2 DEF MadeBy, RevokedBy
  <2>2. /\ MadeIn(asked') = MadeIn(asked) /\ RevokedIn(asked') = RevokedIn(asked)
        /\ RevokingIn(asked') \subseteq RevokingIn(asked)
        /\ LoadIn(asked) => LoadIn(asked')
        /\ OneMaker(asked) => OneMaker(asked')
    BY <2>1, OverIs
  <2>3. list' = list /\ Range(list') = Range(list)
    BY <2>1
  <2>4. LoadIn(asked) \/ ListFollows(asked, list, DOMAIN rows)
    BY <1>2, <2>1 DEF ListInv
  <2>5. CASE ListFollows(asked, list, DOMAIN rows)
    BY <2>2, <2>3, <2>5 DEF ListFollows
  <2>. QED
    BY <2>2, <2>4, <2>5
<1>. QED
  BY <1>1, <1>2 DEF ListInv

LEMMA RefusalFits ==
    ASSUME ListInv, TokensInv', NEW n \in DOMAIN asked, RefusedAsk(n) \/ AskLost(n)
    PROVE  ListInv'
<1>1. Over(n) /\ UNCHANGED <<rows, revoked>> /\ list \in Seq(Nat) /\ Range(list) \subseteq Issued
  BY DEF RefusedAsk, AskLost, ListInv
<1>2. asked[n] \in AskShape
  BY DEF ListInv, AsksAreSound
<1>3. asked[n].step \in {"sent", "done", "over"}
  BY <1>2 DEF AskShape
<1>4. list' = list \/ list' = Filtered(list, ListedTokens \ {asked[n].id})
  BY DEF RefusedAsk, AskLost
<1>5. list' \in Seq(Nat) /\ Range(list') \subseteq Issued
  <2>1. CASE list' = list
    BY <1>1, <2>1
  <2>2. CASE list' = Filtered(list, ListedTokens \ {asked[n].id})
    BY <1>1, <2>2, FilteredIs
  <2>. QED
    BY <1>4, <2>1, <2>2
<1>6. ~tokAstray' => /\ UNCHANGED <<tokensPage, list>> /\ ~tokAstray
                     /\ asked[n].step = "sent" /\ asked[n].op # "load"
  <2>1. CASE RefusedAsk(n)
    <3>1. /\ tokAstray' = (tokAstray \/ asked[n].op \in {"load", "revoke"}) /\ asked[n].step = "sent"
          /\ asked[n].op # "load" => tokensPage' = tokensPage
          /\ asked[n].op # "revoke" => list' = list
      BY <2>1 DEF RefusedAsk
    <3>. QED
      BY <3>1
  <2>2. CASE AskLost(n)
    <3>1. /\ tokAstray' = (tokAstray \/ asked[n].step = "done" \/ asked[n].op = "load")
          /\ asked[n].step # "over" /\ UNCHANGED <<tokensPage, list>>
      BY <2>2 DEF AskLost
    <3>. QED
      BY <1>3, <3>1
  <2>. QED
    BY <2>1, <2>2
<1>. QED
  BY <1>1, <1>5, <1>6, UndoneFits

(* Steps that touch neither the requests nor the list.                     *)
LEMMA TableFits ==
    ASSUME ListInv, TokensInv', UNCHANGED <<asked, list>>, Issued \subseteq Issued',
           tokensPage' = "open" /\ ~tokAstray' =>
             DOMAIN rows' = DOMAIN rows /\ tokensPage = "open" /\ ~tokAstray
    PROVE  ListInv'
<1>1. /\ asked' = asked /\ list' = list /\ MadeIn(asked') = MadeIn(asked)
      /\ RevokedIn(asked') = RevokedIn(asked) /\ RevokingIn(asked') = RevokingIn(asked)
      /\ (LoadIn(asked') <=> LoadIn(asked)) /\ (OneMaker(asked') <=> OneMaker(asked))
      /\ Range(list') = Range(list)
  OBVIOUS
<1>2. AsksAreSound(asked', Issued')
  BY <1>1 DEF ListInv, AsksAreSound
<1>3. tokensPage' = "open" /\ ~tokAstray' => LoadIn(asked') \/ ListFollows(asked', list', DOMAIN rows')
  BY <1>1 DEF ListInv, ListFollows
<1>. QED
  BY <1>1, <1>2, <1>3 DEF ListInv

LEMMA ListStep == ListInv /\ [TokensNext]_tokVars => ListInv'
<1>. SUFFICES ASSUME ListInv, [TokensNext]_tokVars PROVE ListInv'
  OBVIOUS
<1>0. TokensInv'
  BY TokensStep DEF ListInv
<1>0a. list \in Seq(Nat) /\ Range(list) = ListedTokens
  BY DEF ListInv, Range, ListedTokens
<1>1. CASE OpenTokens
  <2>1. TokenRequest("load", 0) /\ list' = <<>>
    BY <1>1 DEF OpenTokens
  <2>. QED
    BY <1>0, <2>1, RequestFits
<1>2. CASE CreateToken
  <2>1. TokenRequest("create", 0) /\ UNCHANGED <<tokensPage, list, tokAstray>> /\ tokensPage = "open"
    BY <1>2 DEF CreateToken
  <2>. QED
    BY <1>0, <2>1, RequestFits
<1>3. CASE GenerateQr
  <2>1. TokenRequest("panel", 0) /\ UNCHANGED <<tokensPage, list, tokAstray>> /\ tokensPage = "open"
    BY <1>3 DEF GenerateQr
  <2>. QED
    BY <1>0, <2>1, RequestFits
<1>4. ASSUME NEW i \in Ids, RevokeToken(i) PROVE ListInv'
  <2>1. TokenRequest("revoke", i) /\ UNCHANGED <<tokensPage, list, tokAstray>> /\ tokensPage = "open"
        /\ i \in Range(list)
    BY <1>0a, <1>4 DEF RevokeToken
  <2>2. i \in Nat
    BY <1>0a, <2>1 DEF Range
  <2>. QED
    BY <1>0, <2>1, <2>2, RequestFits
<1>5. CASE CloseTokens
  <2>1. /\ list' = <<>> /\ tokensPage' = "closed" /\ UNCHANGED <<asked, rows, revoked>>
    BY <1>5 DEF CloseTokens
  <2>2. AsksAreSound(asked', Issued')
    BY <2>1 DEF ListInv, Issued
  <2>. QED
    BY <1>0, <2>1, <2>2, EmptyIsInjective DEF ListInv
<1>6. CASE CreateElsewhere
  <2>1. UNCHANGED <<asked, list>> /\ Issued \subseteq Issued' /\ tokAstray'
    BY <1>6 DEF CreateElsewhere, Insert, Issued
  <2>. QED
    BY <1>0, <2>1, TableFits
<1>7. ASSUME NEW i \in DOMAIN rows, TokenEnds(i) PROVE ListInv'
  <2>1. UNCHANGED <<asked, list, tokensPage, tokAstray, revoked>> /\ DOMAIN rows' = DOMAIN rows
    BY <1>7 DEF TokenEnds
  <2>. QED
    BY <1>0, <2>1, TableFits DEF Issued
<1>8. CASE UNCHANGED <<rows, revoked, asked, list, tokensPage, tokAstray>>
  BY <1>0, <1>8, TableFits DEF Issued
<1>9. CASE QrButtons \/ DismissToken \/ SignedOut \/ UNCHANGED tokVars
  BY <1>8, <1>9 DEF QrButtons, DismissToken, SignedOut, tokVars
<1>10. CASE \/ \E i \in Ids : ValidateToken(i)
            \/ \E i \in touching : Touch(i)
  BY <1>8, <1>10 DEF ValidateToken, Touch
<1>11. ASSUME NEW n \in DOMAIN asked, ListTokens(n) \/ CreateRow(n) \/ DeleteRow(n) PROVE ListInv'
  BY <1>0, <1>11, ServedFits
<1>12. ASSUME NEW n \in DOMAIN asked, AnswerTo(n) PROVE ListInv'
  BY <1>0, <1>12, AnsweredFits
<1>13. ASSUME NEW n \in DOMAIN asked, RefusedAsk(n) \/ AskLost(n) PROVE ListInv'
  BY <1>0, <1>13, RefusalFits
<1>. QED
  BY <1>1, <1>2, <1>3, <1>4, <1>5, <1>6, <1>7, <1>9, <1>10, <1>11, <1>12, <1>13 DEF TokensNext

(* A list without repetitions is as long as what it lists is large.        *)
LEMMA LengthCounts ==
    ASSUME NEW T, NEW s \in Seq(T), IsInjective(s)
    PROVE  IsFiniteSet(Range(s)) /\ Cardinality(Range(s)) = Len(s)
<1>1. DOMAIN s = 1 .. Len(s) /\ Len(s) \in Nat
  OBVIOUS
<1>2. s \in Bijection(1 .. Len(s), Range(s))
  BY <1>1 DEF Bijection, Injection, Surjection, IsInjective, Range
<1>3. ExistsBijection(1 .. Len(s), Range(s))
  BY <1>2 DEF ExistsBijection
<1>. QED
  BY <1>1, <1>3, FS_NatBijection, FS_CountingElements

(* The page that waits for nothing lists the tokens there are, each once.  *)
LEMMA ListIsTable == ListInv => TokensAreListed
<1>. SUFFICES ASSUME ListInv, tokensPage = "open", Waiting = {}, ~tokAstray
              PROVE  ListedTokens = DOMAIN rows /\ Len(list) = Cardinality(ListedTokens)
  BY DEF TokensAreListed
<1>1. \A n \in DOMAIN asked : asked[n].step = "over"
  BY DEF Waiting
<1>2. ~LoadIn(asked) /\ MadeIn(asked) = {} /\ RevokedIn(asked) = {}
  BY <1>1 DEF LoadIn, MadeIn, MadeBy, RevokedIn, RevokedBy
<1>3. IsInjective(list) /\ DOMAIN rows = Range(list)
  BY <1>2 DEF ListInv, ListFollows
<1>4. ListedTokens = Range(list) /\ list \in Seq(Nat)
  BY DEF ListedTokens, Range, ListInv
<1>. QED
  BY <1>3, <1>4, LengthCounts

(* The page of tokens lists those that exist once every answer is in, each *)
(* once: unless a load was overtaken, an answer was lost or refused, or a  *)
(* token was made that the page is not told of.                            *)
THEOREM TokenListsAreTrue == TokensSpec => []TokensAreListed
<1>. QED
  BY ListBegins, ListStep, ListIsTable, PTL DEF TokensSpec

-----------------------------------------------------------------------------
(* Sequences put together, and one put in between.                         *)
LEMMA JoinedIs ==
    ASSUME NEW T, NEW u \in Seq(T), NEW v \in Seq(T)
    PROVE  /\ u \o v \in Seq(T) /\ Range(u \o v) = Range(u) \cup Range(v)
           /\ IsInjective(u) /\ IsInjective(v) /\ Range(u) \cap Range(v) = {} => IsInjective(u \o v)
<1>. DEFINE w == u \o v
<1>1. /\ w \in Seq(T) /\ Len(w) = Len(u) + Len(v) /\ Len(u) \in Nat /\ Len(v) \in Nat
      /\ \A k \in 1 .. Len(u) : w[k] = u[k]
      /\ \A k \in 1 .. Len(v) : w[Len(u) + k] = v[k]
  OBVIOUS
<1>2. \A k \in 1 .. Len(w) : k \in 1 .. Len(u) \/ (k - Len(u) \in 1 .. Len(v) /\ w[k] = v[k - Len(u)])
  BY <1>1
<1>. HIDE DEF w
<1>3. DOMAIN u = 1 .. Len(u) /\ DOMAIN v = 1 .. Len(v) /\ DOMAIN w = 1 .. Len(w)
  BY <1>1
<1>4. Range(w) = Range(u) \cup Range(v)
  <2>1. \A k \in DOMAIN w : w[k] \in Range(u) \cup Range(v)
    BY <1>1, <1>2, <1>3 DEF Range
  <2>2. \A k \in DOMAIN u : k \in DOMAIN w /\ w[k] = u[k]
    BY <1>1, <1>3
  <2>3. \A k \in DOMAIN v : Len(u) + k \in DOMAIN w /\ w[Len(u) + k] = v[k]
    BY <1>1, <1>3
  <2>4. \A x \in Range(u) \cup Range(v) : \E k \in DOMAIN w : w[k] = x
    BY <2>2, <2>3 DEF Range
  <2>. QED
    BY <2>1, <2>4 DEF Range
<1>5. ASSUME IsInjective(u), IsInjective(v), Range(u) \cap Range(v) = {}
      PROVE  IsInjective(w)
  <2>1. SUFFICES ASSUME NEW j \in DOMAIN w, NEW k \in DOMAIN w, w[j] = w[k] PROVE j = k
    BY DEF IsInjective
  <2>2. CASE j \in DOMAIN u /\ k \in DOMAIN u
    BY <1>1, <1>3, <1>5, <2>1, <2>2 DEF IsInjective
  <2>3. CASE j \notin DOMAIN u /\ k \notin DOMAIN u
    <3>1. /\ j - Len(u) \in DOMAIN v /\ k - Len(u) \in DOMAIN v
          /\ v[j - Len(u)] = v[k - Len(u)]
      BY <1>2, <1>3, <2>1, <2>3
    <3>2. j - Len(u) = k - Len(u)
      BY <1>5, <3>1 DEF IsInjective
    <3>. QED
      BY <1>1, <1>3, <3>2
  <2>4. ASSUME NEW m \in DOMAIN w, NEW n \in DOMAIN w, m \in DOMAIN u, n \notin DOMAIN u PROVE w[m] # w[n]
    <3>1. w[m] = u[m] /\ n - Len(u) \in DOMAIN v /\ w[n] = v[n - Len(u)]
      BY <1>1, <1>2, <1>3, <2>4
    <3>2. w[m] \in Range(u) /\ w[n] \in Range(v)
      BY <2>4, <3>1 DEF Range
    <3>. QED
      BY <1>5, <3>2
  <2>. QED
    BY <2>1, <2>2, <2>3, <2>4
<1>. QED
  BY <1>1, <1>4, <1>5 DEF w

(* w is u with x at place i.                                               *)
IsInserted(w, u, i, x) ==
    /\ Len(w) = Len(u) + 1 /\ w[i] = x
    /\ \A k \in 1 .. Len(u) : /\ k < i => w[k] = u[k]
                              /\ k >= i => w[k + 1] = u[k]

LEMMA InsertedIs ==
    ASSUME NEW T, NEW u \in Seq(T), NEW x \in T, NEW i \in 1 .. Len(u) + 1
    PROVE  InsertAt(u, i, x) \in Seq(T) /\ IsInserted(InsertAt(u, i, x), u, i, x)
<1>. DEFINE a == SubSeq(u, 1, i - 1)
            b == SubSeq(u, i, Len(u))
            c == <<x>>
<1>0. Len(u) \in Nat /\ i \in Nat
  OBVIOUS
<1>1. a \in Seq(T) /\ Len(a) = i - 1 /\ \A k \in 1 .. i - 1 : a[k] = u[k]
  BY <1>0
<1>2. b \in Seq(T) /\ Len(b) = Len(u) - i + 1 /\ \A k \in 1 .. Len(b) : b[k] = u[i + k - 1]
  BY <1>0
<1>3. c \in Seq(T) /\ Len(c) = 1 /\ c[1] = x
  OBVIOUS
<1>4. InsertAt(u, i, x) = (a \o c) \o b
  BY DEF InsertAt
<1>. HIDE DEF a, b, c
<1>. DEFINE w == a \o c
<1>5. /\ w \in Seq(T) /\ Len(w) = i /\ w[i] = x /\ \A k \in 1 .. i - 1 : w[k] = u[k]
  <2>1. /\ w \in Seq(T) /\ Len(w) = Len(a) + 1 /\ w[Len(a) + 1] = x
        /\ \A k \in 1 .. Len(a) : w[k] = a[k]
    <3>1. /\ w \in Seq(T) /\ Len(w) = Len(a) + Len(c) /\ Len(a) \in Nat
          /\ \A k \in 1 .. Len(a) : w[k] = a[k]
          /\ \A k \in 1 .. Len(c) : w[Len(a) + k] = c[k]
      <4>1. a \in Seq(T) /\ c \in Seq(T)
        BY <1>1, <1>3
      <4>. QED
        BY <4>1
    <3>2. 1 \in 1 .. Len(c)
      BY <1>3
    <3>. HIDE DEF w
    <3>. QED
      BY <1>3, <3>1, <3>2
  <2>2. Len(a) + 1 = i /\ 1 .. Len(a) = 1 .. i - 1
    BY <1>0, <1>1
  <2>. HIDE DEF w
  <2>. QED
    BY <1>1, <2>1, <2>2
<1>. HIDE DEF w
<1>. DEFINE z == w \o b
<1>6. /\ z \in Seq(T) /\ Len(z) = Len(u) + 1 /\ \A k \in 1 .. i : z[k] = w[k]
      /\ \A k \in 1 .. Len(b) : z[i + k] = b[k]
  BY <1>0, <1>2, <1>5
<1>. HIDE DEF z
<1>7. z[i] = x /\ \A k \in 1 .. i - 1 : z[k] = u[k]
  BY <1>0, <1>5, <1>6
<1>8. ASSUME NEW k \in 1 .. Len(u), k >= i PROVE z[k + 1] = u[k]
  <2>1. k - i + 1 \in 1 .. Len(b) /\ i + (k - i + 1) = k + 1 /\ i + (k - i + 1) - 1 = k
    BY <1>0, <1>2, <1>8
  <2>2. PICK j \in 1 .. Len(b) : j = k - i + 1
    BY <2>1
  <2>3. z[i + j] = b[j] /\ b[j] = u[i + j - 1]
    BY <1>2, <1>6
  <2>4. i + j = k + 1 /\ i + j - 1 = k
    BY <1>0, <2>2
  <2>. QED
    BY <2>3, <2>4
<1>9. IsInserted(z, u, i, x)
  BY <1>0, <1>6, <1>7, <1>8 DEF IsInserted
<1>. QED
  BY <1>4, <1>6, <1>9 DEF z, w

LEMMA InsertedRange ==
    ASSUME NEW T, NEW u \in Seq(T), NEW w \in Seq(T), NEW x \in T, NEW i \in 1 .. Len(u) + 1,
           IsInserted(w, u, i, x)
    PROVE  /\ Range(w) = Range(u) \cup {x}
           /\ IsInjective(u) /\ x \notin Range(u) => IsInjective(w)
<1>1. /\ Len(u) \in Nat /\ i \in Nat /\ Len(w) = Len(u) + 1 /\ w[i] = x
      /\ DOMAIN u = 1 .. Len(u) /\ DOMAIN w = 1 .. Len(u) + 1
      /\ \A k \in 1 .. Len(u) : (k < i => w[k] = u[k]) /\ (k >= i => w[k + 1] = u[k])
  BY DEF IsInserted
<1>2. \A k \in DOMAIN w : \/ k = i
                          \/ k < i /\ k \in DOMAIN u /\ w[k] = u[k]
                          \/ k > i /\ k - 1 \in DOMAIN u /\ w[k] = u[k - 1]
  <2>1. SUFFICES ASSUME NEW k \in DOMAIN w, k > i PROVE k - 1 \in DOMAIN u /\ w[k] = u[k - 1]
    BY <1>1
  <2>2. k - 1 \in 1 .. Len(u) /\ k - 1 >= i /\ (k - 1) + 1 = k
    BY <1>1, <2>1
  <2>. QED
    BY <1>1, <2>2
<1>3. \A k \in DOMAIN u : \E j \in DOMAIN w : w[j] = u[k]
  <2>1. SUFFICES ASSUME NEW k \in DOMAIN u PROVE \E j \in DOMAIN w : w[j] = u[k]
    OBVIOUS
  <2>2. k \in DOMAIN w /\ k + 1 \in DOMAIN w /\ (w[k] = u[k] \/ w[k + 1] = u[k])
    BY <1>1
  <2>. QED
    BY <2>2
<1>4. Range(w) = Range(u) \cup {x}
  <2>1. \A k \in DOMAIN w : w[k] \in Range(u) \cup {x}
    BY <1>1, <1>2 DEF Range
  <2>2. i \in DOMAIN w /\ \A y \in Range(u) : y \in Range(w)
    BY <1>1, <1>3 DEF Range
  <2>3. x \in Range(w)
    BY <1>1, <2>2 DEF Range
  <2>4. Range(w) \subseteq Range(u) \cup {x}
    BY <2>1 DEF Range
  <2>. QED
    BY <2>2, <2>3, <2>4
<1>5. ASSUME IsInjective(u), x \notin Range(u) PROVE IsInjective(w)
  <2>1. SUFFICES ASSUME NEW j \in DOMAIN w, NEW k \in DOMAIN w, w[j] = w[k] PROVE j = k
    BY DEF IsInjective
  <2>2. \A n \in DOMAIN u : u[n] # x
    BY <1>5 DEF Range
  <2>3. \A m, n \in DOMAIN u : u[m] = u[n] => m = n
    BY <1>5 DEF IsInjective
  <2>4. j \in Nat /\ k \in Nat
    BY <1>1
  <2>. QED
    <3>1. CASE j = i \/ k = i
      BY <1>1, <1>2, <2>1, <2>2, <2>4, <3>1
    <3>2. CASE j < i /\ k < i
      BY <1>1, <1>2, <2>1, <2>3, <2>4, <3>2
    <3>3. CASE j > i /\ k > i
      <4>1. j - 1 \in DOMAIN u /\ k - 1 \in DOMAIN u /\ u[j - 1] = u[k - 1]
        BY <1>1, <1>2, <2>1, <2>4, <3>3
      <4>2. j - 1 = k - 1
        BY <2>3, <4>1
      <4>. QED
        BY <2>4, <4>2
    <3>4. ASSUME NEW m \in DOMAIN w, NEW n \in DOMAIN w, m < i, n > i PROVE w[m] # w[n]
      <4>1. m \in DOMAIN u /\ n - 1 \in DOMAIN u /\ w[m] = u[m] /\ w[n] = u[n - 1] /\ m \in Nat /\ n \in Nat
        BY <1>1, <1>2, <3>4
      <4>2. m # n - 1
        BY <1>1, <3>4, <4>1
      <4>. QED
        BY <2>3, <4>1, <4>2
    <3>. QED
      BY <1>1, <2>1, <2>4, <3>1, <3>2, <3>3, <3>4
<1>. QED
  BY <1>4, <1>5

(* Taken out again, it leaves what was there.                              *)
LEMMA TakenOutAgain ==
    ASSUME NEW T, NEW u \in Seq(T), NEW w \in Seq(T), NEW x \in T, NEW i \in 1 .. Len(u) + 1,
           IsInserted(w, u, i, x), NEW S, x \notin S, Range(u) \subseteq S
    PROVE  Filtered(w, S) = u
<1>1. PICK f : /\ Filtered(w, S) = f[Len(w)]
               /\ \A n \in 0 .. Len(w) : f[n] = KeptSoFar(f, w, S, n)
  BY FilterSteps
<1>2. /\ Len(u) \in Nat /\ i \in Nat /\ Len(w) = Len(u) + 1 /\ w[i] = x
      /\ DOMAIN u = 1 .. Len(u)
      /\ \A k \in 1 .. Len(u) : (k < i => w[k] = u[k]) /\ (k >= i => w[k + 1] = u[k])
  BY DEF IsInserted
<1>3. \A k \in 1 .. Len(u) : u[k] \in S
  BY <1>2 DEF Range
<1>. DEFINE Good(n) == /\ f[n] \in Seq(T)
                       /\ Len(f[n]) = IF n < i THEN n ELSE n - 1
                       /\ \A k \in 1 .. Len(f[n]) : f[n][k] = u[k]
            wrong == {n \in 0 .. Len(w) : ~Good(n)}
<1>4. wrong = {}
  <2>1. SUFFICES ASSUME wrong # {} PROVE FALSE
    OBVIOUS
  <2>2. PICK n \in wrong : \A j \in wrong : n <= j
    <3>1. wrong \in SUBSET Nat
      OBVIOUS
    <3>. HIDE DEF wrong
    <3>. QED
      BY <2>1, <3>1, Least
  <2>3. n \in 0 .. Len(w) /\ ~Good(n) /\ f[n] = KeptSoFar(f, w, S, n)
    BY <1>1, <2>2
  <2>4. CASE n = 0
    <3>1. f[n] = <<>> /\ n < i
      BY <1>2, <2>3, <2>4 DEF KeptSoFar
    <3>2. f[n] \in Seq(T) /\ Len(f[n]) = 0 /\ 1 .. Len(f[n]) = {}
      BY <3>1
    <3>. QED
      BY <2>3, <2>4, <3>1, <3>2
  <2>5. CASE n # 0
    <3>1. n - 1 \in 0 .. Len(w) /\ n - 1 < n /\ n \in 1 .. Len(u) + 1 /\ n \in Nat
      BY <1>2, <2>3, <2>5
    <3>2. Good(n - 1)
      <4>. HIDE DEF Good
      <4>. QED
        BY <2>2, <3>1
    <3>. DEFINE g == f[n - 1]
    <3>3. g \in Seq(T) /\ Len(g) = (IF n - 1 < i THEN n - 1 ELSE n - 2)
          /\ \A k \in 1 .. Len(g) : g[k] = u[k]
      BY <3>1, <3>2
    <3>. HIDE DEF g
    <3>4. CASE n = i
      <4>1. f[n] = g
        BY <1>2, <2>3, <2>5, <3>4 DEF KeptSoFar, g
      <4>. QED
        BY <1>2, <2>3, <3>1, <3>3, <3>4, <4>1
    <3>5. CASE n < i
      <4>1. w[n] = u[n] /\ n \in 1 .. Len(u)
        BY <1>2, <3>1, <3>5
      <4>2. f[n] = Append(g, u[n]) /\ u[n] \in T
        BY <1>3, <2>3, <2>5, <4>1 DEF KeptSoFar, g
      <4>3. Len(g) = n - 1
        BY <1>2, <3>1, <3>3, <3>5
      <4>4. f[n] \in Seq(T) /\ Len(f[n]) = n /\ f[n][n] = u[n] /\ \A k \in 1 .. n - 1 : f[n][k] = u[k]
        BY <3>1, <3>3, <4>2, <4>3
      <4>. QED
        BY <2>3, <3>1, <3>5, <4>4
    <3>6. CASE n > i
      <4>1. w[n] = u[n - 1] /\ n - 1 \in 1 .. Len(u)
        <5>1. n - 1 \in 1 .. Len(u) /\ n - 1 >= i /\ (n - 1) + 1 = n
          BY <1>2, <3>1, <3>6
        <5>. QED
          BY <1>2, <5>1
      <4>2. f[n] = Append(g, u[n - 1]) /\ u[n - 1] \in T
        BY <1>3, <2>3, <2>5, <4>1 DEF KeptSoFar, g
      <4>3. Len(g) = n - 2 /\ n - 2 \in Nat
        BY <1>2, <3>1, <3>3, <3>6
      <4>4. f[n] \in Seq(T) /\ Len(f[n]) = n - 1 /\ f[n][n - 1] = u[n - 1] /\ \A k \in 1 .. n - 2 : f[n][k] = u[k]
        BY <3>1, <3>3, <4>2, <4>3
      <4>. QED
        BY <1>2, <2>3, <3>1, <3>6, <4>4
    <3>. QED
      BY <1>2, <3>1, <3>4, <3>5, <3>6
  <2>. QED
    BY <2>4, <2>5
<1>5. Len(w) \in 0 .. Len(w) /\ ~ (Len(w) < i)
  BY <1>2
<1>6. Good(Len(w))
  <2>. HIDE DEF Good
  <2>. QED
    BY <1>4, <1>5
<1>. DEFINE g == f[Len(w)]
<1>7. g \in Seq(T) /\ Len(g) = Len(u) /\ \A k \in 1 .. Len(u) : g[k] = u[k]
  BY <1>2, <1>5, <1>6
<1>. HIDE DEF g
<1>8. g = u
  BY <1>7, SeqEqual
<1>. QED
  BY <1>1, <1>8 DEF g
-----------------------------------------------------------------------------
(* The sections of the home page.                                          *)
SectInv ==
    /\ rooms \subseteq Range(Rooms) /\ roomsHere \subseteq Range(Rooms)
    /\ keptOrder = order
    /\ OwnNames => order \in Seq(IdsAre) /\ IsInjective(order)

LEMMA OneIs ==
    ASSUME NEW T, NEW x \in T
    PROVE  <<x>> \in Seq(T) /\ Range(<<x>>) = {x} /\ IsInjective(<<x>>)
<1>1. DOMAIN <<x>> = {1} /\ <<x>>[1] = x /\ <<x>> \in Seq(T)
  OBVIOUS
<1>. QED
  BY <1>1 DEF Range, IsInjective

LEMMA NoneIs ==
    ASSUME NEW T
    PROVE  <<>> \in Seq(T) /\ Range(<<>>) = {} /\ IsInjective(<<>>)
BY DEF Range, IsInjective

(* The sections there are, each once.                                      *)
LEMMA AllSectionsAre ==
    ASSUME OwnNames, roomsHere \subseteq Range(Rooms)
    PROVE  /\ AllSectionIds \in Seq(IdsAre) /\ IsInjective(AllSectionIds)
           /\ Range(AllSectionIds) = (IF Favourites # {} THEN {Pinned} ELSE {})
                \cup {r \in roomsHere : Grouped(r) # {}} \cup (IF Unassigned # {} THEN {Other} ELSE {})
<1>. DEFINE a == IF Favourites # {} THEN <<Pinned>> ELSE <<>>
            here == {r \in roomsHere : Grouped(r) # {}}
            b == Filtered(Rooms, here)
            c == IF Unassigned # {} THEN <<Other>> ELSE <<>>
<1>1. /\ a \in Seq(IdsAre) /\ IsInjective(a)
      /\ Range(a) = (IF Favourites # {} THEN {Pinned} ELSE {})
  BY OneIs, NoneIs DEF IdsAre
<1>2. /\ b \in Seq(Range(Rooms)) /\ Range(b) = Range(Rooms) \cap here /\ IsInjective(b)
  <2>. HIDE DEF here
  <2>. QED
    BY HomeAssumption, FilteredIs
<1>3. b \in Seq(IdsAre) /\ Range(b) = here
  <2>1. Range(Rooms) \subseteq IdsAre
    BY DEF IdsAre
  <2>2. Range(b) = here
    BY <1>2
  <2>. HIDE DEF b, here
  <2>. QED
    BY <1>2, <2>1, <2>2
<1>4. /\ c \in Seq(IdsAre) /\ IsInjective(c)
      /\ Range(c) = (IF Unassigned # {} THEN {Other} ELSE {})
  BY OneIs, NoneIs DEF IdsAre
<1>5. /\ Range(a) \cap Range(b) = {} /\ (Range(a) \cup Range(b)) \cap Range(c) = {}
  BY <1>1, <1>3, <1>4 DEF OwnNames, Pinned, Other
<1>6. AllSectionIds = (a \o b) \o c
  BY DEF AllSectionIds
<1>. HIDE DEF a, b, c
<1>7. a \o b \in Seq(IdsAre) /\ Range(a \o b) = Range(a) \cup Range(b) /\ IsInjective(a \o b)
  BY <1>1, <1>2, <1>3, <1>5, JoinedIs
<1>. DEFINE d == a \o b
<1>7a. d \in Seq(IdsAre) /\ IsInjective(d) /\ Range(d) \cap Range(c) = {}
  BY <1>5, <1>7
<1>. HIDE DEF d, here
<1>8. d \o c \in Seq(IdsAre) /\ Range(d \o c) = Range(d) \cup Range(c) /\ IsInjective(d \o c)
  BY <1>4, <1>7a, JoinedIs
<1>. QED
  BY <1>1, <1>3, <1>4, <1>6, <1>7, <1>8 DEF d, here

(* They are all drawn, each once, in any order that was saved.             *)
LEMMA OrderedSectionsAre ==
    ASSUME OwnNames, SectInv
    PROVE  /\ OrderedIds \in Seq(IdsAre) /\ IsInjective(OrderedIds)
           /\ Range(OrderedIds) = Range(AllSectionIds)
<1>. DEFINE s == AllSectionIds
            kept == Filtered(order, Range(s))
            new == Filtered(s, Range(s) \ Range(kept))
<1>1. s \in Seq(IdsAre) /\ IsInjective(s) /\ order \in Seq(IdsAre) /\ IsInjective(order)
  BY AllSectionsAre DEF SectInv
<1>2. OrderedIds = kept \o new
  BY DEF OrderedIds
<1>. HIDE DEF s
<1>3. kept \in Seq(IdsAre) /\ Range(kept) = Range(order) \cap Range(s) /\ IsInjective(kept)
  BY <1>1, FilteredIs
<1>. HIDE DEF kept
<1>4. new \in Seq(IdsAre) /\ Range(new) = Range(s) \cap (Range(s) \ Range(kept)) /\ IsInjective(new)
  BY <1>1, FilteredIs
<1>. HIDE DEF new
<1>5. kept \o new \in Seq(IdsAre) /\ Range(kept \o new) = Range(kept) \cup Range(new)
      /\ IsInjective(kept \o new)
  BY <1>3, <1>4, JoinedIs
<1>. QED
  BY <1>2, <1>3, <1>4, <1>5 DEF s

LEMMA EverythingIsDrawn == SectInv => EveryThingIsDrawn
<1>. SUFFICES ASSUME SectInv, OwnNames PROVE EveryThingIsDrawn
  BY DEF EveryThingIsDrawn
<1>1. /\ IsInjective(OrderedIds)
      /\ Range(OrderedIds) = (IF Favourites # {} THEN {Pinned} ELSE {})
           \cup {r \in roomsHere : Grouped(r) # {}} \cup (IF Unassigned # {} THEN {Other} ELSE {})
  BY OrderedSectionsAre, AllSectionsAre DEF SectInv
<1>2. ASSUME NEW t \in present, placedHere[t] \in roomsHere \cup {NoRoom}
      PROVE  t \in DrawnThings
  <2>1. CASE placedHere[t] = NoRoom
    <3>1. t \in Unassigned
      BY <2>1 DEF Unassigned, Grouped
    <3>2. Other \in Range(OrderedIds) /\ DrawnIn(Other) = Unassigned
      BY <1>1, <3>1 DEF DrawnIn, Other, Pinned
    <3>. QED
      BY <3>1, <3>2 DEF DrawnThings
  <2>2. CASE placedHere[t] \in roomsHere
    <3>. DEFINE r == placedHere[t]
    <3>1. t \in Grouped(r)
      BY DEF Grouped
    <3>2. r \in Range(OrderedIds)
      BY <1>1, <2>2, <3>1
    <3>3. r # Pinned /\ r # Other
      BY <2>2 DEF SectInv, OwnNames
    <3>4. DrawnIn(r) = Grouped(r)
      BY <3>3 DEF DrawnIn
    <3>. QED
      BY <3>1, <3>2, <3>4 DEF DrawnThings
  <2>. QED
    BY <1>2, <2>1, <2>2
<1>. QED
  BY <1>1, <1>2 DEF EveryThingIsDrawn

(* One section is moved.                                                   *)
LEMMA MovedIs ==
    ASSUME NEW T, NEW s \in Seq(T), IsInjective(s), NEW d \in Range(s), NEW o \in Range(s)
    PROVE  /\ Moved(s, d, o) \in Seq(T) /\ IsInjective(Moved(s, d, o))
           /\ Filtered(Moved(s, d, o), Range(Moved(s, d, o)) \ {d}) = Filtered(s, Range(s) \ {d})
<1>. DEFINE u == Filtered(s, Range(s) \ {d})
            i == PositionOf(s, o)
            w == InsertAt(u, i, d)
<1>1. u \in Seq(T) /\ Range(u) = Range(s) \cap (Range(s) \ {d}) /\ IsInjective(u)
  BY FilteredIs
<1>2. Moved(s, d, o) = w
  BY DEF Moved
<1>3. i \in 1 .. Len(s) /\ d \in T
  BY DEF PositionOf, Range
<1>. HIDE DEF u, i
<1>4. Range(u) = Range(s) \ {d}
  BY <1>1
<1>5. Len(s) = Len(u) + 1
  <2>1. /\ IsFiniteSet(Range(s)) /\ Cardinality(Range(s)) = Len(s)
        /\ Cardinality(Range(u)) = Len(u)
    BY <1>1, LengthCounts
  <2>2. Cardinality(Range(s) \ {d}) = Cardinality(Range(s)) - 1
    BY <2>1, FS_RemoveElement
  <2>3. Len(s) \in Nat /\ Len(u) \in Nat
    BY <1>1
  <2>. QED
    BY <1>4, <2>1, <2>2, <2>3
<1>6. i \in 1 .. Len(u) + 1
  BY <1>3, <1>5
<1>7. w \in Seq(T) /\ IsInserted(w, u, i, d)
  BY <1>1, <1>3, <1>6, InsertedIs
<1>. HIDE DEF w
<1>8. Range(w) = Range(u) \cup {d} /\ IsInjective(w)
  BY <1>1, <1>3, <1>4, <1>6, <1>7, InsertedRange
<1>9. Filtered(w, Range(w) \ {d}) = u
  <2>1. Range(u) \subseteq Range(w) \ {d} /\ d \notin Range(w) \ {d}
    BY <1>4, <1>8
  <2>. QED
    BY <1>1, <1>3, <1>6, <1>7, <2>1, TakenOutAgain
<1>. QED
  BY <1>2, <1>7, <1>8, <1>9 DEF u

LEMMA SectBegins == SectInit => SectInv
BY NoneIs DEF SectInit, SectInv

LEMMA DropFits ==
    ASSUME SectInv, Drop
    PROVE  /\ keptOrder' = order'
           /\ OwnNames => order' \in Seq(IdsAre) /\ IsInjective(order')
           /\ OwnNames /\ order' # order =>
                Filtered(order', Range(order') \ {dragged}) = Filtered(OrderedIds, Range(OrderedIds) \ {dragged})
<1>1. CASE ~(dragged # over /\ {dragged, over} \subseteq Range(OrderedIds))
  BY <1>1 DEF Drop, SectInv
<1>2. CASE dragged # over /\ {dragged, over} \subseteq Range(OrderedIds)
  <2>1. order' = Moved(OrderedIds, dragged, over) /\ keptOrder' = order'
    BY <1>2 DEF Drop
  <2>2. ASSUME OwnNames
        PROVE  /\ order' \in Seq(IdsAre) /\ IsInjective(order')
               /\ Filtered(order', Range(order') \ {dragged})
                    = Filtered(OrderedIds, Range(OrderedIds) \ {dragged})
    <3>1. OrderedIds \in Seq(IdsAre) /\ IsInjective(OrderedIds)
      BY <2>2, OrderedSectionsAre
    <3>. DEFINE m == Moved(OrderedIds, dragged, over)
    <3>2. dragged \in Range(OrderedIds) /\ over \in Range(OrderedIds)
      BY <1>2
    <3>3. /\ m \in Seq(IdsAre) /\ IsInjective(m)
          /\ Filtered(m, Range(m) \ {dragged}) = Filtered(OrderedIds, Range(OrderedIds) \ {dragged})
      BY <3>1, <3>2, MovedIs
    <3>. QED
      BY <2>1, <3>3
  <2>. QED
    BY <2>1, <2>2
<1>. QED
  BY <1>1, <1>2

LEMMA SectStep == SectInv /\ [SectNext]_sectVars => SectInv'
<1>. SUFFICES ASSUME SectInv, [SectNext]_sectVars PROVE SectInv'
  OBVIOUS
<1>1. CASE Drop
  <2>1. UNCHANGED <<rooms, roomsHere>>
    BY <1>1 DEF Drop
  <2>. QED
    BY <1>1, <2>1, DropFits DEF SectInv
<1>2. CASE ReopenHome
  BY <1>2 DEF ReopenHome, SectInv
<1>3. CASE RoomsArrive \/ RoomDeleted
  BY <1>3 DEF RoomsArrive, RoomDeleted, SectInv
<1>4. CASE UNCHANGED <<rooms, roomsHere, order, keptOrder>>
  BY <1>4 DEF SectInv
<1>5. CASE \/ PlacesArrive \/ Rehoused \/ EntityComesOrGoes \/ Grab \/ Hover \/ LetGo
           \/ UNCHANGED sectVars
  BY <1>4, <1>5 DEF PlacesArrive, Rehoused, EntityComesOrGoes, Grab, Hover, LetGo, sectVars
<1>. QED
  BY <1>1, <1>2, <1>3, <1>5 DEF SectNext

LEMMA SectMoves ==
    ASSUME SectInv, [SectNext]_sectVars, OwnNames, order' # order, dragged # NoSection
    PROVE  Filtered(order', Range(order') \ {dragged}) = Filtered(OrderedIds, Range(OrderedIds) \ {dragged})
<1>1. ~ReopenHome
  BY DEF ReopenHome, SectInv
<1>2. Drop
  BY <1>1 DEF SectNext, RoomsArrive, RoomDeleted, PlacesArrive, Rehoused, EntityComesOrGoes, Grab,
              Hover, LetGo, sectVars
<1>. QED
  BY <1>2, DropFits

(* Every entity of an area the page knows has its place, and no section is *)
(* drawn twice; a section that is moved leaves the others in their order:  *)
(* unless an area has the name of a fixed section.                         *)
THEOREM HomeIsArranged == SectSpec => []EveryThingIsDrawn /\ OthersKeepOrder
<1>1. SectSpec => []SectInv
  BY SectBegins, SectStep, PTL DEF SectSpec
<1>2. SectInv /\ [SectNext]_sectVars =>
        [OwnNames /\ order' # order /\ dragged # NoSection =>
           LET without(s) == Filtered(s, Range(s) \ {dragged})
           IN without(order') = without(OrderedIds)]_sectVars
  BY SectMoves
<1>. QED
  BY <1>1, <1>2, EverythingIsDrawn, PTL DEF SectSpec, OthersKeepOrder

-----------------------------------------------------------------------------
(* The rows of rs with id i, and a list that has no two rows of one id.    *)
RowsAt(rs, i) == {r \in Range(rs) : r.id = i}
RowsDiffer(rs) == IsInjective(rs) /\ \A x, y \in Range(rs) : x.id = y.id => x = y

ListOps == [rules |-> {"load", "create", "update", "toggle", "delete"},
            floors |-> {"load", "add", "rename", "upload", "delete"}]
ListAsk == [op : {"none"} \cup ListOps.rules \cup ListOps.floors, row : Row,
            about : RowIds \cup {0}, got : Seq(Row), step : {"sent", "done", "over"}]
RowForm == [open : BOOLEAN, id : RowIds \cup {0}, text : RowTexts, on : BOOLEAN, saving : BOOLEAN]

Opened(q) == {n \in DOMAIN q : q[n].step # "over"}
DoneAt(q, i) == {n \in DOMAIN q : q[n].step = "done" /\ q[n].op # "load" /\ q[n].row.id = i}

(* A row with its flag flipped or set, or with another text.               *)
Flipped(r)     == [r EXCEPT !.on = ~@]
Switched(r, b) == [r EXCEPT !.on = b]
Named(r, t)    == [r EXCEPT !.text = t]

(* The changes the services and the page make to the row of one id.        *)
ReplacedRow(rs, row)    == RowChanged(rs, row.id, LAMBDA r : row)
ToggledRow(rs, i)       == RowChanged(rs, i, LAMBDA r : [r EXCEPT !.on = ~@])
SwitchedRow(rs, i, b)   == RowChanged(rs, i, LAMBDA r : [r EXCEPT !.on = b])
RenamedRow(rs, i, x)    == RowChanged(rs, i, LAMBDA r : [r EXCEPT !.text = x])
AnswerMade(q, n, x) == [q EXCEPT ![n].step = "done", ![n].got = x]
AskGone(q, n)     == [q EXCEPT ![n] = Ended]

(* What the file f and the page s have at the row of a request tells of it *)
(* and of its answer.                                                      *)
AnswerIs(a, got, f, s) ==
    /\ a.op = "create" => f = {a.row}
    /\ a.op = "add" => s # {} \/ f = {a.row}
    /\ a.op = "update" => IF got = <<>> THEN f = s ELSE s # {} /\ f = {got[1]}
    /\ a.op = "toggle" => (s = {} => f = {}) /\ \A r \in s : f = {Flipped(r)}
    /\ a.op = "rename" => (s = {} => f = {}) /\ \A r \in s : f = {Named(r, a.row.text)}
    /\ a.op = "delete" => f = {}
    /\ a.op = "upload" => f = s

(* The page is the file but for the answer on its way: of two answers      *)
(* about one row nothing is said.                                          *)
FollowAt(f, s, q, i) ==
    /\ DoneAt(q, i) = {} => RowsAt(f, i) = RowsAt(s, i)
    /\ \A n \in DoneAt(q, i) : DoneAt(q, i) = {n} => AnswerIs(q[n], q[n].got, RowsAt(f, i), RowsAt(s, i))

IsAskOf(w, a) ==
    /\ a.op \in ListOps[w]
    /\ a.op # "load" => /\ a.about = IF a.op = "create" THEN 0 ELSE a.row.id
                        /\ w = "floors" => ~a.row.on

AsksHaveShape(w, q) == \A n \in Opened(q) : IsAskOf(w, q[n])

RowsHaveShape(w, f, s, q, entry) ==
    /\ w \in {"rules", "floors"} /\ entry \in RowForm /\ q \in Seq(ListAsk)
    /\ f \in Seq(Row) /\ RowsDiffer(f) /\ s \in Seq(Row) /\ RowsDiffer(s)
    /\ w = "floors" => \A r \in Range(f) \cup Range(s) : ~r.on
    /\ AsksHaveShape(w, q)

(* A row that is being made is nobody else's.                              *)
NewRowsAreNew(f, s, q, entry) ==
    \A n \in Opened(q) : q[n].op = "create" =>
        /\ RowsAt(s, q[n].row.id) = {} /\ entry.id # q[n].row.id
        /\ q[n].step = "sent" => RowsAt(f, q[n].row.id) = {}
        /\ \A k \in Opened(q) \ {n} : q[k].op # "load" => q[k].row.id # q[n].row.id

(* What was asked of a drawn row still fits it.                            *)
AsksFitRows(s, q) ==
    \A n \in Opened(q) :
        /\ q[n].op = "toggle" => \A r \in RowsAt(s, q[n].row.id) : r.on = ~q[n].row.on
        /\ q[n].op = "rename" => RowsAt(s, q[n].row.id) # {}

LoadsAreFresh(f, s, q) ==
    \A n \in Opened(q) : q[n].op = "load" =>
        /\ s = <<>>
        /\ q[n].step = "done" => q[n].got = f \/ \E k \in DOMAIN q : k # n /\ q[k].step = "done"

RowsFollow(f, s, q) ==
    (\A n \in Opened(q) : q[n].op # "load") => \A i \in RowIds : FollowAt(f, s, q, i)

RowsAreSound(w, f, s, q, entry) ==
    /\ RowsHaveShape(w, f, s, q, entry) /\ NewRowsAreNew(f, s, q, entry)
    /\ AsksFitRows(s, q) /\ LoadsAreFresh(f, s, q) /\ RowsFollow(f, s, q)

RowsInv == ~listAstray => RowsAreSound(which, rowsOf, shownRows, listAsks, listForm)

LEMMA ShapesOfRows ==
    /\ First1 \in Row /\ Ended \in ListAsk /\ Shut \in RowForm /\ 0 \notin RowIds
    /\ Ended.step = "over" /\ Shut.id = 0
<1>1. 1 \in RowIds /\ 0 \notin RowIds
  BY ListsAssumption DEF RowIds
<1>2. Shut.text \in RowTexts
  BY ListsAssumption DEF Shut
<1>3. First1 \in Row
  BY <1>1, <1>2 DEF First1, Row
<1>4. <<>> \in Seq(Row)
  OBVIOUS
<1>5. Ended \in ListAsk
  BY <1>3, <1>4 DEF Ended, ListAsk
<1>6. Shut \in RowForm
  BY <1>2, ListsAssumption DEF Shut, RowForm
<1>. QED
  BY <1>1, <1>3, <1>5, <1>6 DEF Ended, Shut

LEMMA RowIs ==
    ASSUME NEW r \in Row
    PROVE  r.id \in RowIds /\ r.text \in RowTexts /\ r.on \in BOOLEAN
BY DEF Row

LEMMA RowsOfIds ==
    ASSUME NEW rs \in Seq(Row), NEW i
    PROVE  i \in IdsOf(rs) <=> RowsAt(rs, i) # {}
BY DEF IdsOf, RowsAt, Range

(* A row more, at the end.                                                 *)
LEMMA AppendedRow ==
    ASSUME NEW rs \in Seq(Row), RowsDiffer(rs), NEW r \in Row, RowsAt(rs, r.id) = {}
    PROVE  /\ Append(rs, r) \in Seq(Row) /\ RowsDiffer(Append(rs, r))
           /\ Range(Append(rs, r)) = Range(rs) \cup {r}
           /\ RowsAt(Append(rs, r), r.id) = {r}
           /\ \A j : j # r.id => RowsAt(Append(rs, r), j) = RowsAt(rs, j)
<1>1. <<r>> \in Seq(Row) /\ Range(<<r>>) = {r} /\ IsInjective(<<r>>)
  BY OneIs
<1>2. Append(rs, r) = rs \o <<r>>
  OBVIOUS
<1>3. r \notin Range(rs)
  BY DEF RowsAt
<1>4. /\ Append(rs, r) \in Seq(Row) /\ Range(Append(rs, r)) = Range(rs) \cup {r}
      /\ IsInjective(Append(rs, r))
  <2>1. /\ rs \o <<r>> \in Seq(Row) /\ Range(rs \o <<r>>) = Range(rs) \cup Range(<<r>>)
        /\ IsInjective(rs) /\ IsInjective(<<r>>) /\ Range(rs) \cap Range(<<r>>) = {}
             => IsInjective(rs \o <<r>>)
    BY <1>1, JoinedIs
  <2>2. IsInjective(rs) /\ Range(rs) \cap Range(<<r>>) = {}
    BY <1>1, <1>3 DEF RowsDiffer
  <2>. QED
    BY <1>1, <1>2, <2>1, <2>2
<1>5. \A x \in Range(rs) : x.id # r.id
  BY DEF RowsAt
<1>. QED
  BY <1>4, <1>5 DEF RowsDiffer, RowsAt

LEMMA RowsReshaped ==
    \A r \in Row : /\ Flipped(r) \in Row /\ Flipped(r).id = r.id /\ Flipped(r).text = r.text
                   /\ \A b \in BOOLEAN : Switched(r, b) \in Row /\ Switched(r, b).id = r.id
                   /\ \A t \in RowTexts : Named(r, t) \in Row /\ Named(r, t).id = r.id
                                           /\ Named(r, t).on = r.on
<1>. SUFFICES ASSUME NEW r \in Row, NEW b \in BOOLEAN, NEW t \in RowTexts
              PROVE  /\ Flipped(r) \in Row /\ Flipped(r).id = r.id /\ Flipped(r).text = r.text
                     /\ Switched(r, b) \in Row /\ Switched(r, b).id = r.id
                     /\ Named(r, t) \in Row /\ Named(r, t).id = r.id /\ Named(r, t).on = r.on
  BY ListsAssumption
<1>. QED
  BY DEF Row, Flipped, Switched, Named

LEMMA FlippedIs ==
    ASSUME NEW r \in Row, NEW b \in BOOLEAN, r.on = ~b
    PROVE  Switched(r, b) = Flipped(r)
BY DEF Row, Flipped, Switched

LEMMA NamedIs ==
    ASSUME NEW r \in Row, NEW a \in Row, a.id = r.id, a.on = r.on
    PROVE  Named(r, a.text) = a
BY DEF Row, Named

(* The row of one id changed, and what this makes of the list.             *)
OneChanges(rs, t, i) ==
    /\ DOMAIN t = DOMAIN rs
    /\ \A n \in DOMAIN rs : t[n].id = rs[n].id /\ (rs[n].id # i => t[n] = rs[n])

OneDiffers(rs, t, i) ==
    /\ RowsDiffer(t) /\ (RowsAt(t, i) = {} <=> RowsAt(rs, i) = {})
    /\ \A n \in DOMAIN rs : rs[n].id = i => RowsAt(rs, i) = {rs[n]} /\ RowsAt(t, i) = {t[n]}
    /\ \A j : j # i => RowsAt(t, j) = RowsAt(rs, j)

LEMMA ChangedRows ==
    ASSUME NEW rs \in Seq(Row), RowsDiffer(rs), NEW i, NEW t \in Seq(Row), OneChanges(rs, t, i)
    PROVE  OneDiffers(rs, t, i)
<1>0. /\ DOMAIN t = DOMAIN rs
      /\ \A n \in DOMAIN rs : t[n].id = rs[n].id /\ (rs[n].id # i => t[n] = rs[n])
  BY DEF OneChanges
<1>1. \A n, k \in DOMAIN rs : rs[n].id = rs[k].id => n = k
  BY DEF RowsDiffer, Range, IsInjective
<1>2. \A n, k \in DOMAIN t : t[n].id = t[k].id => n = k
  BY <1>0, <1>1
<1>3. RowsDiffer(t)
  BY <1>2 DEF RowsDiffer, Range, IsInjective
<1>4. ASSUME NEW n \in DOMAIN rs, rs[n].id = i
      PROVE  RowsAt(rs, i) = {rs[n]} /\ RowsAt(t, i) = {t[n]}
  BY <1>0, <1>1, <1>2, <1>4 DEF RowsAt, Range
<1>5. RowsAt(t, i) = {} <=> RowsAt(rs, i) = {}
  BY <1>0 DEF RowsAt, Range
<1>6. ASSUME NEW j, j # i PROVE RowsAt(t, j) = RowsAt(rs, j)
  <2>1. \A n \in DOMAIN t : t[n].id = j => t[n] = rs[n] /\ rs[n] \in RowsAt(rs, j)
    BY <1>0, <1>6 DEF RowsAt, Range
  <2>2. \A n \in DOMAIN rs : rs[n].id = j => n \in DOMAIN t /\ t[n].id = j /\ t[n] = rs[n]
    BY <1>0, <1>6
  <2>3. RowsAt(t, j) \subseteq RowsAt(rs, j)
    BY <2>1 DEF RowsAt, Range
  <2>4. RowsAt(rs, j) \subseteq RowsAt(t, j)
    BY <2>2 DEF RowsAt, Range
  <2>. QED
    BY <2>3, <2>4
<1>. QED
  BY <1>3, <1>4, <1>5, <1>6 DEF OneDiffers

LEMMA RowReplaced ==
    ASSUME NEW rs \in Seq(Row), RowsDiffer(rs), NEW row \in Row
    PROVE  /\ ReplacedRow(rs, row) \in Seq(Row) /\ RowsDiffer(ReplacedRow(rs, row))
           /\ (RowsAt(ReplacedRow(rs, row), row.id) = {} <=> RowsAt(rs, row.id) = {})
           /\ \A r \in RowsAt(rs, row.id) : RowsAt(rs, row.id) = {r} /\ RowsAt(ReplacedRow(rs, row), row.id) = {row}
           /\ \A j : j # row.id => RowsAt(ReplacedRow(rs, row), j) = RowsAt(rs, j)
<1>. DEFINE t == ReplacedRow(rs, row)
<1>1. \A n \in DOMAIN rs : rs[n] \in Row
  OBVIOUS
<1>2. DOMAIN rs = 1 .. Len(rs) /\ Len(rs) \in Nat
  OBVIOUS
<1>3. t = [n \in DOMAIN rs |-> IF rs[n].id = row.id THEN row ELSE rs[n]]
  BY DEF RowChanged, ReplacedRow
<1>. HIDE DEF t
<1>4. \A n \in DOMAIN rs : row \in Row /\ (rs[n].id = row.id => row.id = row.id)
  BY <1>1, RowsReshaped
<1>5. /\ t \in Seq(Row) /\ DOMAIN t = DOMAIN rs
      /\ \A n \in DOMAIN rs : t[n] = IF rs[n].id = row.id THEN row ELSE rs[n]
  BY <1>1, <1>2, <1>3, <1>4
<1>6. OneChanges(rs, t, row.id)
  BY <1>4, <1>5 DEF OneChanges
<1>6a. t \in Seq(Row)
  BY <1>5
<1>7. /\ RowsDiffer(t) /\ (RowsAt(t, row.id) = {} <=> RowsAt(rs, row.id) = {})
      /\ \A n \in DOMAIN rs : rs[n].id = row.id => RowsAt(rs, row.id) = {rs[n]} /\ RowsAt(t, row.id) = {t[n]}
      /\ \A j : j # row.id => RowsAt(t, j) = RowsAt(rs, j)
  BY <1>6, <1>6a, ChangedRows DEF OneDiffers
<1>8. ASSUME NEW r \in RowsAt(rs, row.id)
      PROVE  RowsAt(rs, row.id) = {r} /\ RowsAt(t, row.id) = {row}
  <2>1. PICK n \in DOMAIN rs : rs[n] = r /\ r.id = row.id
    BY DEF RowsAt, Range
  <2>. QED
    BY <1>5, <1>7, <2>1
<1>. QED
  BY <1>5, <1>7, <1>8 DEF t

LEMMA RowToggled ==
    ASSUME NEW rs \in Seq(Row), RowsDiffer(rs), NEW i
    PROVE  /\ ToggledRow(rs, i) \in Seq(Row) /\ RowsDiffer(ToggledRow(rs, i))
           /\ (RowsAt(ToggledRow(rs, i), i) = {} <=> RowsAt(rs, i) = {})
           /\ \A r \in RowsAt(rs, i) : RowsAt(rs, i) = {r} /\ RowsAt(ToggledRow(rs, i), i) = {Flipped(r)}
           /\ \A j : j # i => RowsAt(ToggledRow(rs, i), j) = RowsAt(rs, j)
<1>. DEFINE t == ToggledRow(rs, i)
<1>1. \A n \in DOMAIN rs : rs[n] \in Row
  OBVIOUS
<1>2. DOMAIN rs = 1 .. Len(rs) /\ Len(rs) \in Nat
  OBVIOUS
<1>3. t = [n \in DOMAIN rs |-> IF rs[n].id = i THEN Flipped(rs[n]) ELSE rs[n]]
  BY DEF RowChanged, ToggledRow, Flipped
<1>. HIDE DEF t
<1>4. \A n \in DOMAIN rs : Flipped(rs[n]) \in Row /\ (rs[n].id = i => Flipped(rs[n]).id = i)
  BY <1>1, RowsReshaped
<1>5. /\ t \in Seq(Row) /\ DOMAIN t = DOMAIN rs
      /\ \A n \in DOMAIN rs : t[n] = IF rs[n].id = i THEN Flipped(rs[n]) ELSE rs[n]
  BY <1>1, <1>2, <1>3, <1>4
<1>6. OneChanges(rs, t, i)
  BY <1>4, <1>5 DEF OneChanges
<1>6a. t \in Seq(Row)
  BY <1>5
<1>7. /\ RowsDiffer(t) /\ (RowsAt(t, i) = {} <=> RowsAt(rs, i) = {})
      /\ \A n \in DOMAIN rs : rs[n].id = i => RowsAt(rs, i) = {rs[n]} /\ RowsAt(t, i) = {t[n]}
      /\ \A j : j # i => RowsAt(t, j) = RowsAt(rs, j)
  BY <1>6, <1>6a, ChangedRows DEF OneDiffers
<1>8. ASSUME NEW r \in RowsAt(rs, i)
      PROVE  RowsAt(rs, i) = {r} /\ RowsAt(t, i) = {Flipped(r)}
  <2>1. PICK n \in DOMAIN rs : rs[n] = r /\ r.id = i
    BY DEF RowsAt, Range
  <2>. QED
    BY <1>5, <1>7, <2>1
<1>. QED
  BY <1>5, <1>7, <1>8 DEF t

LEMMA RowSwitched ==
    ASSUME NEW rs \in Seq(Row), RowsDiffer(rs), NEW i, NEW b \in BOOLEAN
    PROVE  /\ SwitchedRow(rs, i, b) \in Seq(Row) /\ RowsDiffer(SwitchedRow(rs, i, b))
           /\ (RowsAt(SwitchedRow(rs, i, b), i) = {} <=> RowsAt(rs, i) = {})
           /\ \A r \in RowsAt(rs, i) : RowsAt(rs, i) = {r} /\ RowsAt(SwitchedRow(rs, i, b), i) = {Switched(r, b)}
           /\ \A j : j # i => RowsAt(SwitchedRow(rs, i, b), j) = RowsAt(rs, j)
<1>. DEFINE t == SwitchedRow(rs, i, b)
<1>1. \A n \in DOMAIN rs : rs[n] \in Row
  OBVIOUS
<1>2. DOMAIN rs = 1 .. Len(rs) /\ Len(rs) \in Nat
  OBVIOUS
<1>3. t = [n \in DOMAIN rs |-> IF rs[n].id = i THEN Switched(rs[n], b) ELSE rs[n]]
  BY DEF RowChanged, SwitchedRow, Switched
<1>. HIDE DEF t
<1>4. \A n \in DOMAIN rs : Switched(rs[n], b) \in Row /\ (rs[n].id = i => Switched(rs[n], b).id = i)
  BY <1>1, RowsReshaped
<1>5. /\ t \in Seq(Row) /\ DOMAIN t = DOMAIN rs
      /\ \A n \in DOMAIN rs : t[n] = IF rs[n].id = i THEN Switched(rs[n], b) ELSE rs[n]
  BY <1>1, <1>2, <1>3, <1>4
<1>6. OneChanges(rs, t, i)
  BY <1>4, <1>5 DEF OneChanges
<1>6a. t \in Seq(Row)
  BY <1>5
<1>7. /\ RowsDiffer(t) /\ (RowsAt(t, i) = {} <=> RowsAt(rs, i) = {})
      /\ \A n \in DOMAIN rs : rs[n].id = i => RowsAt(rs, i) = {rs[n]} /\ RowsAt(t, i) = {t[n]}
      /\ \A j : j # i => RowsAt(t, j) = RowsAt(rs, j)
  BY <1>6, <1>6a, ChangedRows DEF OneDiffers
<1>8. ASSUME NEW r \in RowsAt(rs, i)
      PROVE  RowsAt(rs, i) = {r} /\ RowsAt(t, i) = {Switched(r, b)}
  <2>1. PICK n \in DOMAIN rs : rs[n] = r /\ r.id = i
    BY DEF RowsAt, Range
  <2>. QED
    BY <1>5, <1>7, <2>1
<1>. QED
  BY <1>5, <1>7, <1>8 DEF t

LEMMA RowRenamed ==
    ASSUME NEW rs \in Seq(Row), RowsDiffer(rs), NEW i, NEW x \in RowTexts
    PROVE  /\ RenamedRow(rs, i, x) \in Seq(Row) /\ RowsDiffer(RenamedRow(rs, i, x))
           /\ (RowsAt(RenamedRow(rs, i, x), i) = {} <=> RowsAt(rs, i) = {})
           /\ \A r \in RowsAt(rs, i) : RowsAt(rs, i) = {r} /\ RowsAt(RenamedRow(rs, i, x), i) = {Named(r, x)}
           /\ \A j : j # i => RowsAt(RenamedRow(rs, i, x), j) = RowsAt(rs, j)
<1>. DEFINE t == RenamedRow(rs, i, x)
<1>1. \A n \in DOMAIN rs : rs[n] \in Row
  OBVIOUS
<1>2. DOMAIN rs = 1 .. Len(rs) /\ Len(rs) \in Nat
  OBVIOUS
<1>3. t = [n \in DOMAIN rs |-> IF rs[n].id = i THEN Named(rs[n], x) ELSE rs[n]]
  BY DEF RowChanged, RenamedRow, Named
<1>. HIDE DEF t
<1>4. \A n \in DOMAIN rs : Named(rs[n], x) \in Row /\ (rs[n].id = i => Named(rs[n], x).id = i)
  BY <1>1, RowsReshaped
<1>5. /\ t \in Seq(Row) /\ DOMAIN t = DOMAIN rs
      /\ \A n \in DOMAIN rs : t[n] = IF rs[n].id = i THEN Named(rs[n], x) ELSE rs[n]
  BY <1>1, <1>2, <1>3, <1>4
<1>6. OneChanges(rs, t, i)
  BY <1>4, <1>5 DEF OneChanges
<1>6a. t \in Seq(Row)
  BY <1>5
<1>7. /\ RowsDiffer(t) /\ (RowsAt(t, i) = {} <=> RowsAt(rs, i) = {})
      /\ \A n \in DOMAIN rs : rs[n].id = i => RowsAt(rs, i) = {rs[n]} /\ RowsAt(t, i) = {t[n]}
      /\ \A j : j # i => RowsAt(t, j) = RowsAt(rs, j)
  BY <1>6, <1>6a, ChangedRows DEF OneDiffers
<1>8. ASSUME NEW r \in RowsAt(rs, i)
      PROVE  RowsAt(rs, i) = {r} /\ RowsAt(t, i) = {Named(r, x)}
  <2>1. PICK n \in DOMAIN rs : rs[n] = r /\ r.id = i
    BY DEF RowsAt, Range
  <2>. QED
    BY <1>5, <1>7, <2>1
<1>. QED
  BY <1>5, <1>7, <1>8 DEF t

(* The row of one id taken out.                                            *)
LEMMA RowRemoved ==
    ASSUME NEW rs \in Seq(Row), RowsDiffer(rs), NEW i
    PROVE  /\ Without(rs, i) \in Seq(Row) /\ RowsDiffer(Without(rs, i))
           /\ RowsAt(Without(rs, i), i) = {}
           /\ \A j : j # i => RowsAt(Without(rs, i), j) = RowsAt(rs, j)
<1>. DEFINE S == {r \in Range(rs) : r.id # i}
            t == Without(rs, i)
<1>1. t = Filtered(rs, S)
  BY DEF Without
<1>2. t \in Seq(Row) /\ Range(t) = Range(rs) \cap S /\ IsInjective(t)
  <2>. HIDE DEF S, t
  <2>. QED
    BY <1>1, FilteredIs DEF RowsDiffer
<1>. HIDE DEF t
<1>3. RowsDiffer(t) /\ RowsAt(t, i) = {} /\ \A j : j # i => RowsAt(t, j) = RowsAt(rs, j)
  BY <1>2 DEF RowsDiffer, RowsAt
<1>. QED
  BY <1>2, <1>3 DEF t

(* One request more.                                                       *)
LEMMA RowAsked ==
    ASSUME NEW w, NEW f, NEW s, NEW q, NEW entry, RowsAreSound(w, f, s, q, entry),
           NEW fm \in RowForm, fm.id = entry.id,
           NEW a \in ListAsk, a.step = "sent", IsAskOf(w, a), a.op # "load",
           a.op = "create" => /\ RowsAt(s, a.row.id) = {} /\ RowsAt(f, a.row.id) = {}
                              /\ entry.id # a.row.id
                              /\ \A k \in Opened(q) : q[k].row.id # a.row.id,
           a.op # "create" => \A k \in Opened(q) : q[k].op = "create" => q[k].row.id # a.row.id,
           a.op = "toggle" => \A r \in RowsAt(s, a.row.id) : r.on = ~a.row.on,
           a.op = "rename" => RowsAt(s, a.row.id) # {}
    PROVE  RowsAreSound(w, f, s, Append(q, a), fm)
<1>. DEFINE t == Append(q, a)
            z == Len(q) + 1
<1>0. /\ RowsHaveShape(w, f, s, q, entry) /\ NewRowsAreNew(f, s, q, entry)
      /\ AsksFitRows(s, q) /\ LoadsAreFresh(f, s, q) /\ RowsFollow(f, s, q)
      /\ q \in Seq(ListAsk)
  BY DEF RowsAreSound, RowsHaveShape
<1>1. /\ t \in Seq(ListAsk) /\ DOMAIN t = DOMAIN q \cup {z} /\ z \notin DOMAIN q /\ t[z] = a
      /\ \A n \in DOMAIN q : t[n] = q[n]
  BY <1>0
<1>. HIDE DEF t, z
<1>2. Opened(t) = Opened(q) \cup {z} /\ Opened(q) \subseteq DOMAIN q
  BY <1>1 DEF Opened
<1>2a. \A n \in Opened(t) : (t[n] = q[n] /\ n \in Opened(q)) \/ (n = z /\ t[n] = a)
  BY <1>1, <1>2
<1>3. \A i : DoneAt(t, i) = DoneAt(q, i) /\ \A n \in DoneAt(q, i) : t[n] = q[n]
  BY <1>1 DEF DoneAt
<1>4. RowsHaveShape(w, f, s, t, fm)
  BY <1>0, <1>1, <1>2a DEF RowsHaveShape, AsksHaveShape
<1>5. NewRowsAreNew(f, s, t, fm)
  <2>1. SUFFICES ASSUME NEW n \in Opened(t), t[n].op = "create"
                 PROVE  /\ RowsAt(s, t[n].row.id) = {} /\ fm.id # t[n].row.id
                        /\ t[n].step = "sent" => RowsAt(f, t[n].row.id) = {}
                        /\ \A k \in Opened(t) \ {n} : t[k].op # "load" => t[k].row.id # t[n].row.id
    BY DEF NewRowsAreNew
  <2>2. CASE n = z
    BY <1>1, <1>2a, <2>1, <2>2
  <2>3. CASE n \in Opened(q)
    <3>1. t[n] = q[n] /\ q[n].op = "create"
      BY <1>1, <1>2, <2>1, <2>3
    <3>2. /\ RowsAt(s, q[n].row.id) = {} /\ entry.id # q[n].row.id
          /\ q[n].step = "sent" => RowsAt(f, q[n].row.id) = {}
          /\ \A k \in Opened(q) \ {n} : q[k].op # "load" => q[k].row.id # q[n].row.id
      BY <1>0, <2>3, <3>1 DEF NewRowsAreNew
    <3>3. \A k \in Opened(t) \ {n} : t[k].op # "load" => t[k].row.id # t[n].row.id
      BY <1>1, <1>2a, <2>3, <3>1, <3>2
    <3>. QED
      BY <3>1, <3>2, <3>3
  <2>. QED
    BY <1>2, <2>2, <2>3
<1>6. AsksFitRows(s, t)
  BY <1>0, <1>1, <1>2a DEF AsksFitRows
<1>7. LoadsAreFresh(f, s, t)
  BY <1>0, <1>1, <1>2a DEF LoadsAreFresh
<1>8. RowsFollow(f, s, t)
  <2>1. SUFFICES ASSUME \A n \in Opened(t) : t[n].op # "load", NEW i \in RowIds
                 PROVE  FollowAt(f, s, t, i)
    BY DEF RowsFollow
  <2>2. \A n \in Opened(q) : q[n].op # "load"
    BY <1>1, <1>2, <2>1
  <2>3. FollowAt(f, s, q, i)
    BY <1>0, <2>2 DEF RowsFollow
  <2>. QED
    BY <1>3, <2>3 DEF FollowAt
<1>. QED
  BY <1>4, <1>5, <1>6, <1>7, <1>8 DEF RowsAreSound, t

(* A request served: the row it is about is changed in the file.           *)
LEMMA RowServed ==
    ASSUME NEW w, NEW f, NEW s, NEW q, NEW entry, RowsAreSound(w, f, s, q, entry),
           NEW n \in DOMAIN q, q[n].step = "sent", q[n].op # "load",
           NEW t \in Seq(ListAsk), DOMAIN t = DOMAIN q, \A k \in DOMAIN q : k # n => t[k] = q[k],
           t[n].op = q[n].op, t[n].row = q[n].row, t[n].about = q[n].about, t[n].step = "done",
           NEW g \in Seq(Row), RowsDiffer(g), \A j : j # q[n].row.id => RowsAt(g, j) = RowsAt(f, j),
           w = "floors" => RowsAt(g, q[n].row.id) \subseteq RowsAt(f, q[n].row.id) \cup {q[n].row},
           RowsAt(f, q[n].row.id) = RowsAt(s, q[n].row.id) =>
             AnswerIs(t[n], t[n].got, RowsAt(g, q[n].row.id), RowsAt(s, q[n].row.id))
    PROVE  RowsAreSound(w, g, s, t, entry)
<1>0. /\ RowsHaveShape(w, f, s, q, entry) /\ NewRowsAreNew(f, s, q, entry)
      /\ AsksFitRows(s, q) /\ LoadsAreFresh(f, s, q) /\ RowsFollow(f, s, q)
  BY DEF RowsAreSound
<1>1. Opened(t) = Opened(q) /\ n \in Opened(q) /\ Opened(q) \subseteq DOMAIN q
  BY DEF Opened
<1>2. \A k \in Opened(q) : t[k].op = q[k].op /\ t[k].row = q[k].row /\ t[k].about = q[k].about
  BY <1>1
<1>4. RowsHaveShape(w, g, s, t, entry)
  <2>1. /\ w \in {"rules", "floors"} /\ entry \in RowForm
        /\ s \in Seq(Row) /\ RowsDiffer(s)
        /\ w = "floors" => \A r \in Range(s) : ~r.on
    BY <1>0 DEF RowsHaveShape, AsksHaveShape
  <2>4. AsksHaveShape(w, t)
    <3>1. \A k \in Opened(q) : IsAskOf(w, q[k])
      BY <1>0 DEF RowsHaveShape, AsksHaveShape
    <3>2. IsAskOf(w, t[n])
      BY <1>1, <3>1 DEF IsAskOf
    <3>3. \A k \in Opened(q) : k # n => t[k] = q[k]
      BY <1>1
    <3>. QED
      BY <1>1, <3>1, <3>2, <3>3 DEF AsksHaveShape
  <2>5. ASSUME w = "floors", NEW r \in Range(g) \cup Range(s) PROVE ~r.on
    <3>1. \A x \in Range(f) \cup Range(s) : ~x.on
      BY <1>0, <2>5 DEF RowsHaveShape
    <3>2. ~q[n].row.on
      BY <1>0, <1>1, <2>5 DEF RowsHaveShape, AsksHaveShape, IsAskOf
    <3>3. r \notin Range(s) => r \in RowsAt(g, r.id)
      BY <2>5 DEF RowsAt
    <3>4. r \notin Range(s) /\ r.id # q[n].row.id => r \in RowsAt(f, r.id)
      BY <3>3
    <3>5. r \notin Range(s) /\ r.id = q[n].row.id => r \in RowsAt(f, r.id) \cup {q[n].row}
      BY <2>5, <3>3
    <3>. QED
      BY <3>1, <3>2, <3>4, <3>5 DEF RowsAt
  <2>. QED
    BY <2>1, <2>4, <2>5 DEF RowsHaveShape
<1>5. NewRowsAreNew(g, s, t, entry)
  <2>0. SUFFICES ASSUME NEW k \in Opened(t), t[k].op = "create"
                 PROVE  /\ RowsAt(s, t[k].row.id) = {} /\ entry.id # t[k].row.id
                        /\ t[k].step = "sent" => RowsAt(g, t[k].row.id) = {}
                        /\ \A m \in Opened(t) \ {k} : t[m].op # "load" => t[m].row.id # t[k].row.id
    BY DEF NewRowsAreNew
  <2>1. /\ k \in Opened(q) /\ q[k].op = "create" /\ t[k].row = q[k].row
        /\ \A m \in Opened(t) \ {k} : m \in Opened(q) \ {k} /\ t[m].op = q[m].op /\ t[m].row = q[m].row
    BY <1>1, <1>2, <2>0
  <2>2. /\ RowsAt(s, q[k].row.id) = {} /\ entry.id # q[k].row.id
        /\ q[k].step = "sent" => RowsAt(f, q[k].row.id) = {}
        /\ \A m \in Opened(q) \ {k} : q[m].op # "load" => q[m].row.id # q[k].row.id
    BY <1>0, <2>1 DEF NewRowsAreNew
  <2>3. ASSUME t[k].step = "sent" PROVE RowsAt(g, q[k].row.id) = {}
    <3>1. k # n /\ q[k].step = "sent"
      BY <1>1, <2>1, <2>3
    <3>2. q[n].row.id # q[k].row.id
      BY <1>1, <2>1, <2>2, <3>1
    <3>. QED
      BY <2>2, <3>1, <3>2
  <2>. QED
    BY <2>1, <2>2, <2>3
<1>6. AsksFitRows(s, t)
  BY <1>0, <1>1, <1>2 DEF AsksFitRows
<1>7. LoadsAreFresh(g, s, t)
  BY <1>0, <1>1, <1>2 DEF LoadsAreFresh
<1>8. RowsFollow(g, s, t)
  <2>1. SUFFICES ASSUME \A k \in Opened(q) : q[k].op # "load", NEW i \in RowIds
                 PROVE  FollowAt(g, s, t, i)
    BY <1>1, <1>2 DEF RowsFollow
  <2>2. FollowAt(f, s, q, i)
    BY <1>0, <2>1 DEF RowsFollow
  <2>3. CASE i # q[n].row.id
    <3>1. DoneAt(t, i) = DoneAt(q, i) /\ \A k \in DoneAt(q, i) : t[k] = q[k]
      BY <2>3 DEF DoneAt
    <3>2. RowsAt(g, i) = RowsAt(f, i)
      BY <2>3
    <3>. QED
      BY <2>2, <3>1, <3>2 DEF FollowAt
  <2>4. CASE i = q[n].row.id
    <3>1. DoneAt(t, i) = DoneAt(q, i) \cup {n} /\ n \notin DoneAt(q, i)
      BY <2>4 DEF DoneAt
    <3>2. SUFFICES ASSUME NEW k \in DoneAt(t, i), DoneAt(t, i) = {k}
                   PROVE  AnswerIs(t[k], t[k].got, RowsAt(g, i), RowsAt(s, i))
      BY <3>1 DEF FollowAt
    <3>3. k = n /\ DoneAt(q, i) = {}
      BY <3>1, <3>2
    <3>4. RowsAt(f, i) = RowsAt(s, i)
      BY <2>2, <3>3 DEF FollowAt
    <3>. QED
      BY <2>4, <3>3, <3>4
  <2>. QED
    BY <2>3, <2>4
<1>. QED
  BY <1>4, <1>5, <1>6, <1>7, <1>8 DEF RowsAreSound

LEMMA LoadServed ==
    ASSUME NEW w, NEW f, NEW s, NEW q, NEW entry, RowsAreSound(w, f, s, q, entry),
           NEW n \in DOMAIN q, q[n].step = "sent", q[n].op = "load",
           NEW t \in Seq(ListAsk), DOMAIN t = DOMAIN q, \A k \in DOMAIN q : k # n => t[k] = q[k],
           t[n].op = "load", t[n].step = "done", t[n].got = f
    PROVE  RowsAreSound(w, f, s, t, entry)
<1>0. /\ RowsHaveShape(w, f, s, q, entry) /\ NewRowsAreNew(f, s, q, entry)
      /\ AsksFitRows(s, q) /\ LoadsAreFresh(f, s, q) /\ RowsFollow(f, s, q)
  BY DEF RowsAreSound
<1>1. Opened(t) = Opened(q) /\ n \in Opened(q) /\ Opened(q) \subseteq DOMAIN q
  BY DEF Opened
<1>2. \A k \in Opened(q) : t[k].op = q[k].op /\ (q[k].op # "load" => t[k] = q[k])
  BY <1>1
<1>3. \A k \in Opened(t) : IsAskOf(w, t[k])
  <2>1. IsAskOf(w, q[n]) /\ \A k \in Opened(q) : k # n => IsAskOf(w, t[k])
    BY <1>0, <1>1 DEF RowsHaveShape, AsksHaveShape
  <2>2. IsAskOf(w, t[n])
    BY <2>1 DEF IsAskOf
  <2>. QED
    BY <1>1, <2>1, <2>2
<1>4. RowsHaveShape(w, f, s, t, entry)
  BY <1>0, <1>3 DEF RowsHaveShape, AsksHaveShape
<1>5. NewRowsAreNew(f, s, t, entry)
  <2>1. SUFFICES ASSUME NEW k \in Opened(q), q[k].op = "create"
                 PROVE  /\ RowsAt(s, t[k].row.id) = {} /\ entry.id # t[k].row.id
                        /\ t[k].step = "sent" => RowsAt(f, t[k].row.id) = {}
                        /\ \A m \in Opened(q) \ {k} : t[m].op # "load" => t[m].row.id # t[k].row.id
    BY <1>1, <1>2 DEF NewRowsAreNew
  <2>2. t[k] = q[k]
    BY <1>2, <2>1
  <2>. QED
    BY <1>0, <1>2, <2>1, <2>2 DEF NewRowsAreNew
<1>6. AsksFitRows(s, t)
  BY <1>0, <1>1, <1>2 DEF AsksFitRows
<1>7. LoadsAreFresh(f, s, t)
  BY <1>0, <1>1, <1>2 DEF LoadsAreFresh
<1>8. RowsFollow(f, s, t)
  BY <1>1 DEF RowsFollow
<1>. QED
  BY <1>4, <1>5, <1>6, <1>7, <1>8 DEF RowsAreSound

(* A request that nothing came of.                                         *)
LEMMA RowUndone ==
    ASSUME NEW w, NEW f, NEW s, NEW q, NEW entry, RowsAreSound(w, f, s, q, entry),
           NEW fm \in RowForm, fm.id \in {entry.id, 0},
           NEW n \in DOMAIN q, q[n].step = "sent", q[n].op # "load",
           NEW t \in Seq(ListAsk), DOMAIN t = DOMAIN q, \A k \in DOMAIN q : k # n => t[k] = q[k],
           t[n].step = "over"
    PROVE  RowsAreSound(w, f, s, t, fm)
<1>0. /\ RowsHaveShape(w, f, s, q, entry) /\ NewRowsAreNew(f, s, q, entry)
      /\ AsksFitRows(s, q) /\ LoadsAreFresh(f, s, q) /\ RowsFollow(f, s, q) /\ q \in Seq(ListAsk)
  BY DEF RowsAreSound, RowsHaveShape
<1>1. Opened(t) = Opened(q) \ {n} /\ Opened(q) \subseteq DOMAIN q
  BY DEF Opened
<1>2. \A k \in Opened(t) : t[k] = q[k] /\ k \in Opened(q)
  BY <1>1
<1>3. \A k \in Opened(q) : q[k].row.id \in RowIds
  <2>1. \A k \in DOMAIN q : q[k] \in ListAsk
    BY <1>0
  <2>2. \A k \in DOMAIN q : q[k].row \in Row
    BY <2>1 DEF ListAsk
  <2>. QED
    BY <1>1, <2>2, RowIs
<1>4. RowsHaveShape(w, f, s, t, fm)
  BY <1>0, <1>2 DEF RowsHaveShape, AsksHaveShape
<1>5. NewRowsAreNew(f, s, t, fm)
  <2>1. SUFFICES ASSUME NEW k \in Opened(t), t[k].op = "create"
                 PROVE  /\ RowsAt(s, t[k].row.id) = {} /\ fm.id # t[k].row.id
                        /\ t[k].step = "sent" => RowsAt(f, t[k].row.id) = {}
                        /\ \A m \in Opened(t) \ {k} : t[m].op # "load" => t[m].row.id # t[k].row.id
    BY DEF NewRowsAreNew
  <2>2. t[k] = q[k] /\ k \in Opened(q)
    BY <1>2, <2>1
  <2>3. /\ RowsAt(s, q[k].row.id) = {} /\ entry.id # q[k].row.id
        /\ q[k].step = "sent" => RowsAt(f, q[k].row.id) = {}
        /\ \A m \in Opened(q) \ {k} : q[m].op # "load" => q[m].row.id # q[k].row.id
    BY <1>0, <2>1, <2>2 DEF NewRowsAreNew
  <2>4. fm.id # q[k].row.id
    BY <1>3, <2>2, <2>3, ShapesOfRows
  <2>. QED
    BY <1>2, <2>2, <2>3, <2>4
<1>6. AsksFitRows(s, t)
  BY <1>0, <1>2 DEF AsksFitRows
<1>7. LoadsAreFresh(f, s, t)
  BY <1>0, <1>2 DEF LoadsAreFresh
<1>8. RowsFollow(f, s, t)
  <2>1. SUFFICES ASSUME \A k \in Opened(t) : t[k].op # "load", NEW i \in RowIds
                 PROVE  FollowAt(f, s, t, i)
    BY DEF RowsFollow
  <2>2. \A k \in Opened(q) : q[k].op # "load"
    BY <1>1, <1>2, <2>1
  <2>3. FollowAt(f, s, q, i)
    BY <1>0, <2>2 DEF RowsFollow
  <2>4. DoneAt(t, i) = DoneAt(q, i) /\ \A k \in DoneAt(q, i) : t[k] = q[k]
    BY DEF DoneAt
  <2>. QED
    BY <2>3, <2>4 DEF FollowAt
<1>. QED
  BY <1>4, <1>5, <1>6, <1>7, <1>8 DEF RowsAreSound

(* An answer about one row: of the requests about it this was the last.    *)
LEMMA AnswerTells ==
    ASSUME NEW w, NEW f, NEW s, NEW q, NEW entry, RowsAreSound(w, f, s, q, entry),
           NEW n \in DOMAIN q, q[n].step = "done", q[n].op # "load", q[n].row.id \in RowIds,
           \A k \in Opened(q) \ {n} : q[k].op # "load" /\ q[k].row.id # q[n].row.id
    PROVE  AnswerIs(q[n], q[n].got, RowsAt(f, q[n].row.id), RowsAt(s, q[n].row.id))
<1>1. DoneAt(q, q[n].row.id) = {n} /\ \A k \in Opened(q) : q[k].op # "load"
  BY DEF DoneAt, Opened
<1>2. FollowAt(f, s, q, q[n].row.id)
  BY <1>1 DEF RowsAreSound, RowsFollow
<1>. QED
  BY <1>1, <1>2 DEF FollowAt

LEMMA RowAnswered ==
    ASSUME NEW w, NEW f, NEW s, NEW q, NEW entry, RowsAreSound(w, f, s, q, entry),
           NEW fm \in RowForm, fm.id \in {entry.id, 0},
           NEW n \in DOMAIN q, q[n].step = "done", q[n].op # "load",
           NEW t \in Seq(ListAsk), DOMAIN t = DOMAIN q, \A k \in DOMAIN q : k # n => t[k] = q[k],
           t[n].step = "over",
           \A k \in Opened(q) \ {n} : q[k].op # "load" /\ q[k].row.id # q[n].row.id,
           NEW s2 \in Seq(Row), RowsDiffer(s2),
           \A j : j # q[n].row.id => RowsAt(s2, j) = RowsAt(s, j),
           RowsAt(f, q[n].row.id) = RowsAt(s2, q[n].row.id)
    PROVE  RowsAreSound(w, f, s2, t, fm)
<1>. DEFINE z == q[n].row.id
<1>0. /\ RowsHaveShape(w, f, s, q, entry) /\ NewRowsAreNew(f, s, q, entry)
      /\ AsksFitRows(s, q) /\ LoadsAreFresh(f, s, q) /\ RowsFollow(f, s, q) /\ q \in Seq(ListAsk)
  BY DEF RowsAreSound, RowsHaveShape
<1>1. Opened(t) = Opened(q) \ {n} /\ Opened(q) \subseteq DOMAIN q
  BY DEF Opened
<1>2. \A k \in Opened(t) : t[k] = q[k] /\ k \in Opened(q) /\ q[k].op # "load" /\ q[k].row.id # z
  BY <1>1
<1>3. \A k \in Opened(q) : q[k].row.id \in RowIds
  <2>1. \A k \in DOMAIN q : q[k] \in ListAsk
    BY <1>0
  <2>2. \A k \in DOMAIN q : q[k].row \in Row
    BY <2>1 DEF ListAsk
  <2>. QED
    BY <1>1, <2>2, RowIs
<1>4. RowsHaveShape(w, f, s2, t, fm)
  <2>1. /\ w \in {"rules", "floors"} /\ f \in Seq(Row) /\ RowsDiffer(f)
        /\ w = "floors" => \A r \in Range(f) : ~r.on
    BY <1>0 DEF RowsHaveShape, AsksHaveShape
  <2>4. AsksHaveShape(w, t)
    BY <1>0, <1>2 DEF RowsHaveShape, AsksHaveShape
  <2>5. ASSUME w = "floors", NEW r \in Range(f) \cup Range(s2) PROVE ~r.on
    <3>1. \A x \in Range(f) \cup Range(s) : ~x.on
      BY <1>0, <2>5 DEF RowsHaveShape
    <3>2. r \notin Range(f) => r \in RowsAt(s2, r.id)
      BY <2>5 DEF RowsAt
    <3>3. r \notin Range(f) => r \in RowsAt(s, r.id) \cup RowsAt(f, r.id)
      BY <3>2
    <3>. QED
      BY <3>1, <3>3 DEF RowsAt
  <2>. QED
    BY <2>1, <2>4, <2>5 DEF RowsHaveShape
<1>5. NewRowsAreNew(f, s2, t, fm)
  <2>1. SUFFICES ASSUME NEW k \in Opened(t), t[k].op = "create"
                 PROVE  /\ RowsAt(s2, t[k].row.id) = {} /\ fm.id # t[k].row.id
                        /\ t[k].step = "sent" => RowsAt(f, t[k].row.id) = {}
                        /\ \A m \in Opened(t) \ {k} : t[m].op # "load" => t[m].row.id # t[k].row.id
    BY DEF NewRowsAreNew
  <2>2. t[k] = q[k] /\ k \in Opened(q) /\ q[k].row.id # z
    BY <1>2, <2>1
  <2>3. /\ RowsAt(s, q[k].row.id) = {} /\ entry.id # q[k].row.id
        /\ q[k].step = "sent" => RowsAt(f, q[k].row.id) = {}
        /\ \A m \in Opened(q) \ {k} : q[m].op # "load" => q[m].row.id # q[k].row.id
    BY <1>0, <2>1, <2>2 DEF NewRowsAreNew
  <2>4. fm.id # q[k].row.id
    BY <1>3, <2>2, <2>3, ShapesOfRows
  <2>5. RowsAt(s2, q[k].row.id) = {}
    BY <2>2, <2>3
  <2>. QED
    BY <1>2, <2>2, <2>3, <2>4, <2>5
<1>6. AsksFitRows(s2, t)
  <2>1. SUFFICES ASSUME NEW k \in Opened(t)
                 PROVE  /\ t[k].op = "toggle" => \A r \in RowsAt(s2, t[k].row.id) : r.on = ~t[k].row.on
                        /\ t[k].op = "rename" => RowsAt(s2, t[k].row.id) # {}
    BY DEF AsksFitRows
  <2>2. t[k] = q[k] /\ k \in Opened(q) /\ RowsAt(s2, q[k].row.id) = RowsAt(s, q[k].row.id)
    BY <1>2, <2>1
  <2>. QED
    BY <1>0, <2>2 DEF AsksFitRows
<1>7. LoadsAreFresh(f, s2, t)
  BY <1>2 DEF LoadsAreFresh
<1>8. RowsFollow(f, s2, t)
  <2>1. SUFFICES ASSUME NEW i \in RowIds
                 PROVE  FollowAt(f, s2, t, i)
    BY DEF RowsFollow
  <2>2. \A k \in Opened(q) : q[k].op # "load"
    BY <1>1, <1>2
  <2>3. FollowAt(f, s, q, i)
    BY <1>0, <2>2 DEF RowsFollow
  <2>4. CASE i # z
    <3>1. DoneAt(t, i) = DoneAt(q, i) /\ \A k \in DoneAt(q, i) : t[k] = q[k]
      BY <2>4 DEF DoneAt
    <3>2. RowsAt(s2, i) = RowsAt(s, i)
      BY <2>4
    <3>. QED
      BY <2>3, <3>1, <3>2 DEF FollowAt
  <2>5. CASE i = z
    <3>1. DoneAt(t, i) = {}
      BY <1>2, <2>5 DEF DoneAt, Opened
    <3>. QED
      BY <2>5, <3>1 DEF FollowAt
  <2>. QED
    BY <2>4, <2>5
<1>. QED
  BY <1>4, <1>5, <1>6, <1>7, <1>8 DEF RowsAreSound

LEMMA LoadAnswered ==
    ASSUME NEW w, NEW f, NEW s, NEW q, NEW entry, RowsAreSound(w, f, s, q, entry),
           NEW fm \in RowForm,
           NEW n \in DOMAIN q, q[n].step = "done", q[n].op = "load", Opened(q) = {n},
           NEW t \in Seq(ListAsk), DOMAIN t = DOMAIN q, \A k \in DOMAIN q : k # n => t[k] = q[k],
           t[n].step = "over"
    PROVE  RowsAreSound(w, f, q[n].got, t, fm)
<1>0. /\ RowsHaveShape(w, f, s, q, entry) /\ LoadsAreFresh(f, s, q)
  BY DEF RowsAreSound
<1>1. Opened(t) = {} /\ \A i : DoneAt(t, i) = {}
  BY DEF Opened, DoneAt
<1>2. q[n].got = f
  BY <1>0 DEF LoadsAreFresh, Opened
<1>3. RowsHaveShape(w, f, f, t, fm)
  BY <1>0, <1>1 DEF RowsHaveShape, AsksHaveShape
<1>. QED
  BY <1>1, <1>2, <1>3 DEF RowsAreSound, NewRowsAreNew, AsksFitRows, LoadsAreFresh, RowsFollow, FollowAt

(* The form goes to another row.                                           *)
LEMMA FormTurned ==
    ASSUME NEW w, NEW f, NEW s, NEW q, NEW entry, RowsAreSound(w, f, s, q, entry),
           NEW fm \in RowForm, fm.id \in {entry.id, 0} \cup IdsOf(s)
    PROVE  RowsAreSound(w, f, s, q, fm)
<1>0. /\ RowsHaveShape(w, f, s, q, entry) /\ NewRowsAreNew(f, s, q, entry)
      /\ AsksFitRows(s, q) /\ LoadsAreFresh(f, s, q) /\ RowsFollow(f, s, q)
      /\ q \in Seq(ListAsk) /\ s \in Seq(Row)
  BY DEF RowsAreSound, RowsHaveShape
<1>1. RowsHaveShape(w, f, s, q, fm)
  BY <1>0 DEF RowsHaveShape
<1>2. \A k \in Opened(q) : q[k].row.id \in RowIds
  <2>1. \A k \in DOMAIN q : q[k] \in ListAsk
    BY <1>0
  <2>2. \A k \in DOMAIN q : q[k].row \in Row
    BY <2>1 DEF ListAsk
  <2>. QED
    BY <2>2, RowIs DEF Opened
<1>3. NewRowsAreNew(f, s, q, fm)
  <2>1. SUFFICES ASSUME NEW k \in Opened(q), q[k].op = "create"
                 PROVE  fm.id # q[k].row.id
    BY <1>0 DEF NewRowsAreNew
  <2>2. RowsAt(s, q[k].row.id) = {} /\ entry.id # q[k].row.id
    BY <1>0, <2>1 DEF NewRowsAreNew
  <2>3. q[k].row.id \notin IdsOf(s)
    BY <1>0, <2>2, RowsOfIds
  <2>. QED
    BY <1>2, <2>1, <2>2, <2>3, ShapesOfRows
<1>. QED
  BY <1>0, <1>1, <1>3 DEF RowsAreSound

(* A request in the list changed, and one taken off it.                    *)
LEMMA AskMoved ==
    ASSUME NEW q \in Seq(ListAsk), NEW n \in DOMAIN q, NEW x \in Seq(Row)
    PROVE  /\ AnswerMade(q, n, x) \in Seq(ListAsk) /\ DOMAIN AnswerMade(q, n, x) = DOMAIN q
           /\ \A k \in DOMAIN q : k # n => AnswerMade(q, n, x)[k] = q[k]
           /\ AnswerMade(q, n, x)[n].op = q[n].op /\ AnswerMade(q, n, x)[n].row = q[n].row
           /\ AnswerMade(q, n, x)[n].about = q[n].about
           /\ AnswerMade(q, n, x)[n].step = "done" /\ AnswerMade(q, n, x)[n].got = x
<1>1. q[n] \in ListAsk
  OBVIOUS
<1>2. PICK a : a = [[q[n] EXCEPT !.step = "done"] EXCEPT !.got = x]
  OBVIOUS
<1>3. /\ a \in ListAsk /\ a.op = q[n].op /\ a.row = q[n].row /\ a.about = q[n].about
      /\ a.step = "done" /\ a.got = x
  BY <1>1, <1>2 DEF ListAsk
<1>4. AnswerMade(q, n, x) = [q EXCEPT ![n] = a]
  BY <1>2 DEF AnswerMade
<1>5. /\ [q EXCEPT ![n] = a] \in Seq(ListAsk) /\ DOMAIN [q EXCEPT ![n] = a] = DOMAIN q
      /\ [q EXCEPT ![n] = a][n] = a /\ \A k \in DOMAIN q : k # n => [q EXCEPT ![n] = a][k] = q[k]
  BY <1>3
<1>6. /\ AnswerMade(q, n, x) \in Seq(ListAsk) /\ DOMAIN AnswerMade(q, n, x) = DOMAIN q
      /\ AnswerMade(q, n, x)[n] = a /\ \A k \in DOMAIN q : k # n => AnswerMade(q, n, x)[k] = q[k]
  BY <1>4, <1>5
<1>. QED
  BY <1>3, <1>6

LEMMA AskEnded ==
    ASSUME NEW q \in Seq(ListAsk), NEW n \in DOMAIN q
    PROVE  /\ AskGone(q, n) \in Seq(ListAsk) /\ DOMAIN AskGone(q, n) = DOMAIN q
           /\ \A k \in DOMAIN q : k # n => AskGone(q, n)[k] = q[k]
           /\ AskGone(q, n)[n].step = "over"
BY ShapesOfRows DEF AskGone

-----------------------------------------------------------------------------
(* The steps.                                                              *)
RowsSound(q, fm) == RowsAreSound(which, rowsOf, shownRows, q, fm)

LEMMA RowRequested ==
    ASSUME RowsSound(listAsks, listForm), NEW fm \in RowForm, fm.id = listForm.id,
           NEW op \in ListOps.rules \cup ListOps.floors, op # "load",
           NEW row \in Row, NEW about \in RowIds \cup {0},
           Requests(op, row, about),
           op \in ListOps[which], about = (IF op = "create" THEN 0 ELSE row.id),
           which = "floors" => ~row.on,
           op = "create" => /\ RowsAt(shownRows, row.id) = {} /\ RowsAt(rowsOf, row.id) = {}
                            /\ listForm.id # row.id
                            /\ \A k \in Opened(listAsks) : listAsks[k].row.id # row.id,
           op # "create" =>
               \A k \in Opened(listAsks) : listAsks[k].op = "create" => listAsks[k].row.id # row.id,
           op = "toggle" => \A r \in RowsAt(shownRows, row.id) : r.on = ~row.on,
           op = "rename" => RowsAt(shownRows, row.id) # {}
    PROVE  RowsSound(listAsks', fm)
<1>1. PICK a : a = [op |-> op, row |-> row, about |-> about, got |-> <<>>, step |-> "sent"]
  OBVIOUS
<1>2. a \in ListAsk /\ a.op = op /\ a.row = row /\ a.about = about /\ a.step = "sent"
  <2>1. <<>> \in Seq(Row)
    OBVIOUS
  <2>. QED
    BY <1>1, <2>1 DEF ListAsk
<1>3. listAsks' = Append(listAsks, a)
  BY <1>1 DEF Requests
<1>4. IsAskOf(which, a)
  BY <1>2 DEF IsAskOf
<1>5. RowsAreSound(which, rowsOf, shownRows, Append(listAsks, a), fm)
  BY <1>2, <1>4, RowAsked DEF RowsSound
<1>. QED
  BY <1>3, <1>5 DEF RowsSound

(* A request about a drawn row.                                            *)
LEMMA DrawnRowIs ==
    ASSUME RowsSound(listAsks, listForm), NEW n \in DOMAIN shownRows
    PROVE  /\ shownRows[n] \in Row /\ RowsAt(shownRows, shownRows[n].id) = {shownRows[n]}
           /\ shownRows[n].id \in RowIds /\ shownRows[n].id \in IdsOf(shownRows)
           /\ which = "floors" => ~shownRows[n].on
           /\ \A k \in Opened(listAsks) : listAsks[k].op = "create" => listAsks[k].row.id # shownRows[n].id
<1>1. /\ shownRows \in Seq(Row) /\ RowsDiffer(shownRows)
      /\ which = "floors" => \A r \in Range(shownRows) : ~r.on
      /\ NewRowsAreNew(rowsOf, shownRows, listAsks, listForm)
  BY DEF RowsSound, RowsAreSound, RowsHaveShape
<1>2. shownRows[n] \in Row /\ shownRows[n] \in Range(shownRows)
  BY <1>1 DEF Range
<1>3. RowsAt(shownRows, shownRows[n].id) = {shownRows[n]}
  BY <1>1, <1>2 DEF RowsAt, RowsDiffer
<1>. QED
  BY <1>1, <1>2, <1>3, RowIs DEF NewRowsAreNew, IdsOf

LEMMA ListShapes ==
    ASSUME RowsSound(listAsks, listForm)
    PROVE  /\ which \in {"rules", "floors"} /\ listForm \in RowForm /\ listAsks \in Seq(ListAsk)
           /\ rowsOf \in Seq(Row) /\ RowsDiffer(rowsOf) /\ shownRows \in Seq(Row) /\ RowsDiffer(shownRows)
BY DEF RowsSound, RowsAreSound, RowsHaveShape

LEMMA RuleSaved ==
    ASSUME RowsSound(listAsks, listForm), SaveRule
    PROVE  RowsSound(listAsks', listForm')
<1>1. /\ listForm \in RowForm /\ listAsks \in Seq(ListAsk) /\ which = "rules"
      /\ rowsOf \in Seq(Row) /\ shownRows \in Seq(Row)
  BY ListShapes DEF SaveRule
<1>2. listForm' \in RowForm /\ listForm'.id = listForm.id
  <2>1. listForm' = [listForm EXCEPT !.saving = TRUE]
    BY DEF SaveRule
  <2>2. [listForm EXCEPT !.saving = TRUE] \in RowForm /\ [listForm EXCEPT !.saving = TRUE].id = listForm.id
    BY <1>1 DEF RowForm
  <2>. QED
    BY <2>1, <2>2
<1>3. listForm.id \in RowIds \cup {0} /\ listForm.text \in RowTexts /\ listForm.on \in BOOLEAN
  BY <1>1 DEF RowForm
<1>4. CASE listForm.id = 0
  <2>1. PICK i \in NewIds : Requests("create", [id |-> i, text |-> listForm.text, on |-> TRUE], 0)
    BY <1>4 DEF SaveRule
  <2>2. PICK row : row = [id |-> i, text |-> listForm.text, on |-> TRUE]
    OBVIOUS
  <2>3. i \in RowIds /\ i \notin IdsOf(rowsOf) /\ i \notin IdsOf(shownRows)
        /\ \A k \in DOMAIN listAsks : listAsks[k].row.id # i
    BY <2>1 DEF NewIds
  <2>4. row \in Row /\ row.id = i
    BY <1>3, <2>2, <2>3 DEF Row
  <2>5. RowsAt(shownRows, row.id) = {} /\ RowsAt(rowsOf, row.id) = {} /\ listForm.id # row.id
    BY <1>1, <1>4, <2>3, <2>4, RowsOfIds, ShapesOfRows
  <2>6. \A k \in Opened(listAsks) : listAsks[k].row.id # row.id
    BY <2>3, <2>4 DEF Opened
  <2>7. Requests("create", row, 0)
    BY <2>1, <2>2
  <2>8. "create" \in ListOps.rules \cup ListOps.floors /\ "create" \in ListOps[which]
    BY <1>1 DEF ListOps
  <2>. QED
    BY <1>1, <1>2, <2>4, <2>5, <2>6, <2>7, <2>8, RowRequested
<1>5. CASE listForm.id # 0
  <2>1. PICK row : row = [id |-> listForm.id, text |-> listForm.text, on |-> listForm.on]
    OBVIOUS
  <2>2. row \in Row /\ row.id = listForm.id
    BY <1>3, <1>5, <2>1 DEF Row
  <2>3. Requests("update", row, row.id)
    BY <1>5, <2>1, <2>2 DEF SaveRule
  <2>4. \A k \in Opened(listAsks) : listAsks[k].op = "create" => listAsks[k].row.id # row.id
    BY <2>2 DEF RowsSound, RowsAreSound, NewRowsAreNew
  <2>5. "update" \in ListOps.rules \cup ListOps.floors /\ "update" \in ListOps[which]
    BY <1>1 DEF ListOps
  <2>. QED
    BY <1>1, <1>2, <1>3, <2>2, <2>3, <2>4, <2>5, RowRequested
<1>. QED
  BY <1>4, <1>5

LEMMA RuleToggled ==
    ASSUME RowsSound(listAsks, listForm), NEW n \in DOMAIN shownRows, ToggleRule(n)
    PROVE  RowsSound(listAsks', listForm)
<1>1. listForm \in RowForm /\ which = "rules"
  BY ListShapes DEF ToggleRule
<1>2. PICK row : row = Flipped(shownRows[n])
  OBVIOUS
<1>3. row \in Row /\ row.id = shownRows[n].id /\ shownRows[n].on = ~row.on
  <2>1. shownRows[n] \in Row
    BY DrawnRowIs
  <2>2. Flipped(shownRows[n]).on = ~shownRows[n].on /\ shownRows[n].on \in BOOLEAN
    BY <2>1 DEF Flipped, Row
  <2>. QED
    BY <1>2, <2>1, <2>2, RowsReshaped
<1>4. Requests("toggle", row, row.id)
  BY <1>2, <1>3 DEF ToggleRule, Flipped
<1>5. \A r \in RowsAt(shownRows, row.id) : r.on = ~row.on
  BY <1>3, DrawnRowIs
<1>6. \A k \in Opened(listAsks) : listAsks[k].op = "create" => listAsks[k].row.id # row.id
  BY <1>3, DrawnRowIs
<1>7. "toggle" \in ListOps.rules \cup ListOps.floors /\ "toggle" \in ListOps[which]
  BY <1>1 DEF ListOps
<1>8. row.id \in RowIds \cup {0}
  BY <1>3, RowIs
<1>. QED
  BY <1>1, <1>3, <1>4, <1>5, <1>6, <1>7, <1>8, RowRequested

(* A row deleted, or given a file, from its place on the page.             *)
LEMMA DrawnRowAsked ==
    ASSUME RowsSound(listAsks, listForm), NEW n \in DOMAIN shownRows,
           NEW op \in ListOps[which], op \in {"delete", "upload"},
           Requests(op, shownRows[n], shownRows[n].id)
    PROVE  RowsSound(listAsks', listForm)
<1>1. listForm \in RowForm
  BY ListShapes
<1>2. op \in ListOps.rules \cup ListOps.floors
  BY DEF ListOps
<1>3. PICK row : row = shownRows[n]
  OBVIOUS
<1>4. /\ row \in Row /\ row.id \in RowIds \cup {0} /\ (which = "floors" => ~row.on)
      /\ \A k \in Opened(listAsks) : listAsks[k].op = "create" => listAsks[k].row.id # row.id
  BY <1>3, DrawnRowIs
<1>5. Requests(op, row, row.id)
  BY <1>3
<1>6. op # "load" /\ op # "create" /\ op # "toggle" /\ op # "rename"
  OBVIOUS
<1>7. row.id = IF op = "create" THEN 0 ELSE row.id
  BY <1>6
<1>9. /\ op = "create" => /\ RowsAt(shownRows, row.id) = {} /\ RowsAt(rowsOf, row.id) = {}
                           /\ listForm.id # row.id
                           /\ \A k \in Opened(listAsks) : listAsks[k].row.id # row.id
      /\ op = "toggle" => \A r \in RowsAt(shownRows, row.id) : r.on = ~row.on
      /\ op = "rename" => RowsAt(shownRows, row.id) # {}
  BY <1>6
<1>. QED
  BY <1>1, <1>2, <1>4, <1>5, <1>6, <1>7, <1>9, RowRequested

LEMMA FloorAdded ==
    ASSUME RowsSound(listAsks, listForm), AddFloor
    PROVE  RowsSound(listAsks', listForm)
<1>1. listForm \in RowForm /\ which = "floors"
  BY ListShapes DEF AddFloor
<1>2. PICK i \in RowIds, x \in RowTexts : Requests("add", [id |-> i, text |-> x, on |-> FALSE], i)
  BY DEF AddFloor
<1>3. PICK row : row = [id |-> i, text |-> x, on |-> FALSE]
  OBVIOUS
<1>4. row \in Row /\ row.id = i /\ ~row.on
  BY <1>3 DEF Row
<1>5. \A k \in Opened(listAsks) : listAsks[k].op # "create"
  BY <1>1 DEF RowsSound, RowsAreSound, RowsHaveShape, AsksHaveShape, IsAskOf, ListOps
<1>6. "add" \in ListOps.rules \cup ListOps.floors /\ "add" \in ListOps[which]
  BY <1>1 DEF ListOps
<1>7. Requests("add", row, row.id)
  BY <1>2, <1>3, <1>4
<1>. QED
  BY <1>1, <1>4, <1>5, <1>6, <1>7, RowRequested

LEMMA FloorRenamed ==
    ASSUME RowsSound(listAsks, listForm), RenameFloor
    PROVE  RowsSound(listAsks', listForm)
<1>1. listForm \in RowForm /\ which = "floors" /\ listForm.id \in IdsOf(shownRows) /\ shownRows \in Seq(Row)
  BY ListShapes DEF RenameFloor
<1>2. PICK row : row = [id |-> listForm.id, text |-> listForm.text, on |-> FALSE]
  OBVIOUS
<1>3. listForm.id \in RowIds /\ listForm.text \in RowTexts
  <2>1. PICK n \in DOMAIN shownRows : listForm.id = shownRows[n].id
    BY <1>1 DEF IdsOf
  <2>2. listForm.id \in RowIds
    BY <2>1, DrawnRowIs
  <2>. QED
    BY <1>1, <2>2 DEF RowForm
<1>4. row \in Row /\ row.id = listForm.id /\ ~row.on
  BY <1>2, <1>3 DEF Row
<1>5. \A k \in Opened(listAsks) : listAsks[k].op # "create"
  BY <1>1 DEF RowsSound, RowsAreSound, RowsHaveShape, AsksHaveShape, IsAskOf, ListOps
<1>6. "rename" \in ListOps.rules \cup ListOps.floors /\ "rename" \in ListOps[which]
  BY <1>1 DEF ListOps
<1>7. Requests("rename", row, row.id)
  BY <1>2, <1>4 DEF RenameFloor
<1>8. RowsAt(shownRows, row.id) # {}
  BY <1>1, <1>4, RowsOfIds
<1>. QED
  BY <1>1, <1>3, <1>4, <1>5, <1>6, <1>7, <1>8, RowRequested

(* A request about one row, served: the row in the file, and the answer.   *)
ServedWell(w, f, s, a, g, x) ==
    /\ g \in Seq(Row) /\ RowsDiffer(g) /\ x \in Seq(Row)
    /\ \A j : j # a.row.id => RowsAt(g, j) = RowsAt(f, j)
    /\ w = "floors" => RowsAt(g, a.row.id) \subseteq RowsAt(f, a.row.id) \cup {a.row}
    /\ RowsAt(f, a.row.id) = RowsAt(s, a.row.id) => AnswerIs(a, x, RowsAt(g, a.row.id), RowsAt(s, a.row.id))

LEMMA CreateServed ==
    ASSUME NEW w, NEW f \in Seq(Row), RowsDiffer(f), NEW s, NEW a, a.row \in Row,
           a.op = "create", RowsAt(f, a.row.id) = {}
    PROVE  ServedWell(w, f, s, a, Append(f, a.row), <<>>)
<1>1. <<>> \in Seq(Row)
  OBVIOUS
<1>2. PICK row \in Row : row = a.row
  OBVIOUS
<1>3. /\ Append(f, row) \in Seq(Row) /\ RowsDiffer(Append(f, row))
      /\ RowsAt(Append(f, row), row.id) = {row}
      /\ \A j : j # row.id => RowsAt(Append(f, row), j) = RowsAt(f, j)
  BY <1>2, AppendedRow
<1>. QED
  BY <1>1, <1>2, <1>3 DEF ServedWell, AnswerIs

LEMMA UpdateServed ==
    ASSUME NEW f \in Seq(Row), RowsDiffer(f), NEW s, NEW a, a.row \in Row, a.op = "update",
           NEW x, x = Filtered(ReplacedRow(f, a.row), RowsAt(ReplacedRow(f, a.row), a.row.id))
    PROVE  ServedWell("rules", f, s, a, ReplacedRow(f, a.row), x)
<1>1. PICK row \in Row : row = a.row
  OBVIOUS
<1>2. PICK g : g = ReplacedRow(f, row)
  OBVIOUS
<1>3. /\ g \in Seq(Row) /\ RowsDiffer(g) /\ (RowsAt(g, row.id) = {} <=> RowsAt(f, row.id) = {})
      /\ \A r \in RowsAt(f, row.id) : RowsAt(f, row.id) = {r} /\ RowsAt(g, row.id) = {row}
      /\ \A j : j # row.id => RowsAt(g, j) = RowsAt(f, j)
  <2>1. /\ ReplacedRow(f, row) \in Seq(Row) /\ RowsDiffer(ReplacedRow(f, row))
        /\ (RowsAt(ReplacedRow(f, row), row.id) = {} <=> RowsAt(f, row.id) = {})
        /\ \A r \in RowsAt(f, row.id) :
              RowsAt(f, row.id) = {r} /\ RowsAt(ReplacedRow(f, row), row.id) = {row}
        /\ \A j : j # row.id => RowsAt(ReplacedRow(f, row), j) = RowsAt(f, j)
    BY RowReplaced
  <2>. QED
    BY <1>2, <2>1
<1>4. PICK z : z = RowsAt(g, row.id)
  OBVIOUS
<1>5. x = Filtered(g, z) /\ z \subseteq Range(g) /\ IsInjective(g)
  BY <1>1, <1>2, <1>3, <1>4 DEF RowsAt, RowsDiffer
<1>6. x \in Seq(Row) /\ Range(x) = z
  <2>1. x \in Seq(Row) /\ Range(x) = Range(g) \cap z
    BY <1>3, <1>5, FilteredIs
  <2>. QED
    BY <1>5, <2>1
<1>7. x = <<>> <=> z = {}
  <2>1. x = <<>> => Range(x) = {}
    BY DEF Range
  <2>2. x # <<>> => 1 \in DOMAIN x
    BY <1>6
  <2>3. x # <<>> => x[1] \in Range(x)
    BY <2>2 DEF Range
  <2>. QED
    BY <1>6, <2>1, <2>3
<1>8. z # {} => x[1] \in z
  <2>1. z # {} => 1 \in DOMAIN x
    BY <1>6, <1>7
  <2>. QED
    BY <1>6, <2>1 DEF Range
<1>9. RowsAt(f, row.id) = RowsAt(s, row.id) =>
          IF x = <<>> THEN z = RowsAt(s, row.id) ELSE RowsAt(s, row.id) # {} /\ z = {x[1]}
  BY <1>3, <1>4, <1>7, <1>8
<1>. QED
  BY <1>1, <1>2, <1>3, <1>4, <1>6, <1>9 DEF ServedWell, AnswerIs

LEMMA ToggleServed ==
    ASSUME NEW f \in Seq(Row), RowsDiffer(f), NEW s, NEW a, a.row \in Row, a.op = "toggle",
           \A r \in RowsAt(s, a.row.id) : r.on = ~a.row.on
    PROVE  ServedWell("rules", f, s, a, SwitchedRow(f, a.row.id, a.row.on), <<>>)
<1>1. PICK i : i = a.row.id
  OBVIOUS
<1>2. PICK b \in BOOLEAN : b = a.row.on
  BY RowIs
<1>3. PICK g : g = SwitchedRow(f, i, b)
  OBVIOUS
<1>4. /\ g \in Seq(Row) /\ RowsDiffer(g) /\ (RowsAt(g, i) = {} <=> RowsAt(f, i) = {})
      /\ \A r \in RowsAt(f, i) : RowsAt(f, i) = {r} /\ RowsAt(g, i) = {Switched(r, b)}
      /\ \A j : j # i => RowsAt(g, j) = RowsAt(f, j)
  BY <1>3, RowSwitched
<1>5. \A r \in RowsAt(f, i) : r \in Row
  BY DEF RowsAt, Range
<1>6. ASSUME RowsAt(f, i) = RowsAt(s, i), NEW r \in RowsAt(s, i) PROVE RowsAt(g, i) = {Flipped(r)}
  <2>1. r \in Row /\ r.on = ~b
    BY <1>1, <1>2, <1>5, <1>6
  <2>2. Switched(r, b) = Flipped(r)
    BY <2>1, FlippedIs
  <2>. QED
    BY <1>4, <1>6, <2>2
<1>7. <<>> \in Seq(Row)
  OBVIOUS
<1>. QED
  BY <1>1, <1>2, <1>3, <1>4, <1>6, <1>7 DEF ServedWell, AnswerIs

LEMMA PutServed ==
    ASSUME NEW w, NEW s, NEW a, a.row \in Row, rowsOf \in Seq(Row), RowsDiffer(rowsOf),
           a.op \in {"add", "rename"},
           a.op = "rename" => /\ RowsAt(s, a.row.id) # {}
                              /\ \A r \in RowsAt(s, a.row.id) : r \in Row /\ r.on = a.row.on
    PROVE  ServedWell(w, rowsOf, s, a, Put(a.row), <<>>)
<1>1. PICK row \in Row : row = a.row
  OBVIOUS
<1>2. PICK g : g = Put(row)
  OBVIOUS
<1>3. /\ g \in Seq(Row) /\ RowsDiffer(g) /\ RowsAt(g, row.id) = {row}
      /\ \A j : j # row.id => RowsAt(g, j) = RowsAt(rowsOf, j)
  <2>1. CASE row.id \in IdsOf(rowsOf)
    <3>1. RowsAt(rowsOf, row.id) # {}
      BY <2>1, RowsOfIds
    <3>2. g = ReplacedRow(rowsOf, row)
      BY <1>2, <2>1 DEF Put, ReplacedRow
    <3>3. /\ ReplacedRow(rowsOf, row) \in Seq(Row) /\ RowsDiffer(ReplacedRow(rowsOf, row))
          /\ \A r \in RowsAt(rowsOf, row.id) :
                RowsAt(rowsOf, row.id) = {r} /\ RowsAt(ReplacedRow(rowsOf, row), row.id) = {row}
          /\ \A j : j # row.id => RowsAt(ReplacedRow(rowsOf, row), j) = RowsAt(rowsOf, j)
      BY RowReplaced
    <3>. QED
      BY <3>1, <3>2, <3>3
  <2>2. CASE row.id \notin IdsOf(rowsOf)
    <3>1. RowsAt(rowsOf, row.id) = {}
      BY <2>2, RowsOfIds
    <3>2. g = Append(rowsOf, row)
      BY <1>2, <2>2 DEF Put
    <3>. QED
      BY <3>1, <3>2, AppendedRow
  <2>. QED
    BY <2>1, <2>2
<1>4. ASSUME a.op = "rename", NEW r \in RowsAt(s, row.id) PROVE Named(r, row.text) = row
  <2>1. r \in Row /\ row.id = r.id /\ row.on = r.on
    BY <1>1, <1>4 DEF RowsAt
  <2>. QED
    BY <2>1, NamedIs
<1>5. <<>> \in Seq(Row)
  OBVIOUS
<1>6. AnswerIs(a, <<>>, {row}, RowsAt(s, row.id))
  BY <1>1, <1>4 DEF AnswerIs
<1>. QED
  BY <1>1, <1>2, <1>3, <1>5, <1>6 DEF ServedWell

LEMMA DeleteServed ==
    ASSUME NEW w, NEW f \in Seq(Row), RowsDiffer(f), NEW s, NEW a, a.op = "delete"
    PROVE  ServedWell(w, f, s, a, Without(f, a.row.id), <<>>)
<1>1. PICK i : i = a.row.id
  OBVIOUS
<1>2. /\ Without(f, i) \in Seq(Row) /\ RowsDiffer(Without(f, i))
      /\ RowsAt(Without(f, i), i) = {}
      /\ \A j : j # i => RowsAt(Without(f, i), j) = RowsAt(f, j)
  BY RowRemoved
<1>3. <<>> \in Seq(Row)
  OBVIOUS
<1>. QED
  BY <1>1, <1>2, <1>3 DEF ServedWell, AnswerIs

LEMMA UploadServed ==
    ASSUME NEW w, NEW f \in Seq(Row), RowsDiffer(f), NEW s, NEW a, a.op = "upload"
    PROVE  ServedWell(w, f, s, a, f, <<>>)
<1>1. <<>> \in Seq(Row)
  OBVIOUS
<1>. QED
  BY <1>1 DEF ServedWell, AnswerIs

LEMMA AskIs ==
    ASSUME RowsSound(listAsks, listForm), NEW n \in Opened(listAsks)
    PROVE  /\ listAsks[n] \in ListAsk /\ listAsks[n].row \in Row /\ listAsks[n].row.id \in RowIds
           /\ IsAskOf(which, listAsks[n]) /\ listAsks[n].got \in Seq(Row)
<1>1. listAsks[n] \in ListAsk
  BY ListShapes DEF Opened
<1>2. listAsks[n].row \in Row /\ listAsks[n].got \in Seq(Row)
  BY <1>1 DEF ListAsk
<1>. QED
  BY <1>1, <1>2, RowIs DEF RowsSound, RowsAreSound, RowsHaveShape, AsksHaveShape

LEMMA OneRowServed ==
    ASSUME RowsSound(listAsks, listForm), NEW n \in Opened(listAsks), listAsks[n].step = "sent",
           listAsks[n].op # "load", NEW g, NEW x, ServedWell(which, rowsOf, shownRows, listAsks[n], g, x)
    PROVE  RowsAreSound(which, g, shownRows, AnswerMade(listAsks, n, x), listForm)
<1>1. /\ n \in DOMAIN listAsks /\ listAsks \in Seq(ListAsk) /\ x \in Seq(Row) /\ g \in Seq(Row)
      /\ RowsDiffer(g)
  BY ListShapes DEF Opened, ServedWell
<1>2. PICK t : t = AnswerMade(listAsks, n, x)
  OBVIOUS
<1>3. /\ t \in Seq(ListAsk) /\ DOMAIN t = DOMAIN listAsks
      /\ \A k \in DOMAIN listAsks : k # n => t[k] = listAsks[k]
      /\ t[n].op = listAsks[n].op /\ t[n].row = listAsks[n].row /\ t[n].about = listAsks[n].about
      /\ t[n].step = "done" /\ t[n].got = x
  BY <1>1, <1>2, AskMoved
<1>4. PICK i : i = listAsks[n].row.id
  OBVIOUS
<1>5. RowsAt(rowsOf, i) = RowsAt(shownRows, i) => AnswerIs(t[n], t[n].got, RowsAt(g, i), RowsAt(shownRows, i))
  BY <1>3, <1>4 DEF ServedWell, AnswerIs
<1>6. /\ \A j : j # i => RowsAt(g, j) = RowsAt(rowsOf, j)
      /\ which = "floors" => RowsAt(g, i) \subseteq RowsAt(rowsOf, i) \cup {listAsks[n].row}
  BY <1>4 DEF ServedWell
<1>7. RowsAreSound(which, g, shownRows, t, listForm)
  BY <1>1, <1>3, <1>4, <1>5, <1>6, RowServed DEF RowsSound
<1>. QED
  BY <1>2, <1>7

LEMMA RequestServed ==
    ASSUME RowsSound(listAsks, listForm), NEW n \in DOMAIN listAsks, Serve(n)
    PROVE  RowsAreSound(which, rowsOf', shownRows, listAsks', listForm)
<1>1. PICK a : a = listAsks[n]
  OBVIOUS
<1>2. a.step = "sent" /\ n \in Opened(listAsks) /\ listAsks[n].step = "sent"
  BY <1>1 DEF Serve, Opened
<1>3. /\ a \in ListAsk /\ a.row \in Row /\ a.row.id \in RowIds /\ IsAskOf(which, a)
      /\ rowsOf \in Seq(Row) /\ RowsDiffer(rowsOf) /\ which \in {"rules", "floors"}
      /\ listAsks \in Seq(ListAsk)
  BY <1>1, <1>2, AskIs, ListShapes
<1>4. PICK g : g = rowsOf'
  OBVIOUS
<1>5. PICK x : x = IF a.op = "load" THEN rowsOf
                   ELSE IF a.op = "update" THEN Filtered(g, {r \in Range(g) : r.id = a.about})
                   ELSE <<>>
  OBVIOUS
<1>6. listAsks' = AnswerMade(listAsks, n, x)
  BY <1>1, <1>4, <1>5 DEF Serve, AnswerMade
<1>8. CASE a.op = "load"
  <2>1. g = rowsOf /\ x = rowsOf
    BY <1>1, <1>4, <1>5, <1>8 DEF Serve
  <2>2. PICK t : t = AnswerMade(listAsks, n, rowsOf)
    OBVIOUS
  <2>3. /\ t \in Seq(ListAsk) /\ DOMAIN t = DOMAIN listAsks
        /\ \A k \in DOMAIN listAsks : k # n => t[k] = listAsks[k]
        /\ t[n].op = "load" /\ t[n].step = "done" /\ t[n].got = rowsOf
    BY <1>1, <1>3, <1>8, <2>2, AskMoved
  <2>4. RowsAreSound(which, rowsOf, shownRows, t, listForm)
    BY <1>1, <1>2, <1>8, <2>3, LoadServed DEF RowsSound
  <2>. QED
    BY <1>4, <1>6, <2>1, <2>2, <2>4
<1>9. CASE a.op # "load"
  <2>1. SUFFICES ServedWell(which, rowsOf, shownRows, a, g, x)
    BY <1>1, <1>2, <1>4, <1>6, <1>9, OneRowServed
  <2>1a. a.op # "update" => x = <<>>
    BY <1>5, <1>9
  <2>2. CASE a.op = "create"
    <3>1. g = Append(rowsOf, a.row)
      BY <1>1, <1>4, <2>2 DEF Serve
    <3>2. RowsAt(rowsOf, a.row.id) = {}
      BY <1>1, <1>2, <2>2 DEF RowsSound, RowsAreSound, NewRowsAreNew
    <3>3. ServedWell(which, rowsOf, shownRows, a, Append(rowsOf, a.row), <<>>)
      BY <1>3, <2>2, <3>2, CreateServed
    <3>. QED
      BY <2>1a, <2>2, <3>1, <3>3
  <2>3. CASE a.op = "update"
    <3>1. a.about = a.row.id /\ which = "rules"
      BY <1>3, <2>3 DEF IsAskOf, ListOps
    <3>2. g = ReplacedRow(rowsOf, a.row)
      BY <1>1, <1>4, <2>3, <3>1 DEF Serve, RowMerged, RowChanged, ReplacedRow
    <3>3. x = Filtered(ReplacedRow(rowsOf, a.row), RowsAt(ReplacedRow(rowsOf, a.row), a.row.id))
      BY <1>5, <2>3, <3>1, <3>2 DEF RowsAt
    <3>4. ServedWell("rules", rowsOf, shownRows, a, ReplacedRow(rowsOf, a.row), x)
      BY <1>3, <2>3, <3>3, UpdateServed
    <3>. QED
      BY <3>1, <3>2, <3>4
  <2>4. CASE a.op = "toggle"
    <3>1. a.about = a.row.id /\ which = "rules"
      BY <1>3, <2>4 DEF IsAskOf, ListOps
    <3>2. g = SwitchedRow(rowsOf, a.row.id, a.row.on)
      BY <1>1, <1>4, <2>4, <3>1 DEF Serve, RowMerged, RowChanged, SwitchedRow
    <3>3. \A r \in RowsAt(shownRows, a.row.id) : r.on = ~a.row.on
      BY <1>1, <1>2, <2>4 DEF RowsSound, RowsAreSound, AsksFitRows
    <3>4. ServedWell("rules", rowsOf, shownRows, a, SwitchedRow(rowsOf, a.row.id, a.row.on), <<>>)
      BY <1>3, <2>4, <3>3, ToggleServed
    <3>. QED
      BY <2>1a, <2>4, <3>1, <3>2, <3>4
  <2>5. CASE a.op \in {"add", "rename"}
    <3>1. g = Put(a.row)
      BY <1>1, <1>4, <2>5 DEF Serve
    <3>2. ASSUME a.op = "rename"
          PROVE  /\ RowsAt(shownRows, a.row.id) # {}
                 /\ \A r \in RowsAt(shownRows, a.row.id) : r \in Row /\ r.on = a.row.on
      <4>1. which = "floors" /\ ~a.row.on /\ RowsAt(shownRows, a.row.id) # {}
        BY <1>1, <1>2, <1>3, <3>2 DEF RowsSound, RowsAreSound, AsksFitRows, IsAskOf, ListOps
      <4>2. shownRows \in Seq(Row) /\ \A r \in Range(shownRows) : ~r.on
        BY <4>1 DEF RowsSound, RowsAreSound, RowsHaveShape
      <4>3. \A r \in RowsAt(shownRows, a.row.id) : r \in Row /\ ~r.on
        BY <4>2 DEF RowsAt, Range
      <4>4. a.row.on \in BOOLEAN /\ \A r \in RowsAt(shownRows, a.row.id) : r.on \in BOOLEAN
        BY <1>3, <4>3, RowIs
      <4>. QED
        BY <4>1, <4>3, <4>4
    <3>3. ServedWell(which, rowsOf, shownRows, a, Put(a.row), <<>>)
      BY <1>3, <2>5, <3>2, PutServed
    <3>. QED
      BY <2>1a, <2>5, <3>1, <3>3
  <2>6. CASE a.op = "delete"
    <3>1. a.about = a.row.id
      BY <1>3, <2>6 DEF IsAskOf
    <3>2. g = Without(rowsOf, a.row.id)
      BY <1>1, <1>4, <2>6, <3>1 DEF Serve
    <3>. QED
      BY <1>3, <2>1a, <2>6, <3>2, DeleteServed
  <2>7. CASE a.op = "upload"
    <3>1. g = rowsOf
      BY <1>1, <1>4, <2>7 DEF Serve
    <3>. QED
      BY <1>3, <2>1a, <2>7, <3>1, UploadServed
  <2>8. a.op \in {"create", "update", "toggle", "add", "rename", "delete", "upload"}
    BY <1>3, <1>9 DEF IsAskOf, ListOps
  <2>. QED
    BY <2>2, <2>3, <2>4, <2>5, <2>6, <2>7, <2>8
<1>. QED
  BY <1>8, <1>9

(* The form after an answer: shut, or as it was but for its button.        *)
LEMMA FormsAfter ==
    ASSUME listForm \in RowForm
    PROVE  /\ Shut \in RowForm /\ Shut.id = 0
           /\ \A b \in BOOLEAN : /\ [listForm EXCEPT !.saving = b] \in RowForm
                                 /\ [listForm EXCEPT !.saving = b].id = listForm.id
           /\ listForm.saving \in BOOLEAN
BY ShapesOfRows DEF RowForm

LEMMA AnswerTaken ==
    ASSUME RowsSound(listAsks, listForm), NEW n \in DOMAIN listAsks, Answered(n), ~Races(n),
           ~(listAsks[n].op = "add" /\ listAsks[n].row.id \in IdsOf(shownRows))
    PROVE  RowsAreSound(which, rowsOf, shownRows', listAsks', listForm')
<1>1. PICK a : a = listAsks[n]
  OBVIOUS
<1>2. a.step = "done" /\ n \in Opened(listAsks) /\ listAsks[n].step = "done"
  BY <1>1 DEF Answered, Opened
<1>3. /\ a \in ListAsk /\ a.row \in Row /\ a.row.id \in RowIds /\ IsAskOf(which, a) /\ a.got \in Seq(Row)
      /\ shownRows \in Seq(Row) /\ RowsDiffer(shownRows) /\ rowsOf \in Seq(Row)
      /\ which \in {"rules", "floors"} /\ listForm \in RowForm /\ listAsks \in Seq(ListAsk)
  BY <1>1, <1>2, AskIs, ListShapes
<1>4. PICK fm : fm = listForm'
  OBVIOUS
<1>5. fm \in RowForm /\ fm.id \in {listForm.id, 0}
  <2>1. fm = IF a.op \in {"create", "rename"} \/ (a.op = "update" /\ a.got # <<>>) THEN Shut
             ELSE [listForm EXCEPT !.saving = IF a.op = "update" THEN FALSE ELSE @]
    BY <1>1, <1>4 DEF Answered
  <2>2. PICK b \in BOOLEAN : b = IF a.op = "update" THEN FALSE ELSE listForm.saving
    BY <1>3, FormsAfter
  <2>3. fm \in {Shut, [listForm EXCEPT !.saving = b]}
    BY <2>1, <2>2
  <2>. QED
    BY <1>3, <2>3, FormsAfter
<1>6. PICK t : t = AskGone(listAsks, n)
  OBVIOUS
<1>7. /\ t \in Seq(ListAsk) /\ DOMAIN t = DOMAIN listAsks
      /\ \A k \in DOMAIN listAsks : k # n => t[k] = listAsks[k]
      /\ t[n].step = "over" /\ listAsks' = t
  BY <1>3, <1>6, AskEnded DEF Answered, AskGone
<1>8. PICK s2 : s2 = shownRows'
  OBVIOUS
<1>9. s2 = CASE a.op = "load" -> a.got
             [] a.op \in {"create", "add"} -> Append(shownRows, a.row)
             [] a.op = "update" -> IF a.got = <<>> THEN shownRows
                                   ELSE RowChanged(shownRows, a.about, LAMBDA r : a.got[1])
             [] a.op = "toggle" -> RowChanged(shownRows, a.about, LAMBDA r : [r EXCEPT !.on = ~@])
             [] a.op = "rename" -> RowChanged(shownRows, a.about, LAMBDA r : [r EXCEPT !.text = a.row.text])
             [] a.op = "delete" -> Without(shownRows, a.about)
             [] a.op = "upload" -> shownRows
  BY <1>1, <1>8 DEF Answered
<1>10. \A k \in Opened(listAsks) \ {n} : /\ a.op # "load" /\ listAsks[k].op # "load"
                                         /\ a.about = listAsks[k].about => listAsks[k].about = 0
  BY <1>1 DEF Races, Underway, Opened
<1>11. CASE a.op = "load"
  <2>1. Opened(listAsks) = {n}
    BY <1>2, <1>10, <1>11
  <2>2. RowsAreSound(which, rowsOf, listAsks[n].got, t, fm)
    BY <1>1, <1>2, <1>5, <1>7, <1>11, <2>1, LoadAnswered DEF RowsSound
  <2>. QED
    BY <1>1, <1>4, <1>7, <1>8, <1>9, <1>11, <2>2
<1>12. CASE a.op # "load"
  <2>. DEFINE i == a.row.id
              F == RowsAt(rowsOf, i)
              S == RowsAt(shownRows, i)
  <2>1. \A k \in Opened(listAsks) \ {n} : listAsks[k].op # "load" /\ listAsks[k].row.id # listAsks[n].row.id
    <3>1. SUFFICES ASSUME NEW k \in Opened(listAsks) \ {n}
                   PROVE  listAsks[k].row.id # a.row.id
      BY <1>1, <1>10
    <3>2. IsAskOf(which, listAsks[k]) /\ listAsks[k].row.id \in RowIds /\ listAsks[k].op # "load"
      BY <1>10, AskIs
    <3>3. CASE listAsks[k].op = "create" \/ a.op = "create"
      BY <1>1, <1>2, <1>12, <3>2, <3>3 DEF RowsSound, RowsAreSound, NewRowsAreNew
    <3>4. CASE listAsks[k].op # "create" /\ a.op # "create"
      <4>1. listAsks[k].about = listAsks[k].row.id /\ a.about = a.row.id
        BY <1>3, <1>12, <3>2, <3>4 DEF IsAskOf
      <4>. QED
        BY <1>10, <3>2, <4>1, ShapesOfRows
    <3>. QED
      BY <3>3, <3>4
  <2>2. AnswerIs(a, a.got, F, S)
    BY <1>1, <1>2, <1>3, <1>12, <2>1, AnswerTells DEF RowsSound
  <2>3. SUFFICES /\ s2 \in Seq(Row) /\ RowsDiffer(s2) /\ F = RowsAt(s2, i)
                 /\ \A j : j # i => RowsAt(s2, j) = RowsAt(shownRows, j)
    <3>0. /\ RowsAt(rowsOf, listAsks[n].row.id) = RowsAt(s2, listAsks[n].row.id)
          /\ \A j : j # listAsks[n].row.id => RowsAt(s2, j) = RowsAt(shownRows, j)
          /\ s2 \in Seq(Row) /\ RowsDiffer(s2)
      BY <1>1, <2>3
    <3>1. RowsAreSound(which, rowsOf, s2, t, fm)
      <4>. HIDE DEF i, F, S
      <4>1. listAsks[n].op # "load"
        BY <1>1, <1>12
      <4>2. RowsAreSound(which, rowsOf, shownRows, listAsks, listForm)
        BY DEF RowsSound
      <4>. QED
        BY <1>2, <1>5, <1>7, <2>1, <3>0, <4>1, <4>2, RowAnswered
    <3>. QED
      BY <1>4, <1>7, <1>8, <3>1
  <2>4. PICK z \in RowIds : z = i
    BY <1>3
  <2>5. /\ a.op = "create" => F = {a.row}
        /\ a.op = "add" => S # {} \/ F = {a.row}
        /\ a.op = "update" => IF a.got = <<>> THEN F = S ELSE S # {} /\ F = {a.got[1]}
        /\ a.op = "toggle" => (S = {} => F = {}) /\ \A r \in S : F = {Flipped(r)}
        /\ a.op = "rename" => (S = {} => F = {}) /\ \A r \in S : F = {Named(r, a.row.text)}
        /\ a.op = "delete" => F = {}
        /\ a.op = "upload" => F = S
    BY <2>2 DEF AnswerIs
  <2>6. CASE a.op \in {"create", "add"}
    <3>1. S = {} /\ s2 = Append(shownRows, a.row)
      <4>1. a.op = "create" => S = {}
        BY <1>1, <1>2 DEF RowsSound, RowsAreSound, NewRowsAreNew
      <4>2. a.op = "add" => S = {}
        BY <1>1, <1>3, RowsOfIds
      <4>. QED
        BY <1>9, <2>6, <4>1, <4>2
    <3>2. PICK row \in Row : row = a.row
      BY <1>3
    <3>3. /\ Append(shownRows, row) \in Seq(Row) /\ RowsDiffer(Append(shownRows, row))
          /\ RowsAt(Append(shownRows, row), row.id) = {row}
          /\ \A j : j # row.id => RowsAt(Append(shownRows, row), j) = RowsAt(shownRows, j)
      BY <1>3, <3>1, <3>2, AppendedRow
    <3>4. F = {a.row}
      BY <2>5, <2>6, <3>1
    <3>. QED
      BY <3>1, <3>2, <3>3, <3>4
  <2>7. CASE a.op = "update" /\ a.got # <<>>
    <3>1. PICK row : row = a.got[1]
      OBVIOUS
    <3>2. row \in Row /\ row.id = i /\ S # {} /\ F = {row}
      <4>1. S # {} /\ F = {row}
        BY <2>5, <2>7, <3>1
      <4>2. row \in F
        BY <4>1
      <4>3. row \in Range(rowsOf) /\ row.id = i
        BY <4>2 DEF RowsAt
      <4>4. row \in Row
        BY <1>3, <4>3 DEF Range
      <4>. QED
        BY <4>1, <4>3, <4>4
    <3>3. a.about = i
      BY <1>3, <2>7 DEF IsAskOf
    <3>4. s2 = ReplacedRow(shownRows, row)
      BY <1>9, <2>7, <3>1, <3>2, <3>3 DEF ReplacedRow, RowChanged
    <3>5. /\ ReplacedRow(shownRows, row) \in Seq(Row) /\ RowsDiffer(ReplacedRow(shownRows, row))
          /\ \A r \in RowsAt(shownRows, row.id) :
                RowsAt(shownRows, row.id) = {r} /\ RowsAt(ReplacedRow(shownRows, row), row.id) = {row}
          /\ \A j : j # row.id => RowsAt(ReplacedRow(shownRows, row), j) = RowsAt(shownRows, j)
      BY <1>3, <3>2, RowReplaced
    <3>. QED
      BY <3>2, <3>4, <3>5
  <2>8. CASE a.op = "toggle"
    <3>1. a.about = i
      BY <1>3, <2>8 DEF IsAskOf
    <3>2. s2 = ToggledRow(shownRows, z)
      BY <1>9, <2>4, <2>8, <3>1 DEF ToggledRow
    <3>3. /\ ToggledRow(shownRows, z) \in Seq(Row) /\ RowsDiffer(ToggledRow(shownRows, z))
          /\ (RowsAt(ToggledRow(shownRows, z), z) = {} <=> RowsAt(shownRows, z) = {})
          /\ \A r \in RowsAt(shownRows, z) :
                RowsAt(shownRows, z) = {r} /\ RowsAt(ToggledRow(shownRows, z), z) = {Flipped(r)}
          /\ \A j : j # z => RowsAt(ToggledRow(shownRows, z), j) = RowsAt(shownRows, j)
      <4>1. shownRows \in Seq(Row) /\ RowsDiffer(shownRows)
        BY <1>3
      <4>. HIDE DEF i, F, S
      <4>. QED
        BY <4>1, RowToggled
    <3>4. (S = {} => F = {}) /\ \A r \in S : F = {Flipped(r)}
      BY <2>5, <2>8
    <3>. QED
      BY <2>4, <3>2, <3>3, <3>4
  <2>9. CASE a.op = "rename"
    <3>1. a.about = i
      BY <1>3, <2>9 DEF IsAskOf
    <3>2. PICK x \in RowTexts : x = a.row.text
      BY <1>3, RowIs
    <3>3. s2 = RenamedRow(shownRows, z, x)
      BY <1>9, <2>4, <2>9, <3>1, <3>2 DEF RenamedRow
    <3>4. /\ RenamedRow(shownRows, z, x) \in Seq(Row) /\ RowsDiffer(RenamedRow(shownRows, z, x))
          /\ (RowsAt(RenamedRow(shownRows, z, x), z) = {} <=> RowsAt(shownRows, z) = {})
          /\ \A r \in RowsAt(shownRows, z) :
                RowsAt(shownRows, z) = {r} /\ RowsAt(RenamedRow(shownRows, z, x), z) = {Named(r, x)}
          /\ \A j : j # z => RowsAt(RenamedRow(shownRows, z, x), j) = RowsAt(shownRows, j)
      <4>1. shownRows \in Seq(Row) /\ RowsDiffer(shownRows)
        BY <1>3
      <4>. HIDE DEF i, F, S
      <4>. QED
        BY <4>1, RowRenamed
    <3>5. (S = {} => F = {}) /\ \A r \in S : F = {Named(r, x)}
      BY <2>5, <2>9, <3>2
    <3>. QED
      BY <2>4, <3>3, <3>4, <3>5
  <2>10. CASE a.op = "delete"
    <3>1. a.about = i
      BY <1>3, <2>10 DEF IsAskOf
    <3>2. s2 = Without(shownRows, z)
      BY <1>9, <2>4, <2>10, <3>1
    <3>3. /\ Without(shownRows, z) \in Seq(Row) /\ RowsDiffer(Without(shownRows, z))
          /\ RowsAt(Without(shownRows, z), z) = {}
          /\ \A j : j # z => RowsAt(Without(shownRows, z), j) = RowsAt(shownRows, j)
      BY <1>3, RowRemoved
    <3>4. F = {}
      BY <2>5, <2>10
    <3>. QED
      BY <2>4, <3>2, <3>3, <3>4
  <2>11. CASE a.op = "upload" \/ (a.op = "update" /\ a.got = <<>>)
    <3>1. s2 = shownRows /\ F = S
      BY <1>9, <2>5, <2>11
    <3>. QED
      BY <1>3, <3>1
  <2>12. a.op \in {"create", "update", "toggle", "add", "rename", "delete", "upload"}
    BY <1>3, <1>12 DEF IsAskOf, ListOps
  <2>. QED
    BY <2>6, <2>7, <2>8, <2>9, <2>10, <2>11, <2>12
<1>. QED
  BY <1>11, <1>12

LEMMA RequestFailed ==
    ASSUME RowsSound(listAsks, listForm), NEW n \in DOMAIN listAsks, RequestFails(n),
           ~(listAsks[n].step = "done" \/ listAsks[n].op = "load"
               \/ (listAsks[n].step = "sent" /\ listAsks[n].op \in {"delete", "rename"}))
    PROVE  RowsAreSound(which, rowsOf, shownRows', listAsks', listForm')
<1>2. shownRows' = shownRows
  BY DEF RequestFails
<1>3. listForm \in RowForm /\ listAsks \in Seq(ListAsk)
  BY ListShapes
<1>4. n \in Opened(listAsks) /\ listAsks[n].step # "over" /\ listAsks[n].step # "done"
  BY DEF RequestFails, Opened
<1>5. listAsks[n].step = "sent" /\ listAsks[n].op # "load"
  <2>1. listAsks[n] \in ListAsk
    BY <1>4, AskIs
  <2>2. listAsks[n].step \in {"sent", "done", "over"}
    BY <2>1 DEF ListAsk
  <2>. QED
    BY <1>4, <2>2
<1>6. PICK fm : fm = listForm'
  OBVIOUS
<1>7. fm \in RowForm /\ fm.id \in {listForm.id, 0}
  <2>1. fm \in {Shut, [listForm EXCEPT !.saving = FALSE], listForm}
    BY <1>6 DEF RequestFails
  <2>. QED
    BY <1>3, <2>1, FormsAfter
<1>8. PICK t : t = AskGone(listAsks, n)
  OBVIOUS
<1>9. /\ t \in Seq(ListAsk) /\ DOMAIN t = DOMAIN listAsks
      /\ \A k \in DOMAIN listAsks : k # n => t[k] = listAsks[k]
      /\ t[n].step = "over" /\ listAsks' = t
  BY <1>3, <1>8, AskEnded DEF RequestFails, AskGone
<1>10. RowsAreSound(which, rowsOf, shownRows, listAsks, listForm)
  BY DEF RowsSound
<1>11. RowsAreSound(which, rowsOf, shownRows, t, fm)
  BY <1>5, <1>7, <1>9, <1>10, RowUndone
<1>. QED
  BY <1>2, <1>6, <1>9, <1>11

LEMMA FormMoved ==
    ASSUME RowsSound(listAsks, listForm),
           Add \/ Fill \/ Cancelled \/ \E n \in DOMAIN shownRows : StartEdit(n)
    PROVE  RowsSound(listAsks, listForm')
<1>1. listForm \in RowForm
  BY ListShapes
<1>3. PICK fm : fm = listForm'
  OBVIOUS
<1>4. fm \in RowForm /\ fm.id \in {listForm.id, 0} \cup IdsOf(shownRows)
  <2>1. CASE Add \/ Cancelled
    <3>1. Shut \in RowForm /\ Shut.id = 0
      BY <1>1, FormsAfter
    <3>2. [Shut EXCEPT !.open = TRUE] \in RowForm /\ [Shut EXCEPT !.open = TRUE].id = 0
      BY <3>1 DEF RowForm
    <3>3. fm \in {Shut, [Shut EXCEPT !.open = TRUE]}
      BY <1>3, <2>1 DEF Add, Cancelled
    <3>. QED
      BY <3>1, <3>2, <3>3
  <2>2. CASE Fill
    <3>1. PICK x \in RowTexts : fm = [listForm EXCEPT !.text = x]
      BY <1>3, <2>2 DEF Fill
    <3>2. [listForm EXCEPT !.text = x] \in RowForm /\ [listForm EXCEPT !.text = x].id = listForm.id
      BY <1>1 DEF RowForm
    <3>. QED
      BY <3>1, <3>2
  <2>3. CASE \E n \in DOMAIN shownRows : StartEdit(n)
    <3>0. PICK n \in DOMAIN shownRows : StartEdit(n)
      BY <2>3
    <3>1. fm = [open |-> TRUE, id |-> shownRows[n].id, text |-> shownRows[n].text,
                on |-> shownRows[n].on, saving |-> FALSE]
      BY <1>3, <3>0 DEF StartEdit
    <3>2. shownRows[n].id \in RowIds /\ shownRows[n].id \in IdsOf(shownRows) /\ shownRows[n] \in Row
      BY DrawnRowIs
    <3>3. shownRows[n].text \in RowTexts /\ shownRows[n].on \in BOOLEAN
      BY <3>2, RowIs
    <3>. QED
      BY <3>1, <3>2, <3>3 DEF RowForm
  <2>. QED
    BY <2>1, <2>2, <2>3
<1>5. RowsAreSound(which, rowsOf, shownRows, listAsks, listForm)
  BY DEF RowsSound
<1>6. RowsAreSound(which, rowsOf, shownRows, listAsks, fm)
  BY <1>4, <1>5, FormTurned
<1>. QED
  BY <1>3, <1>6 DEF RowsSound

LEMMA ListsInitially == ListsInit => RowsInv
<1>. SUFFICES ASSUME ListsInit PROVE RowsSound(listAsks, listForm)
  BY DEF RowsInv, RowsSound
<1>1. PICK a : a = [Ended EXCEPT !.op = "load", !.step = "sent"]
  OBVIOUS
<1>2. a \in ListAsk /\ a.op = "load" /\ a.step = "sent"
  <2>1. Ended \in ListAsk
    BY ShapesOfRows
  <2>2. "load" \in {"none"} \cup ListOps.rules \cup ListOps.floors
    BY DEF ListOps
  <2>. QED
    BY <1>1, <2>1, <2>2 DEF ListAsk
<1>3. listAsks = <<a>>
  BY <1>1 DEF ListsInit
<1>4. /\ listAsks \in Seq(ListAsk) /\ DOMAIN listAsks = {1} /\ listAsks[1] = a
  BY <1>2, <1>3
<1>5. Opened(listAsks) = {1}
  BY <1>2, <1>4 DEF Opened
<1>6. which \in {"rules", "floors"} /\ listForm \in RowForm /\ shownRows = <<>>
  BY ShapesOfRows DEF ListsInit
<1>7. /\ rowsOf \in Seq(Row) /\ RowsDiffer(rowsOf)
      /\ which = "floors" => \A r \in Range(rowsOf) : ~r.on
  <2>1. PICK b \in BOOLEAN : b = (which = "rules")
    OBVIOUS
  <2>2. PICK r : r = [First1 EXCEPT !.on = b]
    OBVIOUS
  <2>3. r \in Row /\ r.on = b
    BY <2>2, ShapesOfRows DEF Row
  <2>4. rowsOf \in {<<>>, <<r>>}
    BY <2>1, <2>2 DEF ListsInit
  <2>5. CASE rowsOf = <<>>
    <3>1. rowsOf \in Seq(Row) /\ DOMAIN rowsOf = {}
      BY <2>5
    <3>. QED
      BY <3>1 DEF RowsDiffer, Range, IsInjective
  <2>6. CASE rowsOf = <<r>>
    <3>1. <<r>> \in Seq(Row) /\ Range(<<r>>) = {r} /\ IsInjective(<<r>>)
      BY <2>3, OneIs
    <3>. QED
      BY <2>1, <2>3, <2>6, <3>1 DEF RowsDiffer
  <2>. QED
    BY <2>4, <2>5, <2>6
<1>8. <<>> \in Seq(Row) /\ Range(<<>>) = {} /\ RowsDiffer(<<>>)
  BY DEF Range, RowsDiffer, IsInjective
<1>9. IsAskOf(which, a)
  BY <1>2, <1>6 DEF IsAskOf, ListOps
<1>10. RowsHaveShape(which, rowsOf, shownRows, listAsks, listForm)
  BY <1>4, <1>5, <1>6, <1>7, <1>8, <1>9 DEF RowsHaveShape, AsksHaveShape
<1>11. NewRowsAreNew(rowsOf, shownRows, listAsks, listForm)
  BY <1>2, <1>4, <1>5 DEF NewRowsAreNew
<1>12. AsksFitRows(shownRows, listAsks)
  BY <1>2, <1>4, <1>5 DEF AsksFitRows
<1>13. LoadsAreFresh(rowsOf, shownRows, listAsks)
  BY <1>2, <1>4, <1>5, <1>6 DEF LoadsAreFresh
<1>14. RowsFollow(rowsOf, shownRows, listAsks)
  BY <1>2, <1>4, <1>5 DEF RowsFollow
<1>. QED
  BY <1>10, <1>11, <1>12, <1>13, <1>14 DEF RowsSound, RowsAreSound

LEMMA ListsStep == RowsInv /\ [ListsNext]_listVars => RowsInv'
<1>. SUFFICES ASSUME RowsInv, [ListsNext]_listVars, ~listAstray'
              PROVE  RowsAreSound(which', rowsOf', shownRows', listAsks', listForm')
  BY DEF RowsInv
<1>1. ~listAstray => /\ RowsAreSound(which, rowsOf, shownRows, listAsks, listForm)
                     /\ RowsSound(listAsks, listForm)
  BY DEF RowsInv, RowsSound
<1>2. CASE UNCHANGED listVars
  BY <1>1, <1>2 DEF listVars
<1>3. CASE Add \/ Fill \/ Cancelled \/ \E n \in DOMAIN shownRows : StartEdit(n)
  <2>1. /\ which' = which /\ rowsOf' = rowsOf /\ shownRows' = shownRows /\ listAsks' = listAsks
        /\ ~listAstray
    BY <1>3 DEF Add, Fill, Cancelled, StartEdit
  <2>2. RowsSound(listAsks, listForm')
    BY <1>1, <1>3, <2>1, FormMoved
  <2>. QED
    BY <2>1, <2>2 DEF RowsSound
<1>4. CASE SaveRule \/ AddFloor \/ RenameFloor
           \/ \E n \in DOMAIN shownRows : ToggleRule(n) \/ DeleteListRow(n) \/ UploadModel(n)
  <2>1. /\ which' = which /\ rowsOf' = rowsOf /\ shownRows' = shownRows /\ ~listAstray
    <3>1. \E op, row, about : Requests(op, row, about)
      <4>1. SaveRule \/ AddFloor \/ RenameFloor => \E op, row, about : Requests(op, row, about)
        BY DEF SaveRule, AddFloor, RenameFloor
      <4>2. \A n : ToggleRule(n) \/ DeleteListRow(n) \/ UploadModel(n) =>
                \E op, row, about : Requests(op, row, about)
        BY DEF ToggleRule, DeleteListRow, UploadModel
      <4>. QED
        BY <1>4, <4>1, <4>2
    <3>2. PICK op, row, about : Requests(op, row, about)
      BY <3>1
    <3>. QED
      BY <3>2 DEF Requests
  <2>2. RowsSound(listAsks, listForm)
    BY <1>1, <2>1
  <2>3. RowsSound(listAsks', listForm')
    <3>1. CASE SaveRule
      BY <2>2, <3>1, RuleSaved
    <3>2. CASE AddFloor \/ RenameFloor
      <4>1. listForm' = listForm
        BY <3>2 DEF AddFloor, RenameFloor
      <4>2. RowsSound(listAsks', listForm)
        BY <2>2, <3>2, FloorAdded, FloorRenamed
      <4>. QED
        BY <4>1, <4>2
    <3>3. ASSUME NEW n \in DOMAIN shownRows, ToggleRule(n)
          PROVE  RowsSound(listAsks', listForm')
      <4>1. listForm' = listForm
        BY <3>3 DEF ToggleRule
      <4>2. RowsSound(listAsks', listForm)
        BY <2>2, <3>3, RuleToggled
      <4>. QED
        BY <4>1, <4>2
    <3>4. ASSUME NEW n \in DOMAIN shownRows, DeleteListRow(n)
          PROVE  RowsSound(listAsks', listForm')
      <4>1. listForm' = listForm /\ Requests("delete", shownRows[n], shownRows[n].id)
        BY <3>4 DEF DeleteListRow
      <4>2. which \in {"rules", "floors"}
        BY <2>2, ListShapes
      <4>3. "delete" \in ListOps[which]
        BY <4>2 DEF ListOps
      <4>4. RowsSound(listAsks', listForm)
        BY <2>2, <4>1, <4>3, DrawnRowAsked
      <4>. QED
        BY <4>1, <4>4
    <3>5. ASSUME NEW n \in DOMAIN shownRows, UploadModel(n)
          PROVE  RowsSound(listAsks', listForm')
      <4>1. listForm' = listForm /\ Requests("upload", shownRows[n], shownRows[n].id) /\ which = "floors"
        BY <3>5 DEF UploadModel
      <4>2. "upload" \in ListOps[which]
        BY <4>1 DEF ListOps
      <4>3. RowsSound(listAsks', listForm)
        BY <2>2, <4>1, <4>2, DrawnRowAsked
      <4>. QED
        BY <4>1, <4>3
    <3>. QED
      BY <1>4, <3>1, <3>2, <3>3, <3>4, <3>5
  <2>. QED
    BY <2>1, <2>3 DEF RowsSound
<1>5. ASSUME NEW n \in DOMAIN listAsks, Serve(n)
      PROVE  RowsAreSound(which', rowsOf', shownRows', listAsks', listForm')
  <2>1. which' = which /\ shownRows' = shownRows /\ listForm' = listForm /\ ~listAstray
    BY <1>5 DEF Serve
  <2>2. RowsAreSound(which, rowsOf', shownRows, listAsks', listForm)
    BY <1>1, <1>5, <2>1, RequestServed
  <2>. QED
    BY <2>1, <2>2
<1>6. ASSUME NEW n \in DOMAIN listAsks, Answered(n)
      PROVE  RowsAreSound(which', rowsOf', shownRows', listAsks', listForm')
  <2>1. /\ which' = which /\ rowsOf' = rowsOf /\ ~listAstray /\ ~Races(n)
        /\ ~(listAsks[n].op = "add" /\ listAsks[n].row.id \in IdsOf(shownRows))
    BY <1>6 DEF Answered
  <2>2. RowsAreSound(which, rowsOf, shownRows', listAsks', listForm')
    BY <1>1, <1>6, <2>1, AnswerTaken
  <2>. QED
    BY <2>1, <2>2
<1>7. ASSUME NEW n \in DOMAIN listAsks, RequestFails(n)
      PROVE  RowsAreSound(which', rowsOf', shownRows', listAsks', listForm')
  <2>1. /\ which' = which /\ rowsOf' = rowsOf /\ ~listAstray
        /\ ~(listAsks[n].step = "done" \/ listAsks[n].op = "load"
               \/ (listAsks[n].step = "sent" /\ listAsks[n].op \in {"delete", "rename"}))
    BY <1>7 DEF RequestFails
  <2>2. RowsAreSound(which, rowsOf, shownRows', listAsks', listForm')
    BY <1>1, <1>7, <2>1, RequestFailed
  <2>. QED
    BY <2>1, <2>2
<1>. QED
  BY <1>2, <1>3, <1>4, <1>5, <1>6, <1>7 DEF ListsNext

(* Nothing under way, and the page is the file.                            *)
LEMMA RowsAreTheFile == RowsInv => ListIsFile
<1>. SUFFICES ASSUME RowsInv, Underway = {}, ~listAstray
              PROVE  Range(shownRows) = Range(rowsOf) /\ Len(shownRows) = Len(rowsOf)
  BY DEF ListIsFile
<1>1. RowsSound(listAsks, listForm) /\ RowsFollow(rowsOf, shownRows, listAsks)
  BY DEF RowsInv, RowsSound, RowsAreSound
<1>2. /\ rowsOf \in Seq(Row) /\ IsInjective(rowsOf) /\ shownRows \in Seq(Row) /\ IsInjective(shownRows)
  BY <1>1, ListShapes DEF RowsDiffer
<1>3. ASSUME NEW i \in RowIds PROVE RowsAt(rowsOf, i) = RowsAt(shownRows, i)
  <2>1. DoneAt(listAsks, i) = {} /\ Opened(listAsks) = {}
    BY DEF DoneAt, Opened, Underway
  <2>. QED
    BY <1>1, <2>1 DEF RowsFollow, FollowAt
<1>4. \A r \in Range(rowsOf) \cup Range(shownRows) : r.id \in RowIds
  <2>1. \A r \in Range(rowsOf) \cup Range(shownRows) : r \in Row
    BY <1>2 DEF Range
  <2>. QED
    BY <2>1, RowIs
<1>5. Range(shownRows) = Range(rowsOf)
  <2>1. \A r \in Range(rowsOf) : r \in Range(shownRows)
    <3>. SUFFICES ASSUME NEW r \in Range(rowsOf) PROVE r \in Range(shownRows)
      OBVIOUS
    <3>1. r \in RowsAt(rowsOf, r.id) /\ r.id \in RowIds
      BY <1>4 DEF RowsAt
    <3>2. r \in RowsAt(shownRows, r.id)
      BY <1>3, <3>1
    <3>. QED
      BY <3>2 DEF RowsAt
  <2>2. \A r \in Range(shownRows) : r \in Range(rowsOf)
    <3>. SUFFICES ASSUME NEW r \in Range(shownRows) PROVE r \in Range(rowsOf)
      OBVIOUS
    <3>1. r \in RowsAt(shownRows, r.id) /\ r.id \in RowIds
      BY <1>4 DEF RowsAt
    <3>2. r \in RowsAt(rowsOf, r.id)
      BY <1>3, <3>1
    <3>. QED
      BY <3>2 DEF RowsAt
  <2>. QED
    BY <2>1, <2>2
<1>6. Cardinality(Range(rowsOf)) = Len(rowsOf) /\ Cardinality(Range(shownRows)) = Len(shownRows)
  BY <1>2, LengthCounts
<1>. QED
  BY <1>5, <1>6

(* What the lists of the settings and the integrations page show is what   *)
(* their files say once every answer is in, unless answers raced for one   *)
(* row or one was not looked at (ListIsFile).                              *)
THEOREM ListsAreTheirFiles == ListsSpec => []ListIsFile
<1>1. ListsSpec => []RowsInv
  <2>1. ListsInit => RowsInv
    BY ListsInitially
  <2>2. RowsInv /\ [ListsNext]_listVars => RowsInv'
    BY ListsStep
  <2>. QED
    BY <2>1, <2>2, PTL DEF ListsSpec
<1>. QED
  BY <1>1, RowsAreTheFile, PTL
=============================================================================

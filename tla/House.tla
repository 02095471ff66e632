------------------------------- MODULE House --------------------------------
(***************************************************************************)
(* The pages, cards and overlays of the web UI, each with the requests it  *)
(* makes and the part of the server that answers them.  Each keeps its own *)
(* state and meets the others only in the states of the entities, which    *)
(* StateMachine and HaContext are about: a behaviour is about one of them, *)
(* and the others rest.                                                    *)
(***************************************************************************)
EXTENDS ConfigFile, AutomationFile, Assistant, Cards, FloorPlans, Auth, Plugins, CameraViews,
        Pages

CONSTANTS Parts     \* the parts behaviours may be about

VARIABLE part

houseVars == <<part, cfgVars, autoVars, micVars, cardsVars, sceneVars, touchVars, mapVars,
               loginVars, tokVars, listVars, pluginVars, panelVars, bellVars, tileVars,
               chartVars, sectVars, barVars>>

About(p) == part = p

Some(S) == CHOOSE x \in S : TRUE

(* A part that rests starts in its simplest state.                         *)
HouseInit ==
    /\ part \in Parts
    /\ CfgInit      /\ (~About("config") => /\ \A i \in Known : disk.conf[i] = Some(Settings)
                                            /\ cfgRuns.tabs = Some(Tabs))
    /\ AutoInit     /\ (~About("automations") => autoFile.entries = <<Some(Hand)>>)
    /\ MicInit
    /\ CardsInit    /\ (~About("cards") => /\ card = Some(Layouts)
                                           /\ entity.state = "off" /\ keeps)
    /\ SceneInit    /\ (~About("scene") => lit = {} /\ filter = Some(Filters))
    /\ TouchInit    /\ (~About("touch") => real = Some(Fixture))
    /\ MapInit      /\ (~About("map") => met = {})
    /\ LoginInit
    /\ TokensInit   /\ (~About("tokens") => rows = <<>>)
    /\ ListsInit    /\ (~About("lists") => which = "rules" /\ rowsOf = <<>>)
    /\ PluginsInit  /\ (~About("plugins") => \A d \in Dirs : pluginDisk[d] = 0)
    /\ PanelInit    /\ (~About("panel") => /\ dashboardFile = EmptyDashboard /\ cat = Home
                                           /\ \A s \in Sensors : doors[s] = "off")
    /\ BellInit     /\ (~About("doorbell") => \A b \in Bells : bell[b] = "off")
    /\ TileInit
    /\ ChartInit    /\ (~About("charts") => chosen = Some(Selections))
    /\ SectInit     /\ (~About("sections") => \A t \in Members : placed[t] = NoRoom)
    /\ BarInit      /\ (~About("shortcuts") => bar = <<>>)

(* What a part's step leaves to the parts that rest.                       *)
Unless(p, vars) == IF About(p) THEN TRUE ELSE UNCHANGED vars

OthersRest ==
    /\ UNCHANGED part
    /\ Unless("config", cfgVars)        /\ Unless("automations", autoVars)
    /\ Unless("assistant", micVars)     /\ Unless("cards", cardsVars)
    /\ Unless("scene", sceneVars)       /\ Unless("touch", touchVars)
    /\ Unless("map", mapVars)           /\ Unless("login", loginVars)
    /\ Unless("tokens", tokVars)        /\ Unless("lists", listVars)
    /\ Unless("plugins", pluginVars)    /\ Unless("panel", panelVars)
    /\ Unless("doorbell", bellVars)     /\ Unless("tile", tileVars)
    /\ Unless("charts", chartVars)      /\ Unless("sections", sectVars)
    /\ Unless("shortcuts", barVars)

HouseNext ==
    \/ About("config")      /\ CfgNext      /\ OthersRest
    \/ About("automations") /\ AutoNext     /\ OthersRest
    \/ About("assistant")   /\ MicNext      /\ OthersRest
    \/ About("cards")       /\ CardsNext    /\ OthersRest
    \/ About("scene")       /\ SceneNext    /\ OthersRest
    \/ About("touch")       /\ TouchNext    /\ OthersRest
    \/ About("map")         /\ MapNext      /\ OthersRest
    \/ About("login")       /\ LoginNext    /\ OthersRest
    \/ About("tokens")      /\ TokensNext   /\ OthersRest
    \/ About("lists")       /\ ListsNext    /\ OthersRest
    \/ About("plugins")     /\ PluginsNext  /\ OthersRest
    \/ About("panel")       /\ PanelNext    /\ OthersRest
    \/ About("doorbell")    /\ BellNext     /\ OthersRest
    \/ About("tile")        /\ TileNext     /\ OthersRest
    \/ About("charts")      /\ ChartNext    /\ OthersRest
    \/ About("sections")    /\ SectNext     /\ OthersRest
    \/ About("shortcuts")   /\ BarNext      /\ OthersRest

HouseSpec == HouseInit /\ [][HouseNext]_houseVars

-----------------------------------------------------------------------------
(* The state has the shape the code gives it; a part that rests is as it   *)
(* may start when it is the one a behaviour is about.                      *)
HouseTypeOK ==
    /\ part \in Parts
    /\ (About("config") => CfgTypeOK)           /\ (About("automations") => AutoTypeOK)
    /\ (About("assistant") => MicTypeOK)        /\ (About("cards") => CardsTypeOK)
    /\ (About("scene") => SceneTypeOK)          /\ (About("touch") => TouchTypeOK)
    /\ (About("map") => MapTypeOK)              /\ (About("login") => LoginTypeOK)
    /\ (About("tokens") => TokensTypeOK)        /\ (About("lists") => ListsTypeOK)
    /\ (About("plugins") => PluginsTypeOK)      /\ (About("panel") => PanelTypeOK)
    /\ (About("doorbell") => BellTypeOK)        /\ (About("tile") => TileTypeOK)
    /\ (About("charts") => ChartTypeOK)         /\ (About("sections") => SectTypeOK)
    /\ (About("shortcuts") => BarTypeOK)

(* What runs is what the disk says: configuration and build, the           *)
(* automations and the plugins, whoever wrote the files and in whatever    *)
(* order; and a page that writes a file loses nothing of it.               *)
RunsWhatIsOnDisk ==
    /\ [](RunsWhatIsThere /\ EngineFollowsFile /\ MemoryIsDisk)
    /\ AppliedIsRunning /\ BrokenTextStopsNone /\ SaveKeepsOthers

(* A control at rest shows what the house has and the house has what was   *)
(* asked for last, by finger or by voice, in spite of echoes, failures and *)
(* other hands.                                                            *)
ControlsAreTrue ==
    /\ CardsAgree /\ FingerLeads /\ LastGestureCounts
    /\ PlanIsTrue /\ PicksAreKept /\ AllWereTried

(* A page that waits for nothing shows what the server has for its present *)
(* selection, whatever answers came late or out of order.                  *)
PagesShowWhatThereIs ==
    /\ [](/\ KnownAreInScene /\ OneModel /\ TokensAreListed /\ ListIsFile
          /\ ChartIsChosen /\ ShowsWhatItOffers /\ EveryThingIsDrawn)
    /\ NewsOnly /\ OthersKeepOrder

(* What the user has ended is over: recorders, players, bells and timers   *)
(* do not outlive the press that closed them.                              *)
EndedIsOver ==
    /\ MicIsReleased /\ CancelledIsNotSent /\ CancelEndsIt
    /\ QuietOnceClosed /\ OnePlayer /\ PeersAreHeld /\ TapsAreNotHolds

(* The doors hold: attempts are bounded, the printed password is the one   *)
(* that opens, and a revoked token stays revoked.                          *)
AccountsHold == LimiterBounds /\ PrintedPasswordWorks /\ RevokedStaysRevoked
=============================================================================

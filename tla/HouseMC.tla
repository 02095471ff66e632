------------------------------ MODULE HouseMC -------------------------------
(* A small instance of House for TLC.                                      *)
EXTENDS House

CONSTANTS p, q, d1, d2, m1, m2, l2, p1, b1, b2, c1, c2, c3, a1, vis, sg

MCParts == {"config", "automations", "assistant", "cards", "scene", "touch", "map",
            "login", "tokens", "lists", "plugins", "panel", "doorbell", "tile",
            "charts", "sections", "shortcuts"}

(* ConfigFile, AutomationFile                                              *)
MCTabs   == {{"forms", "yaml"}, {"forms", "backup"}, {"forms", "ota"}}
MCKeysOf == [e \in {a1, vis, sg} |-> CASE e = a1 -> {"trigger", "action"}
                                       [] e = vis -> {"trigger"}
                                       [] e = sg -> {"action"}]

(* Cards: what the two panels that show one entity are                     *)
Pair(x, y) == [panel \in {p, q} |-> IF panel = p THEN x ELSE y]
MCLayouts  == {Pair("tile", "ring"), Pair("theater", "player"), Pair("mring", "mring"),
               Pair("nest", "nest"), Pair("number", "number"), Pair("fan", "fan"),
               Pair("cover", "cover"), Pair("switch", "switch")}

(* PlanScene, PlanMap, Plugins                                             *)
MCSortOf  == [x \in {l2, d2, p1} |-> CASE x = l2 -> "light" [] x = d2 -> "sensor"
                                       [] x = p1 -> "player"]
MCFloorOf == [x \in {l2, d2, p1} |-> IF x = l2 THEN 2 ELSE 1]
MCFilters == {{}}
MCMeshOf  == [d \in {d1, d2} |-> IF d = d1 THEN m1 ELSE Untagged]
MCPluginDomain == [d \in {d1, d2} |-> IF d = d1 THEN d1 ELSE m2]

(* Panel, Doorbell, Charts, Sections                                       *)
MCCats    == <<"security", "lights", "garage">>
MCViewsOf == [d \in {"all", "two", "odd", "empty", "bad"} |->
                CASE d = "all" -> <<"lights", "security", "garage">>
                  [] d = "two" -> <<"garage", "lights">>
                  [] d = "odd" -> <<"pool", "garage">>
                  [] OTHER -> <<>>]
MCCameraOf == [b \in {b1, b2} |-> IF b = b1 THEN "porch" ELSE "gate"]
MCLockOf   == [b \in {b1, b2} |-> IF b = b1 THEN "lock" ELSE "none"]
MCPoints   == [c \in {c1, c2, c3} |-> CASE c = c1 -> 3 [] c = c2 -> 5 [] c = c3 -> 1]
MCRooms    == <<"kitchen", "hall">>
=============================================================================

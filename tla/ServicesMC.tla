----------------------------- MODULE ServicesMC -----------------------------
(* A small instance of Services for TLC.                                   *)
EXTENDS Services

CONSTANTS zo, zh, ta, tl, ts, ti, tf, tt, tu, tn

MCKinds == {"camera", "webrtc", "schedule", "sun", "doors", "power", "geofence", "push",
            "platforms", "registry"}

(* Geofence, Push                                                          *)
MCShapes == {{zo}, {zo, zh}}
MCRuleOf == [r \in {"early", "late"} |-> "opened"]

(* Platforms: ta is demo's lamp, tl and ts are the light and switch      *)
(* platforms', ti is a switch of isy994, tn a scene of ta and ts.         *)
MCDomainOf   == [e \in {ta, tl, ts, ti, tf, tt, tu, tn} |->
                   CASE e \in {ta, tl} -> "light" [] e \in {ts, ti} -> "switch"
                     [] e = tf -> "fan" [] e = tt -> "sensor"
                     [] e = tu -> "binary_sensor" [] e = tn -> "scene"]
MCPlatformOf == [e \in {ta, tl, ts, ti, tf, tt, tu, tn} |->
                   CASE e = ta -> "demo" [] e = ti -> "isy994"
                     [] OTHER -> MCDomainOf[e]]
MCScene      == [e \in {ta, ts} |-> IF e = ts THEN "on" ELSE "off"]
MCConfigs    == {<<"light", "isy994">>, <<"isy994", "demo">>,
                 <<"nosuch", "switch", "sensor", "binary_sensor">>,
                 <<"switch", "scene">>, <<"fan", "light">>}
=============================================================================

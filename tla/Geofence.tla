------------------------------ MODULE Geofence ------------------------------
(***************************************************************************)
(* Zones and who is in them: GeofenceService on the server, GeofencePage   *)
(* on each phone.  A report of a position is a chain of database calls and *)
(* pushes; zones are made, resized and deleted in between.                 *)
(***************************************************************************)
EXTENDS Integers, FiniteSets, FiniteSetsExt

CONSTANTS Phones, Places,
          MaxZone,        \* zones are numbered 1, 2, ... as the table does
          Shapes,         \* the sets of places a zone may cover
          MaxWalks,       \* how often a phone moves
          MaxZoneEdits,   \* how often a zone is made, resized or deleted
          MaxReports      \* how many reports are sent

ASSUME GeofenceAssumption == MaxZone \in Nat \ {0} /\ Shapes \subseteq SUBSET Places

VARIABLES
    zone,           \* id -> the places within radiusMeters; {} for no zone
    nextZone,       \* the next id
    geoStored,         \* DeviceLocationEntity.zoneId per phone; 0 for null
    report,         \* the updateLocation() of each phone that is under way
    zoneState,      \* the entity zone.<name>
    told,           \* "Zone Entered" less "Zone Left" notices, per phone and zone
    phone,          \* the page on the phone: place, myPos, tracking, ...
    geo             \* how much has happened

geofenceVars == <<zone, nextZone, geoStored, report, zoneState, told, phone, geo>>

ZoneIds == 1 .. MaxZone
Nowhere == "nowhere"        \* myPos = null
NoReport == [step |-> "none", place |-> Nowhere, matched |-> 0, prev |-> 0]
Exists(z) == z \in ZoneIds /\ zone[z] # {}

(* There is one zone already.                                              *)
GeofenceInit ==
    /\ \E s \in Shapes : zone = [z \in ZoneIds |-> IF z = 1 THEN s ELSE {}]
    /\ nextZone = 2
    /\ geoStored = [d \in Phones |-> 0]
    /\ report = [d \in Phones |-> NoReport]
    /\ zoneState = [z \in ZoneIds |-> "none"]
    /\ told = [d \in Phones |-> [z \in ZoneIds |-> 0]]
    /\ \E p \in Places :
          phone = [d \in Phones |-> [place |-> p, myPos |-> Nowhere,
                       tracking |-> FALSE, captured |-> Nowhere, asked |-> FALSE]]
    /\ geo = [moves |-> 0, edits |-> 0, reports |-> 0]

-----------------------------------------------------------------------------
(* The zones.                                                              *)
ZoneEdit == /\ geo.edits < MaxZoneEdits
            /\ geo' = [geo EXCEPT !.edits = @ + 1]
            /\ UNCHANGED <<geoStored, report, zoneState, told, phone>>

CreateZone == /\ ZoneEdit /\ nextZone \in ZoneIds
              /\ \E s \in Shapes : zone' = [zone EXCEPT ![nextZone] = s]
              /\ nextZone' = nextZone + 1

UpdateZone == /\ ZoneEdit
              /\ \E z \in ZoneIds, s \in Shapes :
                    Exists(z) /\ zone' = [zone EXCEPT ![z] = s]
              /\ UNCHANGED nextZone

DeleteZone == /\ ZoneEdit
              /\ \E z \in ZoneIds : Exists(z) /\ zone' = [zone EXCEPT ![z] = {}]
              /\ UNCHANGED nextZone

-----------------------------------------------------------------------------
(* The page.  A report leaves while none of this phone is under way: they  *)
(* are 30 s apart, or follow a press of a button.                          *)
Report(d, p) ==
    /\ report[d] = NoReport /\ geo.reports < MaxReports
    /\ report' = [report EXCEPT ![d] = [NoReport EXCEPT !.step = "zones", !.place = p]]
    /\ geo' = [geo EXCEPT !.reports = @ + 1]
    /\ UNCHANGED <<zone, nextZone, geoStored, zoneState, told>>

OnPhone(d) == UNCHANGED <<zone, nextZone, geoStored, report, zoneState, told, geo>>

Walk(d) == /\ geo.moves < MaxWalks
           /\ \E p \in Places : phone' = [phone EXCEPT ![d].place = p]
           /\ geo' = [geo EXCEPT !.moves = @ + 1]
           /\ UNCHANGED <<zone, nextZone, geoStored, report, zoneState, told>>

(* startTracking(): the interval keeps the myPos of this render.           *)
StartTracking(d) ==
    /\ ~phone[d].tracking
    /\ phone' = [phone EXCEPT ![d].tracking = TRUE, ![d].captured = phone[d].myPos,
                              ![d].asked = TRUE]
    /\ OnPhone(d)

StopTracking(d) ==
    /\ phone[d].tracking
    /\ phone' = [phone EXCEPT ![d].tracking = FALSE, ![d].captured = Nowhere]
    /\ OnPhone(d)

WatchPosition(d) ==
    /\ phone[d].tracking
    /\ phone' = [phone EXCEPT ![d].myPos = phone[d].place]
    /\ OnPhone(d)

(* The answer to getCurrentPosition(): also after tracking was stopped.    *)
CurrentPosition(d) ==
    /\ phone[d].asked
    /\ phone' = [phone EXCEPT ![d].asked = FALSE, ![d].myPos = phone[d].place]
    /\ Report(d, phone[d].place)

(* The 30 s interval: it reports what it captured, not what myPos is now.  *)
ReportInterval(d) ==
    /\ phone[d].tracking /\ phone[d].captured # Nowhere
    /\ Report(d, phone[d].captured)
    /\ UNCHANGED phone

-----------------------------------------------------------------------------
(* updateLocation(), await by await.                                       *)
Step(d, old, new) ==
    /\ report[d].step = old
    /\ report' = [report EXCEPT ![d] = new]
    /\ UNCHANGED <<zone, nextZone, phone, geo>>

(* The first zone that contains the place.                                 *)
FindZone(d) ==
    LET within == {z \in ZoneIds : report[d].place \in zone[z]}
    IN /\ Step(d, "zones", [report[d] EXCEPT !.step = "previous",
                     !.matched = IF within = {} THEN 0 ELSE Min(within)])
       /\ UNCHANGED <<geoStored, zoneState, told>>

ReadPrevious(d) ==
    /\ Step(d, "previous", [report[d] EXCEPT !.step = "upsert", !.prev = geoStored[d]])
    /\ UNCHANGED <<geoStored, zoneState, told>>

(* Faulty variant: a move from one zone into another is no crossing.       *)
UpsertHomeOrAway(d) ==
    LET r == report[d]
    IN /\ Step(d, "upsert", IF (r.matched = 0) = (r.prev = 0) THEN NoReport
                            ELSE [r EXCEPT !.step = IF r.matched # 0 THEN "entered"
                                                                     ELSE "left"])
       /\ geoStored' = [geoStored EXCEPT ![d] = r.matched]
       /\ UNCHANGED <<zoneState, told>>
Upsert(d) ==
    LET r == report[d]
    IN /\ Step(d, "upsert", IF r.matched = r.prev THEN NoReport
                            ELSE [r EXCEPT !.step = IF r.matched # 0 THEN "entered"
                                                                     ELSE "left"])
       /\ geoStored' = [geoStored EXCEPT ![d] = r.matched]
       /\ UNCHANGED <<zoneState, told>>

(* The push is awaited, then the state is set.                             *)
Entered(d) ==
    LET r == report[d]
    IN /\ Step(d, "entered", IF r.prev = 0 THEN NoReport ELSE [r EXCEPT !.step = "left"])
       /\ told' = [told EXCEPT ![d][r.matched] = @ + 1]
       /\ zoneState' = [zoneState EXCEPT ![r.matched] = "home"]
       /\ UNCHANGED geoStored

(* Faulty variant: a move from one zone into another leaves the first one  *)
(* as it is.                                                               *)
LeftForNowhere(d) ==
    LET r == report[d]
    IN /\ Step(d, "left", NoReport)
       /\ IF Exists(r.prev) /\ r.matched = 0
          THEN /\ told' = [told EXCEPT ![d][r.prev] = @ - 1]
               /\ zoneState' = [zoneState EXCEPT ![r.prev] = "not_home"]
          ELSE UNCHANGED <<told, zoneState>>
       /\ UNCHANGED geoStored

(* Nothing is told of a zone that was deleted.                             *)
Left(d) ==
    LET r == report[d]
    IN /\ Step(d, "left", NoReport)
       /\ IF Exists(r.prev)
          THEN /\ told' = [told EXCEPT ![d][r.prev] = @ - 1]
               /\ zoneState' = [zoneState EXCEPT ![r.prev] = "not_home"]
          ELSE UNCHANGED <<told, zoneState>>
       /\ UNCHANGED geoStored

UpdateLocation(d) == FindZone(d) \/ ReadPrevious(d) \/ Upsert(d) \/ Entered(d) \/ Left(d)

GeofenceNext ==
    \/ CreateZone \/ UpdateZone \/ DeleteZone
    \/ \E d \in Phones : \/ Walk(d) \/ StartTracking(d) \/ StopTracking(d)
                         \/ WatchPosition(d) \/ CurrentPosition(d)
                         \/ ReportInterval(d) \/ UpdateLocation(d)

GeofenceSpec == GeofenceInit /\ [][GeofenceNext]_geofenceVars

-----------------------------------------------------------------------------
(* The state has the shape the code gives it.                              *)
GeofenceTypeOK ==
    /\ zone \in [ZoneIds -> SUBSET Places] /\ nextZone \in 1 .. MaxZone + 1
    /\ geoStored \in [Phones -> 0 .. MaxZone]
    /\ report \in [Phones -> [step : {"none", "zones", "previous", "upsert",
                                      "entered", "left"},
                              place : Places \cup {Nowhere},
                              matched : 0 .. MaxZone, prev : 0 .. MaxZone]]
    /\ zoneState \in [ZoneIds -> {"none", "home", "not_home"}]
    /\ told \in [Phones -> [ZoneIds -> Int]]
    /\ phone \in [Phones -> [place : Places, myPos : Places \cup {Nowhere},
                     tracking : BOOLEAN, captured : Places \cup {Nowhere},
                     asked : BOOLEAN]]

(* Arrivals and departures alternate: of every phone and zone there was    *)
(* one arrival more than departures when the phone is stored there, and as *)
(* many when it is not, whatever zones overlap, change and move while the  *)
(* reports are under way.  (Departures from a deleted zone are not told.)  *)
CrossingsAlternate ==
    \A d \in Phones, z \in ZoneIds :
        report[d] = NoReport /\ Exists(z) =>
            told[d][z] = IF geoStored[d] = z THEN 1 ELSE 0

(* A zone that shows home has somebody in it: whoever crossed its border   *)
(* last came in and is still stored there.  (The converse does not hold:   *)
(* the first of two to leave sets not_home.)                               *)
HomeMeansPresent ==
    \A z \in ZoneIds :
        Exists(z) /\ zoneState[z] = "home" /\ (\A d \in Phones : report[d] = NoReport)
            => \E d \in Phones : geoStored[d] = z

(* Who came and went is told once, and a zone that shows home is not       *)
(* empty.                                                                  *)
CrossingsAreTold == CrossingsAlternate /\ HomeMeansPresent
=============================================================================

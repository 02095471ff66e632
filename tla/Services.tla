------------------------------ MODULE Services ------------------------------
(***************************************************************************)
(* The services of the server that live on timers, child processes, the    *)
(* database and the start of the integrations, side by side.  They do not  *)
(* wait for one another (what Watchers and Geofence report goes to Push    *)
(* without an await), so a behaviour is about one of them, and the others  *)
(* rest.                                                                   *)
(***************************************************************************)
EXTENDS CameraStream, Webrtc, Schedule, Watchers, Geofence, Push, Platforms, Registry

CONSTANTS Kinds     \* the services behaviours may be about

VARIABLE service

servicesVars == <<service, cameraVars, webrtcVars, scheduleVars, watcherVars, geofenceVars,
                  pushVars, platVars, regVars>>

Is(kind) == service = kind

Some(S) == CHOOSE x \in S : TRUE

(* A service that rests starts in its simplest state.                      *)
ServicesInit ==
    /\ service \in Kinds
    /\ CameraInit /\ WebrtcInit
    /\ (~Is("webrtc") => GetStreams = {} /\ go2rtc = "none")
    /\ ScheduleInit
    /\ (~Is("schedule") => setpoint = [c \in Climates |-> Some(Temps)])
    /\ WatchersInit
    /\ (~Is("sun") => sun.minute = 0 /\ sun.rise = 1 /\ sun.set = Half)
    /\ GeofenceInit
    /\ (~Is("geofence") => /\ zone[1] = Some(Shapes)
                           /\ \A g \in Phones : phone[g].place = Some(Places))
    /\ PushInit
    /\ (~Is("push") => rules = {})
    /\ PlatInit
    /\ (~Is("platforms") => config = WithDemo(Some(Configs)))
    /\ RegInit

CameraActs   == Is("camera")    /\ CameraNext
WebrtcActs   == Is("webrtc")    /\ WebrtcNext
ScheduleActs == Is("schedule")  /\ ScheduleNext
SunActs      == Is("sun")       /\ SunTick
DoorsAct     == Is("doors")     /\ power' = power /\ (DoorChanges \/ AnomalyTick)
PowerActs    == Is("power")     /\ AnomalyTick
GeofenceActs == Is("geofence")  /\ GeofenceNext
PushActs     == Is("push")      /\ PushNext
LoaderActs   == Is("platforms") /\ PlatNext
RegistryActs == Is("registry")  /\ RegNext

(* What a step of one leaves to the others.                                *)
Unless(kinds, vars) == IF service \in kinds THEN TRUE ELSE UNCHANGED vars

OthersRest ==
    /\ UNCHANGED service
    /\ Unless({"camera"}, cameraVars)     /\ Unless({"webrtc"}, webrtcVars)
    /\ Unless({"schedule"}, scheduleVars) /\ Unless({"sun", "doors", "power"}, watcherVars)
    /\ Unless({"geofence"}, geofenceVars) /\ Unless({"push"}, pushVars)
    /\ Unless({"platforms"}, platVars)    /\ Unless({"registry"}, regVars)

ServicesNext ==
    \/ CameraActs   /\ OthersRest
    \/ WebrtcActs   /\ OthersRest
    \/ ScheduleActs /\ OthersRest
    \/ SunActs      /\ OthersRest
    \/ DoorsAct     /\ OthersRest
    \/ PowerActs    /\ OthersRest
    \/ GeofenceActs /\ OthersRest
    \/ PushActs     /\ OthersRest
    \/ LoaderActs   /\ OthersRest
    \/ RegistryActs /\ OthersRest

(* Timers fire, child processes are reaped and calls return; nothing is    *)
(* assumed of people, cameras and push services.                           *)
ServicesFairness == /\ WF_cameraVars(CameraWorks) /\ WF_webrtcVars(WebrtcWorks)
                    /\ WF_scheduleVars(Is("schedule") /\ ApplyTick)
                    /\ WF_scheduleVars(ApplyNext)
                    /\ WF_scheduleVars(Is("schedule") /\ IntegrationLoaded)

ServicesSpec == ServicesInit /\ [][ServicesNext]_servicesVars /\ ServicesFairness

-----------------------------------------------------------------------------
(* The state has the shape the code gives it; a service that rests is as   *)
(* it may start when it is the one a behaviour is about.                   *)
ServicesTypeOK ==
    /\ service \in Kinds
    /\ (Is("camera") => CameraTypeOK)     /\ (Is("webrtc") => WebrtcTypeOK)
    /\ (Is("schedule") => ScheduleTypeOK) /\ WatchersTypeOK
    /\ (Is("geofence") => GeofenceTypeOK) /\ (Is("push") => PushTypeOK)
    /\ (Is("platforms") => PlatTypeOK)    /\ (Is("registry") => RegTypeOK)

(* Whoever watches gets a picture, by either of the two ways, from a       *)
(* process that the server still knows.                                    *)
StreamsAreServed == ViewerIsServed /\ HlsFollowsStreams /\ []EntryIsBacked
=============================================================================

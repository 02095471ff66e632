------------------------------- MODULE Webrtc -------------------------------
(***************************************************************************)
(* WebrtcService and WebrtcController: the streams known to go2rtc, and    *)
(* one ffmpeg per stream that keeps /tmp/ha_hls/<name>/ filled.  The HLS   *)
(* processes come with delay timers nobody can cancel, a restart timer per *)
(* name, and close events that find their process by its name.             *)
(***************************************************************************)
EXTENDS Naturals, FiniteSets

CONSTANTS Streams,        \* stream names
          MaxEdits,       \* how often a stream is added or removed
          MaxHlsExits,    \* how often an ffmpeg exits though its stream exists
          MaxHls          \* ffmpegs of one name that exist at a time

ASSUME WebrtcAssumption == MaxHls \in Nat

VARIABLES
    streams,        \* the names of getStreams(), by "integration" or "manual"
    go2rtc,         \* "none", "starting", "up", "dead"
    go2rtcReady,
    startAll,       \* the timer that starts every stream: "unset", "set", "done"
    starting,       \* pending 4 s timers, by name
    hls,            \* the live ffmpegs of a name: a set of ids
    hlsProcesses,   \* the id in the map, 0 for none
    hlsClosing,     \* exited or killed ffmpegs whose close event is to come
    hlsRestartTimers,  \* the name has an entry in the map
    restarting,     \* the pending restart timers of the name
    rtc             \* how often streams were edited, how often ffmpegs exited

webrtcVars == <<streams, go2rtc, go2rtcReady, startAll, starting, hls,
                hlsProcesses, hlsClosing, hlsRestartTimers, restarting, rtc>>

HlsIds == 1 .. MaxHls
GetStreams == streams.integration \cup streams.manual

(* The bootstrap: the integrations registered their streams before,        *)
(* loadManualStreams() found others in its file, and ensureBinary() may    *)
(* have found no go2rtc for this platform.                                 *)
WebrtcInit ==
    /\ streams \in [integration : SUBSET Streams, manual : SUBSET Streams]
    /\ streams.integration \cap streams.manual = {}
    /\ go2rtc \in {"none", "starting"}
    /\ go2rtcReady = FALSE
    /\ startAll = "unset"
    /\ starting = [n \in Streams |-> 0]
    /\ hls = [n \in Streams |-> {}]
    /\ hlsProcesses = [n \in Streams |-> 0]
    /\ hlsClosing = [n \in Streams |-> {}]
    /\ hlsRestartTimers = [n \in Streams |-> FALSE]
    /\ restarting = [n \in Streams |-> 0]
    /\ rtc = [edits |-> 0, exits |-> 0]

(* startHlsForStream() for the names N: no name twice, and no question     *)
(* whether the stream still exists.                                        *)
StartHls(N) ==
    LET fresh(n) == CHOOSE i \in HlsIds : i \notin hls[n] \cup hlsClosing[n]
        new == {n \in N : hlsProcesses[n] = 0}
    IN /\ \A n \in new : HlsIds # hls[n] \cup hlsClosing[n]
       /\ hls' = [n \in Streams |-> IF n \in new THEN hls[n] \cup {fresh(n)}
                                                 ELSE hls[n]]
       /\ hlsProcesses' = [n \in Streams |-> IF n \in new THEN fresh(n)
                                                          ELSE hlsProcesses[n]]

(* stopHlsForStream(): only the latest restart timer of a name is known.   *)
StopHls(n) ==
    /\ restarting' = [restarting EXCEPT ![n] = IF hlsRestartTimers[n] THEN @ - 1 ELSE @]
    /\ hlsRestartTimers' = [hlsRestartTimers EXCEPT ![n] = FALSE]
    /\ hls' = [hls EXCEPT ![n] = @ \ {hlsProcesses[n]}]
    /\ hlsClosing' = [hlsClosing EXCEPT ![n] = @ \cup ({hlsProcesses[n]} \cap hls[n])]
    /\ hlsProcesses' = [hlsProcesses EXCEPT ![n] = 0]

Edited == rtc.edits < MaxEdits /\ rtc' = [rtc EXCEPT !.edits = @ + 1]

(* Faulty variant: a new stream is left to the next start of go2rtc.       *)
AddWithoutStart(source, n) ==
    /\ Edited
    /\ n \in GetStreams => n \in streams[source]
    /\ streams' = [streams EXCEPT ![source] = @ \cup {n}]
    /\ UNCHANGED <<go2rtc, go2rtcReady, startAll, starting, hls, hlsProcesses,
                   hlsClosing, hlsRestartTimers, restarting>>

(* registerIntegrationStream() and addStream(): a 4 s timer starts the HLS *)
(* process, unless go2rtc is not ready, for then the start of all streams  *)
(* is still to come (or there is no go2rtc).  No manual stream gets the    *)
(* name of a camera's: removing the one would stop the other.              *)
AddStream(source, n) ==
    /\ Edited
    /\ n \in GetStreams => n \in streams[source]
    /\ streams' = [streams EXCEPT ![source] = @ \cup {n}]
    /\ starting' = IF go2rtcReady THEN [starting EXCEPT ![n] = @ + 1] ELSE starting
    /\ UNCHANGED <<go2rtc, go2rtcReady, startAll, hls, hlsProcesses, hlsClosing,
                   hlsRestartTimers, restarting>>

(* unregisterIntegrationStream(), of a name that teardown() registered,    *)
(* and removeStream().                                                     *)
RemoveStream(source, n) ==
    /\ Edited
    /\ n \in streams[source]
    /\ streams' = [streams EXCEPT ![source] = @ \ {n}]
    /\ StopHls(n)
    /\ UNCHANGED <<go2rtc, go2rtcReady, startAll, starting>>

(* startGo2rtc(): ready when it says that it listens, or after 3 s; 2 s    *)
(* later every stream is started.                                          *)
Go2rtcListens ==
    /\ go2rtc = "starting" /\ ~go2rtcReady
    /\ go2rtcReady' = TRUE
    /\ UNCHANGED <<streams, go2rtc, startAll, starting, hls, hlsProcesses, hlsClosing,
                   hlsRestartTimers, restarting, rtc>>

Go2rtcStarted ==
    /\ go2rtc \in {"starting", "dead"} /\ startAll = "unset"
    /\ go2rtc' = IF go2rtc = "starting" THEN "up" ELSE go2rtc
    /\ go2rtcReady' = TRUE
    /\ startAll' = "set"
    /\ UNCHANGED <<streams, starting, hls, hlsProcesses, hlsClosing,
                   hlsRestartTimers, restarting, rtc>>

StartAllStreams ==
    /\ startAll = "set"
    /\ startAll' = "done"
    /\ StartHls(GetStreams)
    /\ UNCHANGED <<streams, go2rtc, go2rtcReady, starting, hlsClosing,
                   hlsRestartTimers, restarting, rtc>>

(* go2rtc exits; nothing starts it again.                                  *)
Go2rtcExits ==
    /\ go2rtc \in {"starting", "up"}
    /\ go2rtc' = "dead"
    /\ go2rtcReady' = FALSE
    /\ UNCHANGED <<streams, startAll, starting, hls, hlsProcesses, hlsClosing,
                   hlsRestartTimers, restarting, rtc>>

(* The 4 s timer of a stream that was added.                               *)
StartTimerFires(n) ==
    /\ starting[n] > 0
    /\ starting' = [starting EXCEPT ![n] = @ - 1]
    /\ StartHls({n})
    /\ UNCHANGED <<streams, go2rtc, go2rtcReady, startAll, hlsClosing,
                   hlsRestartTimers, restarting, rtc>>

Exits(n, i) ==
    /\ i \in hls[n]
    /\ hls' = [hls EXCEPT ![n] = @ \ {i}]
    /\ hlsClosing' = [hlsClosing EXCEPT ![n] = @ \cup {i}]
    /\ UNCHANGED <<streams, go2rtc, go2rtcReady, startAll, starting, hlsProcesses,
                   hlsRestartTimers, restarting>>

(* ffmpeg exits: its camera hiccups, or go2rtc does not know the stream    *)
(* (any more) and has nothing to give.                                     *)
HlsExits == /\ rtc.exits < MaxHlsExits
            /\ \E n \in Streams : \E i \in hls[n] : Exits(n, i)
            /\ rtc' = [rtc EXCEPT !.exits = @ + 1]

HlsHasNoSource == \E n \in Streams \ GetStreams : \E i \in hls[n] :
                      Exits(n, i) /\ UNCHANGED rtc

(* Faulty variant: the close event leaves the entry of its process.        *)
HlsClosedKeeps(n) ==
    /\ \E i \in hlsClosing[n] : hlsClosing' = [hlsClosing EXCEPT ![n] = @ \ {i}]
    /\ IF n \in GetStreams
       THEN /\ restarting' = [restarting EXCEPT ![n] = @ + 1]
            /\ hlsRestartTimers' = [hlsRestartTimers EXCEPT ![n] = TRUE]
       ELSE UNCHANGED <<restarting, hlsRestartTimers>>
    /\ UNCHANGED <<streams, go2rtc, go2rtcReady, startAll, starting, hls, hlsProcesses,
                   rtc>>

(* The close event forgets whatever runs under the name, and restarts the  *)
(* stream in 5 s if there still is one.                                    *)
HlsClosed(n) ==
    /\ \E i \in hlsClosing[n] : hlsClosing' = [hlsClosing EXCEPT ![n] = @ \ {i}]
    /\ hlsProcesses' = [hlsProcesses EXCEPT ![n] = 0]
    /\ IF n \in GetStreams
       THEN /\ restarting' = [restarting EXCEPT ![n] = @ + 1]
            /\ hlsRestartTimers' = [hlsRestartTimers EXCEPT ![n] = TRUE]
       ELSE UNCHANGED <<restarting, hlsRestartTimers>>
    /\ UNCHANGED <<streams, go2rtc, go2rtcReady, startAll, starting, hls, rtc>>

HlsRestartFires(n) ==
    /\ restarting[n] > 0
    /\ restarting' = [restarting EXCEPT ![n] = @ - 1]
    /\ hlsRestartTimers' = [hlsRestartTimers EXCEPT ![n] = FALSE]
    /\ StartHls({n})
    /\ UNCHANGED <<streams, go2rtc, go2rtcReady, startAll, starting, hlsClosing, rtc>>

WebrtcWorks == \/ Go2rtcStarted \/ StartAllStreams \/ HlsHasNoSource
               \/ \E n \in Streams : \/ StartTimerFires(n) \/ HlsClosed(n)
                                     \/ HlsRestartFires(n)

WebrtcNext ==
    \/ \E source \in {"integration", "manual"}, n \in Streams :
          AddStream(source, n) \/ RemoveStream(source, n)
    \/ Go2rtcListens \/ Go2rtcExits \/ HlsExits
    \/ WebrtcWorks

WebrtcSpec == WebrtcInit /\ [][WebrtcNext]_webrtcVars /\ WF_webrtcVars(WebrtcWorks)

-----------------------------------------------------------------------------
(* The state has the shape the code gives it, and MaxHls is enough.        *)
WebrtcTypeOK ==
    /\ streams \in [integration : SUBSET Streams, manual : SUBSET Streams]
    /\ go2rtc \in {"none", "starting", "up", "dead"}
    /\ go2rtcReady \in BOOLEAN
    /\ startAll \in {"unset", "set", "done"}
    /\ starting \in [Streams -> Nat] /\ restarting \in [Streams -> Nat]
    /\ hls \in [Streams -> SUBSET HlsIds] /\ hlsClosing \in [Streams -> SUBSET HlsIds]
    /\ hlsProcesses \in [Streams -> 0 .. MaxHls]
    /\ hlsRestartTimers \in [Streams -> BOOLEAN]

(* An entry of hlsProcesses is an ffmpeg that runs or whose close event,   *)
(* which will remove the entry, is on its way; a name with an ffmpeg that  *)
(* died is never stuck.  And a timer in hlsRestartTimers is pending, so    *)
(* that clearing it does cancel it.                                        *)
EntryIsBacked ==
    \A n \in Streams : /\ hlsProcesses[n] \in {0} \cup hls[n] \cup hlsClosing[n]
                       /\ hlsRestartTimers[n] => restarting[n] > 0

(* In the end the HLS files are those of the streams there are: a stream   *)
(* that was added has an ffmpeg, one that was removed has none, whatever   *)
(* timers, exits and late close events were pending when it was edited.    *)
(* (Unless go2rtc is missing or died: nothing starts it again.)            *)
HlsFollowsStreams ==
    <>[](\/ go2rtc \in {"none", "dead"}
         \/ {n \in Streams : hls[n] # {}} = GetStreams)
=============================================================================

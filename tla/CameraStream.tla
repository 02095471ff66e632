---------------------------- MODULE CameraStream ----------------------------
(***************************************************************************)
(* CameraStreamService and CameraController: the ffmpeg that turns one     *)
(* RTSP stream of a camera into HLS files.  It is started by the first     *)
(* request for the manifest or a segment, started again when it exits      *)
(* while somebody watches, and stopped STREAM_IDLE_TIMEOUT after the last  *)
(* request.                                                                *)
(*                                                                         *)
(* A child process is killed at one moment and reported as closed at a     *)
(* later one; whatever happens in between finds entry.process already      *)
(* null.                                                                   *)
(***************************************************************************)
EXTENDS Naturals, FiniteSets

CONSTANTS Ffmpegs,     \* process ids, used again once their close was seen
          MaxIdles,    \* how often the clients go away
          MaxExits     \* how often ffmpeg exits by itself or cannot start

None == "none"

ASSUME CameraAssumption ==
    /\ None \notin Ffmpegs
    /\ {MaxIdles, MaxExits} \subseteq Nat

VARIABLES
    ffmpeg,        \* what became of each process
    polls,         \* the processes whose readyPoll interval runs
    entry,         \* StreamEntry: process, ready, stopped, restartTimer,
                   \* idleTimer (which runs as long as lastRequest is recent)
    restarts,      \* the restart timers that are pending, kept or forgotten
    manifest,      \* index.m3u8 exists in hlsDir
    cameraState,   \* the state of the camera entity
    overtaken,     \* a process was started while an older one was closing
    camera         \* how often the clients went away, how often ffmpeg exited

cameraVars == <<ffmpeg, polls, entry, restarts, manifest, cameraState,
                overtaken, camera>>

Dying == {"killed", "exited", "failed"}    \* an event is still to come
Alive == {p \in Ffmpegs : ffmpeg[p] = "alive"}
Closing == {p \in Ffmpegs : ffmpeg[p] \in Dying}

(* setup() registers the camera; nothing runs.                             *)
CameraInit ==
    /\ ffmpeg = [p \in Ffmpegs |-> "gone"]
    /\ polls = {}
    /\ entry = [process |-> None, ready |-> FALSE, stopped |-> FALSE,
                restartTimer |-> FALSE, idleTimer |-> FALSE]
    /\ restarts = 0
    /\ manifest = FALSE
    /\ cameraState = "idle"
    /\ overtaken = FALSE
    /\ camera = [idles |-> 0, exits |-> 0]

(* startProcess() on the entry e: nothing when one is there already.  The  *)
(* spawn itself may fail (no ffmpeg installed, no memory).                 *)
StartProcess(e) ==
    IF e.stopped \/ e.process # None
    THEN entry' = e /\ UNCHANGED <<ffmpeg, polls, overtaken, camera>>
    ELSE \E p \in Ffmpegs, spawned \in BOOLEAN :
            /\ ffmpeg[p] = "gone"
            /\ spawned \/ camera.exits < MaxExits
            /\ ffmpeg' = [ffmpeg EXCEPT ![p] = IF spawned THEN "alive" ELSE "failed"]
            /\ camera' = IF spawned THEN camera ELSE [camera EXCEPT !.exits = @ + 1]
            /\ polls' = polls \cup {p}
            /\ entry' = [e EXCEPT !.process = p, !.ready = FALSE]
            /\ overtaken' = (overtaken \/ Closing # {})

(* Faulty variant: a second request starts a second process.               *)
StartAlways(e) ==
    \E p \in Ffmpegs : /\ ffmpeg[p] = "gone"
                       /\ ffmpeg' = [ffmpeg EXCEPT ![p] = "alive"]
                       /\ polls' = polls \cup {p}
                       /\ entry' = [e EXCEPT !.process = p, !.ready = FALSE]
                       /\ UNCHANGED <<overtaken, camera>>

(* Faulty variant: a request does not look for a pending restart.          *)
TouchStartsAnyway ==
    /\ ~entry.stopped
    /\ StartAlways([entry EXCEPT !.idleTimer = TRUE])
    /\ UNCHANGED <<restarts, manifest, cameraState>>

(* A request for the manifest or a segment: touchStream().                 *)
TouchStream ==
    /\ ~entry.stopped
    /\ LET touched == [entry EXCEPT !.idleTimer = TRUE]
       IN IF entry.process = None /\ ~entry.restartTimer
          THEN StartProcess(touched)
          ELSE entry' = touched /\ UNCHANGED <<ffmpeg, polls, overtaken, camera>>
    /\ UNCHANGED <<restarts, manifest, cameraState>>

(* Faulty variant: the idle stop leaves the restart timer running.         *)
StopLeavesTimer(permanent) ==
    /\ ffmpeg' = IF entry.process # None /\ ffmpeg[entry.process] = "alive"
                 THEN [ffmpeg EXCEPT ![entry.process] = "killed"]
                 ELSE ffmpeg
    /\ entry' = [entry EXCEPT !.process = None, !.ready = FALSE,
                              !.stopped = @ \/ permanent, !.idleTimer = FALSE]
    /\ UNCHANGED <<polls, restarts>>

(* stopEntry(): the process is killed and forgotten at once; its           *)
(* readyPoll ends with its close event only.  A restart timer that was     *)
(* overwritten by a later one is not cleared.                              *)
StopEntry(permanent) ==
    /\ restarts' = IF entry.restartTimer THEN restarts - 1 ELSE restarts
    /\ ffmpeg' = IF entry.process # None /\ ffmpeg[entry.process] = "alive"
                 THEN [ffmpeg EXCEPT ![entry.process] = "killed"]
                 ELSE ffmpeg
    /\ entry' = [process |-> None, ready |-> FALSE,
                 stopped |-> entry.stopped \/ permanent,
                 restartTimer |-> FALSE, idleTimer |-> FALSE]
    /\ UNCHANGED polls

(* STREAM_IDLE_TIMEOUT without a request.                                  *)
IdleTimerFires ==
    /\ entry.idleTimer /\ camera.idles < MaxIdles
    /\ StopEntry(FALSE)
    /\ camera' = [camera EXCEPT !.idles = @ + 1]
    /\ UNCHANGED <<manifest, cameraState, overtaken>>

(* ffmpeg writes its first segments.                                       *)
FfmpegWrites ==
    /\ Alive # {} /\ ~manifest /\ ~entry.stopped
    /\ manifest' = TRUE
    /\ UNCHANGED <<ffmpeg, polls, entry, restarts, cameraState, overtaken, camera>>

(* The camera drops the connection, or ffmpeg gives up.                    *)
FfmpegExits ==
    /\ camera.exits < MaxExits
    /\ \E p \in Alive : ffmpeg' = [ffmpeg EXCEPT ![p] = "exited"]
    /\ camera' = [camera EXCEPT !.exits = @ + 1]
    /\ UNCHANGED <<polls, entry, restarts, manifest, cameraState, overtaken>>

(* readyPoll: the manifest of an earlier process counts as well, for it is *)
(* only removed with the camera.                                           *)
ReadyPoll(p) ==
    /\ p \in polls /\ manifest
    /\ polls' = polls \ {p}
    /\ entry' = [entry EXCEPT !.ready = TRUE]
    /\ cameraState' = "streaming"
    /\ UNCHANGED <<ffmpeg, restarts, manifest, overtaken, camera>>

(* The error event of a spawn that failed; its close event follows.        *)
ErrorEvent(p) ==
    /\ ffmpeg[p] = "failed"
    /\ ffmpeg' = [ffmpeg EXCEPT ![p] = "exited"]
    /\ polls' = polls \ {p}
    /\ entry' = [entry EXCEPT !.process = None, !.ready = FALSE]
    /\ cameraState' = "unavailable"
    /\ UNCHANGED <<restarts, manifest, overtaken, camera>>

(* Faulty variant: an exit is not followed by a restart.                   *)
CloseNoRestart(p) ==
    /\ ffmpeg[p] \in {"killed", "exited"}
    /\ ffmpeg' = [ffmpeg EXCEPT ![p] = "gone"]
    /\ polls' = polls \ {p}
    /\ entry' = IF entry.stopped THEN entry ELSE [entry EXCEPT !.ready = FALSE]
    /\ UNCHANGED <<restarts, cameraState, manifest, overtaken, camera>>

(* The close event: it does not ask which process the entry holds by now.  *)
CloseEvent(p) ==
    /\ ffmpeg[p] \in {"killed", "exited"}
    /\ ffmpeg' = [ffmpeg EXCEPT ![p] = "gone"]
    /\ polls' = polls \ {p}
    /\ IF entry.stopped THEN UNCHANGED <<entry, restarts, cameraState>>
       ELSE /\ entry' = [entry EXCEPT !.process = None, !.ready = FALSE,
                            !.restartTimer = @ \/ entry.idleTimer]
            /\ restarts' = IF entry.idleTimer THEN restarts + 1 ELSE restarts
            /\ cameraState' = "unavailable"
    /\ UNCHANGED <<manifest, overtaken, camera>>

(* FFMPEG_RESTART_DELAY after the exit.                                    *)
RestartTimerFires ==
    /\ restarts > 0
    /\ restarts' = restarts - 1
    /\ StartProcess([entry EXCEPT !.restartTimer = FALSE])
    /\ UNCHANGED <<manifest, cameraState>>

(* onApplicationShutdown(): stopCamera() for every camera.                 *)
CameraShutdown ==
    /\ ~entry.stopped
    /\ StopEntry(TRUE)
    /\ manifest' = FALSE
    /\ UNCHANGED <<cameraState, overtaken, camera>>

CameraWorks == \/ FfmpegWrites
               \/ \E p \in Ffmpegs : ReadyPoll(p) \/ ErrorEvent(p) \/ CloseEvent(p)
               \/ RestartTimerFires

CameraNext == \/ TouchStream \/ IdleTimerFires \/ FfmpegExits \/ CameraShutdown
              \/ CameraWorks

CameraSpec == /\ CameraInit /\ [][CameraNext]_cameraVars
              /\ WF_cameraVars(CameraWorks)

-----------------------------------------------------------------------------
CameraTypeOK ==
    /\ ffmpeg \in [Ffmpegs -> {"gone", "alive"} \cup Dying]
    /\ polls \subseteq Ffmpegs
    /\ entry \in [process : Ffmpegs \cup {None}, ready : BOOLEAN, stopped : BOOLEAN,
                  restartTimer : BOOLEAN, idleTimer : BOOLEAN]
    /\ restarts \in Nat
    /\ manifest \in BOOLEAN /\ overtaken \in BOOLEAN
    /\ cameraState \in {"idle", "streaming", "unavailable"}
    /\ camera \in [idles : 0 .. MaxIdles, exits : 0 .. MaxExits]

(* As long as no request came between the end of an ffmpeg and its close   *)
(* event, the stream has one ffmpeg at most and the entry knows it: two of *)
(* them never write the same files, and the idle stop reaches the one that *)
(* runs.  (touchStream(), the close event and the restart timer together.) *)
OneFfmpeg == ~overtaken => /\ Alive \subseteq {entry.process}
                           /\ (entry.restartTimer <=> restarts = 1)

(* Nobody watches, nothing runs: when the last request is older than       *)
(* STREAM_IDLE_TIMEOUT there is no ffmpeg, no restart that would start     *)
(* one, and the DVR's connections are free.                                *)
IdleIsFree == ~entry.idleTimer /\ ~overtaken => Alive = {} /\ restarts = 0

(* Whoever goes on watching gets a stream: whatever exits, failed spawns,  *)
(* idle stops and late close events came before, the stream is ready in    *)
(* the end and stays so.                                                   *)
ViewerIsServed == (<>[](entry.idleTimer)) => <>[](entry.ready)

(* A camera has one ffmpeg while somebody watches, and none otherwise.     *)
StreamIsFreed == OneFfmpeg /\ IdleIsFree
=============================================================================

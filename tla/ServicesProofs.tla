--------------------------- MODULE ServicesProofs ---------------------------
(* Proofs about the services: the camera streams, the registries, the push *)
(* notices and the zones alone, and the server that runs them side by side *)
(* with the others.                                                        *)
EXTENDS Services, SequenceTheorems, FiniteSetTheorems, TLAPS

-----------------------------------------------------------------------------
(* The camera streams (CameraStream).                                      *)
Entry == [process : Ffmpegs \cup {None}, ready : BOOLEAN, stopped : BOOLEAN,
          restartTimer : BOOLEAN, idleTimer : BOOLEAN]

(* A restart timer the entry knows is pending.                             *)
TimerIsCounted == entry.restartTimer => restarts > 0

(* Of the processes one at most is not gone.                               *)
OneLeft == \A p, q \in Ffmpegs : ffmpeg[p] # "gone" /\ ffmpeg[q] # "gone" => p = q

(* While no process was started beside a closing one: the living process   *)
(* is the entry's; a restart is pending only when everything is gone; and  *)
(* without requests there is neither process nor restart.                  *)
Sole ==
    /\ OneLeft
    /\ Alive \subseteq {entry.process}
    /\ (entry.restartTimer <=> restarts = 1) /\ restarts <= 1
    /\ restarts = 1 => entry.process = None /\ \A p \in Ffmpegs : ffmpeg[p] = "gone"
    /\ ~entry.idleTimer => entry.process = None /\ restarts = 0

CameraInv == CameraTypeOK /\ TimerIsCounted /\ (~overtaken => Sole)

LEMMA CameraInitially == CameraInit => CameraInv
<1> SUFFICES ASSUME CameraInit PROVE CameraInv
    OBVIOUS
<1> USE DEF CameraInit
<1>1. camera \in [idles : 0 .. MaxIdles, exits : 0 .. MaxExits]
  BY CameraAssumption
<1>2. CameraTypeOK /\ TimerIsCounted
  BY <1>1 DEF CameraTypeOK, TimerIsCounted
<1>3. OneLeft /\ Alive = {}
  BY DEF OneLeft, Alive
<1>4. restarts = 0 /\ entry.process = None /\ entry.restartTimer = FALSE
  OBVIOUS
<1>5. (entry.restartTimer <=> restarts = 1) /\ restarts <= 1
  BY <1>4
<1> HIDE DEF CameraInit
<1> QED BY <1>2, <1>3, <1>4, <1>5 DEF CameraInv, Sole

(* startProcess() keeps what the entry promises, when the entry it is given *)
(* asks for requests and restarts to come and nothing is left to restart.  *)
LEMMA StartKeeps ==
    ASSUME CameraInv, NEW e \in Entry, StartProcess(e), restarts' \in Nat,
           UNCHANGED <<manifest, cameraState>>,
           e.process = entry.process, ~e.restartTimer, e.idleTimer,
           ~overtaken => restarts' = 0
    PROVE  CameraInv'
<1> USE DEF CameraInv, CameraTypeOK, Entry, Dying
<1>1. CASE e.stopped \/ e.process # None
  <2>1. entry' = e /\ UNCHANGED <<ffmpeg, polls, overtaken, camera>>
    BY <1>1 DEF StartProcess
  <2>2. CameraTypeOK' /\ TimerIsCounted'
    BY <2>1 DEF TimerIsCounted
  <2>3. ASSUME ~overtaken PROVE Sole'
    BY <2>1, <2>3 DEF Sole, OneLeft, Alive
  <2> QED BY <2>1, <2>2, <2>3
<1>2. CASE ~(e.stopped \/ e.process # None)
  <2>1. PICK p \in Ffmpegs, spawned \in BOOLEAN :
            /\ ffmpeg[p] = "gone"
            /\ spawned \/ camera.exits < MaxExits
            /\ ffmpeg' = [ffmpeg EXCEPT ![p] = IF spawned THEN "alive" ELSE "failed"]
            /\ camera' = IF spawned THEN camera ELSE [camera EXCEPT !.exits = @ + 1]
            /\ polls' = polls \cup {p}
            /\ entry' = [e EXCEPT !.process = p, !.ready = FALSE]
            /\ overtaken' = (overtaken \/ Closing # {})
    BY <1>2 DEF StartProcess
  <2>2. camera' \in [idles : 0 .. MaxIdles, exits : 0 .. MaxExits]
    BY <2>1, CameraAssumption
  <2>3. entry' \in Entry /\ ~entry'.restartTimer /\ entry'.idleTimer /\ entry'.process = p
    BY <2>1
  <2>4. CameraTypeOK' /\ TimerIsCounted'
    BY <2>1, <2>2, <2>3 DEF TimerIsCounted
  <2>5. ASSUME ~overtaken' PROVE Sole'
    <3>1. ~overtaken /\ Closing = {} /\ Sole
      BY <2>1, <2>5
    <3>2. Alive = {}
      BY <3>1, <1>2, CameraAssumption DEF Sole, Alive
    <3>3. \A q \in Ffmpegs : ffmpeg[q] = "gone"
      BY <3>1, <3>2 DEF Alive, Closing
    <3>4. \A q \in Ffmpegs : ffmpeg'[q] # "gone" => q = p
      BY <3>3, <2>1
    <3>5. OneLeft' /\ Alive' \subseteq {p}
      BY <3>4 DEF OneLeft, Alive
    <3> QED BY <2>3, <3>1, <3>5 DEF Sole
  <2> QED BY <2>4, <2>5
<1> QED BY <1>1, <1>2

LEMMA StopKeeps ==
    ASSUME CameraInv, NEW permanent \in BOOLEAN, StopEntry(permanent), manifest' \in BOOLEAN,
           camera' \in [idles : 0 .. MaxIdles, exits : 0 .. MaxExits],
           UNCHANGED <<cameraState, overtaken>>
    PROVE  CameraInv'
<1> USE DEF CameraInv, CameraTypeOK, Dying
<1>0. ffmpeg' = IF entry.process # None /\ ffmpeg[entry.process] = "alive"
                THEN [ffmpeg EXCEPT ![entry.process] = "killed"]
                ELSE ffmpeg
  BY DEF StopEntry
<1>1. /\ ffmpeg' \in [Ffmpegs -> {"gone", "alive"} \cup Dying]
      /\ \A p \in Ffmpegs : /\ ffmpeg'[p] = "gone" <=> ffmpeg[p] = "gone"
                            /\ ffmpeg'[p] = "alive" => ffmpeg[p] = "alive" /\ p # entry.process
  <2>1. CASE entry.process # None /\ ffmpeg[entry.process] = "alive"
    <3>1. entry.process \in Ffmpegs
      BY <2>1
    <3> QED BY <1>0, <2>1, <3>1
  <2>2. CASE entry.process = None
    BY <1>0, <2>2, CameraAssumption
  <2>3. CASE entry.process # None /\ ffmpeg[entry.process] # "alive"
    BY <1>0, <2>3
  <2> QED BY <2>1, <2>2, <2>3
<1>2. restarts' \in Nat /\ (entry.restartTimer => restarts' = restarts - 1)
                        /\ (~entry.restartTimer => restarts' = restarts)
  BY DEF StopEntry, TimerIsCounted
<1>3. /\ entry' \in Entry /\ polls' = polls
      /\ entry'.process = None /\ entry'.restartTimer = FALSE /\ entry'.idleTimer = FALSE
  BY DEF StopEntry, Entry
<1>4. CameraTypeOK' /\ TimerIsCounted'
  BY <1>1, <1>2, <1>3 DEF Entry, TimerIsCounted
<1>5. ASSUME ~overtaken PROVE Sole'
  <2>1. Sole
    BY <1>5
  <2>2. OneLeft' /\ Alive' = {}
    <3>1. \A p \in Ffmpegs : ffmpeg'[p] # "alive"
      BY <1>1, <2>1 DEF Sole, Alive
    <3> QED BY <1>1, <2>1, <3>1 DEF Sole, OneLeft, Alive
  <2>3. restarts' = 0
    BY <1>2, <2>1 DEF Sole
  <2>4. ((entry.restartTimer <=> restarts = 1) /\ restarts <= 1)'
    BY <1>3, <2>3
  <2> QED BY <1>3, <2>2, <2>3, <2>4 DEF Sole
<1> QED BY <1>4, <1>5

LEMMA CloseKeeps ==
    ASSUME CameraInv, NEW p \in Ffmpegs, CloseEvent(p)
    PROVE  CameraInv'
<1> USE DEF CameraInv, CameraTypeOK, Dying
<1>1. /\ ffmpeg[p] # "gone" /\ ffmpeg[p] # "alive"
      /\ ffmpeg' = [ffmpeg EXCEPT ![p] = "gone"]
      /\ polls' = polls \ {p} /\ UNCHANGED <<manifest, overtaken, camera>>
  BY DEF CloseEvent
<1>2. CASE entry.stopped
  <2>1. UNCHANGED <<entry, restarts, cameraState>>
    BY <1>2 DEF CloseEvent
  <2>2. ASSUME ~overtaken PROVE Sole'
    BY <1>1, <2>1, <2>2 DEF Sole, OneLeft, Alive
  <2> QED BY <1>1, <2>1, <2>2 DEF TimerIsCounted
<1>3. CASE ~entry.stopped
  <2>1. /\ entry' = [entry EXCEPT !.process = None, !.ready = FALSE,
                                  !.restartTimer = @ \/ entry.idleTimer]
        /\ restarts' = IF entry.idleTimer THEN restarts + 1 ELSE restarts
        /\ cameraState' = "unavailable"
    BY <1>3 DEF CloseEvent
  <2>2. CameraTypeOK' /\ TimerIsCounted'
    <3>1. /\ entry'.process = None /\ entry'.ready = FALSE
          /\ entry'.stopped = entry.stopped /\ entry'.idleTimer = entry.idleTimer
          /\ entry'.restartTimer = (entry.restartTimer \/ entry.idleTimer)
          /\ entry' \in Entry
      BY <2>1 DEF Entry
    <3>2. restarts' \in Nat /\ (entry'.restartTimer => restarts' > 0)
      BY <2>1, <3>1 DEF TimerIsCounted
    <3> QED BY <1>1, <2>1, <3>1, <3>2 DEF TimerIsCounted, Entry
  <2>3. ASSUME ~overtaken PROVE Sole'
    <3>1. Sole /\ restarts = 0
      BY <1>1, <2>3 DEF Sole
    <3>2. \A q \in Ffmpegs : ffmpeg'[q] = "gone"
      BY <1>1, <3>1 DEF Sole, OneLeft
    <3>3. OneLeft' /\ Alive' = {}
      BY <3>2 DEF OneLeft, Alive
    <3> QED BY <2>1, <3>1, <3>2, <3>3 DEF Sole
  <2> QED BY <1>1, <2>2, <2>3
<1> QED BY <1>2, <1>3

LEMMA CameraStep == CameraInv /\ [CameraNext]_cameraVars => CameraInv'
<1> SUFFICES ASSUME CameraInv, [CameraNext]_cameraVars PROVE CameraInv'
    OBVIOUS
<1> USE DEF CameraInv, CameraTypeOK, Dying
<1>1. CASE TouchStream
  <2> DEFINE touched == [entry EXCEPT !.idleTimer = TRUE]
  <2>1. touched \in Entry /\ touched.idleTimer /\ touched.process = entry.process
    BY DEF Entry
  <2>2. CASE entry.process = None /\ ~entry.restartTimer
    <3>1. StartProcess(touched) /\ UNCHANGED <<restarts, manifest, cameraState>>
      BY <1>1, <2>2 DEF TouchStream
    <3>2. ~overtaken => restarts' = 0
      BY <2>2, <3>1 DEF Sole
    <3>3. ~touched.restartTimer
      BY <2>2
    <3> HIDE DEF touched
    <3> QED BY <2>1, <3>1, <3>2, <3>3, StartKeeps
  <2>3. CASE ~(entry.process = None /\ ~entry.restartTimer)
    <3>1. entry' = touched /\ UNCHANGED <<ffmpeg, polls, overtaken, camera, restarts,
                                          manifest, cameraState>>
      BY <1>1, <2>3 DEF TouchStream
    <3> QED BY <3>1 DEF TimerIsCounted, Sole, OneLeft, Alive
  <2> QED BY <2>2, <2>3
<1>2. CASE IdleTimerFires
  <2>1. camera' \in [idles : 0 .. MaxIdles, exits : 0 .. MaxExits]
    BY <1>2, CameraAssumption DEF IdleTimerFires
  <2> QED BY <1>2, <2>1, StopKeeps DEF IdleTimerFires
<1>3. CASE FfmpegExits
  <2>1. PICK p \in Alive : ffmpeg' = [ffmpeg EXCEPT ![p] = "exited"]
    BY <1>3 DEF FfmpegExits
  <2>2. camera' \in [idles : 0 .. MaxIdles, exits : 0 .. MaxExits]
    BY <1>3, CameraAssumption DEF FfmpegExits
  <2>3. UNCHANGED <<polls, entry, restarts, manifest, cameraState, overtaken>>
    BY <1>3 DEF FfmpegExits
  <2>4. ASSUME ~overtaken PROVE Sole'
    BY <2>1, <2>3, <2>4 DEF Sole, OneLeft, Alive
  <2> QED BY <2>1, <2>2, <2>3, <2>4 DEF Alive, TimerIsCounted
<1>4. CASE CameraShutdown
  BY <1>4, StopKeeps DEF CameraShutdown
<1>5. CASE FfmpegWrites
  BY <1>5 DEF FfmpegWrites, TimerIsCounted, Sole, OneLeft, Alive
<1>6. ASSUME NEW p \in Ffmpegs, ReadyPoll(p) PROVE CameraInv'
  BY <1>6 DEF ReadyPoll, TimerIsCounted, Sole, OneLeft, Alive
<1>7. ASSUME NEW p \in Ffmpegs, ErrorEvent(p) PROVE CameraInv'
  <2>1. CameraTypeOK' /\ TimerIsCounted'
    BY <1>7 DEF ErrorEvent, TimerIsCounted
  <2>2. ASSUME ~overtaken PROVE Sole'
    <3>1. Sole /\ ffmpeg[p] # "gone" /\ ffmpeg' = [ffmpeg EXCEPT ![p] = "exited"]
      BY <1>7, <2>2 DEF ErrorEvent
    <3>2. \A q \in Ffmpegs : q # p => ffmpeg'[q] = "gone"
      BY <3>1 DEF Sole, OneLeft
    <3>3. OneLeft' /\ Alive' = {}
      BY <3>1, <3>2 DEF OneLeft, Alive
    <3> QED BY <1>7, <3>1, <3>3 DEF ErrorEvent, Sole
  <2> QED BY <1>7, <2>1, <2>2 DEF ErrorEvent
<1>8. ASSUME NEW p \in Ffmpegs, CloseEvent(p) PROVE CameraInv'
  BY <1>8, CloseKeeps
<1>9. CASE RestartTimerFires
  <2> DEFINE cleared == [entry EXCEPT !.restartTimer = FALSE]
  <2>1. /\ StartProcess(cleared) /\ restarts' = restarts - 1 /\ restarts > 0
        /\ UNCHANGED <<manifest, cameraState>>
    BY <1>9 DEF RestartTimerFires
  <2>2. cleared \in Entry /\ ~cleared.restartTimer /\ cleared.process = entry.process
    BY DEF Entry
  <2>3. restarts' \in Nat
    BY <2>1
  <2>4. CASE ~overtaken
    <3>1. cleared.idleTimer /\ restarts' = 0
      BY <2>1, <2>4 DEF Sole
    <3> HIDE DEF cleared
    <3> QED BY <2>1, <2>2, <2>3, <3>1, StartKeeps
  <2>5. CASE overtaken
    <3> HIDE DEF cleared
    <3>1. CASE cleared.stopped \/ cleared.process # None
      <4>1. entry' = cleared /\ UNCHANGED <<ffmpeg, polls, overtaken, camera>>
        BY <2>1, <3>1 DEF StartProcess
      <4> QED BY <2>1, <2>2, <2>3, <2>5, <4>1 DEF TimerIsCounted, Entry
    <3>2. CASE ~(cleared.stopped \/ cleared.process # None)
      <4>1. PICK p \in Ffmpegs, spawned \in BOOLEAN :
                /\ spawned \/ camera.exits < MaxExits
                /\ ffmpeg' = [ffmpeg EXCEPT ![p] = IF spawned THEN "alive" ELSE "failed"]
                /\ camera' = IF spawned THEN camera ELSE [camera EXCEPT !.exits = @ + 1]
                /\ polls' = polls \cup {p}
                /\ entry' = [cleared EXCEPT !.process = p, !.ready = FALSE]
                /\ overtaken' = (overtaken \/ Closing # {})
        BY <2>1, <3>2 DEF StartProcess
      <4>2. camera' \in [idles : 0 .. MaxIdles, exits : 0 .. MaxExits]
        BY <4>1, CameraAssumption
      <4>3. entry' \in Entry /\ ~entry'.restartTimer
        BY <2>2, <4>1 DEF Entry
      <4> QED BY <2>1, <2>3, <2>5, <4>1, <4>2, <4>3 DEF TimerIsCounted, Entry
    <3> QED BY <3>1, <3>2
  <2> QED BY <2>4, <2>5
<1>10. CASE UNCHANGED cameraVars
  BY <1>10 DEF cameraVars, TimerIsCounted, Sole, OneLeft, Alive
<1> QED BY <1>1, <1>2, <1>3, <1>4, <1>5, <1>6, <1>7, <1>8, <1>9, <1>10 DEF CameraNext, CameraWorks

LEMMA CameraInvariant == CameraSpec => []CameraInv
BY CameraInitially, CameraStep, PTL DEF CameraSpec

(* Every variable of the camera keeps its type.                            *)
THEOREM CameraTypeCorrect == CameraSpec => []CameraTypeOK
BY CameraInvariant, PTL DEF CameraInv

(* One ffmpeg at most and the entry knows it, and a restart is pending     *)
(* exactly when the entry says so, as long as no process is started        *)
(* between the end of another and its close event.                         *)
THEOREM OneProcess == CameraSpec => []OneFfmpeg
<1>1. CameraInv => OneFfmpeg
  BY DEF CameraInv, Sole, OneFfmpeg
<1> QED BY <1>1, CameraInvariant, PTL

(* Under the same condition nothing runs, and nothing will start, when the *)
(* last request is longer ago than the idle time.                          *)
THEOREM NothingRunsUnwatched == CameraSpec => []IdleIsFree
<1>1. CameraInv => IdleIsFree
  BY CameraAssumption DEF CameraInv, CameraTypeOK, Sole, IdleIsFree, Alive
<1> QED BY <1>1, CameraInvariant, PTL

(* So a camera has one ffmpeg while somebody watches and none otherwise.   *)
THEOREM CameraIsFreed == CameraSpec => []StreamIsFreed
BY OneProcess, NothingRunsUnwatched, PTL DEF StreamIsFreed

-----------------------------------------------------------------------------
(* The registries (Registry), and the durable table they implement.        *)
Ours == AreaIds \cup {NoName}

(* What is issued: registrations, changes of an entity by a person, and    *)
(* what the page does with areas.                                          *)
Statements ==
    [does : {"insert"}, key : Ents, set : EntityRows, who : {"integration"}]
      \cup [does : {"update", "find"}, key : Ents, set : [original : Originals],
            who : {"integration"}]
      \cup [does : {"update", "find"}, key : Ents, set : [name : Names] \cup [area : Ours],
            who : {"person"}]
      \cup [does : {"insert", "update", "find"}, key : AreaIds, set : Names, who : {"person"}]
      \cup [does : {"delete"}, key : AreaIds, set : {NoRow}, who : {"person"}]

(* The answers the page waits for.                                         *)
Answers ==
    [does : {"areas"}, key : {NoName}, list : SUBSET AreaIds]
      \cup [does : {"entities"}, key : {NoName}, areas : [Ents -> Ours]]
      \cup [does : {"refused"}, key : {NoName}, set : {NoRow}]
      \cup [does : {"insert", "delete"}, key : AreaIds, set : Names \cup {NoRow}]
      \cup [does : {"find"}, key : AreaIds, set : Names]
      \cup [does : {"find"}, key : Ents, set : [name : Names] \cup [area : Ours]]

RowOf(k) == IF k \in Ents THEN EntityRows ELSE AreaRows
TypedTable(t) == t \in [RegKeys -> RowsOf \cup {NoRow}]
                   /\ \A k \in RegKeys : t[k] \in RowOf(k) \cup {NoRow}

(* Memory holds no row that the table does not hold.                       *)
NoGhost == \A k \in RegKeys : stored[k] = NoRow => known[k] = NoRow

RegInv ==
    /\ TypedTable(stored) /\ TypedTable(known) /\ NoGhost
    /\ queue \in Seq(Statements)
    /\ toRegister \subseteq Ents
    /\ page.areas \subseteq AreaIds
    /\ DOMAIN page = {"open", "areas", "area", "asked", "patient"}
    /\ lateAnswers \in Seq(Answers)

(* The keys a queue has still to copy.                                     *)
BehindOf(q) == {q[i].key : i \in {j \in DOMAIN q : q[j].does = "find"}}

LEMMA ChangedRow ==
    ASSUME NEW row \in EntityRows,
           NEW set \in [original : Originals] \cup [name : Names] \cup [area : Ours]
    PROVE  Changed(row, set) \in EntityRows
<1>1. DOMAIN row = {"name", "original", "area"}
  BY DEF EntityRows
<1>2. CASE set \in [original : Originals]
  <2>1. DOMAIN set = {"original"} /\ set.original \in Originals
    BY <1>2
  <2>2. Changed(row, set) = [name |-> row.name, original |-> set.original, area |-> row.area]
    BY <1>1, <2>1 DEF Changed
  <2> QED BY <2>1, <2>2 DEF EntityRows
<1>3. CASE set \in [name : Names]
  <2>1. DOMAIN set = {"name"} /\ set.name \in Names
    BY <1>3
  <2>2. Changed(row, set) = [name |-> set.name, original |-> row.original, area |-> row.area]
    BY <1>1, <2>1 DEF Changed
  <2> QED BY <2>1, <2>2 DEF EntityRows
<1>4. CASE set \in [area : Ours]
  <2>1. DOMAIN set = {"area"} /\ set.area \in Ours
    BY <1>4
  <2>2. Changed(row, set) = [name |-> row.name, original |-> row.original, area |-> set.area]
    BY <1>1, <2>1 DEF Changed
  <2> QED BY <2>1, <2>2 DEF EntityRows, Ours
<1> QED BY <1>2, <1>3, <1>4

LEMMA BehindIs == Behind = BehindOf(queue) /\ Behind' = BehindOf(queue')
BY DEF Behind, BehindOf

LEMMA BehindAppended ==
    ASSUME NEW q \in Seq(Statements), NEW s \in Statements
    PROVE  /\ Append(q, s) \in Seq(Statements)
           /\ s.does = "find" => BehindOf(Append(q, s)) = BehindOf(q) \cup {s.key}
           /\ s.does # "find" => BehindOf(Append(q, s)) = BehindOf(q)
<1> DEFINE r == Append(q, s)
<1>1. /\ r \in Seq(Statements) /\ Len(q) \in Nat
      /\ DOMAIN q = 1 .. Len(q) /\ DOMAIN r = 1 .. Len(q) + 1
      /\ \A i \in 1 .. Len(q) : r[i] = q[i]
      /\ r[Len(q) + 1] = s
  BY AppendProperties
<1> HIDE DEF r
<1>2. \A i \in DOMAIN r : i \in DOMAIN q \/ i = Len(q) + 1
  BY <1>1
<1>3. \A k : k \in BehindOf(r) <=> k \in BehindOf(q) \/ (s.does = "find" /\ k = s.key)
  BY <1>1, <1>2 DEF BehindOf
<1> QED BY <1>1, <1>3 DEF r

LEMMA BehindServed ==
    ASSUME NEW q \in Seq(Statements), q # << >>
    PROVE  /\ Head(q) \in Statements /\ Tail(q) \in Seq(Statements)
           /\ Head(q).does # "find" => BehindOf(Tail(q)) = BehindOf(q)
           /\ BehindOf(Tail(q)) \in {BehindOf(q), BehindOf(q) \ {Head(q).key}}
<1> DEFINE r == Tail(q) s == Head(q)
<1>1. /\ s \in Statements /\ r \in Seq(Statements) /\ Len(q) \in Nat /\ Len(q) >= 1
      /\ DOMAIN q = 1 .. Len(q) /\ DOMAIN r = 1 .. Len(q) - 1
      /\ \A i \in 1 .. Len(q) - 1 : r[i] = q[i + 1]
      /\ s = q[1]
  BY HeadTailProperties
<1> HIDE DEF r, s
<1>2. \A i \in DOMAIN q : i = 1 \/ (i - 1 \in DOMAIN r /\ r[i - 1] = q[i])
  BY <1>1
<1>3. \A k : k \in BehindOf(q) <=> k \in BehindOf(r) \/ (s.does = "find" /\ k = s.key)
  <2>1. ASSUME NEW k \in BehindOf(q) PROVE k \in BehindOf(r) \/ (s.does = "find" /\ k = s.key)
    BY <1>1, <1>2, <2>1 DEF BehindOf
  <2>2. ASSUME NEW k \in BehindOf(r) PROVE k \in BehindOf(q)
    <3>1. PICK i \in DOMAIN r : r[i].does = "find" /\ r[i].key = k
      BY <2>2 DEF BehindOf
    <3>2. i + 1 \in DOMAIN q /\ q[i + 1] = r[i]
      BY <1>1, <3>1
    <3> QED BY <3>1, <3>2 DEF BehindOf
  <2>3. ASSUME s.does = "find" PROVE s.key \in BehindOf(q)
    BY <1>1, <2>3 DEF BehindOf
  <2> QED BY <2>1, <2>2, <2>3
<1>4. s.does # "find" => BehindOf(r) = BehindOf(q)
  BY <1>3
<1>5. BehindOf(r) \in {BehindOf(q), BehindOf(q) \ {s.key}}
  BY <1>3
<1> QED BY <1>1, <1>4, <1>5 DEF r, s

-----------------------------------------------------------------------------
(* What a step is to the table.                                            *)
TableStep == [Durable!TableNext]_<<stored, known, Behind>>

LEMMA TableSteps ==
    /\ UNCHANGED <<stored, known, Behind>> => TableStep
    /\ \A k \in RegKeys : Durable!Write(k) \/ Durable!CopyRow(k) \/ Durable!WriteThrough(k)
                            => TableStep
    /\ Durable!Restart => TableStep
BY DEF TableStep, Durable!TableNext, Durable!tableVars

LEMMA RowsKnown ==
    /\ \A k \in RegKeys : RowOf(k) \subseteq RowsOf
    /\ \A k \in AreaIds : RowOf(k) = Names
    /\ \A k \in Ents : RowOf(k) = EntityRows
    /\ Ents \subseteq RegKeys /\ AreaIds \subseteq RegKeys
    /\ NoRow \notin RowsOf /\ \A k \in AreaIds : k \notin Ents
BY RegistryAssumption DEF RowOf, RowsOf, RegKeys, AreaRows

LEMMA StatementForms ==
    ASSUME NEW s \in Statements
    PROVE  /\ s.key \in RegKeys
           /\ s.does = "insert" => s.set \in RowOf(s.key)
           /\ s.does = "delete" => s.set = NoRow
           /\ s.does \in {"update", "find"} /\ s.key \in Ents =>
                 s.set \in [original : Originals] \cup [name : Names] \cup [area : Ours]
           /\ s.does \in {"update", "find"} /\ s.key \notin Ents => s.set \in Names
BY RowsKnown DEF Statements

(* What a statement tells the person who waited for it.                    *)
LEMMA AnswerKept ==
    ASSUME RegInv, NEW s \in Statements, s.does # "update", Answer(s)
    PROVE  lateAnswers' \in Seq(Answers)
<1>1. CASE s.who = "integration"
  BY <1>1 DEF Answer, RegInv
<1>2. CASE s.who # "integration"
  <2>1. lateAnswers' = Append(lateAnswers, [does |-> s.does, key |-> s.key, set |-> s.set])
    BY <1>2 DEF Answer, Reply
  <2>2. [does |-> s.does, key |-> s.key, set |-> s.set] \in Answers
    BY <1>2 DEF Statements, Answers
  <2> QED BY <2>1, <2>2, AppendProperties DEF RegInv
<1> QED BY <1>1, <1>2

LEMMA RefusalKept ==
    ASSUME RegInv, Refuse
    PROVE  lateAnswers' \in Seq(Answers)
<1>1. [does |-> "refused", key |-> NoName, set |-> NoRow] \in Answers
  BY DEF Answers
<1> QED BY <1>1, AppendProperties DEF RegInv, Refuse, Reply

(* A step that only issues a statement, or only answers, is no step of the *)
(* table.                                                                  *)
LEMMA Issued ==
    ASSUME RegInv, NEW s \in Statements, s.does # "find", Issue(s)
    PROVE  queue' \in Seq(Statements) /\ Behind' = Behind
BY BehindAppended, BehindIs DEF RegInv, Issue

LEMMA StepRegister ==
    ASSUME RegInv, RegisterEntity
    PROVE  RegInv' /\ TableStep
<1>1. PICK e \in toRegister, o \in Originals :
          /\ toRegister' = toRegister \ {e}
          /\ Issue(IF known[e] = NoRow
                   THEN Stmt("insert", e, [name |-> o, original |-> o, area |-> NoName],
                             "integration")
                   ELSE Stmt("update", e, [original |-> o], "integration"))
  BY DEF RegisterEntity
<1> DEFINE s == IF known[e] = NoRow
                THEN Stmt("insert", e, [name |-> o, original |-> o, area |-> NoName],
                          "integration")
                ELSE Stmt("update", e, [original |-> o], "integration")
<1>2. e \in Ents
  BY <1>1 DEF RegInv
<1>3. s \in Statements /\ s.does # "find"
  <2>1. [name |-> o, original |-> o, area |-> NoName] \in EntityRows
    BY DEF EntityRows
  <2>2. [original |-> o] \in [original : Originals]
    OBVIOUS
  <2>3. CASE known[e] = NoRow
    BY <1>2, <2>1, <2>3 DEF Stmt, Statements
  <2>4. CASE known[e] # NoRow
    BY <1>2, <2>2, <2>4 DEF Stmt, Statements
  <2> QED BY <2>3, <2>4
<1> HIDE DEF s
<1>4. queue' \in Seq(Statements) /\ Behind' = Behind
  BY <1>1, <1>3, Issued DEF s
<1>5. UNCHANGED <<stored, known, page, lateAnswers>>
  BY DEF RegisterEntity
<1>6. RegInv'
  BY <1>1, <1>4, <1>5 DEF RegInv, TypedTable, NoGhost
<1> QED BY <1>4, <1>5, <1>6, TableSteps

(* What a person asks for is a statement, or answered at once.             *)
LEMMA StepPersons ==
    ASSUME RegInv, Persons
    PROVE  RegInv' /\ TableStep
<1>1. /\ UNCHANGED <<stored, known, toRegister>>
      /\ page' = [page EXCEPT !.asked = @ + 1, !.patient = @ /\ page.asked = 0]
  BY DEF Persons, RenameEntity, AssignEntity, UpdateEntity, CreateArea, UpdateArea, DeleteArea,
         Request, Asks
<1>2. \/ (\E s \in Statements : s.does # "find" /\ Issue(s)) /\ UNCHANGED lateAnswers
      \/ lateAnswers' \in Seq(Answers) /\ UNCHANGED queue
  <2>1. ASSUME NEW e \in Ents, NEW set \in [name : Names] \cup [area : Ours],
               UpdateEntity(e, set)
        PROVE  <1>2
    <3>1. Stmt("update", e, set, "person") \in Statements
      BY DEF Stmt, Statements
    <3>2. Stmt("update", e, set, "person").does # "find"
      BY DEF Stmt
    <3> QED BY <2>1, <3>1, <3>2, RefusalKept DEF UpdateEntity
  <2>2. ASSUME NEW e \in Ents, RenameEntity(e) \/ AssignEntity(e)
        PROVE  <1>2
    <3>1. CASE RenameEntity(e)
      <4>1. PICK n \in Names : UpdateEntity(e, [name |-> n])
        BY <3>1 DEF RenameEntity
      <4>2. [name |-> n] \in [name : Names] \cup [area : Ours]
        OBVIOUS
      <4> QED BY <2>1, <4>1, <4>2
    <3>2. CASE AssignEntity(e)
      <4>1. PICK a \in AreaChoices : UpdateEntity(e, [area |-> a])
        BY <3>2 DEF AssignEntity
      <4>2. [area |-> a] \in [name : Names] \cup [area : Ours]
        BY DEF AreaChoices, Ours, RegInv
      <4> QED BY <2>1, <4>1, <4>2
    <3> QED BY <2>2, <3>1, <3>2
  <2>3. ASSUME NEW a \in AreaIds, CreateArea(a) \/ UpdateArea(a)
        PROVE  <1>2
    <3>1. \A n \in Names, d \in {"insert", "update"} :
             Stmt(d, a, n, "person") \in Statements /\ Stmt(d, a, n, "person").does # "find"
      BY DEF Stmt, Statements
    <3> QED BY <2>3, <3>1, RefusalKept DEF CreateArea, UpdateArea
  <2>4. ASSUME NEW a \in AreaIds, DeleteArea(a)
        PROVE  <1>2
    <3>1. /\ Stmt("delete", a, NoRow, "person") \in Statements
          /\ Stmt("delete", a, NoRow, "person").does # "find"
      BY DEF Stmt, Statements
    <3>2. [does |-> "delete", key |-> a, set |-> NoRow] \in Answers
      BY DEF Answers
    <3>3. Reply("delete", a, NoRow) => lateAnswers' \in Seq(Answers)
      BY <3>2, AppendProperties DEF Reply, RegInv
    <3> QED BY <2>4, <3>1, <3>3 DEF DeleteArea
  <2> QED BY <2>2, <2>3, <2>4 DEF Persons
<1>3. queue' \in Seq(Statements) /\ Behind' = Behind /\ lateAnswers' \in Seq(Answers)
  BY <1>2, Issued DEF RegInv, Behind
<1>4. RegInv'
  BY <1>1, <1>3 DEF RegInv, TypedTable, NoGhost
<1> QED BY <1>1, <1>3, <1>4, TableSteps

-----------------------------------------------------------------------------
(* The first statement is executed.                                        *)
LEMMA FirstStatement ==
    ASSUME RegInv, queue # << >>
    PROVE  /\ Head(queue) \in Statements /\ Tail(queue) \in Seq(Statements)
           /\ Head(queue).key \in RegKeys
BY BehindServed, StatementForms DEF RegInv

LEMMA StepInsertDelete ==
    ASSUME RegInv, ExecInsert \/ ExecDelete
    PROVE  RegInv' /\ TableStep
<1> DEFINE s == Head(queue)
           row == IF s.does = "insert" THEN s.set ELSE NoRow
<1>1. /\ queue # << >> /\ s.does \in {"insert", "delete"}
      /\ queue' = Tail(queue) /\ Answer(s)
      /\ stored' = [stored EXCEPT ![s.key] = row]
      /\ known' = [known EXCEPT ![s.key] = row]
      /\ UNCHANGED <<toRegister, page>>
  BY DEF ExecInsert, ExecDelete, Executed
<1>2. s \in Statements /\ Tail(queue) \in Seq(Statements) /\ s.key \in RegKeys
  BY <1>1, FirstStatement
<1> HIDE DEF s
<1>3. row \in RowOf(s.key) \cup {NoRow} /\ row \in RowsOf \cup {NoRow}
  BY <1>1, <1>2, StatementForms, RowsKnown
<1> HIDE DEF row
<1>4. lateAnswers' \in Seq(Answers)
  BY <1>1, <1>2, AnswerKept
<1>5. Behind' = Behind
  <2>1. BehindOf(Tail(queue)) = BehindOf(queue)
    BY <1>1, BehindServed DEF s, RegInv
  <2> QED BY <1>1, <2>1, BehindIs
<1>6. TypedTable(stored)' /\ TypedTable(known)' /\ NoGhost'
  BY <1>1, <1>2, <1>3 DEF RegInv, TypedTable, NoGhost
<1>7. RegInv'
  BY <1>1, <1>2, <1>4, <1>6 DEF RegInv
<1>8. Durable!WriteThrough(s.key)
  BY <1>1, <1>3, <1>5 DEF Durable!WriteThrough
<1> QED BY <1>2, <1>7, <1>8, TableSteps

LEMMA StepUpdate ==
    ASSUME RegInv, ExecUpdate
    PROVE  RegInv' /\ TableStep
<1> DEFINE s == Head(queue)
           f == [s EXCEPT !.does = "find"]
           row == IF stored[s.key] = NoRow THEN NoRow
                  ELSE IF s.key \in Ents THEN Changed(stored[s.key], s.set) ELSE s.set
<1>1. /\ queue # << >> /\ s.does = "update"
      /\ queue' = Append(Tail(queue), f)
      /\ UNCHANGED <<known, lateAnswers, toRegister, page>>
  BY DEF ExecUpdate, Executed
<1>2. s \in Statements /\ Tail(queue) \in Seq(Statements) /\ s.key \in RegKeys
  BY <1>1, FirstStatement
<1>3. stored' = [stored EXCEPT ![s.key] = row]
  BY <1>2 DEF ExecUpdate, RegInv, TypedTable
<1>4. BehindOf(Tail(queue)) = BehindOf(queue)
  BY <1>1, BehindServed DEF RegInv
<1> HIDE DEF s
<1>5. f \in Statements /\ f.does = "find" /\ f.key = s.key
  BY <1>1, <1>2 DEF Statements
<1>6. /\ stored[s.key] = NoRow => row = NoRow
      /\ stored[s.key] # NoRow => row \in RowOf(s.key)
  <2>1. stored[s.key] \in RowOf(s.key) \cup {NoRow}
    BY <1>2 DEF RegInv, TypedTable
  <2>2. CASE stored[s.key] # NoRow /\ s.key \in Ents
    <3>1. stored[s.key] \in EntityRows
      BY <2>1, <2>2, RowsKnown
    <3>2. s.set \in [original : Originals] \cup [name : Names] \cup [area : Ours]
      BY <1>1, <1>2, <2>2, StatementForms
    <3>3. Changed(stored[s.key], s.set) \in EntityRows
      BY <3>1, <3>2, ChangedRow
    <3> QED BY <2>2, <3>3, RowsKnown
  <2>3. CASE stored[s.key] # NoRow /\ s.key \notin Ents
    <3>1. s.set \in Names
      BY <1>1, <1>2, <2>3, StatementForms
    <3>2. s.key \in AreaIds
      BY <1>2, <2>3 DEF RegKeys
    <3> QED BY <2>3, <3>1, <3>2, RowsKnown
  <2> QED BY <2>2, <2>3
<1> HIDE DEF f, row
<1>7. queue' \in Seq(Statements) /\ BehindOf(queue') = BehindOf(queue) \cup {s.key}
  BY <1>1, <1>2, <1>4, <1>5, BehindAppended
<1>8. Behind' = Behind \cup {s.key}
  BY <1>7, BehindIs
<1>9. /\ row \in RowOf(s.key) \cup {NoRow}
      /\ row # NoRow \/ known[s.key] = NoRow
  BY <1>2, <1>6, RowsKnown DEF RegInv, NoGhost
<1>10. TypedTable(stored)' /\ NoGhost'
  BY <1>1, <1>2, <1>3, <1>9, RowsKnown DEF RegInv, TypedTable, NoGhost
<1>11. RegInv'
  BY <1>1, <1>7, <1>10 DEF RegInv, TypedTable
<1>12. Durable!Write(s.key)
  BY <1>1, <1>2, <1>3, <1>8, <1>9, RowsKnown DEF Durable!Write
<1> QED BY <1>2, <1>11, <1>12, TableSteps

LEMMA StepFind ==
    ASSUME RegInv, ExecFind
    PROVE  RegInv' /\ TableStep
<1> DEFINE s == Head(queue)
<1>1. /\ queue # << >> /\ s.does = "find" /\ queue' = Tail(queue)
      /\ UNCHANGED <<stored, toRegister, page>>
  BY DEF ExecFind, Executed
<1>2. s \in Statements /\ Tail(queue) \in Seq(Statements) /\ s.key \in RegKeys
  BY <1>1, FirstStatement
<1>3. Behind' \in {Behind, Behind \ {s.key}}
  <2>1. BehindOf(Tail(queue)) \in {BehindOf(queue), BehindOf(queue) \ {s.key}}
    BY <1>1, BehindServed DEF RegInv
  <2> QED BY <1>1, <2>1, BehindIs
<1>4. known' = [known EXCEPT ![s.key] = stored[s.key]] /\ lateAnswers' \in Seq(Answers)
  <2>1. CASE stored[s.key] = NoRow
    <3>1. known' = known /\ (Refuse \/ UNCHANGED lateAnswers)
      BY <2>1 DEF ExecFind
    <3>2. known[s.key] = NoRow
      BY <1>2, <2>1 DEF RegInv, NoGhost
    <3> QED BY <1>2, <2>1, <3>1, <3>2, RefusalKept DEF RegInv, TypedTable
  <2>2. CASE stored[s.key] # NoRow
    <3>1. known' = [known EXCEPT ![s.key] = stored[s.key]] /\ Answer(s)
      BY <2>2 DEF ExecFind
    <3> QED BY <1>1, <1>2, <3>1, AnswerKept
  <2> QED BY <2>1, <2>2
<1> HIDE DEF s
<1>5. TypedTable(known)' /\ NoGhost'
  BY <1>1, <1>2, <1>4 DEF RegInv, TypedTable, NoGhost
<1>6. RegInv'
  BY <1>1, <1>2, <1>4, <1>5 DEF RegInv, TypedTable
<1>7. Durable!CopyRow(s.key)
  BY <1>1, <1>3, <1>4 DEF Durable!CopyRow
<1> QED BY <1>2, <1>6, <1>7, TableSteps

-----------------------------------------------------------------------------
LEMMA StepRestart ==
    ASSUME RegInv, ServerRestart
    PROVE  RegInv' /\ TableStep
<1>1. /\ known' = stored /\ queue' = << >> /\ toRegister' = Ents /\ lateAnswers' = << >>
      /\ page' = [page EXCEPT !.asked = 0, !.patient = @ /\ page.asked = 0]
      /\ UNCHANGED stored
  BY DEF ServerRestart
<1>2. RegInv'
  BY <1>1 DEF RegInv, TypedTable, NoGhost
<1>3. Behind' = {}
  BY <1>1 DEF Behind
<1>4. Durable!Restart
  BY <1>1, <1>3 DEF Durable!Restart
<1> QED BY <1>2, <1>4, TableSteps

LEMMA StepOpen ==
    ASSUME RegInv, OpenPage
    PROVE  RegInv' /\ TableStep
<1> DEFINE areas == [does |-> "areas", key |-> NoName,
                     list |-> {a \in AreaIds : known[a] # NoRow}]
           ents == [does |-> "entities", key |-> NoName,
                    areas |-> [e \in Ents |-> IF known[e] = NoRow THEN NoName
                                              ELSE known[e].area]]
<1>1. /\ page' = [page EXCEPT !.open = TRUE, !.asked = 2]
      /\ lateAnswers' = lateAnswers \o <<areas, ents>>
      /\ UNCHANGED <<stored, known, queue, toRegister>>
  BY DEF OpenPage
<1>2. areas \in Answers
  BY DEF Answers
<1>3. ents \in Answers
  <2>1. \A e \in Ents : known[e] # NoRow => known[e].area \in Ours
    <3>1. \A e \in Ents : known[e] # NoRow => known[e] \in EntityRows
      BY RowsKnown DEF RegInv, TypedTable
    <3> QED BY <3>1 DEF EntityRows, Ours
  <2>2. [e \in Ents |-> IF known[e] = NoRow THEN NoName ELSE known[e].area] \in [Ents -> Ours]
    BY <2>1 DEF Ours
  <2> QED BY <2>2 DEF Answers
<1> HIDE DEF areas, ents
<1>4. <<areas, ents>> \in Seq(Answers)
  BY <1>2, <1>3
<1>5. lateAnswers' \in Seq(Answers)
  BY <1>1, <1>4, ConcatProperties DEF RegInv
<1>6. RegInv'
  BY <1>1, <1>5 DEF RegInv, TypedTable, NoGhost
<1> QED BY <1>1, <1>6, TableSteps DEF Behind

LEMMA StepAnswer ==
    ASSUME RegInv, AnswerArrives
    PROVE  RegInv' /\ TableStep
<1>1. PICK i \in DOMAIN lateAnswers :
          /\ Arrives(i)
          /\ \/ ListsArrive(i) \/ AreaCreated(i) \/ AreaDeleted(i) \/ EntityAssigned(i)
             \/ Refused(i)
  BY DEF AnswerArrives
<1>2. lateAnswers \in Seq(Answers) /\ i \in 1 .. Len(lateAnswers) /\ Len(lateAnswers) \in Nat
  BY LenProperties DEF RegInv
<1>3. lateAnswers[i] \in Answers
  BY <1>2, ElementOfSeq
<1>4. lateAnswers' \in Seq(Answers)
  <2>1. \A j \in 1 .. Len(lateAnswers) : lateAnswers[j] \in Answers
    BY <1>2, ElementOfSeq
  <2>2. SubSeq(lateAnswers, 1, i - 1) \in Seq(Answers)
    BY <1>2, <2>1, SubSeqProperties
  <2>3. SubSeq(lateAnswers, i + 1, Len(lateAnswers)) \in Seq(Answers)
    BY <1>2, <2>1, SubSeqProperties
  <2> QED BY <1>1, <2>2, <2>3, ConcatProperties DEF Arrives
<1>5. /\ UNCHANGED <<stored, known, queue, toRegister>>
  BY <1>1 DEF Arrives
<1> DEFINE a == lateAnswers[i]
<1>6. /\ page'.areas \subseteq AreaIds
      /\ DOMAIN page' = {"open", "areas", "area", "asked", "patient"}
  <2>1. a.does = "areas" => a.list \subseteq AreaIds
    BY <1>3 DEF Answers
  <2>2. a.does = "insert" => a.key \in AreaIds
    BY <1>3 DEF Answers
  <2> HIDE DEF a
  <2>3. CASE ListsArrive(i)
    BY <2>1, <2>3 DEF ListsArrive, RegInv, a
  <2>4. CASE AreaCreated(i)
    BY <2>2, <2>4 DEF AreaCreated, RegInv, a
  <2>5. CASE AreaDeleted(i)
    BY <2>5 DEF AreaDeleted, RegInv, a
  <2>6. CASE EntityAssigned(i)
    BY <2>6 DEF EntityAssigned, RegInv, a
  <2>7. CASE Refused(i)
    BY <2>7 DEF Refused, RegInv, a
  <2> QED BY <1>1, <2>3, <2>4, <2>5, <2>6, <2>7
<1>7. RegInv'
  BY <1>4, <1>5, <1>6 DEF RegInv, TypedTable, NoGhost
<1> QED BY <1>5, <1>7, TableSteps DEF Behind

-----------------------------------------------------------------------------
LEMMA RegInvInit ==
    ASSUME RegInit
    PROVE  RegInv /\ Durable!TableInit
<1>1. RegInv
  BY DEF RegInit, RegInv, TypedTable, NoGhost, Answers, Statements
<1>2. Durable!TableInit
  BY <1>1 DEF RegInit, Durable!TableInit, RegInv, TypedTable, Behind
<1> QED BY <1>1, <1>2

LEMMA RegInvStep ==
    ASSUME RegInv, [RegNext]_regVars
    PROVE  RegInv' /\ TableStep
<1>1. CASE UNCHANGED regVars
  <2>1. RegInv'
    BY <1>1 DEF regVars, RegInv, TypedTable, NoGhost
  <2> QED BY <1>1, <2>1, TableSteps DEF regVars, Behind
<1> QED BY <1>1, StepRegister, StepPersons, StepInsertDelete, StepUpdate, StepFind, StepRestart,
           StepOpen, StepAnswer DEF RegNext, Database

(* The registries implement the durable table: whatever is asked of them,  *)
(* in whatever order the database executes it and answers arrive, a row in *)
(* memory differs from the table only while a change of it waits to be     *)
(* copied, never runs ahead of it, and a restart goes by the table         *)
(* (updateEntityInternal(), createArea(), deleteArea(),                    *)
(* loadFromDatabase()).                                                    *)
THEOREM RegistryIsDurable == RegSpec => IsDurableTable
<1>1. RegSpec => []RegInv
  <2>1. RegInit => RegInv
    BY RegInvInit
  <2>2. RegInv /\ [RegNext]_regVars => RegInv'
    BY RegInvStep
  <2> QED BY <2>1, <2>2, PTL DEF RegSpec
<1>2. RegInit => Durable!TableInit
  BY RegInvInit
<1>3. RegInv /\ [RegNext]_regVars => [Durable!TableNext]_(Durable!tableVars)
  BY RegInvStep DEF TableStep, Durable!tableVars
<1> QED BY <1>1, <1>2, <1>3, PTL DEF RegSpec, IsDurableTable, Durable!TableSpec

-----------------------------------------------------------------------------
(* What a person edited.  A renaming of an entity, on its way.             *)
Renames(s, e) == s.who = "person" /\ s.key = e /\ "name" \in DOMAIN s.set

(* A row is in memory when it is in the table.                             *)
Together == \A k \in RegKeys : (stored[k] = NoRow) <=> (known[k] = NoRow)

(* A row that is inserted is new, and inserted once; others are there.     *)
RowsComeFirst ==
    \A e \in Ents, i \in DOMAIN queue : queue[i].key = e =>
        IF queue[i].does # "insert" THEN stored[e] # NoRow
        ELSE /\ stored[e] = NoRow /\ e \notin toRegister
             /\ \A j \in DOMAIN queue : queue[j].key = e => j = i

(* Renamings on their way are not confirmed yet, and the last one executed *)
(* is in the table.                                                        *)
RenamesGoOn ==
    \A e \in Ents, i \in DOMAIN queue : Renames(queue[i], e) =>
        /\ renamed[e] = NoName
        /\ \/ queue[i].does = "update"
           \/ stored[e].name = queue[i].set.name
           \/ \E j \in DOMAIN queue : /\ j > i /\ Renames(queue[j], e)
                                      /\ queue[j].does = "find"

NamesInv == /\ renamed \in [Ents -> Names \cup {NoName}]
            /\ Together /\ RowsComeFirst /\ RenamesGoOn /\ NamesAreKept

(* The queue with a statement more, one less, or one put back.             *)
LEMMA QueueGrows ==
    ASSUME NEW q \in Seq(Statements), NEW s \in Statements
    PROVE  /\ Len(q) \in Nat /\ DOMAIN q = 1 .. Len(q)
           /\ DOMAIN Append(q, s) = 1 .. Len(q) + 1
           /\ \A i \in 1 .. Len(q) : Append(q, s)[i] = q[i]
           /\ Append(q, s)[Len(q) + 1] = s
BY AppendProperties, LenProperties

LEMMA QueueShrinks ==
    ASSUME NEW q \in Seq(Statements), q # << >>
    PROVE  /\ Len(q) \in Nat \ {0} /\ DOMAIN q = 1 .. Len(q)
           /\ Tail(q) \in Seq(Statements) /\ Len(Tail(q)) = Len(q) - 1
           /\ DOMAIN Tail(q) = 1 .. Len(q) - 1
           /\ \A i \in 1 .. Len(q) - 1 : Tail(q)[i] = q[i + 1]
           /\ Head(q) = q[1] /\ Head(q) \in Statements
BY HeadTailProperties, LenProperties

LEMMA QueueTurns ==
    ASSUME NEW q \in Seq(Statements), q # << >>, NEW s \in Statements
    PROVE  /\ Len(q) \in Nat \ {0} /\ DOMAIN q = 1 .. Len(q)
           /\ DOMAIN Append(Tail(q), s) = 1 .. Len(q)
           /\ \A i \in 1 .. Len(q) - 1 : Append(Tail(q), s)[i] = q[i + 1]
           /\ Append(Tail(q), s)[Len(q)] = s
           /\ Head(q) = q[1] /\ Head(q) \in Statements
<1>1. /\ Len(q) \in Nat \ {0} /\ DOMAIN q = 1 .. Len(q)
      /\ Tail(q) \in Seq(Statements) /\ Len(Tail(q)) = Len(q) - 1
      /\ \A i \in 1 .. Len(q) - 1 : Tail(q)[i] = q[i + 1]
      /\ Head(q) = q[1] /\ Head(q) \in Statements
  BY QueueShrinks
<1> DEFINE t == Tail(q)
<1>2. /\ DOMAIN Append(t, s) = 1 .. Len(t) + 1
      /\ \A i \in 1 .. Len(t) : Append(t, s)[i] = t[i]
      /\ Append(t, s)[Len(t) + 1] = s
  BY <1>1, QueueGrows
<1> QED BY <1>1, <1>2

LEMMA EntityKeys ==
    ASSUME NEW s \in Statements, s.key \in Ents
    PROVE  /\ s.does \in {"insert", "update", "find"}
           /\ s.does = "insert" => s.who = "integration"
           /\ ~Renames(s, s.key) \/ (s.does \in {"update", "find"} /\ s.set \in [name : Names])
BY RowsKnown DEF Statements, Renames

(* A statement is issued.                                                  *)
LEMMA NamesIssued ==
    ASSUME RegInv, NamesInv, NEW s \in Statements, s.does # "find", Issue(s),
           UNCHANGED <<stored, known>>, toRegister' \subseteq toRegister,
           renamed' \in [Ents -> Names \cup {NoName}],
           \A e \in Ents : renamed'[e] \in {renamed[e], NoName},
           s.key \in Ents =>
              /\ s.does = "insert" => /\ known[s.key] = NoRow
                                      /\ s.key \in toRegister /\ s.key \notin toRegister'
              /\ s.does # "insert" => known[s.key] # NoRow
              /\ Renames(s, s.key) => renamed'[s.key] = NoName
    PROVE  NamesInv'
<1> DEFINE n == Len(queue)
<1>1. /\ n \in Nat /\ DOMAIN queue = 1 .. n /\ DOMAIN queue' = 1 .. n + 1
      /\ \A i \in 1 .. n : queue'[i] = queue[i]
      /\ queue'[n + 1] = s
  BY QueueGrows DEF RegInv, Issue
<1> HIDE DEF n
<1>2. \A i \in DOMAIN queue' : \/ i \in DOMAIN queue /\ queue'[i] = queue[i] /\ i # n + 1
                               \/ i = n + 1 /\ queue'[i] = s
  BY <1>1
<1>3. \A i \in DOMAIN queue : i \in DOMAIN queue' /\ queue'[i] = queue[i]
  BY <1>1
<1>4. Together' /\ NamesAreKept'
  BY DEF NamesInv, Together, NamesAreKept
<1>5. s.key \in Ents => (stored[s.key] = NoRow <=> known[s.key] = NoRow)
  BY RowsKnown DEF NamesInv, Together
<1>6. RowsComeFirst'
  <2> SUFFICES ASSUME NEW e \in Ents, NEW i \in DOMAIN queue', queue'[i].key = e
               PROVE  IF queue'[i].does # "insert" THEN stored[e] # NoRow
                      ELSE /\ stored[e] = NoRow /\ e \notin toRegister'
                           /\ \A j \in DOMAIN queue' : queue'[j].key = e => j = i
    BY DEF RowsComeFirst
  <2>1. CASE i = n + 1
    <3>1. queue'[i] = s /\ s.key = e
      BY <1>2, <2>1
    <3>2. CASE s.does = "insert"
      <4>1. \A j \in DOMAIN queue : queue[j].key # e
        BY <1>5, <3>1, <3>2 DEF NamesInv, RowsComeFirst
      <4> QED BY <1>2, <1>5, <2>1, <3>1, <3>2, <4>1
    <3> QED BY <1>5, <3>1, <3>2
  <2>2. CASE i # n + 1
    <3>1. i \in DOMAIN queue /\ queue'[i] = queue[i]
      BY <1>2, <2>2
    <3>2. CASE queue[i].does = "insert"
      <4>1. stored[e] = NoRow /\ e \notin toRegister /\ \A j \in DOMAIN queue : queue[j].key = e => j = i
        BY <3>1, <3>2 DEF NamesInv, RowsComeFirst
      <4>2. s.key # e
        BY <1>5, <4>1
      <4> QED BY <1>2, <3>1, <3>2, <4>1, <4>2
    <3> QED BY <3>1, <3>2 DEF NamesInv, RowsComeFirst
  <2> QED BY <2>1, <2>2
<1>7. RenamesGoOn'
  <2> SUFFICES ASSUME NEW e \in Ents, NEW i \in DOMAIN queue', Renames(queue'[i], e)
               PROVE  /\ renamed'[e] = NoName
                      /\ \/ queue'[i].does = "update"
                         \/ stored[e].name = queue'[i].set.name
                         \/ \E j \in DOMAIN queue' : /\ j > i /\ Renames(queue'[j], e)
                                                     /\ queue'[j].does = "find"
    BY DEF RenamesGoOn, Renames
  <2>1. CASE queue'[i] = s
    <3>1. s.key = e /\ Renames(s, s.key)
      BY <2>1 DEF Renames
    <3> QED BY <2>1, <3>1, EntityKeys
  <2>2. CASE i \in DOMAIN queue /\ queue'[i] = queue[i]
    <3>1. /\ renamed[e] = NoName
          /\ \/ queue[i].does = "update"
             \/ stored[e].name = queue[i].set.name
             \/ \E j \in DOMAIN queue : /\ j > i /\ Renames(queue[j], e)
                                        /\ queue[j].does = "find"
      BY <2>2 DEF NamesInv, RenamesGoOn
    <3> QED BY <1>3, <2>2, <3>1
  <2> QED BY <1>2, <2>1, <2>2
<1> QED BY <1>4, <1>6, <1>7 DEF NamesInv

(* The first statement is executed, and is gone.                           *)
LEMMA NamesInserted ==
    ASSUME RegInv, NamesInv, ExecInsert \/ ExecDelete
    PROVE  NamesInv'
<1> DEFINE s == Head(queue)
           row == IF s.does = "insert" THEN s.set ELSE NoRow
           n == Len(queue)
<1>1. /\ queue # << >> /\ s.does \in {"insert", "delete"} /\ queue' = Tail(queue)
      /\ stored' = [stored EXCEPT ![s.key] = row]
      /\ known' = [known EXCEPT ![s.key] = row]
      /\ UNCHANGED <<toRegister, renamed>>
  BY DEF ExecInsert, ExecDelete, Executed
<1>2. /\ n \in Nat \ {0} /\ DOMAIN queue = 1 .. n /\ DOMAIN queue' = 1 .. n - 1
      /\ \A i \in 1 .. n - 1 : queue'[i] = queue[i + 1]
      /\ s = queue[1] /\ s \in Statements
  BY <1>1, QueueShrinks DEF RegInv
<1> HIDE DEF n
<1>3. s.key \in RegKeys /\ row \in RowsOf \cup {NoRow} /\ (s.does = "insert" <=> row # NoRow)
  BY <1>1, <1>2, StatementForms, RowsKnown
<1>4. s.key \in Ents => s.does = "insert" /\ row \in EntityRows
  BY <1>1, <1>2, EntityKeys, StatementForms, RowsKnown
<1> HIDE DEF row
<1>5. 1 \in DOMAIN queue /\ queue[1] = s
  BY <1>2
<1>6. \A i \in DOMAIN queue' : i + 1 \in DOMAIN queue /\ queue'[i] = queue[i + 1] /\ i + 1 > 1
                               /\ i \in Nat
  BY <1>2
<1> HIDE DEF s
<1>7. \A k \in RegKeys : /\ k # s.key => stored'[k] = stored[k] /\ known'[k] = known[k]
                         /\ k = s.key => stored'[k] = row /\ known'[k] = row
  BY <1>1, <1>3 DEF RegInv, TypedTable
<1>8. Together'
  BY <1>7 DEF NamesInv, Together
<1>9. \A e \in Ents : e = s.key => \A i \in DOMAIN queue' : queue'[i].key # e
  <2> SUFFICES ASSUME s.key \in Ents, NEW i \in DOMAIN queue', queue'[i].key = s.key PROVE FALSE
    OBVIOUS
  <2>1. \A j \in DOMAIN queue : queue[j].key = s.key => j = 1
    BY <1>4, <1>5 DEF NamesInv, RowsComeFirst
  <2> QED BY <1>6, <2>1
<1>10. RowsComeFirst'
  <2> SUFFICES ASSUME NEW e \in Ents, NEW i \in DOMAIN queue', queue'[i].key = e
               PROVE  IF queue'[i].does # "insert" THEN stored'[e] # NoRow
                      ELSE /\ stored'[e] = NoRow /\ e \notin toRegister
                           /\ \A j \in DOMAIN queue' : queue'[j].key = e => j = i
    BY <1>1 DEF RowsComeFirst
  <2>1. e # s.key /\ stored'[e] = stored[e]
    BY <1>7, <1>9, RowsKnown
  <2>2. IF queue[i + 1].does # "insert" THEN stored[e] # NoRow
        ELSE /\ stored[e] = NoRow /\ e \notin toRegister
             /\ \A j \in DOMAIN queue : queue[j].key = e => j = i + 1
    BY <1>6 DEF NamesInv, RowsComeFirst
  <2>3. \A j \in DOMAIN queue' : j + 1 = i + 1 => j = i
    BY <1>6
  <2> QED BY <1>6, <2>1, <2>2, <2>3
<1>11. RenamesGoOn'
  <2> SUFFICES ASSUME NEW e \in Ents, NEW i \in DOMAIN queue', Renames(queue'[i], e)
               PROVE  /\ renamed[e] = NoName
                      /\ \/ queue'[i].does = "update"
                         \/ stored'[e].name = queue'[i].set.name
                         \/ \E j \in DOMAIN queue' : /\ j > i /\ Renames(queue'[j], e)
                                                     /\ queue'[j].does = "find"
    BY <1>1 DEF RenamesGoOn, Renames
  <2>1. stored'[e] = stored[e]
    BY <1>7, <1>9, RowsKnown DEF Renames
  <2>2. /\ renamed[e] = NoName
        /\ \/ queue[i + 1].does = "update"
           \/ stored[e].name = queue[i + 1].set.name
           \/ \E j \in DOMAIN queue : /\ j > i + 1 /\ Renames(queue[j], e)
                                      /\ queue[j].does = "find"
    BY <1>6 DEF NamesInv, RenamesGoOn
  <2>3. \A j \in DOMAIN queue : j > i + 1 =>
            j - 1 \in DOMAIN queue' /\ j - 1 > i /\ queue'[j - 1] = queue[j]
    BY <1>2, <1>6
  <2> QED BY <1>6, <2>1, <2>2, <2>3
<1>12. NamesAreKept'
  <2> SUFFICES ASSUME NEW e \in Ents, renamed[e] # NoName
               PROVE  /\ stored'[e] # NoRow /\ stored'[e].name = renamed[e]
                      /\ known'[e] # NoRow /\ known'[e].name = renamed[e]
    BY <1>1 DEF NamesAreKept
  <2>1. /\ stored[e] # NoRow /\ stored[e].name = renamed[e]
        /\ known[e] # NoRow /\ known[e].name = renamed[e]
    BY DEF NamesInv, NamesAreKept
  <2>2. e # s.key
    BY <1>4, <1>5, <2>1 DEF NamesInv, RowsComeFirst
  <2> QED BY <1>7, <2>1, <2>2, RowsKnown
<1> QED BY <1>1, <1>8, <1>10, <1>11, <1>12 DEF NamesInv

(* What a change does to a name.                                           *)
LEMMA ChangedName ==
    ASSUME NEW row \in EntityRows,
           NEW set \in [original : Originals] \cup [name : Names] \cup [area : Ours]
    PROVE  /\ set \in [name : Names] => Changed(row, set).name = set.name
           /\ "name" \notin DOMAIN set => Changed(row, set).name = row.name
<1>1. "name" \in DOMAIN row
  BY DEF EntityRows
<1>2. Changed(row, set).name = IF "name" \in DOMAIN set THEN set.name ELSE row.name
  BY <1>1 DEF Changed
<1> QED BY <1>2

LEMMA NamesUpdated ==
    ASSUME RegInv, NamesInv, ExecUpdate
    PROVE  NamesInv'
<1> DEFINE s == Head(queue)
           f == [s EXCEPT !.does = "find"]
           row == IF stored[s.key] = NoRow THEN NoRow
                  ELSE IF s.key \in Ents THEN Changed(stored[s.key], s.set) ELSE s.set
           n == Len(queue)
<1>1. /\ queue # << >> /\ s.does = "update" /\ queue' = Append(Tail(queue), f)
      /\ UNCHANGED <<known, toRegister, renamed>>
  BY DEF ExecUpdate, Executed
<1>2. s \in Statements /\ s.key \in RegKeys
  BY <1>1, FirstStatement
<1>3. f \in Statements /\ f.does = "find" /\ f.key = s.key /\ f.who = s.who /\ f.set = s.set
  <2> HIDE DEF s
  <2> QED BY <1>1, <1>2 DEF Statements
<1> HIDE DEF f
<1>4. /\ n \in Nat \ {0} /\ DOMAIN queue = 1 .. n /\ DOMAIN queue' = 1 .. n
      /\ \A i \in 1 .. n - 1 : queue'[i] = queue[i + 1]
      /\ queue'[n] = f /\ s = queue[1]
  BY <1>1, <1>3, QueueTurns DEF RegInv
<1>5. stored' = [stored EXCEPT ![s.key] = row]
  BY <1>2 DEF ExecUpdate, RegInv, TypedTable
<1> HIDE DEF n
<1>6. s.key \in Ents => stored[s.key] # NoRow /\ stored[s.key] \in EntityRows
  <2> SUFFICES ASSUME s.key \in Ents PROVE stored[s.key] # NoRow /\ stored[s.key] \in EntityRows
    OBVIOUS
  <2>1. stored[s.key] # NoRow
    BY <1>1, <1>4 DEF NamesInv, RowsComeFirst
  <2> QED BY <2>1, RowsKnown DEF RegInv, TypedTable
<1>7. s.key \in Ents => /\ row # NoRow
                        /\ Renames(s, s.key) => row.name = s.set.name
                        /\ ~Renames(s, s.key) => row.name = stored[s.key].name
  <2> SUFFICES ASSUME s.key \in Ents
               PROVE  /\ row # NoRow
                      /\ Renames(s, s.key) => row.name = s.set.name
                      /\ ~Renames(s, s.key) => row.name = stored[s.key].name
    OBVIOUS
  <2>1. row = Changed(stored[s.key], s.set)
    BY <1>6
  <2>2. s.set \in [original : Originals] \cup [name : Names] \cup [area : Ours]
    BY <1>1, <1>2, StatementForms
  <2>3. row \in EntityRows
    BY <1>6, <2>1, <2>2, ChangedRow
  <2>4. row # NoRow
    BY <2>3, RowsKnown
  <2>5. CASE Renames(s, s.key)
    BY <1>2, <1>6, <2>1, <2>2, <2>4, <2>5, ChangedName, EntityKeys
  <2>6. CASE ~Renames(s, s.key)
    <3>1. "name" \notin DOMAIN s.set
      <4>1. s.who = "person" \/ s.set \in [original : Originals]
        BY <1>1, <1>2, RowsKnown DEF Statements
      <4>2. CASE s.set \in [original : Originals]
        BY <4>2
      <4> QED BY <2>6, <4>1, <4>2 DEF Renames
    <3> QED BY <1>6, <2>1, <2>2, <2>4, <2>6, <3>1, ChangedName
  <2> QED BY <2>5, <2>6
<1>8. (stored[s.key] = NoRow) <=> (row = NoRow)
  <2>1. CASE s.key \in Ents
    BY <1>6, <1>7, <2>1
  <2>2. CASE s.key \notin Ents
    <3>1. s.set \in Names /\ NoRow \notin Names
      BY <1>1, <1>2, <2>2, StatementForms, RowsKnown DEF RowsOf, AreaRows
    <3> QED BY <2>2, <3>1
  <2> QED BY <2>1, <2>2
<1> HIDE DEF row, s
<1>9. \A k \in RegKeys : /\ k # s.key => stored'[k] = stored[k]
                         /\ k = s.key => stored'[k] = row
                         /\ (stored'[k] = NoRow) <=> (stored[k] = NoRow)
  BY <1>2, <1>5, <1>8 DEF RegInv, TypedTable
<1>10. Together'
  BY <1>1, <1>9 DEF NamesInv, Together
<1>11. \A i \in DOMAIN queue' : \/ /\ i # n /\ i + 1 \in DOMAIN queue /\ i \in Nat
                                   /\ queue'[i] = queue[i + 1]
                                \/ i = n /\ queue'[i] = f
  BY <1>4
<1>12. 1 \in DOMAIN queue /\ n \in DOMAIN queue' /\ n \in Nat
  BY <1>4
<1>13. RowsComeFirst'
  <2> SUFFICES ASSUME NEW e \in Ents, NEW i \in DOMAIN queue', queue'[i].key = e
               PROVE  IF queue'[i].does # "insert" THEN stored'[e] # NoRow
                      ELSE /\ stored'[e] = NoRow /\ e \notin toRegister
                           /\ \A j \in DOMAIN queue' : queue'[j].key = e => j = i
    BY <1>1 DEF RowsComeFirst
  <2>1. (stored'[e] = NoRow) <=> (stored[e] = NoRow)
    BY <1>9, RowsKnown
  <2>2. CASE i = n
    BY <1>3, <1>6, <1>11, <2>1, <2>2
  <2>3. CASE i # n
    <3>1. i + 1 \in DOMAIN queue /\ queue'[i] = queue[i + 1] /\ i \in Nat
      BY <1>11, <2>3
    <3>2. IF queue[i + 1].does # "insert" THEN stored[e] # NoRow
          ELSE /\ stored[e] = NoRow /\ e \notin toRegister
               /\ \A j \in DOMAIN queue : queue[j].key = e => j = i + 1
      BY <3>1 DEF NamesInv, RowsComeFirst
    <3>3. queue[i + 1].does = "insert" => e # s.key
      BY <1>6, <3>2
    <3>4. ASSUME queue[i + 1].does = "insert", NEW j \in DOMAIN queue', queue'[j].key = e
          PROVE  j = i
      <4>1. j # n
        BY <1>3, <1>11, <3>3, <3>4
      <4>2. j + 1 = i + 1 /\ j \in Nat
        BY <1>11, <3>2, <3>4, <4>1
      <4> QED BY <3>1, <4>2
    <3> QED BY <2>1, <3>1, <3>2, <3>4
  <2> QED BY <2>2, <2>3
<1>14. RenamesGoOn'
  <2> SUFFICES ASSUME NEW e \in Ents, NEW i \in DOMAIN queue', Renames(queue'[i], e)
               PROVE  /\ renamed[e] = NoName
                      /\ \/ queue'[i].does = "update"
                         \/ stored'[e].name = queue'[i].set.name
                         \/ \E j \in DOMAIN queue' : /\ j > i /\ Renames(queue'[j], e)
                                                     /\ queue'[j].does = "find"
    BY <1>1 DEF RenamesGoOn, Renames
  <2>1. CASE i = n
    <3>1. s.key = e /\ Renames(s, s.key) /\ queue'[i].set = s.set
      BY <1>3, <1>11, <2>1 DEF Renames
    <3>2. renamed[e] = NoName
      BY <1>4, <1>12, <3>1 DEF NamesInv, RenamesGoOn
    <3>3. stored'[e].name = s.set.name
      BY <1>7, <1>9, <3>1, RowsKnown
    <3> QED BY <3>1, <3>2, <3>3
  <2>2. CASE i # n
    <3>1. i + 1 \in DOMAIN queue /\ queue'[i] = queue[i + 1] /\ i \in Nat
      BY <1>11, <2>2
    <3>2. /\ renamed[e] = NoName
          /\ \/ queue[i + 1].does = "update"
             \/ stored[e].name = queue[i + 1].set.name
             \/ \E j \in DOMAIN queue : /\ j > i + 1 /\ Renames(queue[j], e)
                                        /\ queue[j].does = "find"
      BY <3>1 DEF NamesInv, RenamesGoOn
    <3>3. \A j \in DOMAIN queue : j > i + 1 =>
              j - 1 \in DOMAIN queue' /\ j - 1 > i /\ queue'[j - 1] = queue[j]
      BY <1>4, <3>1
    <3>4. CASE Renames(s, e)
      <4>1. n > i
        BY <1>4, <2>2
      <4>2. Renames(queue'[n], e) /\ queue'[n].does = "find"
        BY <1>3, <1>4, <3>4 DEF Renames
      <4> QED BY <1>12, <3>2, <4>1, <4>2
    <3>5. CASE ~Renames(s, e)
      <4>1. stored'[e].name = stored[e].name
        BY <1>7, <1>9, <3>5, RowsKnown
      <4> QED BY <3>1, <3>2, <3>3, <4>1
    <3> QED BY <3>4, <3>5
  <2> QED BY <2>1, <2>2
<1>15. NamesAreKept'
  <2> SUFFICES ASSUME NEW e \in Ents, renamed[e] # NoName
               PROVE  /\ stored'[e] # NoRow /\ stored'[e].name = renamed[e]
                      /\ known[e] # NoRow /\ known[e].name = renamed[e]
    BY <1>1 DEF NamesAreKept
  <2>1. /\ stored[e] # NoRow /\ stored[e].name = renamed[e]
        /\ known[e] # NoRow /\ known[e].name = renamed[e]
    BY DEF NamesInv, NamesAreKept
  <2>2. ~Renames(s, e)
    BY <1>4, <1>12 DEF NamesInv, RenamesGoOn
  <2> QED BY <1>7, <1>9, <2>1, <2>2, RowsKnown
<1> QED BY <1>1, <1>10, <1>13, <1>14, <1>15 DEF NamesInv

(* The row of a renaming is read again: it is confirmed when it is the     *)
(* last.                                                                   *)
LEMMA NamesFound ==
    ASSUME RegInv, NamesInv, ExecFind
    PROVE  NamesInv'
<1> DEFINE s == Head(queue)
           n == Len(queue)
<1>1. /\ queue # << >> /\ s.does = "find" /\ queue' = Tail(queue)
      /\ UNCHANGED <<stored, toRegister>>
  BY DEF ExecFind, Executed
<1>2. /\ n \in Nat \ {0} /\ DOMAIN queue = 1 .. n /\ DOMAIN queue' = 1 .. n - 1
      /\ \A i \in 1 .. n - 1 : queue'[i] = queue[i + 1]
      /\ s = queue[1] /\ s \in Statements
  BY <1>1, QueueShrinks DEF RegInv
<1>3. s.key \in RegKeys
  BY <1>2, StatementForms
<1>4. known' = [known EXCEPT ![s.key] = stored[s.key]]
  <2>1. CASE stored[s.key] = NoRow
    <3>1. known' = known
      BY <2>1 DEF ExecFind
    <3>2. known[s.key] = NoRow
      BY <1>3, <2>1 DEF RegInv, NoGhost
    <3> QED BY <1>3, <2>1, <3>1, <3>2 DEF RegInv, TypedTable
  <2>2. CASE stored[s.key] # NoRow
    BY <2>2 DEF ExecFind
  <2> QED BY <2>1, <2>2
<1>5. \/ renamed' = renamed
      \/ /\ s.who = "person" /\ s.key \in Ents /\ "name" \in DOMAIN s.set
         /\ ~\E i \in DOMAIN queue' : /\ queue'[i].key = s.key /\ queue'[i].who = "person"
                                      /\ "name" \in DOMAIN queue'[i].set
         /\ renamed' = [renamed EXCEPT ![s.key] = s.set.name]
  BY <1>1 DEF ExecFind, Confirm
<1>6. 1 \in DOMAIN queue /\ queue[1] = s
  BY <1>2
<1> HIDE DEF n
<1>7. \A i \in DOMAIN queue' : i + 1 \in DOMAIN queue /\ queue'[i] = queue[i + 1] /\ i + 1 > 1
                               /\ i \in Nat
  BY <1>2
<1>8. \A i \in DOMAIN queue : i = 1 \/ (i - 1 \in DOMAIN queue' /\ queue'[i - 1] = queue[i])
  BY <1>2
<1> HIDE DEF s
<1>9. \A k \in RegKeys : known'[k] = IF k = s.key THEN stored[k] ELSE known[k]
  BY <1>4 DEF RegInv, TypedTable
<1>10. Together'
  BY <1>1, <1>9 DEF NamesInv, Together
<1>11. RowsComeFirst'
  <2> SUFFICES ASSUME NEW e \in Ents, NEW i \in DOMAIN queue', queue'[i].key = e
               PROVE  IF queue'[i].does # "insert" THEN stored[e] # NoRow
                      ELSE /\ stored[e] = NoRow /\ e \notin toRegister
                           /\ \A j \in DOMAIN queue' : queue'[j].key = e => j = i
    BY <1>1 DEF RowsComeFirst
  <2>1. IF queue[i + 1].does # "insert" THEN stored[e] # NoRow
        ELSE /\ stored[e] = NoRow /\ e \notin toRegister
             /\ \A j \in DOMAIN queue : queue[j].key = e => j = i + 1
    BY <1>7 DEF NamesInv, RowsComeFirst
  <2>2. \A j \in DOMAIN queue' : j + 1 = i + 1 => j = i
    BY <1>7
  <2> QED BY <1>7, <2>1, <2>2
<1>12. \A e \in Ents, i \in DOMAIN queue' : Renames(queue'[i], e) => renamed'[e] = renamed[e]
  BY <1>5 DEF NamesInv, Renames
<1>13. RenamesGoOn'
  <2> SUFFICES ASSUME NEW e \in Ents, NEW i \in DOMAIN queue', Renames(queue'[i], e)
               PROVE  /\ renamed'[e] = NoName
                      /\ \/ queue'[i].does = "update"
                         \/ stored[e].name = queue'[i].set.name
                         \/ \E j \in DOMAIN queue' : /\ j > i /\ Renames(queue'[j], e)
                                                     /\ queue'[j].does = "find"
    BY <1>1 DEF RenamesGoOn, Renames
  <2>1. /\ renamed[e] = NoName
        /\ \/ queue[i + 1].does = "update"
           \/ stored[e].name = queue[i + 1].set.name
           \/ \E j \in DOMAIN queue : /\ j > i + 1 /\ Renames(queue[j], e)
                                      /\ queue[j].does = "find"
    BY <1>7 DEF NamesInv, RenamesGoOn
  <2>2. \A j \in DOMAIN queue : j > i + 1 =>
            j - 1 \in DOMAIN queue' /\ j - 1 > i /\ queue'[j - 1] = queue[j]
    BY <1>2, <1>7
  <2> QED BY <1>7, <1>12, <2>1, <2>2
<1>14. NamesAreKept' /\ renamed' \in [Ents -> Names \cup {NoName}]
  <2>1. CASE renamed' = renamed
    BY <1>1, <1>9, <2>1, RowsKnown DEF NamesInv, NamesAreKept
  <2>2. CASE renamed' # renamed
    <3>1. s.key \in Ents /\ Renames(s, s.key) /\ renamed' = [renamed EXCEPT ![s.key] = s.set.name]
      BY <1>5, <2>2 DEF Renames
    <3>2. s.set.name \in Names
      BY <1>2, <3>1, EntityKeys
    <3>3. stored[s.key] # NoRow
      BY <1>1, <1>6, <3>1 DEF NamesInv, RowsComeFirst
    <3>4. stored[s.key].name = s.set.name
      <4>1. ASSUME NEW j \in DOMAIN queue, j > 1, Renames(queue[j], s.key)
            PROVE  FALSE
        BY <1>5, <1>8, <2>2, <4>1 DEF Renames
      <4> QED BY <1>1, <1>6, <3>1, <4>1 DEF NamesInv, RenamesGoOn
    <3>5. \A e \in Ents : renamed'[e] = IF e = s.key THEN s.set.name ELSE renamed[e]
      BY <3>1 DEF NamesInv
    <3>6. NamesAreKept'
      BY <1>1, <1>9, <3>3, <3>4, <3>5, RowsKnown DEF NamesInv, NamesAreKept
    <3> QED BY <3>1, <3>2, <3>6 DEF NamesInv
  <2> QED BY <2>1, <2>2
<1> QED BY <1>10, <1>11, <1>13, <1>14 DEF NamesInv

(* What a person asks for.                                                 *)
LEMMA NamesAsked ==
    ASSUME RegInv, NamesInv, Persons
    PROVE  NamesInv'
<1>1. ASSUME UNCHANGED <<stored, known, queue, toRegister>>,
             renamed' \in [Ents -> Names \cup {NoName}],
             \A e \in Ents : renamed'[e] \in {renamed[e], NoName}
      PROVE  NamesInv'
  BY <1>1 DEF NamesInv, Together, RowsComeFirst, RenamesGoOn, NamesAreKept, Renames
<1>2. ASSUME NEW e \in Ents, NEW set \in [name : Names] \cup [area : Ours], UpdateEntity(e, set)
      PROVE  NamesInv'
  <2> DEFINE s == Stmt("update", e, set, "person")
  <2>1. /\ s \in Statements /\ s.does = "update" /\ s.key = e /\ s.set = set
        /\ UNCHANGED <<stored, known, toRegister>>
    BY <1>2 DEF Stmt, Statements, UpdateEntity, Request
  <2>2. /\ renamed' \in [Ents -> Names \cup {NoName}]
        /\ \A g \in Ents : renamed'[g] \in {renamed[g], NoName}
        /\ "name" \in DOMAIN set => renamed'[e] = NoName
    BY <1>2 DEF UpdateEntity, NamesInv
  <2>3. \/ known[e] = NoRow /\ UNCHANGED queue
        \/ known[e] # NoRow /\ Issue(s)
    BY <1>2 DEF UpdateEntity
  <2> HIDE DEF s
  <2>4. CASE known[e] = NoRow
    BY <1>1, <2>1, <2>2, <2>3, <2>4
  <2>5. CASE known[e] # NoRow
    <3>1. Renames(s, s.key) => renamed'[s.key] = NoName
      BY <2>1, <2>2 DEF Renames
    <3> QED BY <2>1, <2>2, <2>3, <2>5, <3>1, NamesIssued
  <2> QED BY <2>4, <2>5
<1>3. ASSUME NEW e \in Ents, RenameEntity(e) \/ AssignEntity(e)
      PROVE  NamesInv'
  <2>1. CASE RenameEntity(e)
    <3>1. PICK n \in Names : UpdateEntity(e, [name |-> n])
      BY <2>1 DEF RenameEntity
    <3>2. [name |-> n] \in [name : Names] \cup [area : Ours]
      OBVIOUS
    <3> QED BY <1>2, <3>1, <3>2
  <2>2. CASE AssignEntity(e)
    <3>1. PICK a \in AreaChoices : UpdateEntity(e, [area |-> a])
      BY <2>2 DEF AssignEntity
    <3>2. [area |-> a] \in [name : Names] \cup [area : Ours]
      BY DEF AreaChoices, Ours, RegInv
    <3> QED BY <1>2, <3>1, <3>2
  <2> QED BY <1>3, <2>1, <2>2
<1>4. ASSUME NEW a \in AreaIds, NEW s \in Statements, s.key = a, s.does # "find",
             UNCHANGED <<stored, known, toRegister, renamed>>,
             UNCHANGED queue \/ Issue(s)
      PROVE  NamesInv'
  <2>1. renamed' \in [Ents -> Names \cup {NoName}]
        /\ \A g \in Ents : renamed'[g] \in {renamed[g], NoName}
    BY <1>4 DEF NamesInv
  <2>2. s.key \notin Ents
    BY <1>4, RowsKnown
  <2> QED BY <1>1, <1>4, <2>1, <2>2, NamesIssued
<1>5. ASSUME NEW a \in AreaIds, CreateArea(a) \/ UpdateArea(a)
      PROVE  NamesInv'
  <2>1. UNCHANGED <<stored, known, toRegister, renamed>>
    BY <1>5 DEF CreateArea, UpdateArea, Request
  <2>2. \A n \in Names, d \in {"insert", "update"} :
            /\ Stmt(d, a, n, "person") \in Statements /\ Stmt(d, a, n, "person").does # "find"
            /\ Stmt(d, a, n, "person").key = a
    BY DEF Stmt, Statements
  <2>3. \/ UNCHANGED queue
        \/ \E n \in Names, d \in {"insert", "update"} : Issue(Stmt(d, a, n, "person"))
    BY <1>5 DEF CreateArea, UpdateArea
  <2>4. CASE UNCHANGED queue
    BY <1>1, <2>1, <2>4 DEF NamesInv
  <2>5. CASE \E n \in Names, d \in {"insert", "update"} : Issue(Stmt(d, a, n, "person"))
    <3>1. PICK n \in Names, d \in {"insert", "update"} : Issue(Stmt(d, a, n, "person"))
      BY <2>5
    <3> QED BY <1>4, <2>1, <2>2, <3>1
  <2> QED BY <2>3, <2>4, <2>5
<1>6. ASSUME NEW a \in AreaIds, DeleteArea(a)
      PROVE  NamesInv'
  <2> DEFINE s == Stmt("delete", a, NoRow, "person")
  <2>1. s \in Statements /\ s.does # "find" /\ s.key = a
    BY DEF Stmt, Statements
  <2>2. UNCHANGED <<stored, known, toRegister, renamed>> /\ (UNCHANGED queue \/ Issue(s))
    BY <1>6 DEF DeleteArea, Request
  <2> HIDE DEF s
  <2> QED BY <1>4, <2>1, <2>2
<1> QED BY <1>3, <1>5, <1>6 DEF Persons

LEMMA NamesRegistered ==
    ASSUME RegInv, NamesInv, RegisterEntity
    PROVE  NamesInv'
<1>1. PICK e \in toRegister, o \in Originals :
          /\ toRegister' = toRegister \ {e}
          /\ Issue(IF known[e] = NoRow
                   THEN Stmt("insert", e, [name |-> o, original |-> o, area |-> NoName],
                             "integration")
                   ELSE Stmt("update", e, [original |-> o], "integration"))
  BY DEF RegisterEntity
<1> DEFINE s == IF known[e] = NoRow
                THEN Stmt("insert", e, [name |-> o, original |-> o, area |-> NoName],
                          "integration")
                ELSE Stmt("update", e, [original |-> o], "integration")
<1>2. e \in Ents
  BY <1>1 DEF RegInv
<1>3. /\ s \in Statements /\ s.key = e /\ s.who = "integration"
      /\ known[e] = NoRow => s.does = "insert"
      /\ known[e] # NoRow => s.does = "update"
  <2>1. [name |-> o, original |-> o, area |-> NoName] \in EntityRows
    BY DEF EntityRows
  <2>2. [original |-> o] \in [original : Originals]
    OBVIOUS
  <2>3. CASE known[e] = NoRow
    BY <1>2, <2>1, <2>3 DEF Stmt, Statements
  <2>4. CASE known[e] # NoRow
    BY <1>2, <2>2, <2>4 DEF Stmt, Statements
  <2> QED BY <2>3, <2>4
<1>4. Issue(s)
  BY <1>1
<1> HIDE DEF s
<1>5. UNCHANGED <<stored, known, renamed>>
  BY DEF RegisterEntity
<1>6. ~Renames(s, s.key)
  BY <1>3 DEF Renames
<1>7. s.does # "find"
  BY <1>3
<1>8. toRegister' \subseteq toRegister /\ e \notin toRegister'
  BY <1>1
<1>9. renamed' \in [Ents -> Names \cup {NoName}] /\ \A g \in Ents : renamed'[g] \in {renamed[g], NoName}
  BY <1>5 DEF NamesInv
<1> QED BY <1>1, <1>3, <1>4, <1>5, <1>6, <1>7, <1>8, <1>9, NamesIssued

LEMMA NamesStep ==
    ASSUME RegInv, NamesInv, [RegNext]_regVars
    PROVE  NamesInv'
<1>1. CASE UNCHANGED regVars \/ OpenPage \/ AnswerArrives
  <2>1. UNCHANGED <<stored, known, queue, toRegister, renamed>>
    BY <1>1 DEF regVars, OpenPage, AnswerArrives, Arrives
  <2> QED BY <2>1 DEF NamesInv, Together, RowsComeFirst, RenamesGoOn, NamesAreKept, Renames
<1>2. CASE ServerRestart
  <2>1. known' = stored /\ queue' = << >> /\ UNCHANGED <<stored, renamed>>
    BY <1>2 DEF ServerRestart
  <2>2. DOMAIN queue' = {}
    BY <2>1
  <2> QED BY <2>1, <2>2 DEF NamesInv, Together, RowsComeFirst, RenamesGoOn, NamesAreKept
<1> QED BY <1>1, <1>2, NamesRegistered, NamesAsked, NamesInserted, NamesUpdated, NamesFound
        DEF RegNext, Database

-----------------------------------------------------------------------------
(* The page of areas.                                                      *)
AreasKnown == {a \in AreaIds : known[a] # NoRow}
NobodyAsks == \A i \in DOMAIN queue : queue[i].who # "person"

(* What a page that shows some areas will show when an answer has arrived. *)
Shown(areas, x) == CASE x.does = "areas"  -> x.list
                     [] x.does = "insert" -> areas \cup {x.key}
                     [] x.does = "delete" -> areas \ {x.key}
                     [] OTHER             -> areas

(* A user who waits: nothing is on its way,                                *)
AtRest == /\ page.asked = 0 /\ NobodyAsks /\ lateAnswers = << >>
          /\ page.areas = AreasKnown
(* or one request,                                                         *)
OneAsked == /\ page.asked = 1 /\ lateAnswers = << >> /\ page.areas = AreasKnown
            /\ \A i, j \in DOMAIN queue :
                  queue[i].who = "person" /\ queue[j].who = "person" => i = j
(* or its answer,                                                          *)
OneAnswered == /\ page.asked = 1 /\ NobodyAsks /\ Len(lateAnswers) = 1
               /\ Shown(page.areas, lateAnswers[1]) = AreasKnown
(* or the two lists.                                                       *)
ListsAnswered == /\ page.asked = 2 /\ NobodyAsks /\ Len(lateAnswers) = 2
                 /\ lateAnswers[1].does = "areas" /\ lateAnswers[1].list = AreasKnown
                 /\ lateAnswers[2].does = "entities"

PageInv ==
    /\ ~page.open => NobodyAsks /\ lateAnswers = << >>
    /\ page.open /\ page.patient => AtRest \/ OneAsked \/ OneAnswered \/ ListsAnswered

(* A statement is issued, a person's only by one who waits for nothing.    *)
LEMMA PageAsks ==
    ASSUME RegInv, PageInv, Persons
    PROVE  PageInv'
<1>1. /\ UNCHANGED <<stored, known, toRegister>> /\ page.open
      /\ page' = [page EXCEPT !.asked = @ + 1, !.patient = @ /\ page.asked = 0]
  BY DEF Persons, RenameEntity, AssignEntity, UpdateEntity, CreateArea, UpdateArea, DeleteArea,
         Request, Asks
<1>2. /\ page'.open /\ page'.areas = page.areas /\ page'.asked = page.asked + 1
      /\ page'.patient => page.patient /\ page.asked = 0
  BY <1>1 DEF RegInv
<1>3. \/ (\E s \in Statements : Issue(s)) /\ UNCHANGED lateAnswers
      \/ Refuse /\ UNCHANGED queue
      \/ \E a \in AreaIds : Reply("delete", a, NoRow) /\ known[a] = NoRow /\ UNCHANGED queue
  <2>1. ASSUME NEW e \in Ents, NEW set \in [name : Names] \cup [area : Ours],
               UpdateEntity(e, set)
        PROVE  <1>3
    <3>1. Stmt("update", e, set, "person") \in Statements
      BY DEF Stmt, Statements
    <3> QED BY <2>1, <3>1 DEF UpdateEntity
  <2>2. ASSUME NEW e \in Ents, RenameEntity(e) \/ AssignEntity(e)
        PROVE  <1>3
    <3>1. CASE RenameEntity(e)
      <4>1. PICK n \in Names : UpdateEntity(e, [name |-> n])
        BY <3>1 DEF RenameEntity
      <4>2. [name |-> n] \in [name : Names] \cup [area : Ours]
        OBVIOUS
      <4> QED BY <2>1, <4>1, <4>2
    <3>2. CASE AssignEntity(e)
      <4>1. PICK a \in AreaChoices : UpdateEntity(e, [area |-> a])
        BY <3>2 DEF AssignEntity
      <4>2. [area |-> a] \in [name : Names] \cup [area : Ours]
        BY DEF AreaChoices, Ours, RegInv
      <4> QED BY <2>1, <4>1, <4>2
    <3> QED BY <2>2, <3>1, <3>2
  <2>3. ASSUME NEW a \in AreaIds, CreateArea(a) \/ UpdateArea(a)
        PROVE  <1>3
    <3>1. \A n \in Names, d \in {"insert", "update"} : Stmt(d, a, n, "person") \in Statements
      BY DEF Stmt, Statements
    <3> QED BY <2>3, <3>1 DEF CreateArea, UpdateArea
  <2>4. ASSUME NEW a \in AreaIds, DeleteArea(a)
        PROVE  <1>3
    <3>1. Stmt("delete", a, NoRow, "person") \in Statements
      BY DEF Stmt, Statements
    <3> QED BY <2>4, <3>1 DEF DeleteArea
  <2> QED BY <2>2, <2>3, <2>4 DEF Persons
<1>4. CASE ~page'.patient
  BY <1>2, <1>4 DEF PageInv
<1>5. CASE page'.patient
  <2>1. AtRest
    BY <1>1, <1>2, <1>5 DEF PageInv, AtRest, OneAsked, OneAnswered, ListsAnswered
  <2>2. page'.asked = 1 /\ page'.areas = AreasKnown'
    BY <1>1, <1>2, <1>5, <2>1 DEF AtRest, AreasKnown
  <2>3. ASSUME NEW s \in Statements, Issue(s), UNCHANGED lateAnswers
        PROVE  OneAsked'
    <3> DEFINE n == Len(queue)
    <3>1. /\ n \in Nat /\ DOMAIN queue = 1 .. n /\ DOMAIN queue' = 1 .. n + 1
          /\ \A i \in 1 .. n : queue'[i] = queue[i]
      BY <2>3, QueueGrows DEF RegInv, Issue
    <3> HIDE DEF n
    <3>2. \A i \in DOMAIN queue' : queue'[i].who = "person" => i = n + 1
      BY <2>1, <3>1 DEF AtRest, NobodyAsks
    <3> QED BY <2>1, <2>2, <2>3, <3>2 DEF OneAsked, AtRest
  <2>4. ASSUME NEW x, lateAnswers' = Append(lateAnswers, x), UNCHANGED queue,
               Shown(page.areas, x) = AreasKnown
        PROVE  OneAnswered'
    <3>1. lateAnswers' = <<x>>
      BY <2>1, <2>4 DEF AtRest
    <3>2. Len(lateAnswers') = 1 /\ lateAnswers'[1] = x
      BY <3>1
    <3>3. AreasKnown' = AreasKnown
      BY <1>1 DEF AreasKnown
    <3>4. Shown(page.areas, x) = Shown(page'.areas, lateAnswers'[1])
      BY <1>2, <3>2
    <3> QED BY <2>1, <2>2, <2>4, <3>2, <3>3, <3>4 DEF OneAnswered, AtRest, NobodyAsks
  <2>5. CASE Refuse /\ UNCHANGED queue
    <3> DEFINE x == [does |-> "refused", key |-> NoName, set |-> NoRow]
    <3>1. Shown(page.areas, x) = AreasKnown
      BY <2>1 DEF Shown, AtRest
    <3>2. lateAnswers' = Append(lateAnswers, x)
      BY <2>5 DEF Refuse, Reply
    <3> QED BY <1>2, <2>4, <2>5, <3>1, <3>2 DEF PageInv
  <2>6. ASSUME NEW a \in AreaIds, Reply("delete", a, NoRow), known[a] = NoRow, UNCHANGED queue
        PROVE  OneAnswered'
    <3> DEFINE x == [does |-> "delete", key |-> a, set |-> NoRow]
    <3>1. Shown(page.areas, x) = AreasKnown
      BY <2>1, <2>6 DEF Shown, AtRest, AreasKnown
    <3>2. lateAnswers' = Append(lateAnswers, x)
      BY <2>6 DEF Reply
    <3> QED BY <2>4, <2>6, <3>1, <3>2
  <2> QED BY <1>2, <1>3, <2>3, <2>5, <2>6 DEF PageInv
<1> QED BY <1>4, <1>5

LEMMA PageRegisters ==
    ASSUME RegInv, PageInv, RegisterEntity
    PROVE  PageInv'
<1>1. PICK e \in toRegister, o \in Originals :
          Issue(IF known[e] = NoRow
                THEN Stmt("insert", e, [name |-> o, original |-> o, area |-> NoName],
                          "integration")
                ELSE Stmt("update", e, [original |-> o], "integration"))
  BY DEF RegisterEntity
<1> DEFINE s == IF known[e] = NoRow
                THEN Stmt("insert", e, [name |-> o, original |-> o, area |-> NoName],
                          "integration")
                ELSE Stmt("update", e, [original |-> o], "integration")
           n == Len(queue)
<1>2. e \in Ents
  BY <1>1 DEF RegInv
<1>3. s \in Statements /\ s.who = "integration"
  <2>1. [name |-> o, original |-> o, area |-> NoName] \in EntityRows
    BY DEF EntityRows
  <2>2. [original |-> o] \in [original : Originals]
    OBVIOUS
  <2>3. CASE known[e] = NoRow
    BY <1>2, <2>1, <2>3 DEF Stmt, Statements
  <2>4. CASE known[e] # NoRow
    BY <1>2, <2>2, <2>4 DEF Stmt, Statements
  <2> QED BY <2>3, <2>4
<1>4. queue' = Append(queue, s)
  BY <1>1 DEF Issue
<1> HIDE DEF s
<1>5. /\ n \in Nat /\ DOMAIN queue = 1 .. n /\ DOMAIN queue' = 1 .. n + 1
      /\ \A i \in 1 .. n : queue'[i] = queue[i]
      /\ queue'[n + 1] = s
  BY <1>3, <1>4, QueueGrows DEF RegInv
<1> HIDE DEF n
<1>6. \A i \in DOMAIN queue' : queue'[i].who = "person" =>
          i \in DOMAIN queue /\ queue[i].who = "person"
  BY <1>3, <1>5
<1>7. UNCHANGED <<known, page, lateAnswers>>
  BY DEF RegisterEntity
<1>8. NobodyAsks => NobodyAsks'
  BY <1>6 DEF NobodyAsks
<1>9. AreasKnown' = AreasKnown
  BY <1>7 DEF AreasKnown
<1>10. OneAsked => OneAsked'
  BY <1>6, <1>7, <1>9 DEF OneAsked
<1> QED BY <1>7, <1>8, <1>9, <1>10 DEF PageInv, AtRest, OneAnswered, ListsAnswered

(* The first statement is executed: an integration's changes nothing for   *)
(* the page, a person's is answered or read again.                         *)
LEMMA PageExecutes ==
    ASSUME RegInv, NamesInv, PageInv, Database
    PROVE  PageInv'
<1> DEFINE s == Head(queue)
           n == Len(queue)
           f == [s EXCEPT !.does = "find"]
<1>1. queue # << >> /\ UNCHANGED page
  BY DEF Database, ExecInsert, ExecDelete, ExecUpdate, ExecFind, Executed
<1>2. /\ n \in Nat \ {0} /\ DOMAIN queue = 1 .. n
      /\ s = queue[1] /\ s \in Statements
  BY <1>1, QueueShrinks DEF RegInv
<1>3. 1 \in DOMAIN queue
  BY <1>2
<1>4. s.key \in RegKeys /\ s.who \in {"integration", "person"}
  <2> HIDE DEF s
  <2> QED BY <1>2, StatementForms DEF Statements
<1>5. \/ queue' = Tail(queue)
      \/ s.does = "update" /\ queue' = Append(Tail(queue), f)
  BY DEF Database, ExecInsert, ExecDelete, ExecUpdate, ExecFind
<1>6. s.does = "update" => f \in Statements /\ f.who = s.who
  <2> HIDE DEF s
  <2> QED BY <1>2 DEF Statements
<1> HIDE DEF f
<1>7. ASSUME queue' = Tail(queue)
      PROVE  \A i \in DOMAIN queue' : /\ i + 1 \in DOMAIN queue /\ queue'[i] = queue[i + 1]
                                      /\ i + 1 > 1 /\ i \in Nat
  <2>1. DOMAIN queue' = 1 .. n - 1 /\ \A i \in 1 .. n - 1 : queue'[i] = queue[i + 1]
    BY <1>1, <1>7, QueueShrinks DEF RegInv
  <2> HIDE DEF n
  <2> QED BY <1>2, <2>1
<1>8. ASSUME s.does = "update", queue' = Append(Tail(queue), f)
      PROVE  \A i \in DOMAIN queue' : /\ i \in Nat
                                      /\ \/ i + 1 \in DOMAIN queue /\ queue'[i] = queue[i + 1]
                                            /\ i + 1 > 1
                                         \/ i = n /\ queue'[i] = f
  <2>1. /\ DOMAIN queue' = 1 .. n /\ \A i \in 1 .. n - 1 : queue'[i] = queue[i + 1]
        /\ queue'[n] = f
    BY <1>1, <1>6, <1>8, QueueTurns DEF RegInv
  <2> HIDE DEF n
  <2> QED BY <1>2, <2>1
<1> HIDE DEF n, s
<1>9. CASE s.who = "integration"
  <2>1. s.key \in Ents
    BY <1>2, <1>9 DEF Statements
  <2>2. UNCHANGED lateAnswers
    BY <1>9 DEF Database, ExecInsert, ExecDelete, ExecUpdate, ExecFind, Answer, s
  <2>3. \A a \in AreaIds : known'[a] = known[a]
    BY <2>1, RowsKnown DEF Database, ExecInsert, ExecDelete, ExecUpdate, ExecFind, s, RegInv,
                           TypedTable
  <2>4. AreasKnown' = AreasKnown
    BY <2>3 DEF AreasKnown
  <2>5. NobodyAsks => NobodyAsks'
    BY <1>5, <1>6, <1>7, <1>8, <1>9 DEF NobodyAsks
  <2>6. OneAsked => OneAsked'
    <3> SUFFICES ASSUME OneAsked PROVE OneAsked'
      OBVIOUS
    <3>1. \A i \in DOMAIN queue' : queue'[i].who = "person" =>
              /\ i + 1 \in DOMAIN queue /\ queue'[i] = queue[i + 1] /\ i \in Nat
      BY <1>5, <1>6, <1>7, <1>8, <1>9
    <3>2. \A i, j \in DOMAIN queue' :
              queue'[i].who = "person" /\ queue'[j].who = "person" => i = j
      <4> SUFFICES ASSUME NEW i \in DOMAIN queue', NEW j \in DOMAIN queue',
                          queue'[i].who = "person", queue'[j].who = "person"
                   PROVE  i = j
        OBVIOUS
      <4>1. i + 1 = j + 1 /\ i \in Nat /\ j \in Nat
        BY <3>1 DEF OneAsked
      <4> QED BY <4>1
    <3> QED BY <1>1, <2>2, <2>4, <3>2 DEF OneAsked
  <2> QED BY <1>1, <2>2, <2>4, <2>5, <2>6 DEF PageInv, AtRest, OneAnswered, ListsAnswered
<1>10. CASE s.who = "person" /\ ~page.patient
  <2>1. page.open
    BY <1>2, <1>3, <1>10 DEF PageInv, NobodyAsks
  <2> QED BY <1>1, <1>10, <2>1 DEF PageInv
<1>11. CASE s.who = "person" /\ page.patient
  <2>1. page.open /\ OneAsked
    BY <1>2, <1>3, <1>11 DEF PageInv, NobodyAsks, AtRest, OneAnswered, ListsAnswered
  <2>2. \A i \in DOMAIN queue : queue[i].who = "person" => i = 1
    BY <1>2, <1>3, <1>11, <2>1 DEF OneAsked
  <2>3. CASE queue' = Append(Tail(queue), f) /\ s.does = "update"
    <3>1. \A i \in DOMAIN queue' : queue'[i].who = "person" => i = n
      <4> SUFFICES ASSUME NEW i \in DOMAIN queue', queue'[i].who = "person", i # n PROVE FALSE
        OBVIOUS
      <4>1. i + 1 \in DOMAIN queue /\ queue'[i] = queue[i + 1] /\ i + 1 > 1
        BY <1>8, <2>3
      <4> QED BY <2>2, <4>1
    <3>2. UNCHANGED <<known, lateAnswers>>
      BY <2>3 DEF Database, ExecInsert, ExecDelete, ExecUpdate, ExecFind, s
    <3>3. AreasKnown' = AreasKnown
      BY <3>2 DEF AreasKnown
    <3>4. OneAsked'
      BY <1>1, <2>1, <3>1, <3>2, <3>3 DEF OneAsked
    <3> QED BY <1>1, <2>1, <3>4 DEF PageInv
  <2>4. CASE queue' = Tail(queue) /\ s.does # "update"
    <3>1. NobodyAsks'
      <4> SUFFICES ASSUME NEW i \in DOMAIN queue', queue'[i].who = "person" PROVE FALSE
        BY DEF NobodyAsks
      <4>1. i + 1 \in DOMAIN queue /\ queue'[i] = queue[i + 1] /\ i + 1 > 1
        BY <1>7, <2>4
      <4> QED BY <2>2, <4>1
    <3>2. ASSUME NEW x, lateAnswers' = Append(lateAnswers, x),
                 Shown(page.areas, x) = AreasKnown'
          PROVE  PageInv'
      <4>1. lateAnswers' = <<x>>
        BY <2>1, <3>2 DEF OneAsked
      <4>2. Len(lateAnswers') = 1 /\ lateAnswers'[1] = x
        BY <4>1
      <4>3. Shown(page.areas, x) = Shown(page'.areas, lateAnswers'[1])
        BY <1>1, <4>2
      <4>4. OneAnswered'
        BY <1>1, <2>1, <3>1, <3>2, <4>2, <4>3 DEF OneAnswered, OneAsked
      <4> QED BY <1>1, <2>1, <4>4 DEF PageInv
    <3>3. page.areas = AreasKnown
      BY <2>1 DEF OneAsked
    <3>4. CASE ExecInsert \/ ExecDelete
      <4> DEFINE row == IF s.does = "insert" THEN s.set ELSE NoRow
                 x == [does |-> s.does, key |-> s.key, set |-> s.set]
      <4>1. /\ s.does \in {"insert", "delete"} /\ Answer(s)
            /\ known' = [known EXCEPT ![s.key] = row]
        BY <3>4 DEF ExecInsert, ExecDelete, s
      <4>2. lateAnswers' = Append(lateAnswers, x)
        BY <1>11, <4>1 DEF Answer, Reply
      <4>3. s.key \in AreaIds
        BY <1>2, <1>4, <1>11, <4>1, EntityKeys DEF RegKeys
      <4>4. s.does = "insert" <=> row # NoRow
        BY <1>2, <4>1, StatementForms, RowsKnown
      <4> HIDE DEF row
      <4>5. \A a \in AreaIds : known'[a] = IF a = s.key THEN row ELSE known[a]
        BY <4>1, RowsKnown DEF RegInv, TypedTable
      <4>6. AreasKnown' = IF s.does = "insert" THEN AreasKnown \cup {s.key}
                          ELSE AreasKnown \ {s.key}
        BY <4>3, <4>4, <4>5 DEF AreasKnown
      <4>7. x.does = s.does /\ x.key = s.key
        OBVIOUS
      <4> HIDE DEF x
      <4>8. Shown(page.areas, x) = AreasKnown'
        BY <3>3, <4>1, <4>6, <4>7 DEF Shown
      <4> QED BY <3>2, <4>2, <4>8
    <3>5. CASE ExecFind
      <4>1. s.does = "find"
        BY <3>5 DEF ExecFind, s
      <4>2. CASE stored[s.key] = NoRow
        <5> DEFINE x == [does |-> "refused", key |-> NoName, set |-> NoRow]
        <5>1. lateAnswers' = Append(lateAnswers, x) /\ known' = known
          BY <1>11, <3>5, <4>2 DEF ExecFind, Refuse, Reply, s
        <5>2. x.does = "refused"
          OBVIOUS
        <5>3. Shown(page.areas, x) = AreasKnown'
          BY <3>3, <5>1, <5>2 DEF Shown, AreasKnown
        <5> HIDE DEF x
        <5> QED BY <3>2, <5>1, <5>3
      <4>3. CASE stored[s.key] # NoRow
        <5> DEFINE x == [does |-> s.does, key |-> s.key, set |-> s.set]
        <5>1. /\ known' = [known EXCEPT ![s.key] = stored[s.key]]
              /\ lateAnswers' = Append(lateAnswers, x)
          BY <1>11, <3>5, <4>3 DEF ExecFind, Answer, Reply, s
        <5>2. known[s.key] # NoRow
          BY <1>4, <4>3 DEF NamesInv, Together
        <5>3. \A a \in AreaIds : known'[a] # NoRow <=> known[a] # NoRow
          BY <4>3, <5>1, <5>2, RowsKnown DEF RegInv, TypedTable
        <5>4. AreasKnown' = AreasKnown
          BY <5>3 DEF AreasKnown
        <5>5. x.does = "find"
          BY <4>1
        <5>6. Shown(page.areas, x) = AreasKnown'
          BY <3>3, <5>4, <5>5 DEF Shown
        <5> HIDE DEF x
        <5> QED BY <3>2, <5>1, <5>6
      <4> QED BY <4>2, <4>3
    <3> QED BY <2>4, <3>4, <3>5 DEF Database, ExecUpdate, s
  <2>5. ExecUpdate => s.does = "update" /\ queue' = Append(Tail(queue), f)
    BY DEF ExecUpdate, s, f
  <2>6. ~ExecUpdate => s.does # "update" /\ queue' = Tail(queue)
    BY DEF Database, ExecInsert, ExecDelete, ExecFind, s
  <2> QED BY <2>3, <2>4, <2>5, <2>6
<1> QED BY <1>4, <1>9, <1>10, <1>11

(* The page asks for its lists, and answers arrive.                        *)
LEMMA PageOpens ==
    ASSUME RegInv, PageInv, OpenPage
    PROVE  PageInv'
<1> DEFINE areas == [does |-> "areas", key |-> NoName,
                     list |-> {a \in AreaIds : known[a] # NoRow}]
           ents == [does |-> "entities", key |-> NoName,
                    areas |-> [e \in Ents |-> IF known[e] = NoRow THEN NoName
                                              ELSE known[e].area]]
<1>1. /\ page' = [page EXCEPT !.open = TRUE, !.asked = 2] /\ ~page.open
      /\ lateAnswers' = lateAnswers \o <<areas, ents>>
      /\ UNCHANGED <<stored, known, queue>>
  BY DEF OpenPage
<1>2. page'.asked = 2 /\ page'.open
  BY <1>1 DEF RegInv
<1>3. areas.does = "areas" /\ areas.list = AreasKnown /\ ents.does = "entities"
  BY DEF AreasKnown
<1> HIDE DEF areas, ents
<1>4. lateAnswers' = <<areas, ents>>
  <2>1. lateAnswers = << >>
    BY <1>1 DEF PageInv
  <2>2. <<areas, ents>> \in Seq({areas, ents})
    OBVIOUS
  <2>3. << >> \o <<areas, ents>> = <<areas, ents>>
    BY <2>2, ConcatEmptySeq
  <2> QED BY <1>1, <2>1, <2>3
<1>5. Len(lateAnswers') = 2 /\ lateAnswers'[1] = areas /\ lateAnswers'[2] = ents
  BY <1>4
<1>6. ListsAnswered'
  BY <1>1, <1>2, <1>3, <1>5 DEF ListsAnswered, PageInv, NobodyAsks, AreasKnown
<1> QED BY <1>2, <1>6 DEF PageInv

LEMMA PageHears ==
    ASSUME RegInv, PageInv, AnswerArrives
    PROVE  PageInv'
<1>1. PICK i \in DOMAIN lateAnswers :
          /\ Arrives(i)
          /\ \/ ListsArrive(i) \/ AreaCreated(i) \/ AreaDeleted(i) \/ EntityAssigned(i)
             \/ Refused(i)
  BY DEF AnswerArrives
<1> DEFINE x == lateAnswers[i]
<1>2. UNCHANGED <<known, queue>>
  BY <1>1 DEF Arrives
<1>3. /\ page'.open = page.open /\ page'.patient = page.patient
      /\ page'.asked = page.asked - 1
      /\ x.does # "entities" => page'.areas = Shown(page.areas, x)
      /\ x.does = "entities" => page'.areas = page.areas
  <2>0. lateAnswers \in Seq(Answers)
    BY DEF RegInv
  <2> HIDE DEF x
  <2>1. CASE ListsArrive(i)
    BY <2>1 DEF ListsArrive, RegInv, x, Shown
  <2>2. CASE AreaCreated(i)
    BY <2>2 DEF AreaCreated, RegInv, x, Shown
  <2>3. CASE AreaDeleted(i)
    BY <2>3 DEF AreaDeleted, RegInv, x, Shown
  <2>4. CASE EntityAssigned(i)
    BY <2>4 DEF EntityAssigned, RegInv, x, Shown
  <2>5. CASE Refused(i)
    BY <2>5 DEF Refused, RegInv, x, Shown
  <2> QED BY <1>1, <2>1, <2>2, <2>3, <2>4, <2>5
<1>4. lateAnswers # << >>
  BY <1>1
<1>5. CASE ~(page.open /\ page.patient)
  BY <1>3, <1>4, <1>5 DEF PageInv
<1>6. CASE page.open /\ page.patient
  <2>1. lateAnswers \in Seq(Answers) /\ Len(lateAnswers) \in Nat
        /\ DOMAIN lateAnswers = 1 .. Len(lateAnswers)
    BY LenProperties DEF RegInv
  <2>2. OneAnswered \/ ListsAnswered
    BY <1>4, <1>6 DEF PageInv, AtRest, OneAsked
  <2>3. CASE OneAnswered
    <3>1. i = 1 /\ Len(lateAnswers) = 1
      BY <1>1, <2>1, <2>3 DEF OneAnswered
    <3>2. lateAnswers' = << >>
      <4>1. SubSeq(lateAnswers, 1, i - 1) = << >> /\ SubSeq(lateAnswers, i + 1, Len(lateAnswers)) = << >>
        BY <2>1, <3>1
      <4> QED BY <1>1, <4>1 DEF Arrives
    <3>3. page'.areas = AreasKnown
      <4>1. Shown(page.areas, x) = AreasKnown
        BY <2>3, <3>1 DEF OneAnswered
      <4>2. x.does = "entities" => Shown(page.areas, x) = page.areas
        BY DEF Shown
      <4> QED BY <1>3, <4>1, <4>2
    <3>4. AtRest'
      BY <1>2, <1>3, <2>3, <3>2, <3>3 DEF AtRest, OneAnswered, NobodyAsks, AreasKnown
    <3> QED BY <1>3, <1>6, <3>4 DEF PageInv
  <2>4. CASE ListsAnswered
    <3>1. i \in {1, 2} /\ Len(lateAnswers) = 2
      BY <1>1, <2>1, <2>4 DEF ListsAnswered
    <3>2. /\ Len(lateAnswers') = 1
          /\ lateAnswers'[1] = IF i = 1 THEN lateAnswers[2] ELSE lateAnswers[1]
      <4> DEFINE front == SubSeq(lateAnswers, 1, i - 1)
                 back == SubSeq(lateAnswers, i + 1, 2)
      <4>1. lateAnswers' = front \o back
        BY <1>1, <3>1 DEF Arrives
      <4>2. \A j \in 1 .. 2 : lateAnswers[j] \in Answers
        BY <2>1, <3>1, ElementOfSeq
      <4>3. /\ front \in Seq(Answers) /\ Len(front) = IF 1 <= i - 1 THEN i - 1 ELSE 0
            /\ \A j \in 1 .. i - 1 : front[j] = lateAnswers[1 + j - 1]
        <5>1. i - 1 \in Int /\ 1 \in Int /\ (i - 1) - 1 + 1 = i - 1
          BY <3>1
        <5>2. \A j \in 1 .. i - 1 : lateAnswers[j] \in Answers
          BY <3>1, <4>2
        <5> QED BY <5>1, <5>2, SubSeqProperties
      <4>4. /\ back \in Seq(Answers) /\ Len(back) = IF i + 1 <= 2 THEN 2 - (i + 1) + 1 ELSE 0
            /\ \A j \in 1 .. 2 - (i + 1) + 1 : back[j] = lateAnswers[(i + 1) + j - 1]
        <5>1. i + 1 \in Int /\ 2 \in Int
          BY <3>1
        <5>2. \A j \in (i + 1) .. 2 : lateAnswers[j] \in Answers
          BY <3>1, <4>2
        <5> QED BY <5>1, <5>2, SubSeqProperties
      <4> HIDE DEF front, back
      <4>5. /\ Len(front \o back) = Len(front) + Len(back)
            /\ \A j \in 1 .. Len(front) + Len(back) :
                  (front \o back)[j] = IF j <= Len(front) THEN front[j]
                                       ELSE back[j - Len(front)]
        BY <4>3, <4>4, ConcatProperties
      <4>6. CASE i = 1
        <5>1. Len(front) = 0 /\ Len(back) = 1
          BY <4>3, <4>4, <4>6
        <5>2. back[1] = lateAnswers[2]
          BY <4>4, <4>6
        <5>3. (front \o back)[1] = back[1 - 0]
          BY <4>5, <5>1
        <5> QED BY <4>1, <4>5, <4>6, <5>1, <5>2, <5>3
      <4>7. CASE i = 2
        <5>1. Len(front) = 1 /\ Len(back) = 0
          BY <4>3, <4>4, <4>7
        <5>2. front[1] = lateAnswers[1]
          BY <4>3, <4>7
        <5>3. (front \o back)[1] = front[1] /\ Len(front \o back) = 1
          BY <4>5, <5>1
        <5> QED BY <4>1, <4>7, <5>2, <5>3
      <4> QED BY <3>1, <4>6, <4>7
    <3>3. AreasKnown' = AreasKnown
      BY <1>2 DEF AreasKnown
    <3>4. Len(lateAnswers') = 1 /\ Shown(page'.areas, lateAnswers'[1]) = AreasKnown
      <4>1. CASE i = 1
        <5>1. page'.areas = AreasKnown
          BY <1>3, <2>4, <4>1 DEF ListsAnswered, Shown
        <5>2. lateAnswers'[1] = lateAnswers[2] /\ Len(lateAnswers') = 1
          BY <3>2, <4>1
        <5>3. \A y, A : y.does = "entities" => Shown(A, y) = A
          BY DEF Shown
        <5> QED BY <2>4, <5>1, <5>2, <5>3 DEF ListsAnswered
      <4>2. CASE i = 2
        <5>1. lateAnswers'[1] = lateAnswers[1] /\ Len(lateAnswers') = 1
          BY <3>2, <4>2
        <5>2. \A y, A : y.does = "areas" => Shown(A, y) = y.list
          BY DEF Shown
        <5> QED BY <2>4, <5>1, <5>2 DEF ListsAnswered
      <4> QED BY <3>1, <4>1, <4>2
    <3>5. OneAnswered'
      BY <1>2, <1>3, <2>4, <3>3, <3>4 DEF OneAnswered, ListsAnswered, NobodyAsks
    <3> QED BY <1>3, <1>6, <3>5 DEF PageInv
  <2> QED BY <2>2, <2>3, <2>4
<1> QED BY <1>5, <1>6

LEMMA PageStep ==
    ASSUME RegInv, NamesInv, PageInv, [RegNext]_regVars
    PROVE  PageInv'
<1>1. CASE UNCHANGED regVars
  BY <1>1 DEF regVars, PageInv, AtRest, OneAsked, OneAnswered, ListsAnswered, NobodyAsks, AreasKnown
<1>2. CASE ServerRestart
  <2>1. /\ known' = stored /\ queue' = << >> /\ lateAnswers' = << >>
        /\ page' = [page EXCEPT !.asked = 0, !.patient = @ /\ page.asked = 0]
    BY <1>2 DEF ServerRestart
  <2>2. /\ page'.open = page.open /\ page'.areas = page.areas /\ page'.asked = 0
        /\ page'.patient => page.patient /\ page.asked = 0
    BY <2>1 DEF RegInv
  <2>3. NobodyAsks'
    BY <2>1 DEF NobodyAsks
  <2>4. AreasKnown' = AreasKnown
    BY <2>1, RowsKnown DEF AreasKnown, NamesInv, Together
  <2> QED BY <2>1, <2>2, <2>3, <2>4 DEF PageInv, AtRest, OneAsked, OneAnswered, ListsAnswered
<1> QED BY <1>1, <1>2, PageAsks, PageRegisters, PageExecutes, PageOpens, PageHears DEF RegNext

(* A name that was confirmed is in the table and in memory until the next  *)
(* renaming, whatever the integrations register; and a page whose user     *)
(* waits for each answer shows the areas there are: for any entities,      *)
(* areas, names, requests and restarts (updateEntity(), registerEntity(),  *)
(* AreasPage.tsx).                                                         *)
THEOREM EditsAreAlwaysKept == RegSpec => []EditsAreKept
<1>1. RegInit => RegInv /\ NamesInv /\ PageInv
  <2> SUFFICES ASSUME RegInit PROVE RegInv /\ NamesInv /\ PageInv
    OBVIOUS
  <2>1. DOMAIN queue = {}
    BY DEF RegInit
  <2>2. NamesInv
    BY <2>1 DEF RegInit, NamesInv, Together, RowsComeFirst, RenamesGoOn, NamesAreKept
  <2>3. PageInv
    BY <2>1 DEF RegInit, PageInv, NobodyAsks
  <2> QED BY <2>2, <2>3, RegInvInit
<1>2. RegInv /\ NamesInv /\ PageInv /\ [RegNext]_regVars => RegInv' /\ NamesInv' /\ PageInv'
  BY RegInvStep, NamesStep, PageStep
<1>3. NamesInv /\ PageInv => EditsAreKept
  <2> SUFFICES ASSUME NamesInv, PageInv PROVE EditsAreKept
    OBVIOUS
  <2>1. PageShowsAreas
    BY DEF PageInv, AtRest, OneAsked, OneAnswered, ListsAnswered, PageShowsAreas, AreasKnown
  <2> QED BY <2>1 DEF EditsAreKept, NamesInv
<1> QED BY <1>1, <1>2, <1>3, PTL DEF RegSpec

-----------------------------------------------------------------------------
(* Push: who is in the table, and who is sent what.                        *)
SendState == [step : {"log", "find", "send"}, targets : SUBSET Endpoints,
              dead : SUBSET Endpoints]

BrowserState == [endpoint : 0 .. MaxEndpoint, subscribed : BOOLEAN, unsaved : BOOLEAN,
                 step : {"idle", "post", "delete", "unsubscribe"}]

(* Which notices a sender has left is of no concern here.                  *)
IsSender(h) == h \in [id : Nat, left : {h.left}, send : SendState]

PushTyped ==
    /\ table \subseteq Endpoints /\ gone \subseteq Endpoints
    /\ due = [e \in Endpoints |-> due[e]]
    /\ browser \in [Clients -> BrowserState]
    /\ pushed \in [changes : Nat, edits : Nat, faults : Nat, endpoints : Nat]
    /\ \A h \in handlers : IsSender(h)

(* Browsers have endpoints of their own, and the push service forgets none *)
(* that a browser has.                                                     *)
EndpointsAreOwn ==
    /\ \A b \in Clients : browser[b].endpoint <= pushed.endpoints
                          /\ browser[b].endpoint \notin gone
    /\ \A b, c \in Clients : browser[b].endpoint = browser[c].endpoint
                                => b = c \/ browser[b].endpoint = 0
    /\ \A e \in gone : e <= pushed.endpoints

(* A browser with an endpoint has a row, unless it knows better.           *)
RowsAreThere ==
    \A b \in Clients :
        /\ browser[b].endpoint # 0 /\ ~browser[b].unsaved
              => browser[b].endpoint \in table \/ browser[b].step = "unsubscribe"
        /\ browser[b].subscribed \/ browser[b].step # "idle" => browser[b].endpoint # 0

(* Senders are told apart by their numbers, and only drop the dead.        *)
SendersAreOwn ==
    /\ \A h \in handlers : h.id < pushed.changes /\ h.send.dead \subseteq gone
    /\ \A h, k \in handlers : h.id = k.id => h = k

(* A notice is due to nobody before it is logged, to those in the table    *)
(* until the table is read, and then to those it is still sent to.         *)
DueIsAhead ==
    \A h \in handlers : \A e \in Endpoints : Notice(h) \in due[e] =>
        \/ h.send.step = "find" /\ e \in table
        \/ h.send.step = "send" /\ e \in h.send.targets

Senders == SendersAreOwn /\ DueIsAhead /\ NobodyIsPassedOver
PushInv == PushTyped /\ EndpointsAreOwn /\ RowsAreThere /\ Senders

(* What becomes of a sender that goes on, or turns to its next notice.     *)
LEMMA NextSend ==
    ASSUME NEW h, IsSender(h), NEW send \in SendState
    PROVE  LET g == [h EXCEPT !.send = send]
           IN  IsSender(g) /\ g.id = h.id /\ g.left = h.left /\ g.send = send
BY DEF IsSender

LEMMA NextNotice ==
    ASSUME NEW h, IsSender(h)
    PROVE  LET g == [h EXCEPT !.left = Tail(@), !.send = Idle]
           IN  IsSender(g) /\ g.id = h.id /\ g.send = Idle
<1>1. Idle \in SendState
  BY DEF Idle, SendState
<1>2. ASSUME NEW t
      PROVE  LET g == [h EXCEPT !.left = t, !.send = Idle]
             IN  /\ g \in [id : Nat, left : {t}, send : SendState]
                 /\ g.id = h.id /\ g.left = t /\ g.send = Idle
  BY <1>1 DEF IsSender
<1>3. LET g == [h EXCEPT !.left = Tail(h.left), !.send = Idle]
      IN  /\ g \in [id : Nat, left : {Tail(h.left)}, send : SendState]
          /\ g.id = h.id /\ g.left = Tail(h.left) /\ g.send = Idle
  BY <1>2, Zenon
<1> QED BY <1>3, Zenon DEF IsSender

(* A browser that got an endpoint from the push service.                   *)
LEMMA GotEndpoint ==
    ASSUME browser \in [Clients -> BrowserState], NEW b \in Clients, NEW x \in 0 .. MaxEndpoint,
           browser' = [browser EXCEPT ![b].endpoint = x, ![b].unsaved = TRUE, ![b].step = "post"]
    PROVE  /\ browser' \in [Clients -> BrowserState]
           /\ browser'[b].endpoint = x /\ browser'[b].unsaved = TRUE
           /\ browser'[b].step = "post"
           /\ \A c \in Clients \ {b} : browser'[c] = browser[c]
BY DEF BrowserState

LEMMA PushInitially == PushInit => PushInv
<1> SUFFICES ASSUME PushInit PROVE PushInv
  OBVIOUS
<1>1. PushTyped
  BY PushAssumption DEF PushInit, PushTyped, Endpoints, BrowserState
<1>2. EndpointsAreOwn /\ RowsAreThere
  BY PushAssumption DEF PushInit, EndpointsAreOwn, RowsAreThere
<1>3. Senders
  BY DEF PushInit, Senders, SendersAreOwn, DueIsAhead, NobodyIsPassedOver, Endpoints
<1> QED BY <1>1, <1>2, <1>3 DEF PushInv

(* A sender goes on: what it dropped before stays dropped, what is due to  *)
(* others is not touched, and a notice of its own is due to no more than   *)
(* before, or than the table when it is logged.                            *)
LEMMA SenderGoesOn ==
    ASSUME PushInv, NEW h \in handlers, NEW send \in SendState, Proceeds(h, send),
           UNCHANGED <<table, gone, browser>>, pushed'.changes = pushed.changes,
           send.dead \subseteq gone,
           due' = [e \in Endpoints |-> due'[e]],
           \A e \in Endpoints : due'[e] \subseteq due[e] \cup {Notice(h)},
           \A e \in Endpoints : Notice(h) \in due'[e] =>
               \/ send.step = "find" /\ e \in table
               \/ send.step = "send" /\ e \in send.targets
    PROVE  Senders' /\ \A k \in handlers' : IsSender(k)
<1> DEFINE g == [h EXCEPT !.send = send]
<1>1. IsSender(h) /\ handlers' = (handlers \ {h}) \cup {g}
  BY DEF PushInv, PushTyped, Proceeds
<1>3. g.id = h.id /\ g.left = h.left /\ g.send = send /\ IsSender(g)
  BY <1>1, NextSend
<1>4. Notice(g) = Notice(h)
  BY <1>3 DEF Notice
<1> HIDE DEF g
<1>5. \A k \in handlers' : IsSender(k)
  BY <1>1, <1>3 DEF PushInv, PushTyped
<1>6. SendersAreOwn'
  BY <1>1, <1>3 DEF PushInv, Senders, SendersAreOwn
<1>7. ASSUME NEW k \in handlers, k # h PROVE Notice(k) # Notice(h)
  BY <1>7 DEF PushInv, Senders, SendersAreOwn, Notice
<1>8. DueIsAhead'
  <2> SUFFICES ASSUME NEW k \in handlers', NEW e \in Endpoints, Notice(k) \in due'[e]
               PROVE  \/ k.send.step = "find" /\ e \in table
                      \/ k.send.step = "send" /\ e \in k.send.targets
    BY DEF DueIsAhead, Notice
  <2>1. CASE k = g
    BY <2>1, <1>3, <1>4
  <2>2. CASE k # g
    <3>1. k \in handlers /\ k # h
      BY <2>2, <1>1
    <3>2. Notice(k) \in due[e]
      BY <3>1, <1>7
    <3> QED BY <3>1, <3>2 DEF PushInv, Senders, DueIsAhead
  <2> QED BY <2>1, <2>2
<1>9. NobodyIsPassedOver'
  <2> SUFFICES ASSUME NEW e \in Endpoints, NEW n \in due'[e]
               PROVE  \E k \in handlers' : n = Notice(k)
    BY DEF NobodyIsPassedOver, Notice
  <2>1. CASE n = Notice(h)
    BY <2>1, <1>1, <1>4
  <2>2. CASE n # Notice(h)
    <3>1. PICK k \in handlers : n = Notice(k)
      BY <2>2 DEF PushInv, Senders, NobodyIsPassedOver
    <3> QED BY <3>1, <2>2, <1>1
  <2> QED BY <2>1, <2>2
<1> QED BY <1>5, <1>6, <1>8, <1>9 DEF Senders

(* When nothing but rows and what is due goes, and no row before what is   *)
(* due to it, the senders are not disturbed.                               *)
LEMMA SendersStay ==
    ASSUME PushInv, UNCHANGED handlers, gone \subseteq gone', pushed'.changes = pushed.changes,
           \A e \in Endpoints : due'[e] \subseteq due[e],
           \A e \in Endpoints : e \in table /\ e \notin table' => due'[e] = {}
    PROVE  Senders'
<1>1. SendersAreOwn'
  BY DEF PushInv, Senders, SendersAreOwn
<1>2. DueIsAhead'
  BY DEF PushInv, Senders, DueIsAhead, Notice
<1>3. NobodyIsPassedOver'
  BY DEF PushInv, Senders, NobodyIsPassedOver, Notice
<1> QED BY <1>1, <1>2, <1>3 DEF Senders

(* What the browsers have is not touched by the senders.                   *)
LEMMA BrowsersStay ==
    ASSUME PushInv, UNCHANGED <<browser, gone>>, pushed'.endpoints = pushed.endpoints,
           \A e \in table : e \in table' \/ e \in gone
    PROVE  EndpointsAreOwn' /\ RowsAreThere'
<1>1. EndpointsAreOwn'
  BY DEF PushInv, EndpointsAreOwn
<1>2. RowsAreThere'
  BY DEF PushInv, EndpointsAreOwn, RowsAreThere
<1> QED BY <1>1, <1>2

LEMMA PushSends ==
    ASSUME PushInv, SendNext
    PROVE  PushInv' /\ \A e \in table \ table' : e \in gone
<1> USE DEF PushInv, PushTyped, BrowserState
<1>1. PICK h \in handlers : \/ LogNotification(h) \/ FindSubscriptions(h) \/ DeleteDead(h)
                            \/ \E e \in Endpoints : Responded(h, e)
  BY DEF SendNext
<1>2. IsSender(h) /\ h.send \in SendState
  BY DEF IsSender
<1>3. UNCHANGED <<browser, gone>>
  BY <1>1 DEF LogNotification, FindSubscriptions, DeleteDead, Responded, Sending
<1>4. h.send.dead \subseteq gone
  BY DEF Senders, SendersAreOwn
<1>5. CASE LogNotification(h)
  <2>1. [h.send EXCEPT !.step = "find"] \in SendState
        /\ [h.send EXCEPT !.step = "find"].dead = h.send.dead
        /\ [h.send EXCEPT !.step = "find"].step = "find"
    BY <1>2 DEF SendState
  <2>2. \A e \in Endpoints : Notice(h) \notin due[e]
    BY <1>5 DEF Senders, DueIsAhead, LogNotification
  <2>3. UNCHANGED <<table, gone, pushed>> /\ Proceeds(h, [h.send EXCEPT !.step = "find"])
        /\ due' = [e \in Endpoints |-> IF e \in table THEN due[e] \cup {Notice(h)}
                                                      ELSE due[e]]
    BY <1>5 DEF LogNotification
  <2>4. Senders' /\ \A k \in handlers' : IsSender(k)
    BY <2>1, <2>2, <2>3, <1>3, <1>4, SenderGoesOn
  <2> QED BY <2>3, <2>4, <1>3, BrowsersStay
<1>6. CASE FindSubscriptions(h)
  <2> DEFINE send == [h.send EXCEPT !.step = "send", !.targets = table]
  <2>1. send \in SendState /\ send.dead = h.send.dead /\ send.step = "send"
        /\ send.targets = table
    BY <1>2 DEF SendState
  <2>2. \A e \in Endpoints : Notice(h) \in due[e] => e \in table
    BY <1>6 DEF Senders, DueIsAhead, FindSubscriptions
  <2>3. UNCHANGED <<table, due, gone, pushed>> /\ Proceeds(h, send)
    BY <1>6 DEF FindSubscriptions
  <2> HIDE DEF send
  <2>4. Senders' /\ \A k \in handlers' : IsSender(k)
    BY <2>1, <2>2, <2>3, <1>3, <1>4, SenderGoesOn
  <2> QED BY <2>3, <2>4, <1>3, BrowsersStay
<1>7. ASSUME NEW r \in Endpoints, Responded(h, r)
      PROVE  PushInv' /\ \A e \in table \ table' : e \in gone
  <2>1. PICK answer \in {"ok", "gone", "error"} :
             /\ answer = "gone" <=> r \in gone
             /\ pushed' = IF answer = "error" THEN [pushed EXCEPT !.faults = @ + 1]
                                              ELSE pushed
             /\ Proceeds(h, [h.send EXCEPT !.targets = @ \ {r},
                               !.dead = IF answer = "gone" THEN @ \cup {r} ELSE @])
    BY <1>7 DEF Responded
  <2> DEFINE send == [h.send EXCEPT !.targets = @ \ {r},
                            !.dead = IF answer = "gone" THEN @ \cup {r} ELSE @]
  <2>2. h.send.step = "send" /\ due' = [due EXCEPT ![r] = @ \ {Notice(h)}]
        /\ UNCHANGED <<table, gone>>
    BY <1>7 DEF Responded
  <2>3. send \in SendState /\ send.step = "send" /\ send.targets = h.send.targets \ {r}
        /\ send.dead \subseteq gone
    BY <1>2, <1>4, <2>1, <2>2 DEF SendState
  <2>4. pushed' \in [changes : Nat, edits : Nat, faults : Nat, endpoints : Nat]
        /\ pushed'.changes = pushed.changes /\ pushed'.endpoints = pushed.endpoints
    BY <2>1
  <2>5. due' = [e \in Endpoints |-> IF e = r THEN due[e] \ {Notice(h)} ELSE due[e]]
    BY <2>2
  <2>6. \A e \in Endpoints : Notice(h) \in due'[e] => e \in h.send.targets \ {r}
    BY <2>2, <2>5 DEF Senders, DueIsAhead
  <2>7. Proceeds(h, send)
    BY <2>1
  <2> HIDE DEF send
  <2>8. Senders' /\ \A k \in handlers' : IsSender(k)
    BY <2>2, <2>3, <2>4, <2>5, <2>6, <2>7, <1>3, SenderGoesOn
  <2> QED BY <2>2, <2>4, <2>5, <2>8, <1>3, BrowsersStay
<1>8. CASE DeleteDead(h)
  <2> DEFINE g == [h EXCEPT !.left = Tail(@), !.send = Idle]
  <2>1. UNCHANGED <<gone, pushed>> /\ table' = table \ h.send.dead
        /\ due' = [e \in Endpoints |-> IF e \in h.send.dead THEN {} ELSE due[e]]
        /\ handlers' \in {handlers \ {h}, (handlers \ {h}) \cup {g}}
    BY <1>8 DEF DeleteDead, NoMoreDue
  <2>2. \A e \in Endpoints : Notice(h) \notin due[e]
    BY <1>8 DEF Senders, DueIsAhead, DeleteDead
  <2>4. Idle \in SendState /\ Idle.dead = {}
    BY DEF Idle, SendState
  <2>5. g.id = h.id /\ g.send.dead = {} /\ IsSender(g)
    BY <2>4, <1>2, NextNotice
  <2> HIDE DEF g
  <2>6. ASSUME NEW e \in Endpoints, NEW n \in due[e]
        PROVE  \E k \in handlers \ {h} : n = Notice(k) /\ k.id # h.id
    <3>1. PICK k \in handlers : n = Notice(k)
      BY DEF Senders, NobodyIsPassedOver
    <3> QED BY <3>1, <2>2 DEF Senders, SendersAreOwn
  <2>7. \A e \in Endpoints : Notice(g) \notin due[e]
    BY <2>5, <2>6 DEF Notice
  <2>8. SendersAreOwn'
    BY <2>1, <2>5 DEF Senders, SendersAreOwn
  <2>9. DueIsAhead'
    <3> SUFFICES ASSUME NEW k \in handlers', NEW e \in Endpoints, Notice(k) \in due'[e]
                 PROVE  \/ k.send.step = "find" /\ e \in table'
                        \/ k.send.step = "send" /\ e \in k.send.targets
      BY DEF DueIsAhead, Notice
    <3>1. Notice(k) \in due[e] /\ e \notin h.send.dead
      BY <2>1
    <3>2. k \in handlers
      BY <3>1, <2>7, <2>1
    <3> QED BY <3>1, <3>2, <2>1 DEF Senders, DueIsAhead
  <2>10. NobodyIsPassedOver'
    <3> SUFFICES ASSUME NEW e \in Endpoints, NEW n \in due'[e]
                 PROVE  \E k \in handlers' : n = Notice(k)
      BY DEF NobodyIsPassedOver, Notice
    <3> QED BY <2>6, <2>1
  <2>11. \A k \in handlers' : IsSender(k)
    BY <2>1, <2>5
  <2>12. \A e \in table : e \in table' \/ e \in gone
    BY <2>1, <1>4
  <2> QED BY <2>1, <2>8, <2>9, <2>10, <2>11, <2>12, <1>3, BrowsersStay DEF Senders
<1> QED BY <1>1, <1>5, <1>6, <1>7, <1>8

LEMMA TogglesKeep ==
    ASSUME PushInv, NEW b \in Clients, Toggle(b)
    PROVE  PushInv'
<1> USE DEF PushInv, PushTyped, BrowserState
<1>1. UNCHANGED <<table, due, rules, handlers, gone>> /\ pushed'.changes = pushed.changes
      /\ browser[b].step = "idle"
  BY DEF Toggle, OnBrowser
<1>2. Senders'
  BY <1>1, SendersStay
<1>3. CASE browser[b].subscribed \/ browser[b].endpoint # 0
  <2>1. UNCHANGED pushed /\ browser[b].endpoint # 0
        /\ \E s \in {"delete", "post"} : browser' = [browser EXCEPT ![b].step = s]
    BY <1>3 DEF Toggle, RowsAreThere
  <2>2. browser' \in [Clients -> BrowserState]
        /\ \A c \in Clients : /\ browser'[c].endpoint = browser[c].endpoint
                              /\ browser'[c].unsaved = browser[c].unsaved
                              /\ browser'[c].subscribed = browser[c].subscribed
                              /\ c # b => browser'[c].step = browser[c].step
    BY <2>1
  <2>3. EndpointsAreOwn'
    BY <1>1, <2>1, <2>2 DEF EndpointsAreOwn
  <2>4. RowsAreThere'
    BY <1>1, <2>1, <2>2 DEF RowsAreThere
  <2> QED BY <1>1, <1>2, <2>1, <2>2, <2>3, <2>4
<1>4. CASE ~browser[b].subscribed /\ browser[b].endpoint = 0
  <2> DEFINE e == pushed.endpoints + 1
  <2>1. /\ pushed.endpoints < MaxEndpoint /\ pushed' = [pushed EXCEPT !.endpoints = @ + 1]
        /\ browser' = [browser EXCEPT ![b].endpoint = e, ![b].unsaved = TRUE,
                                      ![b].step = "post"]
    BY <1>4 DEF Toggle
  <2>2. e \in 1 .. MaxEndpoint /\ e > pushed.endpoints /\ e # 0
        /\ pushed'.endpoints = e /\ pushed.endpoints <= pushed'.endpoints
        /\ pushed' \in [changes : Nat, edits : Nat, faults : Nat, endpoints : Nat]
    BY <2>1, PushAssumption
  <2>3. browser' \in [Clients -> BrowserState]
        /\ browser'[b].endpoint = e /\ browser'[b].unsaved = TRUE
        /\ browser'[b].step = "post"
        /\ \A c \in Clients \ {b} : browser'[c] = browser[c]
    <3>1. e \in 0 .. MaxEndpoint
      BY <2>2, PushAssumption
    <3>2. browser \in [Clients -> BrowserState]
      OBVIOUS
    <3> HIDE DEF e, PushInv, PushTyped, BrowserState
    <3>3. browser' = [browser EXCEPT ![b].endpoint = e, ![b].unsaved = TRUE, ![b].step = "post"]
      BY <2>1
    <3> QED BY <3>1, <3>2, <3>3, GotEndpoint
  <2> HIDE DEF e
  <2>4. EndpointsAreOwn'
    <3>1. \A c \in Clients : browser[c].endpoint <= pushed.endpoints
                             /\ browser[c].endpoint \in Nat
      BY PushAssumption DEF EndpointsAreOwn
    <3>2. e \notin gone /\ \A c \in Clients : browser[c].endpoint # e
      BY <2>2, <3>1 DEF EndpointsAreOwn
    <3>3. \A c \in Clients : browser'[c].endpoint <= pushed'.endpoints
                             /\ browser'[c].endpoint \notin gone'
      BY <1>1, <2>2, <2>3, <3>1, <3>2 DEF EndpointsAreOwn
    <3>4. \A c, d \in Clients : browser'[c].endpoint = browser'[d].endpoint
                                  => c = d \/ browser'[c].endpoint = 0
      BY <2>3, <3>2 DEF EndpointsAreOwn
    <3>5. \A x \in gone' : x <= pushed'.endpoints
      BY <1>1, <2>2 DEF EndpointsAreOwn, Endpoints
    <3> QED BY <3>3, <3>4, <3>5 DEF EndpointsAreOwn
  <2>5. RowsAreThere'
    BY <1>1, <2>2, <2>3 DEF RowsAreThere
  <2> QED BY <1>1, <1>2, <2>2, <2>3, <2>4, <2>5
<1> QED BY <1>3, <1>4

(* The other steps of a browser change its row and its switch, and leave   *)
(* the endpoints as they are.                                              *)
LEMMA BrowserKeeps ==
    ASSUME PushInv, NEW b \in Clients,
           SaveSubscription(b) \/ DeleteSubscription(b) \/ Reopen(b)
    PROVE  /\ PushInv'
           /\ \A e \in table \ table' : browser[b].endpoint = e /\ browser[b].step = "delete"
<1> USE DEF PushInv, PushTyped, BrowserState
<1>1. UNCHANGED <<rules, handlers, gone>>
  BY DEF SaveSubscription, DeleteSubscription, Reopen, OnBrowser
<1>2. pushed' \in [changes : Nat, edits : Nat, faults : Nat, endpoints : Nat]
      /\ pushed'.changes = pushed.changes /\ pushed'.endpoints = pushed.endpoints
  <2>1. UNCHANGED pushed \/ Fault
    BY DEF SaveSubscription, DeleteSubscription, Reopen
  <2> QED BY <2>1 DEF Fault
<1>3. /\ \A c \in Clients \ {b} : browser'[c] = browser[c]
      /\ browser' \in [Clients -> BrowserState]
      /\ browser'[b].endpoint = browser[b].endpoint
  BY DEF SaveSubscription, DeleteSubscription, Reopen
<1>4. browser[b].endpoint # 0 => browser[b].endpoint \in Endpoints
  BY <1>3, PushAssumption DEF Endpoints
<1>5. EndpointsAreOwn'
  <2>1. \A c \in Clients : browser'[c].endpoint = browser[c].endpoint
    BY <1>3
  <2> QED BY <1>1, <1>2, <2>1 DEF EndpointsAreOwn
<1>6. /\ table' \subseteq Endpoints
      /\ \A e \in table \ table' : browser[b].endpoint = e /\ browser[b].step = "delete"
      /\ due' = [e \in Endpoints |-> IF e \in table \ table' THEN {} ELSE due[e]]
  <2>1. CASE SaveSubscription(b)
    <3>1. browser[b].endpoint # 0 /\ table \subseteq table' /\ UNCHANGED due
          /\ table' \subseteq table \cup {browser[b].endpoint}
      BY <2>1 DEF SaveSubscription, RowsAreThere
    <3> QED BY <3>1, <1>4
  <2>2. CASE DeleteSubscription(b)
    BY <2>2 DEF DeleteSubscription, NoMoreDue
  <2>3. CASE Reopen(b)
    BY <2>3 DEF Reopen
  <2> QED BY <2>1, <2>2, <2>3
<1>7. Senders'
  BY <1>1, <1>2, <1>6, SendersStay
<1>8. RowsAreThere'
  <2>1. ASSUME NEW c \in Clients, c # b
        PROVE  /\ browser'[c].endpoint # 0 /\ ~browser'[c].unsaved
                      => browser'[c].endpoint \in table' \/ browser'[c].step = "unsubscribe"
               /\ browser'[c].subscribed \/ browser'[c].step # "idle"
                      => browser'[c].endpoint # 0
    <3>1. browser'[c] = browser[c]
      BY <2>1, <1>3
    <3>2. browser[c].endpoint # 0 => browser[c].endpoint # browser[b].endpoint
      BY <2>1 DEF EndpointsAreOwn
    <3>3. browser[c].endpoint # 0 /\ browser[c].endpoint \in table
             => browser[c].endpoint \in table'
      BY <1>6, <3>2
    <3> QED BY <3>1, <3>3 DEF RowsAreThere
  <2>2. /\ browser'[b].subscribed \/ browser'[b].step # "idle"
              => browser'[b].endpoint # 0
        /\ browser'[b].endpoint # 0 /\ ~browser'[b].unsaved
              => browser'[b].endpoint \in table' \/ browser'[b].step = "unsubscribe"
    <3>1. CASE SaveSubscription(b)
      BY <3>1, <1>3, <1>6 DEF SaveSubscription, RowsAreThere
    <3>2. CASE DeleteSubscription(b)
      BY <3>2, <1>3 DEF DeleteSubscription, RowsAreThere
    <3>3. CASE Reopen(b)
      BY <3>3, <1>3 DEF Reopen, RowsAreThere
    <3> QED BY <3>1, <3>2, <3>3
  <2> QED BY <2>1, <2>2 DEF RowsAreThere
<1> QED BY <1>1, <1>2, <1>3, <1>5, <1>6, <1>7, <1>8

LEMMA UnsubscribeKeeps ==
    ASSUME PushInv, NEW b \in Clients, Unsubscribe(b)
    PROVE  PushInv' /\ UNCHANGED table
<1> USE DEF PushInv, PushTyped, BrowserState
<1>1. UNCHANGED <<table, rules, handlers, due, pushed>>
      /\ gone' = gone \cup {browser[b].endpoint} /\ browser[b].step = "unsubscribe"
  BY DEF Unsubscribe
<1>2. /\ \A c \in Clients \ {b} : browser'[c] = browser[c]
      /\ browser' \in [Clients -> BrowserState]
      /\ browser'[b] = [endpoint |-> 0, subscribed |-> FALSE, unsaved |-> FALSE,
                        step |-> "idle"]
  BY PushAssumption DEF Unsubscribe
<1>3. browser[b].endpoint # 0 /\ browser[b].endpoint \in Endpoints
  BY <1>1, PushAssumption DEF RowsAreThere, Endpoints
<1>4. EndpointsAreOwn'
  <2>1. \A c \in Clients : browser'[c].endpoint <= pushed'.endpoints
                           /\ browser'[c].endpoint \notin gone'
    BY <1>1, <1>2, <1>3 DEF EndpointsAreOwn, Endpoints
  <2>2. \A c, d \in Clients : browser'[c].endpoint = browser'[d].endpoint
                                => c = d \/ browser'[c].endpoint = 0
    BY <1>2 DEF EndpointsAreOwn
  <2>3. \A x \in gone' : x <= pushed'.endpoints
    BY <1>1 DEF EndpointsAreOwn
  <2> QED BY <2>1, <2>2, <2>3 DEF EndpointsAreOwn
<1>5. RowsAreThere'
  BY <1>1, <1>2 DEF RowsAreThere
<1>6. Senders'
  BY <1>1, SendersStay
<1> QED BY <1>1, <1>2, <1>3, <1>4, <1>5, <1>6

LEMMA ServerKeeps ==
    ASSUME PushInv, (\E ch \in Changes : StateChanged(ch)) \/ (\E r \in Rules : EditRule(r))
    PROVE  PushInv' /\ UNCHANGED table
<1> USE DEF PushInv, PushTyped, BrowserState
<1>1. CASE \E r \in Rules : EditRule(r)
  <2>1. UNCHANGED <<table, handlers, due, gone, browser>>
        /\ pushed' = [pushed EXCEPT !.edits = @ + 1]
    BY <1>1 DEF EditRule
  <2>2. pushed' \in [changes : Nat, edits : Nat, faults : Nat, endpoints : Nat]
        /\ pushed'.changes = pushed.changes /\ pushed'.endpoints = pushed.endpoints
    BY <2>1
  <2> QED BY <2>1, <2>2, SendersStay, BrowsersStay
<1>2. ASSUME NEW ch \in Changes, StateChanged(ch) PROVE PushInv' /\ UNCHANGED table
  <2> DEFINE h == [id |-> pushed.changes, left |-> NoticesOf(ch), send |-> Idle]
  <2>1. UNCHANGED <<table, due, gone, browser>> /\ handlers' \in {handlers, handlers \cup {h}}
        /\ pushed' = [pushed EXCEPT !.changes = @ + 1]
    BY <1>2 DEF StateChanged
  <2>2. pushed' \in [changes : Nat, edits : Nat, faults : Nat, endpoints : Nat]
        /\ pushed'.changes = pushed.changes + 1 /\ pushed'.endpoints = pushed.endpoints
        /\ pushed.changes \in Nat
    BY <2>1
  <2>3. EndpointsAreOwn' /\ RowsAreThere'
    BY <2>1, <2>2, BrowsersStay
  <2>4. Idle \in SendState /\ Idle.dead = {}
    BY DEF Idle, SendState
  <2>5. IsSender(h) /\ h.id = pushed.changes /\ h.send.dead = {}
    BY <2>2, <2>4 DEF IsSender
  <2> HIDE DEF h
  <2>6. \A k \in handlers : k.id \in Nat /\ k.id < pushed.changes
    BY DEF Senders, SendersAreOwn, IsSender
  <2>7. SendersAreOwn'
    <3>1. \A k \in handlers' : k.id < pushed'.changes /\ k.send.dead \subseteq gone'
      BY <2>1, <2>2, <2>5, <2>6 DEF Senders, SendersAreOwn
    <3>2. \A k, g \in handlers' : k.id = g.id => k = g
      BY <2>1, <2>2, <2>5, <2>6 DEF Senders, SendersAreOwn
    <3> QED BY <3>1, <3>2 DEF SendersAreOwn
  <2>8. \A e \in Endpoints : Notice(h) \notin due[e]
    <3>1. \A k \in handlers : Notice(h) # Notice(k)
      BY <2>2, <2>5, <2>6 DEF Notice
    <3> QED BY <3>1 DEF Senders, NobodyIsPassedOver
  <2>9. DueIsAhead'
    BY <2>1, <2>8 DEF Senders, DueIsAhead, Notice
  <2>10. NobodyIsPassedOver'
    BY <2>1 DEF Senders, NobodyIsPassedOver, Notice
  <2>11. \A k \in handlers' : IsSender(k)
    BY <2>1, <2>5
  <2> QED BY <2>1, <2>2, <2>3, <2>7, <2>9, <2>10, <2>11 DEF Senders
<1> QED BY <1>1, <1>2

(* Every step keeps all this, and drops no row but of the dead, and of a   *)
(* browser that asked for it.                                              *)
LEMMA PushStep ==
    ASSUME PushInv, [PushNext]_pushVars
    PROVE  /\ PushInv'
           /\ \A e \in table \ table' :
                 \/ e \in gone
                 \/ \E b \in Clients : browser[b].endpoint = e /\ browser[b].step = "delete"
<1>1. CASE UNCHANGED pushVars
  BY <1>1 DEF pushVars, PushInv, PushTyped, EndpointsAreOwn, RowsAreThere, Senders,
              SendersAreOwn, DueIsAhead, NobodyIsPassedOver, Notice
<1>2. CASE SendNext
  BY <1>2, PushSends
<1>3. ASSUME NEW b \in Clients, Toggle(b) PROVE PushInv' /\ UNCHANGED table
  BY <1>3, TogglesKeep DEF Toggle
<1>4. ASSUME NEW b \in Clients, Unsubscribe(b) PROVE PushInv' /\ UNCHANGED table
  BY <1>4, UnsubscribeKeeps
<1>5. ASSUME NEW b \in Clients, SaveSubscription(b) \/ DeleteSubscription(b) \/ Reopen(b)
      PROVE  /\ PushInv'
             /\ \A e \in table \ table' :
                   browser[b].endpoint = e /\ browser[b].step = "delete"
  BY <1>5, BrowserKeeps
<1> QED BY <1>1, <1>2, <1>3, <1>4, <1>5, ServerKeeps DEF PushNext

(* A browser that shows it is subscribed is reached by every notice, until *)
(* its endpoint is gone: for any number of browsers, rules and changes,    *)
(* whatever fails in between (PushService.sendToAll(),                     *)
(* usePushSubscription()).                                                 *)
THEOREM PushAlwaysReaches == PushSpec => PushReaches
<1>1. PushInv /\ [PushNext]_pushVars => PushInv'
  BY PushStep
<1>2. PushInv /\ [PushNext]_pushVars
        => [\A e \in table \ table' :
              \/ e \in gone
              \/ \E b \in Clients : browser[b].endpoint = e
                                    /\ browser[b].step = "delete"]_pushVars
  BY PushStep
<1>3. PushInv => SubscribedIsStored /\ NobodyIsPassedOver
  BY DEF PushInv, RowsAreThere, SubscribedIsStored, Senders
<1> QED BY PushInitially, <1>1, <1>2, <1>3, PTL DEF PushSpec, PushReaches, OnlyDeadAreDropped

-----------------------------------------------------------------------------
(* Geofence: who is in which zone, and who was told so.                    *)
(* What the next zone will find: nothing refers to an id not given yet.    *)
NewZonesAreFresh ==
    \A z \in ZoneIds : z >= nextZone =>
        /\ zone[z] = {} /\ zoneState[z] = "none"
        /\ \A d \in Phones : /\ told[d][z] = 0 /\ geoStored[d] # z
                             /\ report[d].matched # z /\ report[d].prev # z

(* What a report under way has read is still so: only it writes the row.   *)
ReportsAreInStep ==
    \A d \in Phones :
        /\ report[d].step = "none" => report[d] = NoReport
        /\ report[d].step = "upsert" => report[d].prev = geoStored[d]
        /\ report[d].step \in {"entered", "left"} =>
              report[d].matched = geoStored[d] /\ report[d].matched # report[d].prev
        /\ report[d].step = "entered" => report[d].matched # 0
        /\ report[d].step = "left" => report[d].prev # 0

(* Where phone d was told to be: the notice follows the row.               *)
ToldIn(d, z) ==
    CASE report[d].step = "entered" -> report[d].prev = z
      [] report[d].step = "left"    -> z \in {report[d].matched, report[d].prev}
      [] OTHER                      -> geoStored[d] = z

NoticesFollow ==
    \A d \in Phones, z \in ZoneIds :
        Exists(z) => told[d][z] = IF ToldIn(d, z) THEN 1 ELSE 0

(* A zone that shows home has somebody in it, or on the way out of it.     *)
StatesFollow ==
    \A z \in ZoneIds : Exists(z) /\ zoneState[z] = "home" =>
        \E d \in Phones : \/ geoStored[d] = z
                          \/ report[d].step \in {"entered", "left"} /\ report[d].prev = z

GeofenceInv == GeofenceTypeOK /\ NewZonesAreFresh /\ ReportsAreInStep /\ NoticesFollow
               /\ StatesFollow
PlaceOf == Places \cup {Nowhere}

LEMMA HasLeast ==
    ASSUME NEW S \in SUBSET Nat, S # {}
    PROVE  \E m \in S : \A k \in S : m <= k
<1> DEFINE Smaller == {ss \in Nat \X Nat : ss[1] < ss[2]}
<1>1. IsWellFoundedOn(Smaller, Nat)
  BY NatLessThanWellFounded DEF OpToRel
<1>2. PICK m \in S : \A k \in S : ~ (<<k, m>> \in Smaller)
  <2> HIDE DEF Smaller
  <2> QED BY <1>1, WFMin
<1>3. \A k \in S : k \in Nat /\ m \in Nat /\ ~ (k < m)
  BY <1>2
<1> QED BY <1>3

LEMMA Least ==
    ASSUME NEW S \in SUBSET Nat, S # {}
    PROVE  Min(S) \in S
<1>1. \E m \in S : \A k \in S : m <= k
  BY HasLeast
<1> QED BY <1>1, Zenon DEF Min

LEMMA GeofenceStart == ASSUME GeofenceInit PROVE GeofenceInv
<1> USE GeofenceAssumption
<1>1. GeofenceTypeOK
  <2>1. report \in [Phones -> [step : {"none", "zones", "previous", "upsert",
                                       "entered", "left"},
                               place : Places \cup {Nowhere},
                               matched : 0 .. MaxZone, prev : 0 .. MaxZone]]
    BY DEF GeofenceInit, NoReport
  <2>2. told \in [Phones -> [ZoneIds -> Int]]
    BY DEF GeofenceInit
  <2>3. phone \in [Phones -> [place : Places, myPos : Places \cup {Nowhere},
                     tracking : BOOLEAN, captured : Places \cup {Nowhere},
                     asked : BOOLEAN]]
    BY DEF GeofenceInit
  <2> QED BY <2>1, <2>2, <2>3 DEF GeofenceInit, GeofenceTypeOK, ZoneIds
<1>2. NewZonesAreFresh
  BY DEF GeofenceInit, NewZonesAreFresh, NoReport, ZoneIds
<1>3. ReportsAreInStep
  BY DEF GeofenceInit, ReportsAreInStep, NoReport
<1>4. NoticesFollow
  BY DEF GeofenceInit, NoticesFollow, ToldIn, NoReport, Exists, ZoneIds
<1>5. StatesFollow
  BY DEF GeofenceInit, StatesFollow, Exists, ZoneIds
<1> QED BY <1>1, <1>2, <1>3, <1>4, <1>5 DEF GeofenceInv

(* Zones made, resized and deleted: only a new id can begin to exist.      *)
LEMMA ZonesChange ==
    ASSUME GeofenceInv, CreateZone \/ UpdateZone \/ DeleteZone
    PROVE  GeofenceInv'
<1> USE GeofenceAssumption
<1>1. UNCHANGED <<geoStored, report, zoneState, told, phone>>
  BY DEF CreateZone, UpdateZone, DeleteZone, ZoneEdit
<1>2. zone' \in [ZoneIds -> SUBSET Places] /\ nextZone' \in 1 .. MaxZone + 1 /\ nextZone' >= nextZone
  BY DEF CreateZone, UpdateZone, DeleteZone, GeofenceInv, GeofenceTypeOK, ZoneIds
<1>3. \A z \in ZoneIds : z >= nextZone' => zone'[z] = {}
  BY DEF CreateZone, UpdateZone, DeleteZone, GeofenceInv, GeofenceTypeOK, ZoneIds, NewZonesAreFresh,
         Exists
<1>4. \A z \in ZoneIds : Exists(z)' => Exists(z) \/ z >= nextZone
  BY DEF CreateZone, UpdateZone, DeleteZone, GeofenceInv, GeofenceTypeOK, ZoneIds, Exists
<1>5. GeofenceTypeOK'
  BY <1>1, <1>2 DEF GeofenceInv, GeofenceTypeOK
<1>6. NewZonesAreFresh'
  BY <1>1, <1>2, <1>3 DEF GeofenceInv, GeofenceTypeOK, NewZonesAreFresh, ZoneIds
<1>7. ReportsAreInStep'
  BY <1>1 DEF GeofenceInv, ReportsAreInStep
<1>8. NoticesFollow'
  BY <1>1, <1>4 DEF GeofenceInv, NoticesFollow, ToldIn, NewZonesAreFresh
<1>9. StatesFollow'
  BY <1>1, <1>4 DEF GeofenceInv, StatesFollow, NewZonesAreFresh
<1> QED BY <1>5, <1>6, <1>7, <1>8, <1>9 DEF GeofenceInv

PhonePage == [place : Places, myPos : PlaceOf, tracking : BOOLEAN, captured : PlaceOf,
              asked : BOOLEAN]

ReportRecord == [step : {"none", "zones", "previous", "upsert", "entered", "left"},
                 place : PlaceOf, matched : 0 .. MaxZone, prev : 0 .. MaxZone]

(* What happens on a phone alone.                                          *)
LEMMA PhonesChange ==
    ASSUME GeofenceInv, NEW d \in Phones,
           Walk(d) \/ StartTracking(d) \/ StopTracking(d) \/ WatchPosition(d)
    PROVE  GeofenceInv'
<1>1. UNCHANGED <<zone, nextZone, geoStored, report, zoneState, told>>
  BY DEF Walk, StartTracking, StopTracking, WatchPosition, OnPhone
<1>2. phone \in [Phones -> PhonePage]
  BY DEF GeofenceInv, GeofenceTypeOK, PhonePage, PlaceOf
<1>3. phone' \in [Phones -> PhonePage]
  <2>1. CASE Walk(d)
    BY <1>2, <2>1 DEF Walk, PhonePage
  <2>2. CASE StartTracking(d)
    BY <1>2, <2>2 DEF StartTracking, PhonePage
  <2>3. CASE StopTracking(d)
    BY <1>2, <2>3 DEF StopTracking, PhonePage, PlaceOf
  <2>4. CASE WatchPosition(d)
    BY <1>2, <2>4 DEF WatchPosition, PhonePage, PlaceOf
  <2> QED BY <2>1, <2>2, <2>3, <2>4
<1>4. GeofenceTypeOK'
  BY <1>1, <1>3 DEF GeofenceInv, GeofenceTypeOK, PhonePage, PlaceOf
<1>5. NewZonesAreFresh' /\ ReportsAreInStep'
  BY <1>1 DEF GeofenceInv, NewZonesAreFresh, ReportsAreInStep
<1>6. NoticesFollow' /\ StatesFollow'
  BY <1>1 DEF GeofenceInv, NoticesFollow, StatesFollow, Exists, ToldIn
<1> QED BY <1>4, <1>5, <1>6 DEF GeofenceInv

(* A report that is sent or goes on, up to its row: the phone is where it  *)
(* was stored.                                                             *)
LEMMA ReportsAdvance ==
    ASSUME GeofenceInv, NEW d \in Phones, NEW r \in ReportRecord,
           report' = [report EXCEPT ![d] = r],
           report[d].step \in {"none", "zones", "previous", "upsert"},
           r.step \in {"zones", "previous", "upsert"},
           r.step = "upsert" => r.prev = geoStored[d],
           \A z \in ZoneIds : z >= nextZone => r.matched # z /\ r.prev # z,
           phone' \in [Phones -> PhonePage],
           UNCHANGED <<zone, nextZone, geoStored, zoneState, told>>
    PROVE  GeofenceInv'
<1>1. report \in [Phones -> ReportRecord]
  BY DEF GeofenceInv, GeofenceTypeOK, ReportRecord, PlaceOf
<1>2. report' \in [Phones -> ReportRecord] /\ report'[d] = r /\ \A e \in Phones \ {d} : report'[e] = report[e]
  BY <1>1
<1>3. GeofenceTypeOK'
  BY <1>2 DEF GeofenceInv, GeofenceTypeOK, PhonePage, PlaceOf, ReportRecord
<1>4. NewZonesAreFresh'
  BY <1>2 DEF GeofenceInv, NewZonesAreFresh
<1>5. ReportsAreInStep'
  BY <1>2 DEF GeofenceInv, ReportsAreInStep
<1>6. \A e \in Phones, z \in ZoneIds : ToldIn(e, z)' <=> ToldIn(e, z)
  BY <1>2 DEF ToldIn
<1>7. NoticesFollow'
  BY <1>6 DEF GeofenceInv, NoticesFollow, Exists
<1>8. StatesFollow'
  BY <1>2 DEF GeofenceInv, StatesFollow, Exists
<1> QED BY <1>3, <1>4, <1>5, <1>7, <1>8 DEF GeofenceInv

(* The steps of a report up to its row.                                    *)
LEMMA ReportsAreSent ==
    ASSUME GeofenceInv, NEW d \in Phones,
           CurrentPosition(d) \/ ReportInterval(d) \/ FindZone(d) \/ ReadPrevious(d)
    PROVE  GeofenceInv'
<1> USE GeofenceAssumption
<1>1. report \in [Phones -> ReportRecord] /\ phone \in [Phones -> PhonePage]
  BY DEF GeofenceInv, GeofenceTypeOK, ReportRecord, PlaceOf, PhonePage
<1>2. ASSUME NEW p \in PlaceOf, Report(d, p), phone' \in [Phones -> PhonePage]
      PROVE  GeofenceInv'
  <2> DEFINE r == [NoReport EXCEPT !.step = "zones", !.place = p]
  <2>0. NoReport \in ReportRecord /\ NoReport.matched = 0 /\ NoReport.prev = 0
    BY DEF NoReport, ReportRecord, PlaceOf
  <2>1. r \in ReportRecord /\ r.step = "zones" /\ r.matched = 0 /\ r.prev = 0
    BY <1>2, <2>0 DEF ReportRecord
  <2>2. report[d].step = "none" /\ report' = [report EXCEPT ![d] = r]
    BY <1>2 DEF Report, NoReport
  <2>3. UNCHANGED <<zone, nextZone, geoStored, zoneState, told>>
    BY <1>2 DEF Report
  <2>4. \A z \in ZoneIds : 0 # z
    BY DEF ZoneIds
  <2> HIDE DEF r
  <2> QED BY <1>2, <2>1, <2>2, <2>3, <2>4, ReportsAdvance
<1>3. CASE CurrentPosition(d)
  <2>1. phone[d].place \in PlaceOf
    BY <1>1 DEF PhonePage, PlaceOf
  <2>2. phone' \in [Phones -> PhonePage]
    <3>1. phone' = [phone EXCEPT ![d] = [phone[d] EXCEPT !.asked = FALSE,
                                                         !.myPos = phone[d].place]]
      BY <1>1, <1>3 DEF CurrentPosition
    <3>2. [phone[d] EXCEPT !.asked = FALSE, !.myPos = phone[d].place] \in PhonePage
      <4>1. ASSUME NEW q \in PhonePage, NEW w \in PlaceOf
            PROVE  [q EXCEPT !.asked = FALSE, !.myPos = w] \in PhonePage
        BY DEF PhonePage
      <4>2. phone[d] \in PhonePage
        BY <1>1
      <4> QED BY <2>1, <4>1, <4>2, Zenon
    <3> QED BY <1>1, <3>1, <3>2
  <2> QED BY <1>2, <1>3, <2>1, <2>2 DEF CurrentPosition
<1>4. CASE ReportInterval(d)
  <2>1. phone[d].captured \in PlaceOf
    BY <1>1 DEF PhonePage
  <2> QED BY <1>1, <1>2, <1>4, <2>1 DEF ReportInterval
<1>5. CASE FindZone(d)
  <2> DEFINE within == {z \in ZoneIds : report[d].place \in zone[z]}
             found == IF within = {} THEN 0 ELSE Min(within)
             r == [report[d] EXCEPT !.step = "previous", !.matched = found]
  <2>1. within \in SUBSET Nat
    BY DEF ZoneIds
  <2>2. found = 0 \/ found \in within
    <3> HIDE DEF within
    <3> QED BY <2>1, Least
  <2>3. found \in 0 .. MaxZone /\ \A z \in ZoneIds : z >= nextZone => found # z
    <3> HIDE DEF found
    <3> QED BY <2>2 DEF ZoneIds, GeofenceInv, NewZonesAreFresh
  <2>4. /\ report[d].step = "zones" /\ report' = [report EXCEPT ![d] = r]
        /\ UNCHANGED <<zone, nextZone, geoStored, zoneState, told, phone>>
    BY <1>5 DEF FindZone, Step
  <2> HIDE DEF found
  <2>5. r \in ReportRecord /\ r.step = "previous" /\ r.matched = found /\ r.prev = report[d].prev
    BY <1>1, <2>3 DEF ReportRecord
  <2>6. \A z \in ZoneIds : z >= nextZone => report[d].prev # z
    BY DEF GeofenceInv, NewZonesAreFresh
  <2>7. report[d].step \in {"none", "zones", "previous", "upsert"}
        /\ r.step \in {"zones", "previous", "upsert"} /\ r.step # "upsert"
    BY <2>4, <2>5
  <2> HIDE DEF r, within
  <2> QED BY <1>1, <2>3, <2>4, <2>5, <2>6, <2>7, ReportsAdvance
<1>6. CASE ReadPrevious(d)
  <2> DEFINE r == [report[d] EXCEPT !.step = "upsert", !.prev = geoStored[d]]
  <2>1. /\ report[d].step = "previous" /\ report' = [report EXCEPT ![d] = r]
        /\ UNCHANGED <<zone, nextZone, geoStored, zoneState, told, phone>>
    BY <1>6 DEF ReadPrevious, Step
  <2>2. geoStored[d] \in 0 .. MaxZone
    BY DEF GeofenceInv, GeofenceTypeOK
  <2>3. /\ r \in ReportRecord /\ r.step = "upsert" /\ r.prev = geoStored[d]
        /\ r.matched = report[d].matched
    BY <1>1, <2>2 DEF ReportRecord
  <2>4. \A z \in ZoneIds : z >= nextZone => geoStored[d] # z /\ report[d].matched # z
    BY DEF GeofenceInv, NewZonesAreFresh
  <2> HIDE DEF r
  <2> QED BY <1>1, <2>1, <2>3, <2>4, ReportsAdvance
<1> QED BY <1>3, <1>4, <1>5, <1>6

(* The row is written: what is known of the phone moves from the row to    *)
(* the report.                                                             *)
LEMMA RowIsWritten ==
    ASSUME GeofenceInv, NEW d \in Phones, Upsert(d)
    PROVE  GeofenceInv'
<1> USE GeofenceAssumption
<1> DEFINE o == report[d]
           s == IF o.matched = o.prev THEN NoReport
                ELSE [o EXCEPT !.step = IF o.matched # 0 THEN "entered" ELSE "left"]
<1>1. report \in [Phones -> ReportRecord] /\ geoStored \in [Phones -> 0 .. MaxZone]
  BY DEF GeofenceInv, GeofenceTypeOK, ReportRecord, PlaceOf
<1>2. /\ o.step = "upsert" /\ o.prev = geoStored[d]
      /\ report' = [report EXCEPT ![d] = s]
      /\ geoStored' = [geoStored EXCEPT ![d] = o.matched]
      /\ UNCHANGED <<zone, nextZone, zoneState, told, phone>>
  BY DEF Upsert, Step, GeofenceInv, ReportsAreInStep
<1>3. o \in ReportRecord
  BY <1>1
<1>4. /\ s \in ReportRecord
      /\ o.matched = o.prev => s = NoReport
      /\ o.matched # o.prev => /\ s.step = IF o.matched # 0 THEN "entered" ELSE "left"
                               /\ s.matched = o.matched /\ s.prev = o.prev
  BY <1>3 DEF ReportRecord, NoReport, PlaceOf
<1>5. s.step \in {"none", "entered", "left"} /\ NoReport.matched = 0 /\ NoReport.prev = 0
      /\ NoReport.step = "none"
  BY <1>4 DEF NoReport
<1>6. \A z \in ZoneIds : z >= nextZone => z # 0 /\ o.matched # z /\ o.prev # z
  BY DEF GeofenceInv, NewZonesAreFresh, ZoneIds
<1> HIDE DEF s
<1>7. /\ report' \in [Phones -> ReportRecord] /\ geoStored' \in [Phones -> 0 .. MaxZone]
      /\ report'[d] = s /\ geoStored'[d] = o.matched
      /\ \A e \in Phones \ {d} : report'[e] = report[e] /\ geoStored'[e] = geoStored[e]
  <2>1. o.matched \in 0 .. MaxZone
    BY <1>3 DEF ReportRecord
  <2> QED BY <1>1, <1>2, <1>4, <2>1
<1> HIDE DEF o
<1>8. GeofenceTypeOK'
  BY <1>2, <1>7 DEF GeofenceInv, GeofenceTypeOK, ReportRecord, PlaceOf
<1>9. NewZonesAreFresh'
  BY <1>2, <1>4, <1>5, <1>6, <1>7 DEF GeofenceInv, NewZonesAreFresh
<1>10. ReportsAreInStep'
  BY <1>2, <1>4, <1>5, <1>7 DEF GeofenceInv, ReportsAreInStep
<1>11. o = report[d] /\ o.prev = geoStored[d] /\ o.step = "upsert"
  BY <1>2 DEF o
<1>12. \A e \in Phones, z \in ZoneIds : ToldIn(e, z)' <=> ToldIn(e, z)
  <2> SUFFICES ASSUME NEW e \in Phones, NEW z \in ZoneIds PROVE ToldIn(e, z)' <=> ToldIn(e, z)
    OBVIOUS
  <2>1. z # 0
    BY DEF ZoneIds
  <2>2. CASE e # d
    BY <1>7, <2>2 DEF ToldIn
  <2>3. ToldIn(d, z) <=> o.prev = z
    BY <1>11 DEF ToldIn
  <2>4. ToldIn(d, z)' <=> o.prev = z
    BY <1>4, <1>5, <1>7, <2>1 DEF ToldIn
  <2> QED BY <2>2, <2>3, <2>4
<1>13. NoticesFollow'
  BY <1>2, <1>12 DEF GeofenceInv, NoticesFollow, Exists
<1>14. StatesFollow'
  <2> SUFFICES ASSUME NEW z \in ZoneIds, Exists(z), zoneState[z] = "home"
               PROVE  \E e \in Phones : \/ geoStored'[e] = z
                                        \/ report'[e].step \in {"entered", "left"}
                                           /\ report'[e].prev = z
    BY <1>2 DEF StatesFollow, Exists
  <2>1. PICK e \in Phones : \/ geoStored[e] = z
                            \/ report[e].step \in {"entered", "left"} /\ report[e].prev = z
    BY DEF GeofenceInv, StatesFollow
  <2>2. CASE e # d
    BY <1>7, <2>1, <2>2
  <2>3. CASE e = d
    <3>1. o.prev = z
      BY <1>11, <2>1, <2>3
    <3> QED BY <1>4, <1>5, <1>7, <3>1
  <2> QED BY <2>2, <2>3
<1> QED BY <1>8, <1>9, <1>10, <1>13, <1>14 DEF GeofenceInv

(* The notices: each settles one of the two zones.                         *)
LEMMA ArrivalIsTold ==
    ASSUME GeofenceInv, NEW d \in Phones, Entered(d)
    PROVE  GeofenceInv'
<1> USE GeofenceAssumption
<1> DEFINE o == report[d]
           s == IF o.prev = 0 THEN NoReport ELSE [o EXCEPT !.step = "left"]
<1>1. /\ report \in [Phones -> ReportRecord] /\ told \in [Phones -> [ZoneIds -> Int]]
      /\ zoneState \in [ZoneIds -> {"none", "home", "not_home"}]
  BY DEF GeofenceInv, GeofenceTypeOK, ReportRecord, PlaceOf
<1>2. /\ o.step = "entered" /\ o.matched = geoStored[d] /\ o.matched # o.prev /\ o.matched # 0
      /\ report' = [report EXCEPT ![d] = s]
      /\ told' = [told EXCEPT ![d][o.matched] = @ + 1]
      /\ zoneState' = [zoneState EXCEPT ![o.matched] = "home"]
      /\ UNCHANGED <<zone, nextZone, geoStored, phone>>
  BY DEF Entered, Step, GeofenceInv, ReportsAreInStep
<1>3. o \in ReportRecord /\ o.matched \in ZoneIds
  BY <1>1, <1>2 DEF ReportRecord, ZoneIds
<1>4. /\ s \in ReportRecord
      /\ o.prev = 0 => s = NoReport
      /\ o.prev # 0 => s.step = "left" /\ s.matched = o.matched /\ s.prev = o.prev
  BY <1>3 DEF ReportRecord, NoReport, PlaceOf
<1>5. s.step \in {"none", "left"} /\ NoReport.matched = 0 /\ NoReport.prev = 0
      /\ NoReport.step = "none"
  BY <1>4 DEF NoReport
<1>6. \A z \in ZoneIds : z >= nextZone => z # 0 /\ o.matched # z /\ o.prev # z
  BY DEF GeofenceInv, NewZonesAreFresh, ZoneIds
<1> HIDE DEF s
<1>7. /\ report' \in [Phones -> ReportRecord] /\ report'[d] = s
      /\ \A e \in Phones \ {d} : report'[e] = report[e]
  BY <1>1, <1>2, <1>4
<1>8. o = report[d]
  OBVIOUS
<1> HIDE DEF o
<1>9. /\ told' \in [Phones -> [ZoneIds -> Int]]
      /\ told'[d][o.matched] = told[d][o.matched] + 1
      /\ \A e \in Phones, z \in ZoneIds : e # d \/ z # o.matched => told'[e][z] = told[e][z]
  BY <1>1, <1>2, <1>3
<1>10. /\ zoneState' \in [ZoneIds -> {"none", "home", "not_home"}]
       /\ \A z \in ZoneIds : z # o.matched => zoneState'[z] = zoneState[z]
  BY <1>1, <1>2, <1>3
<1>11. GeofenceTypeOK'
  BY <1>2, <1>7, <1>9, <1>10 DEF GeofenceInv, GeofenceTypeOK, ReportRecord, PlaceOf
<1>12. NewZonesAreFresh'
  BY <1>2, <1>4, <1>5, <1>6, <1>7, <1>9, <1>10 DEF GeofenceInv, NewZonesAreFresh
<1>13. ReportsAreInStep'
  BY <1>2, <1>4, <1>5, <1>7 DEF GeofenceInv, ReportsAreInStep
<1>14. NoticesFollow'
  <2> SUFFICES ASSUME NEW e \in Phones, NEW z \in ZoneIds, Exists(z)
               PROVE  told'[e][z] = IF ToldIn(e, z)' THEN 1 ELSE 0
    BY <1>2 DEF NoticesFollow, Exists
  <2>1. told[e][z] = IF ToldIn(e, z) THEN 1 ELSE 0
    BY DEF GeofenceInv, NoticesFollow
  <2>2. z # 0
    BY DEF ZoneIds
  <2>3. CASE e # d
    BY <1>2, <1>7, <1>9, <2>1, <2>3 DEF ToldIn
  <2>4. CASE e = d
    <3>1. ToldIn(d, z) <=> o.prev = z
      BY <1>2, <1>8 DEF ToldIn
    <3>2. ToldIn(d, z)' <=> z \in {o.matched, o.prev}
      BY <1>2, <1>4, <1>5, <1>7, <1>8, <2>2 DEF ToldIn
    <3>3. told'[d][z] = IF z = o.matched THEN told[d][z] + 1 ELSE told[d][z]
      BY <1>9
    <3> QED BY <1>2, <2>1, <2>4, <3>1, <3>2, <3>3
  <2> QED BY <2>3, <2>4
<1>15. StatesFollow'
  <2> SUFFICES ASSUME NEW z \in ZoneIds, Exists(z), zoneState'[z] = "home"
               PROVE  \E e \in Phones : \/ geoStored[e] = z
                                        \/ report'[e].step \in {"entered", "left"}
                                           /\ report'[e].prev = z
    BY <1>2 DEF StatesFollow, Exists
  <2>1. CASE z = o.matched
    BY <1>2, <2>1
  <2>2. CASE z # o.matched
    <3>1. PICK e \in Phones : \/ geoStored[e] = z
                              \/ report[e].step \in {"entered", "left"} /\ report[e].prev = z
      BY <1>10, <2>2 DEF GeofenceInv, StatesFollow
    <3>2. z # 0
      BY DEF ZoneIds
    <3> QED BY <1>4, <1>7, <1>8, <3>1, <3>2
  <2> QED BY <2>1, <2>2
<1> QED BY <1>11, <1>12, <1>13, <1>14, <1>15 DEF GeofenceInv

LEMMA DepartureIsTold ==
    ASSUME GeofenceInv, NEW d \in Phones, Left(d)
    PROVE  GeofenceInv'
<1> USE GeofenceAssumption
<1> DEFINE o == report[d]
<1>1. /\ report \in [Phones -> ReportRecord] /\ told \in [Phones -> [ZoneIds -> Int]]
      /\ zoneState \in [ZoneIds -> {"none", "home", "not_home"}]
  BY DEF GeofenceInv, GeofenceTypeOK, ReportRecord, PlaceOf
<1>2. /\ o.step = "left" /\ o.matched = geoStored[d] /\ o.matched # o.prev /\ o.prev # 0
      /\ report' = [report EXCEPT ![d] = NoReport]
      /\ IF Exists(o.prev) THEN /\ told' = [told EXCEPT ![d][o.prev] = @ - 1]
                                /\ zoneState' = [zoneState EXCEPT ![o.prev] = "not_home"]
                           ELSE UNCHANGED <<told, zoneState>>
      /\ UNCHANGED <<zone, nextZone, geoStored, phone>>
  BY DEF Left, Step, GeofenceInv, ReportsAreInStep
<1>3. o \in ReportRecord /\ o.prev \in ZoneIds
  BY <1>1, <1>2 DEF ReportRecord, ZoneIds
<1>4. /\ NoReport \in ReportRecord /\ NoReport.matched = 0 /\ NoReport.prev = 0
      /\ NoReport.step = "none"
  BY DEF ReportRecord, NoReport, PlaceOf
<1>5. \A z \in ZoneIds : z >= nextZone => z # 0 /\ o.matched # z /\ o.prev # z
  BY DEF GeofenceInv, NewZonesAreFresh, ZoneIds
<1>6. /\ report' \in [Phones -> ReportRecord] /\ report'[d] = NoReport
      /\ \A e \in Phones \ {d} : report'[e] = report[e]
  BY <1>1, <1>2, <1>4
<1>7. o = report[d]
  OBVIOUS
<1> HIDE DEF o
<1>8. /\ told' \in [Phones -> [ZoneIds -> Int]]
      /\ Exists(o.prev) => told'[d][o.prev] = told[d][o.prev] - 1
      /\ \A e \in Phones, z \in ZoneIds : e # d \/ z # o.prev => told'[e][z] = told[e][z]
  BY <1>1, <1>2, <1>3
<1>9. /\ zoneState' \in [ZoneIds -> {"none", "home", "not_home"}]
      /\ Exists(o.prev) => zoneState'[o.prev] = "not_home"
      /\ \A z \in ZoneIds : z # o.prev => zoneState'[z] = zoneState[z]
  BY <1>1, <1>2, <1>3
<1>10. GeofenceTypeOK'
  BY <1>2, <1>6, <1>8, <1>9 DEF GeofenceInv, GeofenceTypeOK, ReportRecord, PlaceOf
<1>11. NewZonesAreFresh'
  BY <1>2, <1>4, <1>5, <1>6, <1>8, <1>9 DEF GeofenceInv, NewZonesAreFresh
<1>12. ReportsAreInStep'
  BY <1>2, <1>4, <1>6 DEF GeofenceInv, ReportsAreInStep
<1>13. NoticesFollow'
  <2> SUFFICES ASSUME NEW e \in Phones, NEW z \in ZoneIds, Exists(z)
               PROVE  told'[e][z] = IF ToldIn(e, z)' THEN 1 ELSE 0
    BY <1>2 DEF NoticesFollow, Exists
  <2>1. told[e][z] = IF ToldIn(e, z) THEN 1 ELSE 0
    BY DEF GeofenceInv, NoticesFollow
  <2>2. CASE e # d
    BY <1>2, <1>6, <1>8, <2>1, <2>2 DEF ToldIn
  <2>3. CASE e = d
    <3>1. ToldIn(d, z) <=> z \in {o.matched, o.prev}
      BY <1>2, <1>7 DEF ToldIn
    <3>2. ToldIn(d, z)' <=> o.matched = z
      BY <1>2, <1>4, <1>6 DEF ToldIn
    <3>3. told'[d][z] = IF z = o.prev THEN told[d][z] - 1 ELSE told[d][z]
      BY <1>8
    <3> QED BY <1>2, <2>1, <2>3, <3>1, <3>2, <3>3
  <2> QED BY <2>2, <2>3
<1>14. StatesFollow'
  <2> SUFFICES ASSUME NEW z \in ZoneIds, Exists(z), zoneState'[z] = "home"
               PROVE  \E e \in Phones : \/ geoStored[e] = z
                                        \/ report'[e].step \in {"entered", "left"}
                                           /\ report'[e].prev = z
    BY <1>2 DEF StatesFollow, Exists
  <2>1. z # o.prev
    BY <1>9
  <2>2. PICK e \in Phones : \/ geoStored[e] = z
                            \/ report[e].step \in {"entered", "left"} /\ report[e].prev = z
    BY <1>9, <2>1 DEF GeofenceInv, StatesFollow
  <2> QED BY <1>6, <1>7, <2>1, <2>2
<1> QED BY <1>10, <1>11, <1>12, <1>13, <1>14 DEF GeofenceInv

LEMMA GeofenceSteps == GeofenceInv /\ [GeofenceNext]_geofenceVars => GeofenceInv'
<1> SUFFICES ASSUME GeofenceInv, [GeofenceNext]_geofenceVars PROVE GeofenceInv'
  OBVIOUS
<1>1. CASE UNCHANGED geofenceVars
  BY <1>1 DEF geofenceVars, GeofenceInv, GeofenceTypeOK, NewZonesAreFresh, ReportsAreInStep,
              NoticesFollow, ToldIn, StatesFollow, Exists
<1>2. CASE CreateZone \/ UpdateZone \/ DeleteZone
  BY <1>2, ZonesChange
<1>3. ASSUME NEW d \in Phones, \/ Walk(d) \/ StartTracking(d) \/ StopTracking(d)
                               \/ WatchPosition(d) \/ CurrentPosition(d)
                               \/ ReportInterval(d) \/ UpdateLocation(d)
      PROVE  GeofenceInv'
  BY <1>3, PhonesChange, ReportsAreSent, RowIsWritten, ArrivalIsTold, DepartureIsTold
     DEF UpdateLocation
<1> QED BY <1>1, <1>2, <1>3 DEF GeofenceNext

LEMMA CrossingsFollow == GeofenceInv => CrossingsAreTold
<1> SUFFICES ASSUME GeofenceInv PROVE CrossingsAreTold
  OBVIOUS
<1>1. \A d \in Phones : report[d] = NoReport => report[d].step = "none"
  BY DEF NoReport
<1>2. CrossingsAlternate
  BY <1>1 DEF GeofenceInv, NoticesFollow, ToldIn, CrossingsAlternate
<1>3. HomeMeansPresent
  BY <1>1 DEF GeofenceInv, StatesFollow, HomeMeansPresent
<1> QED BY <1>2, <1>3 DEF CrossingsAreTold

(* Of every phone and every zone that stands there was one arrival more    *)
(* than departures while the phone is in, and a zone that shows home has   *)
(* somebody in it: for any zones, overlapping and changing, and any number *)
(* of phones whose reports are under way together (GeofenceService).       *)
THEOREM CrossingsAreAlwaysTold == GeofenceSpec => []CrossingsAreTold
<1>1. GeofenceInit => GeofenceInv
  BY GeofenceStart
<1> QED BY <1>1, GeofenceSteps, CrossingsFollow, PTL DEF GeofenceSpec

-----------------------------------------------------------------------------
(* The services that look at the clock (Watchers).                         *)

(* Sum: a number of equal readings sums to so many times the reading.      *)
LEMMA SumOfEqual ==
    ASSUME NEW s \in Seq(Nat), NEW x \in Nat, \A i \in 1 .. Len(s) : s[i] = x
    PROVE  Sum(s) = Len(s) * x
<1> DEFINE Sums(f) == f = [i \in 0 .. Len(s) |-> IF i = 0 THEN 0 ELSE f[i - 1] + s[i]]
           sums == CHOOSE f : Sums(f)
<1>0. Len(s) \in Nat
  OBVIOUS
<1>1. Sums([i \in 0 .. Len(s) |-> i * x])
  <2> DEFINE f == [i \in 0 .. Len(s) |-> i * x]
  <2>1. ASSUME NEW i \in 0 .. Len(s), i # 0 PROVE f[i] = f[i - 1] + s[i]
    <3>1. i - 1 \in 0 .. Len(s) /\ i \in 1 .. Len(s) /\ i \in Nat
      BY <1>0, <2>1
    <3>2. i * x = (i - 1) * x + x
      BY <3>1
    <3> QED BY <3>1, <3>2
  <2>2. f[0] = 0
    BY <1>0
  <2> QED BY <2>1, <2>2
<1>2. Sums(sums)
  <2> HIDE DEF Sums
  <2> QED BY <1>1
<1>3. ASSUME NEW i \in 0 .. Len(s) PROVE sums[i] = IF i = 0 THEN 0 ELSE sums[i - 1] + s[i]
  <2> HIDE DEF sums
  <2> QED BY <1>2
<1>4. \A i \in 0 .. Len(s) : sums[i] = i * x
  <2> HIDE DEF sums
  <2> DEFINE wrong == {i \in 0 .. Len(s) : sums[i] # i * x}
  <2>1. SUFFICES ASSUME wrong # {} PROVE FALSE
    OBVIOUS
  <2>2. PICK m \in wrong : \A k \in wrong : m <= k
    <3>1. wrong \in SUBSET Nat
      BY <1>0
    <3> HIDE DEF wrong
    <3> QED BY <2>1, <3>1, HasLeast
  <2>3. m # 0
    BY <1>0, <1>3
  <2>4. m - 1 \in 0 .. Len(s) /\ m - 1 \notin wrong /\ m \in Nat /\ m \in 1 .. Len(s)
    BY <1>0, <2>2, <2>3
  <2>5. sums[m] = (m - 1) * x + x
    BY <1>3, <2>3, <2>4
  <2> QED BY <2>4, <2>5
<1>5. Sum(s) = sums[Len(s)]
  BY DEF Sum
<1> HIDE DEF sums, Sums
<1> QED BY <1>0, <1>4, <1>5

(* A minute of the day plus less than a day, around midnight.              *)
LEMMA AroundTheClock ==
    ASSUME NEW n \in Int, -MinutesPerDay <= n, n < 2 * MinutesPerDay
    PROVE  n % MinutesPerDay = IF n < 0 THEN n + MinutesPerDay
                               ELSE IF n < MinutesPerDay THEN n ELSE n - MinutesPerDay
BY WatchersAssumption

(* Of an event, n notices are out at minute m of the day; last is the      *)
(* minute the service looked at, -1 before it ever did.  The first notice  *)
(* comes in the minute before, unless midnight lies between.               *)
Told(event, n, m, last) ==
    LET s == Since(event, m)
    IN /\ n \in 0 .. 3
       /\ s = MinutesPerDay - 1 => n <= 1 /\ (event # 0 => n = 1)
       /\ s = 0 => n \in 1 .. 2
       /\ s \in 1 .. Half - 1 => n >= 1
       /\ s >= Half /\ s # MinutesPerDay - 1 => n = 0
       /\ last = -1 => n <= 1

SunInv ==
    /\ sun \in [minute : Minutes, rise : Minutes, set : Minutes, last : Minutes \cup {-1},
                above : BOOLEAN, riseTold : Nat, setTold : Nat]
    /\ sun.last \in {sun.minute, -1}
    /\ Told(sun.rise, sun.riseTold, sun.minute, sun.last)
    /\ Told(sun.set, sun.setTold, sun.minute, sun.last)

(* The service knows of a door that is on for no less than a tick less     *)
(* than it is, and for no more than it saw it.                             *)
DoorInv ==
    /\ door \in [state : {"on", "off", "unavailable"}, on : Nat, seen : Nat]
    /\ doorSeen \in [age : Nat \cup {-1}, alerted : BOOLEAN]
    /\ doorSeen.age = -1 => door.on = 0 /\ ~doorSeen.alerted
    /\ doorSeen.age # -1 => door.on <= doorSeen.age + 1 + MaxStall
    /\ doorSeen.age >= DoorOpenThreshold => doorSeen.alerted
    /\ doorSeen.age <= door.seen
    /\ doorSeen.alerted => door.seen >= DoorOpenThreshold

PowerInv ==
    /\ power \in [history : Seq(Powers), alerted : BOOLEAN]
    /\ Len(power.history) <= PowerHistorySize
    /\ SteadyIsQuiet

WatchersInv == SunInv /\ DoorInv /\ PowerInv

LEMMA HalfADay == /\ Half \in Nat /\ Half >= 4 /\ 2 * Half <= MinutesPerDay
                  /\ 2 * Half >= MinutesPerDay - 1 /\ MinutesPerDay \in Nat
BY WatchersAssumption DEF Half

LEMMA SinceIs ==
    ASSUME NEW a \in -1 .. MinutesPerDay - 1, NEW m \in Minutes
    PROVE  /\ Since(a, m) \in 0 .. MinutesPerDay - 1
           /\ Since(a, m) = IF m - a < 0 THEN m - a + MinutesPerDay
                            ELSE IF m - a < MinutesPerDay THEN m - a
                            ELSE m - a - MinutesPerDay
<1>1. m - a \in Int /\ -MinutesPerDay <= m - a /\ m - a < 2 * MinutesPerDay
  BY HalfADay DEF Minutes
<1> DEFINE d == m - a
<1>2. Since(a, m) = d % MinutesPerDay
  BY DEF Since
<1> HIDE DEF d
<1>3. Since(a, m) = IF d < 0 THEN d + MinutesPerDay
                    ELSE IF d < MinutesPerDay THEN d ELSE d - MinutesPerDay
  BY <1>1, <1>2, AroundTheClock DEF d
<1>4. Since(a, m) \in 0 .. MinutesPerDay - 1
  BY <1>1, <1>3, HalfADay DEF d
<1> QED BY <1>3, <1>4 DEF d

LEMMA ToldAtStart ==
    ASSUME NEW event \in Minutes, NEW m \in Minutes
    PROVE  Told(event, IF Since(event - 1, m) <= Half THEN 1 ELSE 0, m, -1)
<1>1. event - 1 \in -1 .. MinutesPerDay - 1 /\ event \in -1 .. MinutesPerDay - 1
  BY HalfADay DEF Minutes
<1>2. /\ Since(event, m) = IF m - event < 0 THEN m - event + MinutesPerDay ELSE m - event
      /\ Since(event - 1, m) = IF m - event + 1 < 0 THEN m - event + 1 + MinutesPerDay
                               ELSE IF m - event + 1 < MinutesPerDay THEN m - event + 1
                               ELSE m - event + 1 - MinutesPerDay
  <2> DEFINE b == event - 1
  <2>1. Since(event, m) = IF m - event < 0 THEN m - event + MinutesPerDay
                          ELSE IF m - event < MinutesPerDay THEN m - event
                          ELSE m - event - MinutesPerDay
    BY <1>1, SinceIs
  <2>2. Since(b, m) = IF m - b < 0 THEN m - b + MinutesPerDay
                      ELSE IF m - b < MinutesPerDay THEN m - b
                      ELSE m - b - MinutesPerDay
    <3> HIDE DEF b
    <3>1. b \in -1 .. MinutesPerDay - 1
      BY <1>1 DEF b
    <3> QED BY <3>1, SinceIs
  <2> QED BY <2>1, <2>2, HalfADay DEF Minutes
<1> QED BY <1>2, HalfADay DEF Told, Minutes

LEMMA ToldByTick ==
    ASSUME NEW event \in Minutes, NEW m \in Minutes, NEW n, NEW last \in {m, -1},
           NEW k \in 0 .. 1 + MaxStall, NEW next, next = (m + k) % MinutesPerDay,
           next # last, Told(event, n, m, last)
    PROVE  Told(event, (IF Since(event, next) >= Half THEN 0 ELSE n)
                         + (IF Near(next, event) THEN 1 ELSE 0), next, next)
<1>1. next = IF m + k < MinutesPerDay THEN m + k ELSE m + k - MinutesPerDay
  BY AroundTheClock, HalfADay, WatchersAssumption DEF Minutes
<1>2. next \in Minutes /\ k \in 0 .. 2
  BY <1>1, HalfADay, WatchersAssumption DEF Minutes
<1>3. event \in -1 .. MinutesPerDay - 1
  BY HalfADay DEF Minutes
<1>4. /\ Since(event, m) = IF m - event < 0 THEN m - event + MinutesPerDay ELSE m - event
      /\ Since(event, next) = IF next - event < 0 THEN next - event + MinutesPerDay
                              ELSE next - event
  <2>1. ASSUME NEW n1 \in Minutes
        PROVE  Since(event, n1) = IF n1 - event < 0 THEN n1 - event + MinutesPerDay
                                  ELSE IF n1 - event < MinutesPerDay THEN n1 - event
                                  ELSE n1 - event - MinutesPerDay
    BY <1>3, SinceIs
  <2>2. ASSUME NEW n1 \in Minutes
        PROVE  Since(event, n1) = IF n1 - event < 0 THEN n1 - event + MinutesPerDay
                                  ELSE n1 - event
    BY <2>1, HalfADay DEF Minutes
  <2> QED BY <1>2, <2>2
<1>5. Near(next, event) <=> next - event = -1 \/ next = event \/ next - event = 1
  BY <1>2 DEF Near, Minutes
<1>6. k = 0 => last = -1
  BY <1>1, HalfADay DEF Minutes
<1> DEFINE s == Since(event, m)   t == Since(event, next)
<1>7. s \in 0 .. MinutesPerDay - 1 /\ t \in 0 .. MinutesPerDay - 1
      /\ t = IF s + k < MinutesPerDay THEN s + k ELSE s + k - MinutesPerDay
  BY <1>1, <1>2, <1>4, HalfADay DEF Minutes
<1>8. /\ Near(next, event) => t \in {0, 1, MinutesPerDay - 1}
      /\ t = 0 => Near(next, event)
      /\ t = 1 => Near(next, event) \/ event = MinutesPerDay - 1
      /\ t = MinutesPerDay - 1 /\ event # 0 => Near(next, event)
  BY <1>1, <1>2, <1>4, <1>5, HalfADay DEF Minutes
<1>9. next \in Nat
  BY <1>2 DEF Minutes
<1> HIDE DEF s, t
<1>10. CASE t >= Half
  BY <1>7, <1>8, <1>9, <1>10, HalfADay DEF Told, Minutes, s, t
<1>11. CASE t < Half
  <2> DEFINE n1 == n + (IF Near(next, event) THEN 1 ELSE 0)
  <2>1. /\ n \in 0 .. 3
        /\ s = MinutesPerDay - 1 => n <= 1 /\ (event # 0 => n = 1)
        /\ s = 0 => n \in 1 .. 2
        /\ s \in 1 .. Half - 1 => n >= 1
        /\ s >= Half /\ s # MinutesPerDay - 1 => n = 0
        /\ last = -1 => n <= 1
    BY DEF Told, s
  <2>2. s >= MinutesPerDay - 2 \/ (s < Half /\ t = s + k)
    BY <1>2, <1>7, <1>11, HalfADay
  <2>3. CASE s >= MinutesPerDay - 2
    <3>1. t \in {0, 1} /\ n \in 0 .. 1
      BY <1>2, <1>7, <1>11, <2>1, <2>3, HalfADay
    <3>2. t = 0 => n1 \in 1 .. 2
      BY <1>8, <3>1
    <3>3. t = 1 => n1 \in 1 .. 2
      <4>1. t = 1 /\ event = MinutesPerDay - 1 => s = MinutesPerDay - 1 /\ event # 0
        BY <1>2, <1>7, <2>3, HalfADay
      <4> QED BY <1>8, <2>1, <3>1, <4>1
    <3> QED BY <1>9, <3>1, <3>2, <3>3, HalfADay DEF Told, t
  <2>4. CASE s < Half /\ t = s + k
    <3>1. t = 0 => n1 \in 1 .. 2
      BY <1>2, <1>6, <1>7, <1>8, <2>1, <2>4
    <3>2. t = 1 => n1 \in 1 .. 3
      BY <1>2, <1>6, <1>7, <1>8, <2>1, <2>4, HalfADay
    <3>3. t >= 2 => n1 = n /\ n >= 1
      BY <1>2, <1>7, <1>8, <1>11, <2>1, <2>4, HalfADay
    <3>4. t \in 0 .. Half - 1 /\ n1 \in 1 .. 3
      BY <1>7, <1>11, <2>1, <3>1, <3>2, <3>3, HalfADay
    <3> QED BY <1>9, <1>11, <3>1, <3>4, HalfADay DEF Told, t
  <2> QED BY <2>2, <2>3, <2>4
<1> QED BY <1>7, <1>10, <1>11, HalfADay

LEMMA WatchersStart == ASSUME WatchersInit PROVE WatchersInv
<1>1. PICK m \in Minutes, rise \in Minutes, set \in Minutes :
          sun = [minute |-> m, rise |-> rise, set |-> set, last |-> -1,
                 above |-> Since(rise, m) < Since(rise, set),
                 riseTold |-> IF Since(rise - 1, m) <= Half THEN 1 ELSE 0,
                 setTold |-> IF Since(set - 1, m) <= Half THEN 1 ELSE 0]
  BY DEF WatchersInit
<1>2. SunInv
  <2>1. Told(rise, IF Since(rise - 1, m) <= Half THEN 1 ELSE 0, m, -1)
        /\ Told(set, IF Since(set - 1, m) <= Half THEN 1 ELSE 0, m, -1)
    BY ToldAtStart
  <2> QED BY <1>1, <2>1 DEF SunInv
<1>3. DoorInv
  BY WatchersAssumption DEF WatchersInit, DoorInv
<1>4. PowerInv
  BY WatchersAssumption DEF WatchersInit, PowerInv, SteadyIsQuiet
<1> QED BY <1>2, <1>3, <1>4 DEF WatchersInv

LEMMA SunSteps == ASSUME WatchersInv, SunTick PROVE WatchersInv'
<1>1. PICK k \in 0 .. 1 + MaxStall :
         LET m == (sun.minute + k) % MinutesPerDay
             counted(event, n) == IF Since(event, m) >= Half THEN 0 ELSE n
             notice(event) == IF Near(m, event) THEN 1 ELSE 0
         IN sun' = IF m = sun.last THEN [sun EXCEPT !.minute = m]
                   ELSE [sun EXCEPT !.minute = m, !.last = m,
                            !.above = Since(sun.rise, m) < Since(sun.rise, sun.set),
                            !.riseTold = counted(sun.rise, @) + notice(sun.rise),
                            !.setTold = counted(sun.set, @) + notice(sun.set)]
  BY DEF SunTick
<1> DEFINE m == (sun.minute + k) % MinutesPerDay
           count(event, n) == (IF Since(event, m) >= Half THEN 0 ELSE n)
                                + (IF Near(m, event) THEN 1 ELSE 0)
<1>2. SunInv
  BY DEF WatchersInv
<1>3. m \in Minutes
  <2>1. sun.minute + k \in Int /\ -MinutesPerDay <= sun.minute + k
        /\ sun.minute + k < 2 * MinutesPerDay /\ 0 <= sun.minute + k
    BY <1>2, HalfADay, WatchersAssumption DEF SunInv, Minutes
  <2> QED BY <2>1, AroundTheClock, HalfADay DEF Minutes
<1>4. sun' = IF m = sun.last THEN [sun EXCEPT !.minute = m]
             ELSE [sun EXCEPT !.minute = m, !.last = m,
                      !.above = Since(sun.rise, m) < Since(sun.rise, sun.set),
                      !.riseTold = count(sun.rise, sun.riseTold),
                      !.setTold = count(sun.set, sun.setTold)]
  BY <1>1
<1>5. ASSUME m = sun.last PROVE SunInv'
  <2> HIDE DEF m
  <2>1. m # -1
    BY <1>3, HalfADay DEF Minutes
  <2>2. sun' = sun
    BY <1>2, <1>4, <1>5, <2>1 DEF SunInv
  <2> QED BY <1>2, <2>2 DEF SunInv
<1>6. ASSUME m # sun.last PROVE SunInv'
  <2>1. Told(sun.rise, count(sun.rise, sun.riseTold), m, m)
    BY <1>2, <1>3, <1>6, ToldByTick DEF SunInv
  <2>2. Told(sun.set, count(sun.set, sun.setTold), m, m)
    BY <1>2, <1>3, <1>6, ToldByTick DEF SunInv
  <2>3. count(sun.rise, sun.riseTold) \in Nat /\ count(sun.set, sun.setTold) \in Nat
    BY <2>1, <2>2 DEF Told
  <2> DEFINE above == Since(sun.rise, m) < Since(sun.rise, sun.set)
  <2>0. above \in BOOLEAN
    OBVIOUS
  <2>6. sun' = [sun EXCEPT !.minute = m, !.last = m, !.above = above,
                   !.riseTold = count(sun.rise, sun.riseTold),
                   !.setTold = count(sun.set, sun.setTold)]
    BY <1>4, <1>6
  <2> HIDE DEF m, count, above
  <2>4. /\ sun'.minute = m /\ sun'.last = m /\ sun'.rise = sun.rise /\ sun'.set = sun.set
        /\ sun'.riseTold = count(sun.rise, sun.riseTold)
        /\ sun'.setTold = count(sun.set, sun.setTold)
    BY <1>2, <2>6 DEF SunInv
  <2>5. sun' \in [minute : Minutes, rise : Minutes, set : Minutes,
                  last : Minutes \cup {-1}, above : BOOLEAN, riseTold : Nat, setTold : Nat]
    BY <1>2, <1>3, <2>0, <2>3, <2>6 DEF SunInv
  <2> QED BY <2>1, <2>2, <2>4, <2>5 DEF SunInv
<1>7. SunInv'
  BY <1>5, <1>6
<1>8. UNCHANGED <<door, doorSeen, power>>
  BY DEF SunTick, anomalyVars
<1> QED BY <1>7, <1>8 DEF WatchersInv, DoorInv, PowerInv, SteadyIsQuiet

LEMMA DoorsStep == ASSUME WatchersInv, DoorChanges PROVE WatchersInv'
<1>1. DoorInv'
  <2>1. PICK s \in {"on", "off", "unavailable"} : door' = [door EXCEPT !.state = s, !.on = 0]
    BY DEF DoorChanges
  <2>2. DoorInv /\ doorSeen' = doorSeen
    BY DEF WatchersInv, DoorChanges
  <2>3. door' \in [state : {"on", "off", "unavailable"}, on : Nat, seen : Nat]
        /\ door'.on = 0 /\ door'.seen = door.seen
    BY <2>1, <2>2 DEF DoorInv
  <2> QED BY <2>2, <2>3, WatchersAssumption DEF DoorInv
<1> QED BY <1>1 DEF DoorChanges, WatchersInv, SunInv, PowerInv, SteadyIsQuiet

(* A level that stays is no spike.                                         *)
LEMMA SteadyIsNoSpike ==
    ASSUME NEW h \in Seq(Nat), Len(h) > 0, \A i \in 1 .. Len(h) : h[i] = Last(h)
    PROVE  ~Spike(h)
<1> DEFINE n == Len(h) - 1   x == Last(h)
<1>1. n \in Nat /\ Len(h) \in Nat
  BY DEF Last
<1>2. x \in Nat
  BY DEF Last
<1>3. Front(h) \in Seq(Nat) /\ Len(Front(h)) = n /\ \A i \in 1 .. n : Front(h)[i] = x
  <2>1. /\ SubSeq(h, 1, n) \in Seq(Nat) /\ Len(SubSeq(h, 1, n)) = n
        /\ \A i \in 1 .. n : SubSeq(h, 1, n)[i] = h[i]
    <3>1. \A i \in 1 .. n : h[i] \in Nat
      BY <1>1
    <3> HIDE DEF n
    <3> QED BY <1>1, <3>1, SubSeqProperties
  <2> QED BY <1>1, <2>1 DEF Front
<1> HIDE DEF x, n
<1>4. Sum(Front(h)) = n * x
  <2> DEFINE f == Front(h)
  <2>1. f \in Seq(Nat) /\ Len(f) = n /\ \A i \in 1 .. Len(f) : f[i] = x
    BY <1>3
  <2> HIDE DEF f
  <2>2. Sum(f) = n * x
    BY <1>2, <2>1, SumOfEqual
  <2> QED BY <2>2 DEF f
<1>5. n * x \in Nat /\ x * n = n * x
  BY <1>1, <1>2
<1>6. \A p \in Nat : ~ (p > p * PowerSpikeFactor)
  BY WatchersAssumption
<1> QED BY <1>4, <1>5, <1>6 DEF Spike, n, x

LEMMA PowerChecked == ASSUME PowerInv, CheckPower PROVE PowerInv'
<1>1. CASE UNCHANGED power
  BY <1>1 DEF PowerInv, SteadyIsQuiet
<1>2. CASE ~UNCHANGED power
  <2>1. PICK w \in Powers :
           power' = [history |-> Recorded(w),
                     alerted |-> IF Len(Recorded(w)) < MinReadings THEN power.alerted
                                 ELSE Spike(Recorded(w))]
    BY <1>2 DEF CheckPower
  <2> DEFINE a == Append(power.history, w)   h == Recorded(w)
  <2>2. a \in Seq(Powers) /\ Len(a) = Len(power.history) + 1
    BY DEF PowerInv
  <2>3. h \in Seq(Powers) /\ Len(h) <= PowerHistorySize /\ Len(h) > 0
    <3>1. h = IF Len(a) > PowerHistorySize THEN Tail(a) ELSE a
      BY DEF Recorded
    <3> HIDE DEF a, h
    <3>2. Tail(a) \in Seq(Powers) /\ Len(Tail(a)) = Len(a) - 1
      BY <2>2, HeadTailProperties, EmptySeq DEF PowerInv
    <3>3. Len(power.history) \in Nat
      BY DEF PowerInv
    <3> QED BY <2>2, <3>1, <3>2, <3>3, WatchersAssumption DEF PowerInv
  <2> HIDE DEF a, h
  <2>4. power'.history = h /\ power'.alerted = IF Len(h) < MinReadings THEN power.alerted
                                               ELSE Spike(h)
    BY <2>1 DEF h
  <2>5. Spike(h) \in BOOLEAN
    BY DEF Spike
  <2>6. power' \in [history : Seq(Powers), alerted : BOOLEAN]
    BY <2>1, <2>3, <2>5 DEF PowerInv, h
  <2>7. SteadyIsQuiet'
    <3> SUFFICES ASSUME Len(h) = PowerHistorySize, \A i \in DOMAIN h : h[i] = Last(h)
                 PROVE  ~power'.alerted
      BY <2>4 DEF SteadyIsQuiet
    <3>1. h \in Seq(Nat) /\ DOMAIN h = 1 .. Len(h)
      BY <2>3, WatchersAssumption, SeqMonotonic, LenProperties
    <3>2. ~Spike(h)
      BY <2>3, <3>1, SteadyIsNoSpike
    <3>3. ~(Len(h) < MinReadings)
      BY WatchersAssumption
    <3> QED BY <2>4, <3>2, <3>3
  <2> QED BY <2>3, <2>4, <2>6, <2>7 DEF PowerInv
<1> QED BY <1>1, <1>2

LEMMA AnomalySteps == ASSUME WatchersInv, AnomalyTick PROVE WatchersInv'
<1>1. PICK k \in 1 .. 1 + MaxStall :
         LET capped(n) == IF n > 2 * DoorOpenThreshold THEN 2 * DoorOpenThreshold ELSE n
         IN /\ door.state = "on" => doorSeen.age + k <= 2 * DoorOpenThreshold
            /\ CheckPower /\ CheckDoors(k)
            /\ door' = [door EXCEPT !.on = IF door.state = "on" THEN capped(@ + k) ELSE 0,
                           !.seen = IF door.state = "on" THEN capped(@ + k) ELSE 0]
            /\ UNCHANGED sun
  BY DEF AnomalyTick
<1>2. SunInv'
  BY <1>1 DEF WatchersInv, SunInv
<1>3. PowerInv'
  BY <1>1, PowerChecked DEF WatchersInv
<1>4. DoorInv'
  <2>1. k \in 1 .. 2 /\ k <= 1 + MaxStall /\ MaxStall \in {0, 1} /\ DoorOpenThreshold \in Nat
    BY WatchersAssumption
  <2>2. DoorInv
    BY DEF WatchersInv
  <2>3. CASE door.state # "on"
    <3>1. door' = [door EXCEPT !.on = 0, !.seen = 0]
          /\ doorSeen' = [age |-> -1, alerted |-> FALSE]
      BY <1>1, <2>3 DEF CheckDoors
    <3>2. door' \in [state : {"on", "off", "unavailable"}, on : Nat, seen : Nat]
          /\ door'.on = 0 /\ door'.seen = 0
      BY <2>2, <3>1 DEF DoorInv
    <3>3. doorSeen' \in [age : Nat \cup {-1}, alerted : BOOLEAN]
          /\ doorSeen'.age = -1 /\ doorSeen'.alerted = FALSE
      BY <3>1
    <3>4. ~(-1 >= DoorOpenThreshold)
      BY <2>1
    <3> QED BY <3>2, <3>3, <3>4 DEF DoorInv
  <2>4. CASE door.state = "on"
    <3> DEFINE cap(n) == IF n > 2 * DoorOpenThreshold THEN 2 * DoorOpenThreshold ELSE n
               age == IF doorSeen.age = -1 THEN 0 ELSE doorSeen.age + k
    <3>1. /\ door' = [door EXCEPT !.on = cap(door.on + k), !.seen = cap(door.seen + k)]
          /\ doorSeen' = [age |-> age,
                          alerted |-> doorSeen.alerted \/ age >= DoorOpenThreshold]
          /\ doorSeen.age + k <= 2 * DoorOpenThreshold
      BY <1>1, <2>4 DEF CheckDoors
    <3>2. /\ door'.on = cap(door.on + k) /\ door'.seen = cap(door.seen + k)
          /\ doorSeen'.age = age
          /\ doorSeen'.alerted = (doorSeen.alerted \/ age >= DoorOpenThreshold)
      BY <2>2, <3>1 DEF DoorInv
    <3>3. cap(door.on + k) \in Nat /\ cap(door.seen + k) \in Nat /\ age \in Nat
      BY <2>1, <2>2 DEF DoorInv
    <3>4. door' \in [state : {"on", "off", "unavailable"}, on : Nat, seen : Nat]
      BY <2>2, <3>1, <3>3 DEF DoorInv
    <3>5. doorSeen' \in [age : Nat \cup {-1}, alerted : BOOLEAN]
      BY <2>2, <3>1, <3>3 DEF DoorInv
    <3>6. door'.on <= age + 1 + MaxStall
      BY <2>1, <2>2, <3>2 DEF DoorInv
    <3>7. age <= door'.seen
      BY <2>1, <2>2, <3>1, <3>2 DEF DoorInv
    <3>8. doorSeen'.alerted => door'.seen >= DoorOpenThreshold
      BY <2>1, <2>2, <3>2, <3>3, <3>7 DEF DoorInv
    <3> HIDE DEF age, cap
    <3> QED BY <3>2, <3>3, <3>4, <3>5, <3>6, <3>7, <3>8 DEF DoorInv
  <2> QED BY <2>3, <2>4
<1> QED BY <1>2, <1>3, <1>4 DEF WatchersInv

LEMMA AlarmsFollow == WatchersInv => AlarmsAreTrue
<1> SUFFICES ASSUME WatchersInv PROVE AlarmsAreTrue
  OBVIOUS
<1> USE DEF WatchersInv
<1>1. SunIsTold
  BY HalfADay DEF SunInv, Told, SunIsTold, Minutes
<1>2. LongOpenIsTold
  BY WatchersAssumption DEF DoorInv, LongOpenIsTold
<1>3. ToldWasOpen
  BY DEF DoorInv, ToldWasOpen
<1> QED BY <1>1, <1>2, <1>3 DEF PowerInv, AlarmsAreTrue

(* Every sunrise and sunset is told, though the timer skips minutes and    *)
(* midnight cuts the window, and never more than three times; a door is    *)
(* told of when it was open for the threshold and a tick, and only then;   *)
(* and a level of power that stays is no spike: at any minute of any day,  *)
(* with any threshold and any history (SunService, AnomalyService).        *)
THEOREM AlarmsAreAlwaysTrue == WatchersSpec => []AlarmsAreTrue
<1>1. WatchersInv /\ [WatchersNext]_watcherVars => WatchersInv'
  <2>1. ASSUME WatchersInv, UNCHANGED watcherVars PROVE WatchersInv'
    BY <2>1 DEF WatchersInv, SunInv, DoorInv, PowerInv, SteadyIsQuiet, watcherVars
  <2> QED BY <2>1, SunSteps, DoorsStep, AnomalySteps DEF WatchersNext
<1> QED BY <1>1, WatchersStart, AlarmsFollow, PTL DEF WatchersSpec

-----------------------------------------------------------------------------
(* The thermostat schedule (Schedule).                                     *)
OneTemp(E) == \A x, y \in E : x[1] = y[1] => x[2] = y[2]

SaveOf == [browser : Browsers, climate : Climates, entries : Table,
           step : {"delete", "insert"}]

ScheduleShape ==
    /\ rows \in [Climates -> Table]
    /\ editor \in [Browsers -> [climate : Climates, entries : Table, saving : BOOLEAN]]
    /\ loads \subseteq [browser : Browsers, entries : Table]
    /\ saves \subseteq SaveOf
    /\ acked \in [Climates -> SUBSET Table] /\ mixed \subseteq Climates

(* What was answered last is in the table, and no save is under way.       *)
AnsweredStands ==
    \A c \in Climates : /\ acked[c] \subseteq {rows[c]}
                        /\ acked[c] # {} => \A s \in saves : s.climate # c

(* Unless saves of a thermostat overlapped there is one at a time, and its *)
(* second statement finds the table empty.                                 *)
SavesTakeTurns ==
    /\ \A s \in saves : s.step = "insert" /\ s.climate \notin mixed => rows[s.climate] = {}
    /\ \A s, t \in saves : s.climate = t.climate /\ s.climate \notin mixed => s = t

(* No table anywhere has two temperatures for a slot.                      *)
TablesAgree ==
    /\ \A c \in Climates : OneTemp(rows[c])
    /\ \A b \in Browsers : OneTemp(editor[b].entries)
    /\ \A l \in loads : OneTemp(l.entries)
    /\ \A s \in saves : OneTemp(s.entries)

ScheduleInv == ScheduleShape /\ AnsweredStands /\ SavesTakeTurns /\ (mixed = {} => TablesAgree)

LEMMA ScheduleStart == ASSUME ScheduleInit PROVE ScheduleInv
<1>1. (CHOOSE c \in Climates : TRUE) \in Climates
  BY ScheduleAssumption
<1>2. ScheduleShape
  BY <1>1 DEF ScheduleInit, ScheduleShape, Table
<1>3. AnsweredStands /\ SavesTakeTurns /\ TablesAgree
  BY DEF ScheduleInit, AnsweredStands, SavesTakeTurns, TablesAgree, OneTemp
<1> QED BY <1>2, <1>3 DEF ScheduleInv

(* A step that leaves the tables, the saves and the answers alone.         *)
LEMMA EditorMoves ==
    ASSUME ScheduleInv, UNCHANGED <<rows, saves, acked, mixed>>,
           editor' \in [Browsers -> [climate : Climates, entries : Table, saving : BOOLEAN]],
           loads' \subseteq [browser : Browsers, entries : Table],
           mixed = {} => /\ \A b \in Browsers : OneTemp(editor'[b].entries)
                         /\ \A l \in loads' : OneTemp(l.entries)
    PROVE  ScheduleInv'
<1>1. ScheduleShape'
  BY DEF ScheduleInv, ScheduleShape
<1>2. AnsweredStands' /\ SavesTakeTurns'
  BY DEF ScheduleInv, AnsweredStands, SavesTakeTurns
<1>3. mixed = {} => TablesAgree'
  BY DEF ScheduleInv, TablesAgree
<1> QED BY <1>1, <1>2, <1>3 DEF ScheduleInv

LEMMA EditorSteps ==
    ASSUME ScheduleInv, NEW b \in Browsers, SelectClimate(b) \/ ScheduleLoaded(b) \/ SetCell(b)
    PROVE  ScheduleInv'
<1> USE DEF Editing, ScheduleInv, ScheduleShape
<1>1. CASE SelectClimate(b)
  <2>1. PICK c \in Climates : /\ editor' = [editor EXCEPT ![b].climate = c]
                              /\ loads' = loads \cup {[browser |-> b, entries |-> rows[c]]}
    BY <1>1 DEF SelectClimate
  <2>2. UNCHANGED <<rows, saves, acked, mixed>>
    BY <1>1 DEF SelectClimate
  <2>3. \A d \in Browsers : editor'[d].entries = editor[d].entries
    BY <2>1
  <2>4. mixed = {} => /\ \A d \in Browsers : OneTemp(editor'[d].entries)
                      /\ \A l \in loads' : OneTemp(l.entries)
    BY <2>1, <2>3 DEF TablesAgree
  <2>5. editor' \in [Browsers -> [climate : Climates, entries : Table, saving : BOOLEAN]]
        /\ loads' \subseteq [browser : Browsers, entries : Table]
    BY <2>1
  <2> QED BY <2>2, <2>4, <2>5, EditorMoves
<1>2. CASE ScheduleLoaded(b)
  <2>1. PICK l \in loads : /\ editor' = [editor EXCEPT ![b].entries = l.entries]
                           /\ loads' = loads \ {l}
    BY <1>2 DEF ScheduleLoaded
  <2>2. UNCHANGED <<rows, saves, acked, mixed>>
    BY <1>2 DEF ScheduleLoaded
  <2>3. \A d \in Browsers : editor'[d].entries = IF d = b THEN l.entries ELSE editor[d].entries
    BY <2>1
  <2>4. mixed = {} => /\ \A d \in Browsers : OneTemp(editor'[d].entries)
                      /\ \A m \in loads' : OneTemp(m.entries)
    BY <2>1, <2>3 DEF TablesAgree
  <2>5. editor' \in [Browsers -> [climate : Climates, entries : Table, saving : BOOLEAN]]
        /\ loads' \subseteq [browser : Browsers, entries : Table]
    BY <2>1
  <2> QED BY <2>2, <2>4, <2>5, EditorMoves
<1>3. CASE SetCell(b)
  <2>1. PICK E \in Table : /\ editor' = [editor EXCEPT ![b].entries = E]
                           /\ OneTemp(editor[b].entries) => OneTemp(E)
    <3>1. CASE editor' = [editor EXCEPT ![b].entries = {}]
      <4>1. {} \in Table /\ OneTemp({})
        BY DEF Table, OneTemp
      <4> QED BY <3>1, <4>1
    <3>2. CASE \E s \in Slots, t \in Temps :
                  editor' = [editor EXCEPT ![b].entries = {x \in @ : x[1] # s} \cup {<<s, t>>}]
      <4>1. PICK s \in Slots, t \in Temps :
                  editor' = [editor EXCEPT ![b].entries = {x \in @ : x[1] # s} \cup {<<s, t>>}]
        BY <3>2
      <4> DEFINE E == {x \in editor[b].entries : x[1] # s} \cup {<<s, t>>}
      <4>2. editor' = [editor EXCEPT ![b].entries = E]
        BY <4>1
      <4>3. E \in Table /\ (OneTemp(editor[b].entries) => OneTemp(E))
        BY DEF Table, OneTemp
      <4> QED BY <4>2, <4>3
    <3> QED BY <1>3, <3>1, <3>2 DEF SetCell
  <2>2. UNCHANGED <<rows, saves, acked, mixed, loads>>
    BY <1>3 DEF SetCell
  <2>3. \A d \in Browsers : editor'[d].entries = IF d = b THEN E ELSE editor[d].entries
    BY <2>1
  <2>4. mixed = {} => /\ \A d \in Browsers : OneTemp(editor'[d].entries)
                      /\ \A m \in loads' : OneTemp(m.entries)
    BY <2>1, <2>2, <2>3 DEF TablesAgree
  <2>5. editor' \in [Browsers -> [climate : Climates, entries : Table, saving : BOOLEAN]]
        /\ loads' \subseteq [browser : Browsers, entries : Table]
    BY <2>1, <2>2
  <2> QED BY <2>2, <2>4, <2>5, EditorMoves
<1> QED BY <1>1, <1>2, <1>3

LEMMA SaveStarts == ASSUME ScheduleInv, NEW b \in Browsers, Save(b) PROVE ScheduleInv'
<1> DEFINE c == editor[b].climate
           n == [browser |-> b, climate |-> c, entries |-> editor[b].entries,
                 step |-> "delete"]
<1>1. /\ editor' = [editor EXCEPT ![b].saving = TRUE]
      /\ mixed' = IF \E s \in saves : s.climate = c THEN mixed \cup {c} ELSE mixed
      /\ saves' = saves \cup {n}
      /\ acked' = [acked EXCEPT ![c] = {}]
      /\ UNCHANGED <<rows, loads>>
  BY DEF Save
<1>2. c \in Climates /\ editor[b].entries \in Table /\ n \in SaveOf
  BY DEF ScheduleInv, ScheduleShape, SaveOf
<1>3. n.climate = c /\ n.step = "delete" /\ n.entries = editor[b].entries
  OBVIOUS
<1>4. \A d \in Browsers : editor'[d].entries = editor[d].entries
  BY <1>1 DEF ScheduleInv, ScheduleShape
<1> HIDE DEF c, n
<1>5. ScheduleShape'
  <2>1. editor' \in [Browsers -> [climate : Climates, entries : Table, saving : BOOLEAN]]
    BY <1>1 DEF ScheduleInv, ScheduleShape
  <2>2. acked' \in [Climates -> SUBSET Table] /\ mixed' \subseteq Climates
    BY <1>1, <1>2 DEF ScheduleInv, ScheduleShape
  <2>3. saves' \subseteq SaveOf
    BY <1>1, <1>2 DEF ScheduleInv, ScheduleShape
  <2> QED BY <1>1, <2>1, <2>2, <2>3 DEF ScheduleInv, ScheduleShape
<1>6. AnsweredStands'
  BY <1>1, <1>2, <1>3 DEF ScheduleInv, ScheduleShape, AnsweredStands
<1>7. SavesTakeTurns'
  <2>1. mixed \subseteq mixed' /\ (c \notin mixed' => \A s \in saves : s.climate # c)
    BY <1>1
  <2>2. ASSUME NEW s \in saves', s.step = "insert", s.climate \notin mixed'
        PROVE  rows'[s.climate] = {}
    BY <1>1, <1>3, <2>1, <2>2 DEF ScheduleInv, SavesTakeTurns
  <2>3. ASSUME NEW s \in saves', NEW t \in saves', s.climate = t.climate,
               s.climate \notin mixed'
        PROVE  s = t
    BY <1>1, <1>3, <2>1, <2>3 DEF ScheduleInv, SavesTakeTurns
  <2> QED BY <2>2, <2>3 DEF SavesTakeTurns
<1>8. mixed' = {} => TablesAgree'
  BY <1>1, <1>2, <1>3, <1>4 DEF ScheduleInv, TablesAgree
<1> QED BY <1>5, <1>6, <1>7, <1>8 DEF ScheduleInv

LEMMA SaveDeletesRows ==
    ASSUME ScheduleInv, NEW s \in saves, SaveDeletes(s) PROVE ScheduleInv'
<1> DEFINE n == [s EXCEPT !.step = "insert"]
<1>1. /\ rows' = [rows EXCEPT ![s.climate] = {}]
      /\ saves' = (saves \ {s}) \cup {n}
      /\ UNCHANGED <<editor, loads, acked, mixed>>
  BY DEF SaveDeletes
<1>2. s \in SaveOf
  BY DEF ScheduleInv, ScheduleShape
<1>3. n \in SaveOf /\ n.climate = s.climate /\ n.entries = s.entries /\ n.step = "insert"
  BY <1>2 DEF SaveOf
<1>4. s.climate \in Climates
  BY <1>2 DEF SaveOf
<1> HIDE DEF n
<1>5. ScheduleShape'
  BY <1>1, <1>2, <1>3, <1>4 DEF ScheduleInv, ScheduleShape, Table
<1>6. \A c \in Climates : rows'[c] = IF c = s.climate THEN {} ELSE rows[c]
  BY <1>1 DEF ScheduleInv, ScheduleShape
<1>7. AnsweredStands'
  BY <1>1, <1>3, <1>4, <1>6 DEF ScheduleInv, AnsweredStands
<1>8. \A t \in saves' : t.climate \in Climates
  BY <1>5 DEF ScheduleShape, SaveOf
<1>9. SavesTakeTurns'
  BY <1>1, <1>3, <1>4, <1>6, <1>8 DEF ScheduleInv, SavesTakeTurns
<1>10. mixed' = {} => TablesAgree'
  BY <1>1, <1>3, <1>6 DEF ScheduleInv, TablesAgree, OneTemp
<1> QED BY <1>5, <1>7, <1>9, <1>10 DEF ScheduleInv

LEMMA SaveInsertsRows ==
    ASSUME ScheduleInv, NEW s \in saves, SaveInserts(s) PROVE ScheduleInv'
<1> DEFINE c == s.climate
<1>1. /\ s.step = "insert"
      /\ rows' = [rows EXCEPT ![c] = rows[c] \cup s.entries]
      /\ saves' = saves \ {s}
      /\ editor' = [editor EXCEPT ![s.browser].saving = FALSE]
      /\ acked' = [acked EXCEPT ![c] = IF c \in mixed THEN {} ELSE {s.entries}]
      /\ UNCHANGED <<loads, mixed>>
  BY DEF SaveInserts
<1>2. c \in Climates /\ s.browser \in Browsers /\ s.entries \in Table
  BY DEF ScheduleInv, ScheduleShape, SaveOf
<1>3. \A d \in Browsers : editor'[d].entries = editor[d].entries
  BY <1>1, <1>2 DEF ScheduleInv, ScheduleShape
<1>4. c \notin mixed => rows[c] = {} /\ \A t \in saves : t.climate = c => t = s
  BY <1>1 DEF ScheduleInv, SavesTakeTurns
<1>5. /\ \A d \in Climates : rows'[d] = IF d = c THEN rows[c] \cup s.entries ELSE rows[d]
      /\ \A d \in Climates : acked'[d] = IF d # c THEN acked[d]
                                         ELSE IF c \in mixed THEN {} ELSE {s.entries}
  BY <1>1 DEF ScheduleInv, ScheduleShape
<1>6. rows[c] \cup s.entries \in Table
  BY <1>2 DEF ScheduleInv, ScheduleShape, Table
<1>7. \A t \in saves : t.climate \in Climates
  BY DEF ScheduleInv, ScheduleShape, SaveOf
<1> HIDE DEF c
<1>8. ScheduleShape'
  BY <1>1, <1>2, <1>6 DEF ScheduleInv, ScheduleShape
<1>9. AnsweredStands'
  <2> SUFFICES ASSUME NEW d \in Climates
               PROVE  /\ acked'[d] \subseteq {rows'[d]}
                      /\ acked'[d] # {} => \A t \in saves' : t.climate # d
    BY DEF AnsweredStands
  <2>1. CASE d # c
    BY <1>1, <1>5, <2>1 DEF ScheduleInv, AnsweredStands
  <2>2. CASE d = c /\ c \in mixed
    BY <1>2, <1>5, <2>2
  <2>3. CASE d = c /\ c \notin mixed
    BY <1>1, <1>2, <1>4, <1>5, <2>3
  <2> QED BY <2>1, <2>2, <2>3
<1>10. SavesTakeTurns'
  BY <1>1, <1>2, <1>4, <1>5, <1>7 DEF ScheduleInv, SavesTakeTurns
<1>11. mixed' = {} => TablesAgree'
  <2> SUFFICES ASSUME mixed = {} PROVE TablesAgree'
    BY <1>1
  <2>1. rows'[c] = s.entries /\ TablesAgree
    BY <1>2, <1>4, <1>5 DEF ScheduleInv
  <2> QED BY <1>1, <1>3, <1>5, <2>1 DEF TablesAgree
<1> QED BY <1>8, <1>9, <1>10, <1>11 DEF ScheduleInv

LEMMA ScheduleSteps == ScheduleInv /\ [ScheduleNext]_scheduleVars => ScheduleInv'
<1> SUFFICES ASSUME ScheduleInv, [ScheduleNext]_scheduleVars PROVE ScheduleInv'
  OBVIOUS
<1>1. CASE UNCHANGED <<rows, editor, loads, saves, acked, mixed>>
  BY <1>1 DEF ScheduleInv, ScheduleShape, AnsweredStands, SavesTakeTurns, TablesAgree
<1>2. CASE \E b \in Browsers : SelectClimate(b) \/ ScheduleLoaded(b) \/ SetCell(b) \/ Save(b)
  BY <1>2, EditorSteps, SaveStarts
<1>3. CASE \E s \in saves : SaveDeletes(s) \/ SaveInserts(s)
  BY <1>3, SaveDeletesRows, SaveInsertsRows
<1>4. CASE ServerRestarts
  <2>1. saves' = {} /\ UNCHANGED <<rows, loads, acked, mixed>>
        /\ editor' = [b \in Browsers |-> [editor[b] EXCEPT !.saving = FALSE]]
    BY <1>4 DEF ServerRestarts
  <2>2. \A b \in Browsers : editor'[b].entries = editor[b].entries
    BY <2>1 DEF ScheduleInv, ScheduleShape
  <2>3. ScheduleShape'
    BY <2>1 DEF ScheduleInv, ScheduleShape
  <2> QED BY <2>1, <2>2, <2>3
          DEF ScheduleInv, AnsweredStands, SavesTakeTurns, TablesAgree
<1>5. CASE ApplyTick \/ ApplyNow \/ ApplyNext \/ IntegrationLoaded \/ SetByHand \/ NextSlot
  BY <1>1, <1>5 DEF ApplyTick, ApplyNow, ApplyNext, IntegrationLoaded, SetByHand, NextSlot,
                    Reads
<1> QED BY <1>1, <1>2, <1>3, <1>4, <1>5 DEF ScheduleNext, scheduleVars

LEMMA ScheduleFollows == ScheduleInv => SavedIsStored /\ OneTempPerSlot
<1> SUFFICES ASSUME ScheduleInv PROVE SavedIsStored /\ OneTempPerSlot
  OBVIOUS
<1>1. SavedIsStored
  BY DEF ScheduleInv, AnsweredStands, SavedIsStored
<1>2. ASSUME mixed = {}, NEW c \in Climates, NEW s \in Slots
      PROVE  Cardinality(AtSlot(c, s)) <= 1
  <2>1. OneTemp(rows[c])
    BY <1>2 DEF ScheduleInv, TablesAgree
  <2>2. AtSlot(c, s) = {} \/ \E t : AtSlot(c, s) = {t}
    <3>1. ASSUME AtSlot(c, s) # {} PROVE \E t : AtSlot(c, s) = {t}
      <4>1. PICK x \in rows[c] : x[1] = s
        BY <3>1 DEF AtSlot
      <4>2. AtSlot(c, s) = {x[2]}
        BY <2>1, <4>1 DEF AtSlot, OneTemp
      <4> QED BY <4>2
    <3> QED BY <3>1
  <2>3. Cardinality({}) <= 1 /\ \A t : Cardinality({t}) <= 1
    <3>1. Cardinality({}) = 0 /\ \A t : Cardinality({t}) = 1
      BY FS_EmptySet, FS_Singleton, Zenon
    <3>2. 0 <= 1 /\ 1 <= 1
      OBVIOUS
    <3> QED BY <3>1, <3>2, Zenon
  <2> QED BY <2>2, <2>3
<1> QED BY <1>1, <1>2 DEF OneTempPerSlot

LEMMA SchedulesKeep ==
    ScheduleInit /\ [][ScheduleNext]_scheduleVars => [](SavedIsStored /\ OneTempPerSlot)
BY ScheduleStart, ScheduleSteps, ScheduleFollows, PTL

(* What a browser saved is what the table has, until the next save of the  *)
(* same thermostat begins, and no table has two temperatures for a slot,   *)
(* unless two saves overlap: for any number of thermostats, browsers and   *)
(* restarts (saveSchedule()).                                              *)
THEOREM SavesAreStored == ScheduleSpec => [](SavedIsStored /\ OneTempPerSlot)
BY SchedulesKeep, PTL DEF ScheduleSpec

-----------------------------------------------------------------------------
(* The platforms and their services (Platforms).                           *)
ConfigNames == STRING \cup {"demo"}      \* what a list of integrations holds

Handlers == {NoHandler, "demo", "scene", "isy994", "light", "switch", "fan"}

Failed(st) == {d \in DOMAIN st \cap BuiltIn : st[d] = "failed"}

(* What is listed is still to load or has been tried; a failure costs a    *)
(* fault; the integration being set up is the first of the list.           *)
LoadInv ==
    /\ config \in Seq(ConfigNames) /\ toLoad \in Seq(ConfigNames)
    /\ plat \in [calls : Nat, faults : Nat]
    /\ handler \in [Domains \X Verbs -> Handlers]
    /\ setup = [domain |-> setup.domain, left |-> setup.left]
    /\ setup # NoSetup => /\ setup.domain \in BuiltIn
                          /\ toLoad # << >> /\ setup.domain = Head(toLoad)
    /\ \A i \in DOMAIN config :
          \/ InSeq(config[i], toLoad)
          \/ config[i] \in DOMAIN status /\ status[config[i]] # "loading"
    /\ IsFiniteSet(Failed(status)) /\ Cardinality(Failed(status)) <= plat.faults

LEMMA InTail ==
    ASSUME NEW s \in Seq(ConfigNames), s # << >>, NEW e, e # Head(s), InSeq(e, s)
    PROVE  InSeq(e, Tail(s))
<1>1. PICK i \in DOMAIN s : s[i] = e
  BY DEF InSeq
<1>2. i \in 1 .. Len(s) /\ Len(s) \in Nat /\ i # 1
  BY <1>1
<1>3. i - 1 \in 1 .. Len(s) - 1
  BY <1>2
<1>4. Tail(s)[i - 1] = s[i] /\ DOMAIN Tail(s) = 1 .. Len(s) - 1
  BY <1>2, <1>3
<1> QED BY <1>1, <1>3, <1>4 DEF InSeq

LEMMA LoadStart == ASSUME PlatInit PROVE LoadInv
<1>1. PICK cfg \in Configs : config = WithDemo(cfg)
  BY DEF PlatInit
<1>2. cfg \in Seq(ConfigNames)
  <2>1. cfg \in Seq(STRING)
    BY ThingsAssumption
  <2> QED BY <2>1, SeqMonotonic DEF ConfigNames
<1>3. config \in Seq(ConfigNames)
  <2>1. <<"demo">> \in Seq(ConfigNames)
    BY DEF ConfigNames
  <2>2. <<"demo">> \o cfg \in Seq(ConfigNames)
    BY <1>2, <2>1, ConcatProperties
  <2> QED BY <1>1, <1>2, <2>2 DEF WithDemo
<1>4. Failed(status) = {}
  BY DEF PlatInit, Failed
<1>5. Cardinality({}) = 0 /\ IsFiniteSet({})
  BY FS_EmptySet, Zenon
<1>6. setup = NoSetup /\ toLoad = config /\ plat = [calls |-> 0, faults |-> 0]
      /\ handler = [s \in Domains \X Verbs |-> NoHandler]
  BY DEF PlatInit
<1>7. Cardinality(Failed(status)) <= plat.faults
  BY <1>4, <1>5, <1>6
<1>8. \A i \in DOMAIN config : InSeq(config[i], toLoad)
  BY <1>6 DEF InSeq
<1>9. handler \in [Domains \X Verbs -> Handlers]
  BY <1>6 DEF Handlers
<1>10. setup = [domain |-> setup.domain, left |-> setup.left]
  BY <1>6 DEF NoSetup
<1>11. plat \in [calls : Nat, faults : Nat]
  BY <1>6
<1> QED BY <1>3, <1>4, <1>5, <1>6, <1>7, <1>8, <1>9, <1>10, <1>11 DEF LoadInv

(* SetStatus: one more failed integration, or none.                        *)
LEMMA OneMoreFailed ==
    ASSUME IsFiniteSet(Failed(status)), NEW d, NEW st, NEW n \in Nat, NEW m \in Nat,
           Cardinality(Failed(status)) <= n,
           m = IF d \in BuiltIn /\ st = "failed" THEN n + 1 ELSE n
    PROVE  /\ IsFiniteSet(Failed(SetStatus(d, st)))
           /\ Cardinality(Failed(SetStatus(d, st))) <= m
<1> DEFINE F == Failed(status)   G == Failed(SetStatus(d, st))
<1>1. G = IF d \in BuiltIn /\ st = "failed" THEN F \cup {d} ELSE F \ {d}
  BY DEF Failed, SetStatus
<1> HIDE DEF F, G
<1>2. IsFiniteSet(F) /\ Cardinality(F) <= n /\ Cardinality(F) \in Nat
  BY FS_CardinalityType DEF F
<1>3. /\ IsFiniteSet(F \cup {d}) /\ IsFiniteSet(F \ {d})
      /\ Cardinality(F \cup {d}) = IF d \in F THEN Cardinality(F) ELSE Cardinality(F) + 1
      /\ Cardinality(F \ {d}) = IF d \in F THEN Cardinality(F) - 1 ELSE Cardinality(F)
  BY <1>2, FS_AddElement, FS_RemoveElement
<1> QED BY <1>1, <1>2, <1>3 DEF F, G

LEMMA Registered ==
    ASSUME handler \in [Domains \X Verbs -> Handlers], NEW by \in Handlers, NEW S
    PROVE  Register(by, S) \in [Domains \X Verbs -> Handlers]
BY DEF Register

LEMMA FirstNone == \A d \in BuiltIn :
    /\ d \notin {"light", "switch", "fan"} => First(d) = {}
    /\ d \notin {"demo", "scene", "isy994"} => AfterEntities(d) = {}
BY DEF First, AfterEntities

LEMMA LoadSteps == ASSUME LoadInv, [PlatNext]_platVars PROVE LoadInv'
<1>1. CASE UNCHANGED <<config, toLoad, setup, status, handler>>
           /\ plat' \in [calls : Nat, faults : Nat] /\ plat'.faults = plat.faults
  BY <1>1 DEF LoadInv
<1>2. CASE LoadNext
  <2> DEFINE d == Head(toLoad)
  <2>1. toLoad # << >> /\ d \in ConfigNames /\ setup = NoSetup
    BY <1>2 DEF LoadNext, LoadInv
  <2>2. CASE d \notin BuiltIn
    <3>1. /\ status' = SetStatus(d, "failed") /\ toLoad' = Tail(toLoad)
          /\ UNCHANGED <<config, setup, handler, plat>>
      BY <1>2, <2>2 DEF LoadNext
    <3>2. /\ IsFiniteSet(Failed(status')) /\ Cardinality(Failed(status')) <= plat.faults
      BY <2>2, <3>1, OneMoreFailed DEF LoadInv
    <3>3. \A i \in DOMAIN config : \/ InSeq(config[i], toLoad')
                                   \/ config[i] \in DOMAIN status' /\ status'[config[i]] # "loading"
      <4> SUFFICES ASSUME NEW i \in DOMAIN config, config[i] # d
                   PROVE \/ InSeq(config[i], toLoad')
                         \/ config[i] \in DOMAIN status' /\ status'[config[i]] # "loading"
        BY <3>1 DEF SetStatus
      <4>1. InSeq(config[i], toLoad) => InSeq(config[i], toLoad')
        BY <2>1, <3>1, InTail DEF LoadInv
      <4> QED BY <3>1, <4>1 DEF LoadInv, SetStatus
    <3>4. toLoad' \in Seq(ConfigNames)
      BY <2>1, <3>1 DEF LoadInv
    <3> QED BY <2>1, <3>1, <3>2, <3>3, <3>4 DEF LoadInv
  <2>3. CASE d \in BuiltIn
    <3>1. /\ status' = SetStatus(d, "loading") /\ handler' = Register(d, First(d))
          /\ setup'.domain = d /\ setup' = [domain |-> d, left |-> setup'.left]
          /\ UNCHANGED <<config, toLoad, plat>>
      BY <1>2, <2>3 DEF LoadNext
    <3>2. /\ IsFiniteSet(Failed(status')) /\ Cardinality(Failed(status')) <= plat.faults
      BY <3>1, OneMoreFailed DEF LoadInv
    <3>3. \A i \in DOMAIN config : \/ InSeq(config[i], toLoad')
                                   \/ config[i] \in DOMAIN status' /\ status'[config[i]] # "loading"
      <4>1. InSeq(d, toLoad)
        BY <2>1 DEF InSeq, LoadInv
      <4> QED BY <3>1, <4>1 DEF LoadInv, SetStatus
    <3>4. handler' \in [Domains \X Verbs -> Handlers]
      <4>1. CASE d \in Handlers
        BY <3>1, <4>1, Registered DEF LoadInv
      <4>2. CASE d \notin Handlers
        BY <2>3, <3>1, <4>2, FirstNone DEF LoadInv, Register, Handlers
      <4> QED BY <4>1, <4>2
    <3> QED BY <2>1, <2>3, <3>1, <3>2, <3>3, <3>4 DEF LoadInv
  <2> QED BY <2>2, <2>3
<1>3. CASE SetupEntity
  <2>1. setup # NoSetup /\ setup' = [setup EXCEPT !.left = Tail(@)]
        /\ UNCHANGED <<config, toLoad, status, handler, plat>>
    BY <1>3 DEF SetupEntity, NoSetup
  <2>2. setup'.domain = setup.domain /\ setup' = [domain |-> setup'.domain, left |-> setup'.left]
    BY <2>1 DEF LoadInv
  <2> QED BY <2>1, <2>2 DEF LoadInv
<1>4. CASE SetupFails \/ SetupDone
  <2> DEFINE d == setup.domain
  <2>1. setup # NoSetup /\ d \in BuiltIn /\ toLoad # << >> /\ d = Head(toLoad)
    BY <1>4 DEF SetupFails, SetupDone, LoadInv
  <2>2. PICK st \in {"failed", "loaded"} :
           /\ status' = SetStatus(d, st)
           /\ plat' = IF st = "failed" THEN [plat EXCEPT !.faults = @ + 1] ELSE plat
           /\ toLoad' = Tail(toLoad) /\ setup' = NoSetup /\ config' = config
    BY <1>4 DEF SetupFails, SetupDone
  <2>3. plat' \in [calls : Nat, faults : Nat]
        /\ plat'.faults = IF st = "failed" THEN plat.faults + 1 ELSE plat.faults
    BY <2>2 DEF LoadInv
  <2>4. IsFiniteSet(Failed(status')) /\ Cardinality(Failed(status')) <= plat'.faults
    <3>1. plat'.faults = IF d \in BuiltIn /\ st = "failed" THEN plat.faults + 1 ELSE plat.faults
      BY <2>1, <2>3
    <3>2. plat.faults \in Nat /\ plat'.faults \in Nat
      BY <2>3 DEF LoadInv
    <3> HIDE DEF d
    <3> QED BY <2>2, <3>1, <3>2, OneMoreFailed DEF LoadInv
  <2>5. \A i \in DOMAIN config : \/ InSeq(config[i], toLoad')
                                 \/ config[i] \in DOMAIN status' /\ status'[config[i]] # "loading"
    <3> SUFFICES ASSUME NEW i \in DOMAIN config, config[i] # d
                 PROVE \/ InSeq(config[i], toLoad')
                       \/ config[i] \in DOMAIN status' /\ status'[config[i]] # "loading"
      BY <2>2 DEF SetStatus
    <3>1. InSeq(config[i], toLoad) => InSeq(config[i], toLoad')
      BY <2>1, <2>2, InTail DEF LoadInv
    <3> QED BY <2>2, <3>1 DEF LoadInv, SetStatus
  <2>6. toLoad' \in Seq(ConfigNames)
    BY <2>1, <2>2 DEF LoadInv
  <2>7. handler' \in [Domains \X Verbs -> Handlers]
    <3>1. CASE SetupFails
      BY <3>1 DEF SetupFails, LoadInv
    <3>2. CASE SetupDone
      <4>1. handler' = Register(d, AfterEntities(d))
        BY <3>2 DEF SetupDone
      <4>2. CASE d \in Handlers
        BY <4>1, <4>2, Registered DEF LoadInv
      <4>3. CASE d \notin Handlers
        BY <2>1, <4>1, <4>3, FirstNone DEF LoadInv, Register, Handlers
      <4> QED BY <4>2, <4>3
    <3> QED BY <1>4, <3>1, <3>2
  <2> QED BY <2>2, <2>3, <2>4, <2>5, <2>6, <2>7 DEF LoadInv, NoSetup
<1>5. CASE \E c \in Callers : CallService(c)
  <2>1. plat' = [plat EXCEPT !.calls = @ + 1]
        /\ UNCHANGED <<config, toLoad, setup, status, handler>>
    BY <1>5 DEF CallService
  <2>2. plat' \in [calls : Nat, faults : Nat] /\ plat'.faults = plat.faults
    BY <2>1 DEF LoadInv
  <2> QED BY <1>1, <2>1, <2>2
<1>6. CASE UNCHANGED <<config, toLoad, setup, status, handler, plat>>
  <2>1. plat' \in [calls : Nat, faults : Nat] /\ plat'.faults = plat.faults
    BY <1>6 DEF LoadInv
  <2> QED BY <1>1, <1>6, <2>1
<1>7. CASE FanRowRefused \/ SensorTick
           \/ \E c \in Callers : LightToggle(c) \/ SwitchToggle(c) \/ IsySends(c) \/ IsyAcknowledged(c)
  BY <1>6, <1>7 DEF FanRowRefused, SensorTick, LightToggle, SwitchToggle, IsySends,
                    IsyAcknowledged, Rests
<1> QED BY <1>2, <1>3, <1>4, <1>5, <1>6, <1>7 DEF PlatNext, ServiceCalled, platVars

LEMMA AllTried == LoadInv => EveryoneIsTried
<1> SUFFICES ASSUME LoadInv, Booted PROVE EveryoneIsTried
  BY DEF EveryoneIsTried
<1>1. \A i \in DOMAIN config : ~InSeq(config[i], toLoad)
  BY DEF Booted, InSeq
<1>2. Cardinality({d \in DOMAIN status \cap BuiltIn : status[d] = "failed"}) <= plat.faults
  BY DEF LoadInv, Failed
<1> QED BY <1>1, <1>2 DEF LoadInv, EveryoneIsTried

(* A service that has a handler keeps one.                                 *)
LEMMA ServicesLast ==
    ASSUME LoadInv, [PlatNext]_platVars, NEW s \in DOMAIN handler, handler[s] # NoHandler
    PROVE  handler'[s] # NoHandler
<1>1. CASE UNCHANGED handler
  BY <1>1
<1>2. NoHandler \notin BuiltIn
  BY DEF NoHandler, BuiltIn
<1>3. ASSUME NEW by \in BuiltIn, NEW S, handler' = Register(by, S) PROVE handler'[s] # NoHandler
  BY <1>2, <1>3 DEF Register
<1>4. CASE LoadNext
  BY <1>1, <1>3, <1>4 DEF LoadNext
<1>5. CASE SetupDone
  BY <1>3, <1>5 DEF SetupDone, LoadInv
<1>6. CASE SetupEntity \/ SetupFails \/ FanRowRefused \/ SensorTick
           \/ \E c \in Callers : ServiceCalled(c)
  BY <1>1, <1>6 DEF SetupEntity, SetupFails, FanRowRefused, SensorTick, ServiceCalled, CallService,
                    LightToggle, SwitchToggle, IsySends, IsyAcknowledged, Rests
<1> QED BY <1>1, <1>4, <1>5, <1>6 DEF PlatNext, platVars

(* The entities a caller can switch.                                       *)
Switched == {e \in Things : DomainOf[e] \in {"light", "switch", "fan"}}

(* A call under way: by whom, and what it still has to do.                 *)
CallShape(cl) ==
    \/ cl = NoCall
    \/ /\ cl \in [verb : Verbs, by : {"light", "switch", "isy994"}, todo : Seq(Things),
                  sent : {"no", "on", "off"}]
       /\ cl.todo # << >>
       /\ \A i, j \in DOMAIN cl.todo : cl.todo[i] = cl.todo[j] => i = j

CallsInv ==
    /\ value \in [Things -> {"none", "on", "off"}]
    /\ wanted \in [Things -> {"on", "off", "any"}]
    /\ device \in [Hardware -> {"on", "off"}]
    /\ call \in [Callers -> {call[c] : c \in Callers}]
    /\ \A c \in Callers : CallShape(call[c])
    \* what hardware is asked for is open until it answered
    /\ \A c \in Callers : call[c].by = "isy994" =>
          \A e \in Things : InSeq(e, call[c].todo) => wanted[e] = "any"

(* Until the start is over nobody calls, and what can be switched is off.  *)
BootInv ==
    ~Booted => /\ call = [c \in Callers |-> NoCall]
               /\ wanted = [e \in Things |-> "off"]
               /\ device = [e \in Hardware |-> "off"]
               /\ \A e \in Switched : value[e] \in {"none", "off"}

(* Who still has to toggle e; a state that was toggled n times.            *)
Togglers(cl, e) == {c \in Callers : InSeq(e, cl[c].todo)}
ShownAs(v) == IF v = "none" THEN "off" ELSE v
Turned(n, v) == IF n % 2 = 0 THEN v ELSE Flipped(v)

(* An entity is in the state the calls ask for, but for the toggles that   *)
(* are still to come.                                                      *)
Follows(cl, e, v, w) == /\ IsFiniteSet(Togglers(cl, e))
                        /\ w = "any" \/ w = Turned(Cardinality(Togglers(cl, e)), ShownAs(v))

TogglesInv == up => \A e \in Switched : Follows(call, e, value[e], wanted[e])

EntitiesInv == CallsInv /\ BootInv /\ TogglesInv

LEMMA Parity ==
    ASSUME NEW n \in Nat, NEW v \in {"on", "off"}
    PROVE  /\ Turned(0, v) = v
           /\ Turned(n + 1, v) = Flipped(Turned(n, v))
           /\ Turned(n, Flipped(v)) = Flipped(Turned(n, v))
           /\ Turned(n, v) \in {"on", "off"}
           /\ Flipped(Flipped(v)) = v
<1>1. (n % 2 = 0 /\ (n + 1) % 2 = 1) \/ (n % 2 = 1 /\ (n + 1) % 2 = 0)
  OBVIOUS
<1>2. 0 % 2 = 0
  OBVIOUS
<1>3. Flipped(Flipped(v)) = v
  BY DEF Flipped
<1> QED BY <1>1, <1>2, <1>3 DEF Turned, Flipped

(* Nobody calls and everything is off.                                     *)
LEMMA NobodyCalls ==
    ASSUME NEW e, NEW v \in {"none", "off"}
    PROVE  Follows([c \in Callers |-> NoCall], e, v, "off")
<1> DEFINE T == Togglers([c \in Callers |-> NoCall], e)
<1>1. T = {}
  BY DEF Togglers, InSeq, NoCall
<1>2. IsFiniteSet(T) /\ Cardinality(T) = 0
  BY <1>1, FS_EmptySet
<1>3. Turned(0, ShownAs(v)) = "off"
  BY DEF Turned, ShownAs
<1> QED BY <1>2, <1>3 DEF Follows

LEMMA EntitiesStart == ASSUME PlatInit PROVE EntitiesInv
<1>1. CallsInv
  <2>1. call = [c \in Callers |-> NoCall]
    BY DEF PlatInit
  <2>2. \A c \in Callers : CallShape(call[c]) /\ call[c].by # "isy994"
    BY <2>1 DEF CallShape, NoCall, NoHandler
  <2>3. call \in [Callers -> {call[c] : c \in Callers}]
    BY <2>1
  <2> QED BY <2>2, <2>3 DEF PlatInit, CallsInv
<1>2. BootInv
  BY DEF PlatInit, BootInv, Switched
<1>3. TogglesInv
  <2> SUFFICES ASSUME NEW e \in Switched PROVE Follows(call, e, value[e], wanted[e])
    BY DEF TogglesInv
  <2>1. call = [c \in Callers |-> NoCall] /\ value[e] = "none" /\ wanted[e] = "off"
    BY DEF PlatInit, Switched
  <2> QED BY <2>1, NobodyCalls
<1> QED BY <1>1, <1>2, <1>3 DEF EntitiesInv


(* Before the start is over nothing is asked and everything is off.        *)
LEMMA BootSteps ==
    ASSUME EntitiesInv, ~Booted, UNCHANGED <<device, call, wanted, up>>,
           value' \in [Things -> {"none", "on", "off"}],
           \A e \in Switched : value'[e] \in {"none", "off"}
    PROVE  EntitiesInv'
<1>1. /\ call = [c \in Callers |-> NoCall] /\ wanted = [e \in Things |-> "off"]
      /\ device = [e \in Hardware |-> "off"]
  BY DEF EntitiesInv, BootInv
<1>2. CallsInv'
  BY DEF EntitiesInv, CallsInv
<1>3. BootInv'
  BY <1>1 DEF BootInv
<1>4. TogglesInv'
  <2> SUFFICES ASSUME NEW e \in Switched PROVE Follows(call', e, value'[e], wanted'[e])
    BY DEF TogglesInv
  <2>1. wanted'[e] = "off" /\ call' = [c \in Callers |-> NoCall]
    BY <1>1 DEF Switched
  <2> QED BY <2>1, NobodyCalls
<1> QED BY <1>2, <1>3, <1>4 DEF EntitiesInv

LEMMA LoadingRests ==
    ASSUME LoadInv, EntitiesInv, LoadNext \/ SetupEntity \/ SetupFails \/ SetupDone
    PROVE  EntitiesInv'
<1>1. ~Booted
  BY DEF LoadNext, SetupEntity, SetupFails, SetupDone, Booted, NoSetup
<1>2. UNCHANGED <<device, call, wanted, up>>
  BY DEF LoadNext, SetupEntity, SetupFails, SetupDone
<1>3. /\ value \in [Things -> {"none", "on", "off"}] /\ device = [e \in Hardware |-> "off"]
      /\ \A e \in Switched : value[e] \in {"none", "off"}
  BY <1>1 DEF EntitiesInv, CallsInv, BootInv
<1>4. /\ value' \in [Things -> {"none", "on", "off"}]
      /\ \A e \in Switched : value'[e] \in {"none", "off"}
  <2>1. CASE UNCHANGED value
    BY <1>3, <2>1
  <2>2. ASSUME NEW S, value' = [e \in Things |-> IF e \in S THEN "off" ELSE value[e]]
        PROVE  /\ value' \in [Things -> {"none", "on", "off"}]
               /\ \A e \in Switched : value'[e] \in {"none", "off"}
    BY <1>3, <2>2 DEF Switched
  <2>3. CASE LoadNext /\ Head(toLoad) \in BuiltIn
    <3>1. value' = [e \in Things |-> IF e \in (IF Head(toLoad) \in {"fan", "scene"}
                                               THEN Own(Head(toLoad)) ELSE {})
                                     THEN "off" ELSE value[e]]
      BY <2>3 DEF LoadNext
    <3> QED BY <2>2, <3>1
  <2>4. CASE SetupEntity
    <3>1. PICK d \in Things : value' = [value EXCEPT ![d] = "off"]
      BY <1>3, <2>4 DEF SetupEntity, DemoEntity, LightEntity, SwitchEntity, SensorEntity,
                  BinarySensorEntity, IsyEntity, StateShows, Own, Hardware
    <3> QED BY <1>3, <3>1 DEF Switched
  <2> QED BY <2>1, <2>3, <2>4 DEF LoadNext, SetupFails, SetupDone
<1> QED BY <1>1, <1>2, <1>4, BootSteps

(* A call that comes to its next target, or to its end.                    *)
LEMMA RestIs ==
    ASSUME CallsInv, NEW c \in Callers, call[c] # NoCall,
           call' = [call EXCEPT ![c] = Rest(c)]
    PROVE  /\ call' \in [Callers -> {call'[d] : d \in Callers}]
           /\ \A d \in Callers : CallShape(call'[d])
           /\ \A d \in Callers : call'[d].by = "isy994" => call[d].by = "isy994"
           /\ \A e \in Things : Togglers(call', e) =
                 IF e = Head(call[c].todo) THEN Togglers(call, e) \ {c} ELSE Togglers(call, e)
<1> DEFINE s == call[c].todo
<1>1. /\ call[c] \in [verb : Verbs, by : {"light", "switch", "isy994"}, todo : Seq(Things),
                      sent : {"no", "on", "off"}]
      /\ s # << >> /\ \A i, j \in DOMAIN s : s[i] = s[j] => i = j
  BY DEF CallsInv, CallShape
<1>2. Len(s) \in Nat /\ Len(s) >= 1 /\ DOMAIN s = 1 .. Len(s) /\ s \in Seq(Things)
  BY <1>1
<1>3. \A d \in Callers : call'[d] = IF d = c THEN Rest(c) ELSE call[d]
  BY DEF CallsInv
<1>4. CASE Len(s) = 1
  <2>1. Rest(c) = NoCall
    BY <1>4 DEF Rest
  <2>2. Head(s) = s[1] /\ \A e : InSeq(e, s) <=> e = s[1]
    BY <1>2, <1>4 DEF InSeq
  <2>3. \A e : ~InSeq(e, NoCall.todo)
    BY DEF NoCall, InSeq
  <2>4. \A d \in Callers : CallShape(call'[d])
    BY <1>3, <2>1 DEF CallsInv, CallShape
  <2>5. NoCall.by # "isy994"
    BY DEF NoCall, NoHandler
  <2>6. \A e \in Things : Togglers(call', e) =
           IF e = Head(s) THEN Togglers(call, e) \ {c} ELSE Togglers(call, e)
    BY <1>3, <2>1, <2>2, <2>3 DEF Togglers
  <2> QED BY <1>3, <2>1, <2>4, <2>5, <2>6 DEF CallsInv
<1>5. CASE Len(s) # 1
  <2> DEFINE t == Tail(s)
  <2>1. Rest(c) = [call[c] EXCEPT !.todo = t, !.sent = "no"]
    BY <1>5 DEF Rest
  <2>2. t \in Seq(Things) /\ Len(t) = Len(s) - 1 /\ \A i \in 1 .. Len(t) : t[i] = s[i + 1]
    BY <1>2, HeadTailProperties
  <2>3. Head(s) = s[1]
    BY <1>2
  <2> HIDE DEF t
  <2>4. t # << >> /\ DOMAIN t = 1 .. Len(t)
    <3>1. DOMAIN t = 1 .. Len(t)
      BY <2>2, LenProperties
    <3>2. Len(t) # 0
      BY <1>2, <1>5, <2>2
    <3>3. Len(<< >>) = 0
      BY EmptySeq
    <3> QED BY <3>1, <3>2, <3>3
  <2>5. \A i, j \in DOMAIN t : t[i] = t[j] => i = j
    <3> SUFFICES ASSUME NEW i \in 1 .. Len(t), NEW j \in 1 .. Len(t), t[i] = t[j] PROVE i = j
      BY <2>4
    <3>1. i \in Nat /\ j \in Nat /\ i + 1 \in DOMAIN s /\ j + 1 \in DOMAIN s
      BY <1>2, <2>2
    <3>2. s[i + 1] = s[j + 1]
      BY <2>2
    <3>3. i + 1 = j + 1
      BY <1>1, <3>1, <3>2
    <3> QED BY <3>1, <3>3
  <2>6. \A e : InSeq(e, t) <=> InSeq(e, s) /\ e # Head(s)
    <3>1. ASSUME NEW e, InSeq(e, t) PROVE InSeq(e, s) /\ e # Head(s)
      <4>1. PICK i \in 1 .. Len(t) : t[i] = e
        BY <2>4, <3>1 DEF InSeq
      <4>2. i + 1 \in 1 .. Len(s) /\ i + 1 # 1 /\ s[i + 1] = e
        BY <1>2, <2>2, <4>1
      <4> QED BY <1>1, <1>2, <2>3, <4>2 DEF InSeq
    <3>2. ASSUME NEW e, InSeq(e, s), e # Head(s) PROVE InSeq(e, t)
      <4>1. PICK i \in 1 .. Len(s) : s[i] = e
        BY <1>2, <3>2 DEF InSeq
      <4>2. i - 1 \in 1 .. Len(t) /\ t[i - 1] = s[(i - 1) + 1] /\ (i - 1) + 1 = i
        BY <1>2, <2>2, <2>3, <3>2, <4>1
      <4> QED BY <2>4, <4>1, <4>2 DEF InSeq
    <3> QED BY <3>1, <3>2
  <2>7. /\ Rest(c) \in [verb : Verbs, by : {"light", "switch", "isy994"}, todo : Seq(Things),
                        sent : {"no", "on", "off"}]
        /\ Rest(c).todo = t /\ Rest(c).by = call[c].by
    BY <1>1, <2>1, <2>2
  <2>8. CallShape(Rest(c))
    BY <2>4, <2>5, <2>7 DEF CallShape
  <2>9. \A d \in Callers : CallShape(call'[d])
    BY <1>3, <2>8 DEF CallsInv
  <2>10. \A e \in Things : Togglers(call', e) =
           IF e = Head(s) THEN Togglers(call, e) \ {c} ELSE Togglers(call, e)
    <3> SUFFICES ASSUME NEW e \in Things
                 PROVE Togglers(call', e) =
                       IF e = Head(s) THEN Togglers(call, e) \ {c} ELSE Togglers(call, e)
      OBVIOUS
    <3>1. \A d \in Callers : InSeq(e, call'[d].todo) <=>
             InSeq(e, call[d].todo) /\ (d = c => e # Head(s))
      BY <1>3, <2>6, <2>7
    <3> HIDE DEF s
    <3> QED BY <3>1 DEF Togglers
  <2> QED BY <1>3, <2>7, <2>9, <2>10 DEF CallsInv
<1> QED BY <1>4, <1>5

(* One toggle done: the state turns, and one less is to come.              *)
LEMMA OneToggled ==
    ASSUME NEW cl, NEW next, NEW e, NEW c, c \in Togglers(cl, e),
           Togglers(next, e) = Togglers(cl, e) \ {c},
           NEW v \in {"none", "on", "off"}, NEW w, Follows(cl, e, v, w)
    PROVE  Follows(next, e, Flipped(v), w)
<1> DEFINE T == Togglers(cl, e)   n == Cardinality(T)
<1>1. IsFiniteSet(T) /\ n \in Nat
  BY FS_CardinalityType DEF Follows
<1>2. IsFiniteSet(T \ {c}) /\ Cardinality(T \ {c}) = n - 1 /\ n # 0
  <2>1. IsFiniteSet(T \ {c}) /\ Cardinality(T \ {c}) = n - 1
    BY <1>1, FS_RemoveElement
  <2>2. n # 0
    BY <1>1, FS_EmptySet
  <2> QED BY <2>1, <2>2
<1>3. w = "any" \/ w = Turned(n, ShownAs(v))
  BY DEF Follows
<1> HIDE DEF T
<1> DEFINE m == n - 1
<1>4. m \in Nat /\ n = m + 1
  BY <1>1, <1>2
<1>5. ShownAs(v) \in {"on", "off"} /\ ShownAs(Flipped(v)) = Flipped(ShownAs(v))
  BY DEF ShownAs, Flipped
<1>6. Turned(n, ShownAs(v)) = Turned(m, ShownAs(Flipped(v)))
  <2>1. Turned(m + 1, ShownAs(v)) = Turned(m, Flipped(ShownAs(v)))
    <3> HIDE DEF m
    <3> QED BY <1>4, <1>5, Parity
  <2> QED BY <1>4, <1>5, <2>1
<1> QED BY <1>2, <1>3, <1>6 DEF Follows, T

(* One toggle more: what is wanted turns.                                  *)
LEMMA OneMoreToggler ==
    ASSUME NEW cl, NEW next, NEW e, NEW c, c \notin Togglers(cl, e),
           Togglers(next, e) = Togglers(cl, e) \cup {c},
           NEW v \in {"none", "on", "off"}, NEW w \in {"on", "off"}, Follows(cl, e, v, w)
    PROVE  Follows(next, e, v, Flipped(w))
<1> DEFINE T == Togglers(cl, e)   n == Cardinality(T)
<1>1. IsFiniteSet(T) /\ n \in Nat /\ w = Turned(n, ShownAs(v))
  BY FS_CardinalityType DEF Follows
<1>2. IsFiniteSet(T \cup {c}) /\ Cardinality(T \cup {c}) = n + 1
  BY <1>1, FS_AddElement
<1> HIDE DEF T, n
<1>3. ShownAs(v) \in {"on", "off"}
  BY DEF ShownAs
<1>4. Turned(n + 1, ShownAs(v)) = Flipped(w)
  BY <1>1, <1>3, Parity
<1> QED BY <1>2, <1>4 DEF Follows, T, n


LEMMA ResultIs ==
    ASSUME NEW verb \in Verbs, NEW v
    PROVE  ResultOf(verb, v) \in {"on", "off"}
BY DEF ResultOf, Verbs, Flipped

(* A state that is set at once, while toggles may be under way.            *)
LEMMA SetAtOnce ==
    ASSUME NEW cl, NEW e, NEW v \in {"none", "on", "off"}, NEW w, Follows(cl, e, v, w),
           NEW verb \in Verbs, NEW open \in BOOLEAN,
           open <=> IF verb = "toggle" THEN w = "any" ELSE Togglers(cl, e) # {},
           w \in {"on", "off", "any"}
    PROVE  Follows(cl, e, ResultOf(verb, v), IF open THEN "any" ELSE ResultOf(verb, w))
<1> DEFINE T == Togglers(cl, e)   n == Cardinality(T)
<1>1. IsFiniteSet(T) /\ n \in Nat /\ (w = "any" \/ w = Turned(n, ShownAs(v)))
  BY FS_CardinalityType DEF Follows
<1>2. T = {} => n = 0
  BY FS_EmptySet
<1> HIDE DEF T, n
<1>3. CASE open
  BY <1>1, <1>3 DEF Follows, T, n
<1>4. CASE ~open /\ verb = "toggle"
  <2>1. w = Turned(n, ShownAs(v)) /\ ShownAs(v) \in {"on", "off"}
        /\ ShownAs(Flipped(v)) = Flipped(ShownAs(v))
    BY <1>1, <1>4 DEF ShownAs, Flipped
  <2>2. Turned(n, Flipped(ShownAs(v))) = Flipped(Turned(n, ShownAs(v)))
    BY <1>1, <2>1, Parity
  <2>3. ResultOf(verb, v) = Flipped(v) /\ ResultOf(verb, w) = Flipped(w)
    BY <1>4 DEF ResultOf
  <2>4. Turned(n, ShownAs(ResultOf(verb, v))) = ResultOf(verb, w)
    BY <2>1, <2>2, <2>3
  <2> QED BY <1>1, <1>4, <2>4 DEF Follows, T, n
<1>5. CASE ~open /\ verb # "toggle"
  <2>1. n = 0
    BY <1>2, <1>5 DEF T
  <2>2. ResultOf(verb, v) = ResultOf(verb, w) /\ ResultOf(verb, v) \in {"on", "off"}
    BY <1>5, ResultIs DEF ResultOf, Verbs
  <2>3. Turned(0, ShownAs(ResultOf(verb, v))) = ResultOf(verb, w)
    BY <2>2 DEF Turned, ShownAs
  <2> QED BY <1>1, <1>5, <2>1, <2>3 DEF Follows, T, n
<1> QED BY <1>3, <1>4, <1>5

LEMMA PendingIs == \A e : Pending(e) <=> Togglers(call, e) # {}
BY DEF Pending, Togglers

(* Wanted: an open wish stays open while somebody waits.                   *)
LEMMA WantedIs ==
    ASSUME CallsInv, NEW by, NEW verb \in Verbs, NEW targets
    PROVE  /\ Wanted(by, verb, targets) \in [Things -> {"on", "off", "any"}]
           /\ \A e \in Things : /\ wanted[e] = "any" /\ Pending(e)
                                      => Wanted(by, verb, targets)[e] = "any"
                                /\ by = "isy994" /\ InSeq(e, targets)
                                      => Wanted(by, verb, targets)[e] = "any"
<1>1. \A e \in DOMAIN Scene : Scene[e] \in {"on", "off"}
  BY ThingsAssumption
<1>2. \A v : ResultOf(verb, v) \in {"on", "off"}
  BY ResultIs
<1> DEFINE w == Wanted(by, verb, targets)
<1>3. ASSUME NEW e \in Things
      PROVE  /\ w[e] \in {"on", "off", "any"}
             /\ wanted[e] = "any" /\ Pending(e) => w[e] = "any"
             /\ by = "isy994" /\ InSeq(e, targets) => w[e] = "any"
  BY <1>1, <1>2 DEF Wanted, CallsInv
<1>4. w = [e \in Things |-> w[e]]
  BY DEF Wanted
<1> QED BY <1>3, <1>4

(* Nothing moves that an entity shows or that is asked of it.              *)
LEMMA NothingMoves ==
    ASSUME EntitiesInv, UNCHANGED <<value, wanted, device, call, up>>, Booted => Booted'
    PROVE  EntitiesInv'
BY DEF EntitiesInv, CallsInv, BootInv, TogglesInv

(* A service that sets its targets at once.                                *)
LEMMA SetsAtOnce ==
    ASSUME EntitiesInv, NEW by \in {"scene", "demo", "fan", "light", "switch"},
           NEW verb \in Verbs, NEW targets, ~Waits(by, verb), targets # << >>,
           targets \in Seq(Things), UNCHANGED <<device, call>>, up => up', up' => up, Booted',
           wanted' = Wanted(by, verb, targets),
           value' = CASE by = "fan"    -> FanHandler(verb, targets)
                      [] by = "scene"  -> SceneHandler(targets)
                      [] by = "demo"   -> DemoHandler(verb, targets)
                      [] by = "light"  -> LightHandler(verb, targets)
                      [] by = "switch" -> SwitchHandler(verb, targets)
    PROVE  EntitiesInv'
<1> USE DEF EntitiesInv
<1>1. \A e \in DOMAIN Scene : Scene[e] \in {"on", "off"}
  BY ThingsAssumption
<1>2. \A v : ResultOf(verb, v) \in {"on", "off"}
  BY ResultIs
<1>3. value' \in [Things -> {"none", "on", "off"}]
  <2>1. CASE by = "fan"
    BY <1>2, <2>1 DEF CallsInv, FanHandler
  <2>2. CASE by = "scene"
    BY <1>1, <2>2 DEF CallsInv, SceneHandler
  <2>3. CASE by = "demo"
    BY <1>2, <2>3 DEF CallsInv, DemoHandler
  <2>4. CASE by = "light"
    BY <1>2, <2>4 DEF CallsInv, LightHandler
  <2>5. CASE by = "switch"
    BY <1>2, <2>5 DEF CallsInv, SwitchHandler
  <2> QED BY <2>1, <2>2, <2>3, <2>4, <2>5
<1>4. CallsInv'
  <2>1. wanted' \in [Things -> {"on", "off", "any"}]
    BY WantedIs
  <2>2. ASSUME NEW c \in Callers, call'[c].by = "isy994", NEW e \in Things,
               InSeq(e, call'[c].todo)
        PROVE  wanted'[e] = "any"
    <3>1. wanted[e] = "any" /\ Pending(e)
      BY <2>2 DEF CallsInv, Pending
    <3> QED BY <3>1, WantedIs
  <2> QED BY <1>3, <2>1, <2>2 DEF CallsInv
<1>5. ASSUME NEW e \in Switched, up PROVE Follows(call, e, value'[e], wanted'[e])
  <2>1. /\ e \in Things /\ value[e] \in {"none", "on", "off"}
        /\ wanted[e] \in {"on", "off", "any"} /\ Follows(call, e, value[e], wanted[e])
    BY <1>5 DEF Switched, CallsInv, TogglesInv
  <2>2. CASE value'[e] = value[e] /\ wanted'[e] = wanted[e]
    BY <2>1, <2>2
  <2>3. CASE by = "scene" /\ PlatformOf[targets[1]] = "scene" /\ e \in DOMAIN Scene
    <3>1. value'[e] = Scene[e] /\ wanted'[e] = IF Pending(e) THEN "any" ELSE Scene[e]
      BY <2>1, <2>3 DEF SceneHandler, Wanted
    <3>2. PICK vb \in Verbs : Scene[e] = ResultOf(vb, value[e])
                              /\ Scene[e] = ResultOf(vb, wanted[e]) /\ vb # "toggle"
      BY <1>1, <2>3 DEF Verbs, ResultOf
    <3> DEFINE open == Togglers(call, e) # {}
    <3>3. open \in BOOLEAN /\ (open <=> Pending(e))
      BY PendingIs
    <3>4. Follows(call, e, ResultOf(vb, value[e]),
                  IF open THEN "any" ELSE ResultOf(vb, wanted[e]))
      BY <2>1, <3>2, <3>3, SetAtOnce
    <3> QED BY <3>1, <3>2, <3>3, <3>4
  <2>4. CASE /\ by # "scene" /\ InSeq(e, targets)
             /\ value[e] # "none" \/ by \notin {"demo", "fan"}
             /\ by = "fan" => e = targets[1]
    <3> DEFINE open == IF verb = "toggle" THEN wanted[e] = "any" ELSE Togglers(call, e) # {}
    <3>1. value'[e] = ResultOf(verb, value[e])
      <4>1. CASE by = "fan"
        BY <2>1, <2>4, <4>1 DEF FanHandler
      <4>2. CASE by = "demo"
        BY <2>1, <2>4, <4>2 DEF DemoHandler
      <4>3. CASE by = "light"
        BY <2>1, <2>4, <4>3 DEF LightHandler
      <4>4. CASE by = "switch"
        BY <2>1, <2>4, <4>4 DEF SwitchHandler
      <4> QED BY <2>4, <4>1, <4>2, <4>3, <4>4
    <3>2. open \in BOOLEAN
      OBVIOUS
    <3>3. wanted'[e] = IF open THEN "any" ELSE ResultOf(verb, wanted[e])
      <4>1. wanted'[e] = IF verb # "toggle" /\ Pending(e) THEN "any"
                         ELSE IF verb = "toggle" /\ wanted[e] = "any" THEN "any"
                         ELSE ResultOf(verb, wanted[e])
        BY <2>1, <2>4 DEF Wanted
      <4> QED BY <4>1, PendingIs
    <3>4. Follows(call, e, ResultOf(verb, value[e]),
                  IF open THEN "any" ELSE ResultOf(verb, wanted[e]))
      BY <2>1, <3>2, SetAtOnce
    <3> QED BY <3>1, <3>3, <3>4
  <2>5. CASE by = "scene" /\ ~(PlatformOf[targets[1]] = "scene" /\ e \in DOMAIN Scene)
    BY <2>1, <2>2, <2>5 DEF SceneHandler, Wanted
  <2>6. CASE by # "scene" /\ ~InSeq(e, targets)
    <3>1. by = "fan" => e # targets[1]
      BY <2>6 DEF InSeq
    <3>2. wanted'[e] = wanted[e]
      BY <2>1, <2>6 DEF Wanted
    <3>3. value'[e] = value[e]
      BY <2>1, <2>6, <3>1 DEF FanHandler, DemoHandler, LightHandler, SwitchHandler
    <3> QED BY <2>2, <3>2, <3>3
  <2>7. CASE by # "scene" /\ (\/ by \in {"demo", "fan"} /\ value[e] = "none"
                              \/ by = "fan" /\ e # targets[1])
    <3>1. wanted'[e] = wanted[e]
      BY <2>1, <2>7 DEF Wanted
    <3>2. value'[e] = value[e]
      BY <2>1, <2>7 DEF FanHandler, DemoHandler
    <3> QED BY <2>2, <3>1, <3>2
  <2> QED BY <2>3, <2>4, <2>5, <2>6, <2>7
<1>6. TogglesInv'
  BY <1>5 DEF TogglesInv
<1> QED BY <1>4, <1>6 DEF BootInv


LEMMA CallKeeps ==
    ASSUME LoadInv, EntitiesInv, NEW c \in Callers, CallService(c) PROVE EntitiesInv'
<1>1. PICK verb \in Verbs, targets \in UNION {[1 .. n -> Things] : n \in 1 .. 2} :
         /\ DomainOf[targets[1]] \in Domains
         /\ Len(targets) = 2 => targets[1] # targets[2]
         /\ LET by == handler[<<DomainOf[targets[1]], verb>>]
            IN IF by = NoHandler THEN UNCHANGED <<value, call, wanted>>
               ELSE /\ wanted' = Wanted(by, verb, targets)
                    /\ IF Waits(by, verb)
                       THEN /\ call' = [call EXCEPT ![c] =
                                  [verb |-> verb, by |-> by, todo |-> targets, sent |-> "no"]]
                            /\ UNCHANGED value
                       ELSE /\ value' = CASE by = "fan"    -> FanHandler(verb, targets)
                                          [] by = "scene"  -> SceneHandler(targets)
                                          [] by = "demo"   -> DemoHandler(verb, targets)
                                          [] by = "light"  -> LightHandler(verb, targets)
                                          [] by = "switch" -> SwitchHandler(verb, targets)
                            /\ UNCHANGED call
  BY DEF CallService
<1>2. UNCHANGED <<device, up, toLoad, setup>> /\ Booted /\ call[c] = NoCall
  BY DEF CallService
<1>3. Booted'
  BY <1>2 DEF Booted
<1>4. /\ targets \in Seq(Things) /\ targets # << >>
      /\ \A i, j \in DOMAIN targets : targets[i] = targets[j] => i = j
  <2>1. PICK n \in 1 .. 2 : targets \in [1 .. n -> Things]
    OBVIOUS
  <2>2. targets \in Seq(Things) /\ Len(targets) = n /\ DOMAIN targets = 1 .. n
    BY <2>1
  <2>3. targets # << >>
    BY <2>1, <2>2, EmptySeq
  <2> QED BY <1>1, <2>1, <2>2, <2>3
<1> DEFINE by == handler[<<DomainOf[targets[1]], verb>>]
<1>5. by \in Handlers
  BY <1>1 DEF LoadInv
<1>6. CASE by = NoHandler
  BY <1>1, <1>2, <1>3, <1>6, NothingMoves
<1>7. CASE by # NoHandler /\ ~Waits(by, verb)
  <2>1. by \in {"scene", "demo", "fan", "light", "switch"}
    BY <1>5, <1>7 DEF Waits, Handlers
  <2>2. UNCHANGED call /\ wanted' = Wanted(by, verb, targets)
    BY <1>1, <1>7
  <2>3. value' = CASE by = "fan"    -> FanHandler(verb, targets)
                   [] by = "scene"  -> SceneHandler(targets)
                   [] by = "demo"   -> DemoHandler(verb, targets)
                   [] by = "light"  -> LightHandler(verb, targets)
                   [] by = "switch" -> SwitchHandler(verb, targets)
    BY <1>1, <1>7
  <2> HIDE DEF by
  <2> QED BY <1>2, <1>3, <1>4, <1>7, <2>1, <2>2, <2>3, SetsAtOnce
<1>8. CASE by # NoHandler /\ Waits(by, verb)
  <2> DEFINE n == [verb |-> verb, by |-> by, todo |-> targets, sent |-> "no"]
  <2>1. call' = [call EXCEPT ![c] = n] /\ UNCHANGED value
        /\ wanted' = Wanted(by, verb, targets)
    BY <1>1, <1>8
  <2>2. by \in {"light", "switch", "isy994"} /\ (by # "isy994" => verb = "toggle")
    BY <1>8 DEF Waits
  <2>3. /\ n \in [verb : Verbs, by : {"light", "switch", "isy994"}, todo : Seq(Things),
                  sent : {"no", "on", "off"}]
        /\ n.todo = targets /\ n.by = by
    BY <1>4, <2>2
  <2> HIDE DEF n, by
  <2>4. \A d \in Callers : call'[d] = IF d = c THEN n ELSE call[d]
    BY <2>1 DEF EntitiesInv, CallsInv
  <2>5. CallShape(n)
    BY <1>4, <2>3 DEF CallShape
  <2>6. wanted' \in [Things -> {"on", "off", "any"}]
    BY <2>1, WantedIs DEF EntitiesInv
  <2>7. ASSUME NEW d \in Callers, call'[d].by = "isy994", NEW e \in Things,
               InSeq(e, call'[d].todo)
        PROVE  wanted'[e] = "any"
    <3>1. CASE d = c
      <4>1. call'[d].by = by /\ call'[d].todo = targets
        BY <2>3, <2>4, <3>1
      <4>2. by = "isy994" /\ InSeq(e, targets)
        BY <2>7, <4>1
      <4> QED BY <2>1, <4>2, WantedIs DEF EntitiesInv
    <3>2. CASE d # c
      <4>1. wanted[e] = "any" /\ Pending(e)
        BY <2>4, <2>7, <3>2 DEF EntitiesInv, CallsInv, Pending
      <4> QED BY <2>1, <4>1, WantedIs DEF EntitiesInv
    <3> QED BY <3>1, <3>2
  <2>8. CallsInv'
    <3>1. call' \in [Callers -> {call'[d] : d \in Callers}]
      BY <2>1 DEF EntitiesInv, CallsInv
    <3>2. \A d \in Callers : CallShape(call'[d])
      BY <2>4, <2>5 DEF EntitiesInv, CallsInv
    <3> QED BY <1>2, <2>1, <2>6, <2>7, <3>1, <3>2 DEF EntitiesInv, CallsInv
  <2>9. \A e : Togglers(call', e) = IF InSeq(e, targets) THEN Togglers(call, e) \cup {c}
                                    ELSE Togglers(call, e)
    <3>1. \A e : ~InSeq(e, call[c].todo)
      BY <1>2 DEF NoCall, InSeq
    <3> QED BY <2>3, <2>4, <3>1 DEF Togglers
  <2>10. ASSUME NEW e \in Switched, up
         PROVE  Follows(call', e, value'[e], wanted'[e])
    <3>1. /\ e \in Things /\ value[e] \in {"none", "on", "off"}
          /\ wanted[e] \in {"on", "off", "any"} /\ Follows(call, e, value[e], wanted[e])
      BY <2>10 DEF Switched, EntitiesInv, CallsInv, TogglesInv
    <3>2. CASE ~InSeq(e, targets)
      <4>1. wanted'[e] = wanted[e]
        BY <2>1, <2>2, <3>1, <3>2 DEF Wanted
      <4>2. Togglers(call', e) = Togglers(call, e)
        BY <2>9, <3>2
      <4> QED BY <2>1, <3>1, <4>1, <4>2 DEF Follows
    <3>3. CASE InSeq(e, targets) /\ wanted'[e] = "any"
      <4>1. IsFiniteSet(Togglers(call, e) \cup {c})
        BY <3>1, FS_AddElement DEF Follows
      <4> QED BY <2>9, <3>3, <4>1 DEF Follows
    <3>4. CASE InSeq(e, targets) /\ wanted'[e] # "any"
      <4>1. by # "isy994" /\ verb = "toggle"
        BY <2>1, <2>2, <3>1, <3>4, WantedIs DEF EntitiesInv
      <4>2. wanted[e] # "any" /\ wanted'[e] = Flipped(wanted[e])
        BY <2>1, <2>2, <3>1, <3>4, <4>1 DEF Wanted, ResultOf
      <4>3. c \notin Togglers(call, e)
        BY <1>2 DEF Togglers, NoCall, InSeq
      <4>4. Togglers(call', e) = Togglers(call, e) \cup {c}
        BY <2>9, <3>4
      <4>5. Follows(call', e, value[e], Flipped(wanted[e]))
        BY <3>1, <4>2, <4>3, <4>4, OneMoreToggler
      <4> QED BY <2>1, <4>2, <4>5
    <3> QED BY <3>2, <3>3, <3>4
  <2>11. TogglesInv'
    BY <1>2, <2>10 DEF TogglesInv
  <2> QED BY <1>3, <2>8, <2>11 DEF EntitiesInv, BootInv
<1> QED BY <1>6, <1>7, <1>8


LEMMA ToggleKeeps ==
    ASSUME EntitiesInv, NEW c \in Callers, LightToggle(c) \/ SwitchToggle(c)
    PROVE  EntitiesInv'
<1> DEFINE h == Head(call[c].todo)
<1>1. /\ call[c].by \in {"light", "switch"}
      /\ value' = [value EXCEPT ![h] = Flipped(value[h])]
      /\ call' = [call EXCEPT ![c] = Rest(c)]
      /\ UNCHANGED <<toLoad, setup, device, wanted, up>>
  BY DEF LightToggle, SwitchToggle, StateShows, Rests
<1>2. call[c] # NoCall
  BY <1>1 DEF NoCall, NoHandler
<1>3. h \in Things /\ InSeq(h, call[c].todo)
  <2>1. call[c].todo \in Seq(Things) /\ call[c].todo # << >>
    BY <1>2 DEF EntitiesInv, CallsInv, CallShape
  <2>2. 1 \in DOMAIN call[c].todo /\ h = call[c].todo[1]
    BY <2>1
  <2> QED BY <2>1, <2>2 DEF InSeq
<1> HIDE DEF h
<1>4. /\ call' \in [Callers -> {call'[d] : d \in Callers}]
      /\ \A d \in Callers : CallShape(call'[d])
      /\ \A d \in Callers : call'[d].by = "isy994" => call[d].by = "isy994"
      /\ \A e \in Things : Togglers(call', e) =
            IF e = h THEN Togglers(call, e) \ {c} ELSE Togglers(call, e)
  BY <1>1, <1>2, RestIs DEF EntitiesInv, h
<1>5. CallsInv'
  <2>1. value' \in [Things -> {"none", "on", "off"}]
    BY <1>1 DEF EntitiesInv, CallsInv, Flipped
  <2>2. ASSUME NEW d \in Callers, call'[d].by = "isy994", NEW e \in Things,
               InSeq(e, call'[d].todo)
        PROVE  wanted'[e] = "any"
    <3>1. d \in Togglers(call', e)
      BY <2>2 DEF Togglers
    <3>2. d \in Togglers(call, e)
      BY <1>4, <3>1
    <3> QED BY <1>1, <1>4, <2>2, <3>2 DEF EntitiesInv, CallsInv, Togglers
  <2> QED BY <1>1, <1>4, <2>1, <2>2 DEF EntitiesInv, CallsInv
<1>6. BootInv'
  <2>1. Booted
    BY <1>2 DEF EntitiesInv, BootInv
  <2> QED BY <1>1, <2>1 DEF Booted, BootInv
<1>7. TogglesInv'
  <2> SUFFICES ASSUME NEW e \in Switched, up PROVE Follows(call', e, value'[e], wanted[e])
    BY <1>1 DEF TogglesInv
  <2>1. /\ e \in Things /\ value[e] \in {"none", "on", "off"}
        /\ Follows(call, e, value[e], wanted[e])
    BY DEF Switched, EntitiesInv, CallsInv, TogglesInv
  <2>2. CASE e = h
    <3>1. c \in Togglers(call, e) /\ value'[e] = Flipped(value[e])
      BY <1>1, <1>3, <2>1, <2>2 DEF Togglers, EntitiesInv, CallsInv
    <3> QED BY <1>4, <2>1, <2>2, <3>1, OneToggled
  <2>3. CASE e # h
    <3>1. value'[e] = value[e] /\ Togglers(call', e) = Togglers(call, e)
      BY <1>1, <1>4, <2>1, <2>3 DEF EntitiesInv, CallsInv
    <3> QED BY <2>1, <3>1 DEF Follows
  <2> QED BY <2>2, <2>3
<1> QED BY <1>5, <1>6, <1>7 DEF EntitiesInv

LEMMA IsyKeeps ==
    ASSUME EntitiesInv, NEW c \in Callers, IsySends(c) \/ IsyAcknowledged(c)
    PROVE  EntitiesInv'
<1> DEFINE h == Head(call[c].todo)
<1>1. call[c].by = "isy994" /\ UNCHANGED <<toLoad, setup, wanted, up>>
  BY DEF IsySends, IsyAcknowledged
<1>2. call[c] # NoCall
  BY <1>1 DEF NoCall, NoHandler
<1>3. /\ call[c] \in [verb : Verbs, by : {"light", "switch", "isy994"}, todo : Seq(Things),
                      sent : {"no", "on", "off"}]
      /\ call[c].todo # << >>
      /\ \A i, j \in DOMAIN call[c].todo : call[c].todo[i] = call[c].todo[j] => i = j
  BY <1>2 DEF EntitiesInv, CallsInv, CallShape
<1>4. h \in Things /\ InSeq(h, call[c].todo) /\ wanted[h] = "any"
  <2>1. 1 \in DOMAIN call[c].todo /\ h = call[c].todo[1]
    BY <1>3
  <2>2. h \in Things /\ InSeq(h, call[c].todo)
    BY <1>3, <2>1 DEF InSeq
  <2> QED BY <1>1, <2>2 DEF EntitiesInv, CallsInv
<1>5. BootInv'
  <2>1. Booted
    BY <1>2 DEF EntitiesInv, BootInv
  <2> QED BY <1>1, <2>1 DEF Booted, BootInv
<1>6. CASE \/ call' = [call EXCEPT ![c] = Rest(c)] /\ UNCHANGED <<value, device>>
           \/ IsyAcknowledged(c)
  <2>1. call' = [call EXCEPT ![c] = Rest(c)]
    BY <1>6 DEF IsyAcknowledged
  <2>2. /\ value' \in [Things -> {"none", "on", "off"}] /\ device' \in [Hardware -> {"on", "off"}]
        /\ \A e \in Things : e # h => value'[e] = value[e]
    <3>1. CASE UNCHANGED <<value, device>>
      BY <3>1 DEF EntitiesInv, CallsInv
    <3>2. CASE IsyAcknowledged(c)
      <4>1. /\ value' = [value EXCEPT ![h] = call[c].sent]
            /\ device' = [device EXCEPT ![h] = call[c].sent] /\ call[c].sent # "no"
        BY <3>2 DEF IsyAcknowledged
      <4>2. call[c].sent \in {"on", "off"}
        BY <1>3, <4>1
      <4> HIDE DEF h
      <4> QED BY <4>1, <4>2 DEF EntitiesInv, CallsInv
    <3> QED BY <1>6, <3>1, <3>2
  <2> HIDE DEF h
  <2>3. /\ call' \in [Callers -> {call'[d] : d \in Callers}]
        /\ \A d \in Callers : CallShape(call'[d])
        /\ \A d \in Callers : call'[d].by = "isy994" => call[d].by = "isy994"
        /\ \A e \in Things : Togglers(call', e) =
              IF e = h THEN Togglers(call, e) \ {c} ELSE Togglers(call, e)
    BY <1>2, <2>1, RestIs DEF EntitiesInv, h
  <2>4. ASSUME NEW d \in Callers, call'[d].by = "isy994", NEW e \in Things,
               InSeq(e, call'[d].todo)
        PROVE  wanted'[e] = "any"
    <3>1. d \in Togglers(call', e)
      BY <2>4 DEF Togglers
    <3>2. d \in Togglers(call, e)
      BY <2>3, <3>1
    <3> QED BY <1>1, <2>3, <2>4, <3>2 DEF EntitiesInv, CallsInv, Togglers
  <2>5. CallsInv'
    BY <1>1, <2>2, <2>3, <2>4 DEF EntitiesInv, CallsInv
  <2>6. TogglesInv'
    <3> SUFFICES ASSUME NEW e \in Switched, up PROVE Follows(call', e, value'[e], wanted[e])
      BY <1>1 DEF TogglesInv
    <3>1. e \in Things /\ Follows(call, e, value[e], wanted[e])
      BY DEF Switched, EntitiesInv, TogglesInv
    <3>2. CASE e = h
      <4>1. IsFiniteSet(Togglers(call, e) \ {c})
        BY <3>1, FS_RemoveElement DEF Follows
      <4> QED BY <1>4, <2>3, <3>1, <3>2, <4>1 DEF Follows, h
    <3>3. CASE e # h
      <4>1. value'[e] = value[e] /\ Togglers(call', e) = Togglers(call, e)
        BY <2>2, <2>3, <3>1, <3>3
      <4> QED BY <3>1, <4>1 DEF Follows
    <3> QED BY <3>2, <3>3
  <2> QED BY <1>5, <2>5, <2>6 DEF EntitiesInv
<1>7. CASE IsySends(c) /\ h \in Hardware
  <2> DEFINE r == ResultOf(call[c].verb, value[h])
             n == [call[c] EXCEPT !.sent = r]
  <2>1. call' = [call EXCEPT ![c] = n] /\ UNCHANGED <<value, device>>
    BY <1>7 DEF IsySends
  <2>2. r \in {"on", "off"}
    BY <1>3, ResultIs
  <2> HIDE DEF r
  <2>3. /\ n \in [verb : Verbs, by : {"light", "switch", "isy994"}, todo : Seq(Things),
                  sent : {"no", "on", "off"}]
        /\ n.todo = call[c].todo /\ n.by = call[c].by
    BY <1>3, <2>2
  <2>4. CallShape(n)
    BY <1>3, <2>3 DEF CallShape
  <2> HIDE DEF n
  <2>5. \A d \in Callers : /\ call'[d] = IF d = c THEN n ELSE call[d]
                           /\ call'[d].todo = call[d].todo /\ call'[d].by = call[d].by
    BY <2>1, <2>3 DEF EntitiesInv, CallsInv
  <2>6. CallsInv'
    <3>1. call' \in [Callers -> {call'[d] : d \in Callers}]
      BY <2>1 DEF EntitiesInv, CallsInv
    <3>2. \A d \in Callers : CallShape(call'[d])
      BY <2>4, <2>5 DEF EntitiesInv, CallsInv
    <3> QED BY <1>1, <2>1, <2>5, <3>1, <3>2 DEF EntitiesInv, CallsInv
  <2>7. \A e : Togglers(call', e) = Togglers(call, e)
    BY <2>5 DEF Togglers
  <2>8. TogglesInv'
    BY <1>1, <2>1, <2>7 DEF EntitiesInv, TogglesInv, Follows
  <2> QED BY <1>5, <2>6, <2>8 DEF EntitiesInv
<1> QED BY <1>6, <1>7 DEF IsySends

LEMMA EntitiesSteps ==
    ASSUME LoadInv, EntitiesInv, [PlatNext]_platVars PROVE EntitiesInv'
<1>1. CASE UNCHANGED platVars
  BY <1>1, NothingMoves DEF platVars, Booted
<1>2. CASE LoadNext \/ SetupEntity \/ SetupFails \/ SetupDone
  BY <1>2, LoadingRests
<1>3. CASE FanRowRefused
  <2>1. up' = FALSE /\ call' = [d \in Callers |-> NoCall]
        /\ UNCHANGED <<toLoad, setup, value, device, wanted>>
    BY <1>3 DEF FanRowRefused
  <2>2. NoCall.by # "isy994" /\ CallShape(NoCall)
    BY DEF NoCall, NoHandler, CallShape
  <2>3. CallsInv'
    BY <2>1, <2>2 DEF EntitiesInv, CallsInv
  <2>4. BootInv'
    BY <2>1 DEF EntitiesInv, BootInv, Booted
  <2> QED BY <2>1, <2>3, <2>4 DEF EntitiesInv, TogglesInv
<1>4. CASE SensorTick
  <2>1. PICK s \in Own("sensor") : value' = [value EXCEPT ![s] = Flipped(@)]
    BY <1>4 DEF SensorTick
  <2>2. s \notin Switched
    BY ThingsAssumption DEF Own, Switched
  <2>3. \A e \in Switched : value'[e] = value[e]
    BY <2>1, <2>2 DEF EntitiesInv, CallsInv, Switched
  <2>4. value' \in [Things -> {"none", "on", "off"}]
    BY <2>1 DEF EntitiesInv, CallsInv, Flipped
  <2>5. UNCHANGED <<toLoad, setup, call, device, wanted, up>>
    BY <1>4 DEF SensorTick
  <2>6. CallsInv'
    BY <2>4, <2>5 DEF EntitiesInv, CallsInv
  <2>7. BootInv'
    BY <2>3, <2>5 DEF EntitiesInv, BootInv, Booted
  <2>8. TogglesInv'
    BY <2>3, <2>5 DEF EntitiesInv, TogglesInv
  <2> QED BY <2>6, <2>7, <2>8 DEF EntitiesInv
<1>5. CASE \E c \in Callers : ServiceCalled(c)
  BY <1>5, CallKeeps, ToggleKeeps, IsyKeeps DEF ServiceCalled
<1> QED BY <1>1, <1>2, <1>3, <1>4, <1>5 DEF PlatNext

LEMMA TogglesAreCounted == EntitiesInv => TogglesCount
<1> SUFFICES ASSUME EntitiesInv, up, \A c \in Callers : call[c] = NoCall,
                    NEW e \in Things, DomainOf[e] \in Domains \ {"scene"}, value[e] # "none",
                    wanted[e] # "any"
             PROVE  value[e] = wanted[e]
  BY DEF TogglesCount
<1>1. e \in Switched
  BY DEF Domains, Switched
<1>2. Togglers(call, e) = {}
  BY DEF Togglers, NoCall, InSeq
<1>3. wanted[e] = Turned(0, ShownAs(value[e]))
  BY <1>1, <1>2, FS_EmptySet DEF EntitiesInv, TogglesInv, Follows
<1>4. value[e] \in {"on", "off"}
  BY DEF EntitiesInv, CallsInv
<1> QED BY <1>3, <1>4, Parity DEF ShownAs

(* Whatever the lists of integrations, the order, the faults and the calls *)
(* under way: every listed integration is tried, only a fault or an        *)
(* unknown name fails it, no service that was there goes away, and no      *)
(* toggle is lost or done twice (loadIntegrations(), register(),           *)
(* handleToggle()).                                                        *)
THEOREM PlatformsAlwaysStand == PlatSpec => PlatformsStand
<1>1. PlatInit => LoadInv /\ EntitiesInv
  BY LoadStart, EntitiesStart
<1>2. LoadInv /\ EntitiesInv /\ [PlatNext]_platVars => LoadInv' /\ EntitiesInv'
  BY LoadSteps, EntitiesSteps
<1>3. LoadInv /\ EntitiesInv => EveryoneIsTried /\ TogglesCount
  BY AllTried, TogglesAreCounted
<1>4. LoadInv /\ [PlatNext]_platVars
         => [\A s \in DOMAIN handler : handler[s] # NoHandler => handler'[s] # NoHandler]_platVars
  BY ServicesLast
<1> QED BY <1>1, <1>2, <1>3, <1>4, PTL DEF PlatSpec, PlatformsStand, ServicesStay

-----------------------------------------------------------------------------
(* The HLS processes of the streams (Webrtc).  An entry is backed because  *)
(* an id leaves the processes that run only for those whose close event is *)
(* to come, and an event that comes takes the entry along; a known timer   *)
(* is pending because who counts one down forgets it.                      *)
HlsInv == WebrtcTypeOK /\ EntryIsBacked

LEMMA HlsStart == WebrtcInit => HlsInv
<1> SUFFICES ASSUME WebrtcInit PROVE HlsInv
  OBVIOUS
<1>1. 0 \in 0 .. MaxHls
  BY WebrtcAssumption
<1> QED BY <1>1 DEF WebrtcInit, HlsInv, WebrtcTypeOK, EntryIsBacked

(* A process that is started has a new id and is the entry of its name.    *)
LEMMA StartBacks ==
    ASSUME HlsInv, NEW N \in SUBSET Streams, StartHls(N), UNCHANGED hlsClosing
    PROVE  /\ hls' \in [Streams -> SUBSET HlsIds]
           /\ hlsProcesses' \in [Streams -> 0 .. MaxHls]
           /\ \A n \in Streams : hlsProcesses'[n] \in {0} \cup hls'[n] \cup hlsClosing'[n]
<1> DEFINE fresh(n) == CHOOSE i \in HlsIds : i \notin hls[n] \cup hlsClosing[n]
           new == {n \in N : hlsProcesses[n] = 0}
<1>1. /\ \A n \in new : HlsIds # hls[n] \cup hlsClosing[n]
      /\ hls' = [n \in Streams |-> IF n \in new THEN hls[n] \cup {fresh(n)} ELSE hls[n]]
      /\ hlsProcesses' = [n \in Streams |-> IF n \in new THEN fresh(n) ELSE hlsProcesses[n]]
  BY DEF StartHls
<1>2. /\ hls \in [Streams -> SUBSET HlsIds] /\ hlsClosing \in [Streams -> SUBSET HlsIds]
      /\ hlsProcesses \in [Streams -> 0 .. MaxHls]
      /\ \A n \in Streams : hlsProcesses[n] \in {0} \cup hls[n] \cup hlsClosing[n]
  BY DEF HlsInv, WebrtcTypeOK, EntryIsBacked
<1>3. ASSUME NEW n \in new PROVE fresh(n) \in HlsIds
  <2>1. PICK i \in HlsIds : i \notin hls[n] \cup hlsClosing[n]
    BY <1>1, <1>2
  <2> QED BY <2>1
<1>4. HlsIds \subseteq 0 .. MaxHls
  BY WebrtcAssumption DEF HlsIds
<1> HIDE DEF fresh, new
<1>5. hls' \in [Streams -> SUBSET HlsIds]
  BY <1>1, <1>2, <1>3
<1>6. hlsProcesses' \in [Streams -> 0 .. MaxHls]
  BY <1>1, <1>2, <1>3, <1>4
<1>7. ASSUME NEW n \in Streams
      PROVE  hlsProcesses'[n] \in {0} \cup hls'[n] \cup hlsClosing'[n]
  <2>1. CASE n \in new
    BY <1>1, <2>1
  <2>2. CASE n \notin new
    BY <1>1, <1>2, <2>2
  <2> QED BY <2>1, <2>2
<1> QED BY <1>5, <1>6, <1>7

LEMMA HlsStep == ASSUME HlsInv, [WebrtcNext]_webrtcVars PROVE HlsInv'
<1> USE DEF HlsInv
<1>1. CASE UNCHANGED webrtcVars
  BY <1>1 DEF webrtcVars, WebrtcTypeOK, EntryIsBacked
<1>2. ASSUME NEW source \in {"integration", "manual"}, NEW n \in Streams,
             AddStream(source, n)
      PROVE  HlsInv'
  <2>1. streams' \in [integration : SUBSET Streams, manual : SUBSET Streams]
    BY <1>2 DEF AddStream, WebrtcTypeOK
  <2>2. starting' \in [Streams -> Nat]
    BY <1>2 DEF AddStream, WebrtcTypeOK
  <2> QED BY <1>2, <2>1, <2>2 DEF AddStream, WebrtcTypeOK, EntryIsBacked
<1>3. ASSUME NEW source \in {"integration", "manual"}, NEW n \in Streams,
             RemoveStream(source, n)
      PROVE  HlsInv'
  <2>1. streams' \in [integration : SUBSET Streams, manual : SUBSET Streams]
    BY <1>3 DEF RemoveStream, WebrtcTypeOK
  <2>2. StopHls(n) /\ UNCHANGED <<go2rtc, go2rtcReady, startAll, starting>>
    BY <1>3 DEF RemoveStream
  <2>3. restarting' \in [Streams -> Nat] /\ hlsRestartTimers' \in [Streams -> BOOLEAN]
    <3>1. hlsRestartTimers[n] => restarting[n] - 1 \in Nat
      BY DEF EntryIsBacked, WebrtcTypeOK
    <3> QED BY <2>2, <3>1 DEF StopHls, WebrtcTypeOK
  <2>4. /\ hls' \in [Streams -> SUBSET HlsIds] /\ hlsClosing' \in [Streams -> SUBSET HlsIds]
        /\ hlsProcesses' \in [Streams -> 0 .. MaxHls]
    <3>1. 0 \in 0 .. MaxHls
      BY WebrtcAssumption
    <3> QED BY <2>2, <3>1 DEF StopHls, WebrtcTypeOK
  <2>5. ASSUME NEW m \in Streams
        PROVE  /\ hlsProcesses'[m] \in {0} \cup hls'[m] \cup hlsClosing'[m]
               /\ hlsRestartTimers'[m] => restarting'[m] > 0
    <3>1. CASE m = n
      BY <2>2, <3>1 DEF StopHls, WebrtcTypeOK
    <3>2. CASE m # n
      BY <2>2, <3>2 DEF StopHls, WebrtcTypeOK, EntryIsBacked
    <3> QED BY <3>1, <3>2
  <2> QED BY <2>1, <2>2, <2>3, <2>4, <2>5 DEF WebrtcTypeOK, EntryIsBacked
<1>4. CASE Go2rtcListens \/ Go2rtcExits \/ Go2rtcStarted
  BY <1>4 DEF Go2rtcListens, Go2rtcExits, Go2rtcStarted, WebrtcTypeOK, EntryIsBacked
<1>5. ASSUME NEW n \in Streams, NEW i \in hls[n], Exits(n, i)
      PROVE  HlsInv'
  <2>1. /\ hls' \in [Streams -> SUBSET HlsIds] /\ hlsClosing' \in [Streams -> SUBSET HlsIds]
    BY <1>5 DEF Exits, WebrtcTypeOK
  <2>2. ASSUME NEW m \in Streams
        PROVE  hlsProcesses'[m] \in {0} \cup hls'[m] \cup hlsClosing'[m]
    BY <1>5 DEF Exits, WebrtcTypeOK, EntryIsBacked
  <2> QED BY <1>5, <2>1, <2>2 DEF Exits, WebrtcTypeOK, EntryIsBacked
<1>6. CASE HlsExits \/ HlsHasNoSource
  BY <1>5, <1>6 DEF HlsExits, HlsHasNoSource
<1>7. CASE StartAllStreams
  <2>1. GetStreams \in SUBSET Streams
    BY DEF GetStreams, WebrtcTypeOK
  <2>2. /\ hls' \in [Streams -> SUBSET HlsIds] /\ hlsProcesses' \in [Streams -> 0 .. MaxHls]
        /\ \A n \in Streams : hlsProcesses'[n] \in {0} \cup hls'[n] \cup hlsClosing'[n]
    BY <1>7, <2>1, StartBacks DEF StartAllStreams
  <2> QED BY <1>7, <2>2 DEF StartAllStreams, WebrtcTypeOK, EntryIsBacked
<1>8. ASSUME NEW n \in Streams, StartTimerFires(n)
      PROVE  HlsInv'
  <2>1. /\ hls' \in [Streams -> SUBSET HlsIds] /\ hlsProcesses' \in [Streams -> 0 .. MaxHls]
        /\ \A m \in Streams : hlsProcesses'[m] \in {0} \cup hls'[m] \cup hlsClosing'[m]
    BY <1>8, StartBacks DEF StartTimerFires
  <2>2. starting' \in [Streams -> Nat]
    BY <1>8 DEF StartTimerFires, WebrtcTypeOK
  <2> QED BY <1>8, <2>1, <2>2 DEF StartTimerFires, WebrtcTypeOK, EntryIsBacked
<1>9. ASSUME NEW n \in Streams, HlsRestartFires(n)
      PROVE  HlsInv'
  <2>1. /\ hls' \in [Streams -> SUBSET HlsIds] /\ hlsProcesses' \in [Streams -> 0 .. MaxHls]
        /\ \A m \in Streams : hlsProcesses'[m] \in {0} \cup hls'[m] \cup hlsClosing'[m]
    BY <1>9, StartBacks DEF HlsRestartFires
  <2>2. restarting' \in [Streams -> Nat] /\ hlsRestartTimers' \in [Streams -> BOOLEAN]
    BY <1>9 DEF HlsRestartFires, WebrtcTypeOK
  <2>3. \A m \in Streams : hlsRestartTimers'[m] => restarting'[m] > 0
    BY <1>9 DEF HlsRestartFires, WebrtcTypeOK, EntryIsBacked
  <2> QED BY <1>9, <2>1, <2>2, <2>3 DEF HlsRestartFires, WebrtcTypeOK, EntryIsBacked
<1>10. ASSUME NEW n \in Streams, HlsClosed(n)
       PROVE  HlsInv'
  <2>1. 0 \in 0 .. MaxHls
    BY WebrtcAssumption
  <2>2. PICK i \in hlsClosing[n] : hlsClosing' = [hlsClosing EXCEPT ![n] = @ \ {i}]
    BY <1>10 DEF HlsClosed
  <2>3. /\ hlsClosing' \in [Streams -> SUBSET HlsIds]
        /\ hlsProcesses' \in [Streams -> 0 .. MaxHls]
    BY <1>10, <2>1, <2>2 DEF HlsClosed, WebrtcTypeOK
  <2>4. \A m \in Streams : hlsProcesses'[m] \in {0} \cup hls'[m] \cup hlsClosing'[m]
    BY <1>10, <2>2 DEF HlsClosed, WebrtcTypeOK, EntryIsBacked
  <2>5. /\ restarting' \in [Streams -> Nat] /\ hlsRestartTimers' \in [Streams -> BOOLEAN]
        /\ \A m \in Streams : hlsRestartTimers'[m] => restarting'[m] > 0
    <3>1. CASE n \in GetStreams
      <4>1. /\ restarting' = [restarting EXCEPT ![n] = @ + 1]
            /\ hlsRestartTimers' = [hlsRestartTimers EXCEPT ![n] = TRUE]
        BY <1>10, <3>1 DEF HlsClosed
      <4>2. restarting[n] + 1 \in Nat /\ restarting[n] + 1 > 0
        BY DEF WebrtcTypeOK
      <4> QED BY <4>1, <4>2 DEF WebrtcTypeOK, EntryIsBacked
    <3>2. CASE n \notin GetStreams
      BY <1>10, <3>2 DEF HlsClosed, WebrtcTypeOK, EntryIsBacked
    <3> QED BY <3>1, <3>2
  <2> QED BY <1>10, <2>3, <2>4, <2>5 DEF HlsClosed, WebrtcTypeOK, EntryIsBacked
<1> QED BY <1>1, <1>2, <1>3, <1>4, <1>6, <1>7, <1>8, <1>9, <1>10 DEF WebrtcNext, WebrtcWorks

(* An entry of the HLS processes is an ffmpeg that runs, or one whose      *)
(* close event will remove the entry, and a known restart timer is still   *)
(* pending: for any streams, however often they come, go and fail.         *)
THEOREM EntriesAreBacked == WebrtcSpec => []EntryIsBacked
<1>1. HlsInv => EntryIsBacked
  BY DEF HlsInv
<1> QED BY HlsStart, HlsStep, <1>1, PTL DEF WebrtcSpec

-----------------------------------------------------------------------------
(* Side by side: the services behave as each of them alone, so what is     *)
(* proved of one is true of the server that runs them all.                 *)
LEMMA ServicesSteps ==
    ASSUME [ServicesNext]_servicesVars
    PROVE  /\ [CameraNext]_cameraVars /\ [RegNext]_regVars
           /\ [PushNext]_pushVars /\ [GeofenceNext]_geofenceVars
           /\ [WatchersNext]_watcherVars /\ [ScheduleNext]_scheduleVars
           /\ [PlatNext]_platVars /\ [WebrtcNext]_webrtcVars
<1>1. CASE UNCHANGED servicesVars
  BY <1>1 DEF servicesVars
<1>2. CASE ServicesNext
  <2>1. CASE CameraActs /\ OthersRest
    BY <2>1 DEF CameraActs, OthersRest, Unless, Is
  <2>2. CASE RegistryActs /\ OthersRest
    BY <2>2 DEF RegistryActs, OthersRest, Unless, Is
  <2>3. CASE PushActs /\ OthersRest
    BY <2>3 DEF PushActs, OthersRest, Unless, Is
  <2>4. CASE GeofenceActs /\ OthersRest
    BY <2>4 DEF GeofenceActs, OthersRest, Unless, Is
  <2>5. CASE OthersRest /\ (SunActs \/ DoorsAct \/ PowerActs)
    <3>1. WatchersNext
      BY <2>5 DEF SunActs, DoorsAct, PowerActs, WatchersNext
    <3>2. service \in {"sun", "doors", "power"}
      BY <2>5 DEF SunActs, DoorsAct, PowerActs, Is
    <3> QED BY <2>5, <3>1, <3>2 DEF OthersRest, Unless
  <2>6. CASE ScheduleActs /\ OthersRest
    BY <2>6 DEF ScheduleActs, OthersRest, Unless, Is
  <2>7. CASE LoaderActs /\ OthersRest
    BY <2>7 DEF LoaderActs, OthersRest, Unless, Is
  <2>8. CASE WebrtcActs /\ OthersRest
    BY <2>8 DEF WebrtcActs, OthersRest, Unless, Is
  <2> QED BY <1>2, <2>1, <2>2, <2>3, <2>4, <2>5, <2>6, <2>7, <2>8 DEF ServicesNext
<1> QED BY <1>1, <1>2

(* Side by side with the others, the camera streams, the registries, the   *)
(* push notices, the zones, the watchers, the schedules (but for what they *)
(* do in the end), the platforms and the HLS processes do what they do     *)
(* alone.                                                                  *)
THEOREM PartsAreThemselves ==
    ServicesSpec => /\ CameraSpec /\ RegSpec /\ PushSpec /\ GeofenceSpec /\ WatchersSpec
                    /\ ScheduleInit /\ [][ScheduleNext]_scheduleVars /\ PlatSpec
                    /\ WebrtcSpec
<1>1. ServicesInit => /\ CameraInit /\ RegInit /\ PushInit /\ GeofenceInit /\ WatchersInit
                      /\ ScheduleInit /\ PlatInit /\ WebrtcInit
  BY DEF ServicesInit
<1>2. [ServicesNext]_servicesVars =>
         /\ [CameraNext]_cameraVars /\ [RegNext]_regVars
         /\ [PushNext]_pushVars /\ [GeofenceNext]_geofenceVars
         /\ [WatchersNext]_watcherVars /\ [ScheduleNext]_scheduleVars /\ [PlatNext]_platVars
         /\ [WebrtcNext]_webrtcVars
  BY ServicesSteps
<1> QED BY <1>1, <1>2, PTL DEF ServicesSpec, ServicesFairness, CameraSpec, RegSpec, PushSpec,
                               GeofenceSpec, WatchersSpec, PlatSpec, WebrtcSpec

(* So the server with all its services keeps its registries durable: rows  *)
(* in memory and in the tables differ only while a change is copied.       *)
THEOREM ServerIsDurable == ServicesSpec => IsDurableTable
BY PartsAreThemselves, RegistryIsDurable, PTL

(* And it keeps at most one ffmpeg per camera, none of them unwatched, as  *)
(* long as none is started between the end of another and its close event. *)
THEOREM ServerFreesCameras == ServicesSpec => []StreamIsFreed
BY PartsAreThemselves, CameraIsFreed, PTL

(* A browser that shows it is subscribed is in its table, no notice passes *)
(* one over, and only dead endpoints leave, whoever subscribes and         *)
(* unsubscribes while notices are being sent.                              *)
THEOREM ServerReachesSubscribers == ServicesSpec => PushReaches
BY PartsAreThemselves, PushAlwaysReaches, PTL

(* And it tells arrivals and departures by turns, and shows a zone as home *)
(* only while somebody is there.                                           *)
THEOREM ServerTellsCrossings == ServicesSpec => []CrossingsAreTold
BY PartsAreThemselves, CrossingsAreAlwaysTold, PTL

(* It keeps what people edited in its registries.                          *)
THEOREM ServerKeepsEdits == ServicesSpec => []EditsAreKept
BY PartsAreThemselves, EditsAreAlwaysKept, PTL

(* And what it tells of the sun, of open doors and of power is true, by    *)
(* timers that fire late or twice in a minute.                             *)
THEOREM ServerTellsTrueAlarms == ServicesSpec => []AlarmsAreTrue
BY PartsAreThemselves, AlarmsAreAlwaysTrue, PTL

(* And what was saved of the schedules is what is stored.                  *)
THEOREM ServerStoresSchedules == ServicesSpec => [](SavedIsStored /\ OneTempPerSlot)
BY PartsAreThemselves, SchedulesKeep, PTL

(* And its integrations stand by themselves: the failure of one leaves the *)
(* others, their services and the calls under way alone.                   *)
THEOREM ServerKeepsPlatforms == ServicesSpec => PlatformsStand
BY PartsAreThemselves, PlatformsAlwaysStand, PTL

(* And no stream is stuck on an ffmpeg that is gone.                       *)
THEOREM ServerBacksEntries == ServicesSpec => []EntryIsBacked
BY PartsAreThemselves, EntriesAreBacked, PTL
=============================================================================

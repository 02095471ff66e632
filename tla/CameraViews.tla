---------------------------- MODULE CameraViews -----------------------------
(***************************************************************************)
(* Cameras in the browser: the overlay that rings, and the tile of the     *)
(* panel.                                                                  *)
(***************************************************************************)
EXTENDS Integers, FiniteSets

-----------------------------------------------------------------------------
(***************************************************************************)
(* The overlay that rings on every page: a doorbell that turns on opens it *)
(* with the picture of the camera of that door, and it rings every 4 s     *)
(* until it is dismissed.                                                  *)
(***************************************************************************)

CONSTANTS Bells,          \* entities that isDoorbellEntity finds
          NoBell,         \* the overlay is closed
          CameraOf,       \* [Bells -> cameras], findCamera: several may share one
          LockOf,         \* [Bells -> {"lock", "none"}], findLock
          MaxRings

ASSUME BellAssumption == IsFiniteSet(Bells) /\ NoBell \notin Bells /\ MaxRings \in Nat

VARIABLES
    bell,      \* [Bells -> {"on", "off"}], what Home Assistant knows
    bellSeen,      \* prevStates
    shown,     \* event: the bell the overlay is open for
    rings,     \* the intervals that run
    timer,     \* ringTimer: the interval the overlay remembers, 0 is none
    picture,   \* the cameras of the players that were attached and not destroyed
    unlocked,  \* calls of lock.unlock
    doubled,   \* an interval was forgotten for a later one
    rung       \* bound

bellVars == <<bell, bellSeen, shown, rings, timer, picture, unlocked, doubled, rung>>

BellInit ==
    /\ bell \in [Bells -> {"on", "off"}]
    /\ bellSeen = bell
    /\ shown = NoBell /\ rings = {} /\ timer = 0 /\ picture = {}
    /\ unlocked = 0 /\ doubled = FALSE /\ rung = 0

BellMoves(b) ==
    /\ rung < MaxRings
    /\ bell' = [bell EXCEPT ![b] = IF @ = "on" THEN "off" ELSE "on"]
    /\ rung' = rung + (IF bell[b] = "off" THEN 1 ELSE 0)
    /\ UNCHANGED <<bellSeen, shown, rings, timer, picture, unlocked, doubled>>

-----------------------------------------------------------------------------
(* The bells that turned on since the render before; one seen for the      *)
(* first time counts as unchanged.                                         *)
Rang == {b \in Bells : bell[b] = "on" /\ bellSeen[b] # "on"}

(* attachHls, run when the camera of the overlay changes: the player of    *)
(* the camera before is destroyed.                                         *)
Pictured(b) == IF b = NoBell THEN {} ELSE {CameraOf[b]}

NewRings(n) == {r \in (1 .. MaxRings) \ rings : Cardinality((1 .. r) \ rings) <= n}

(* Every bell that rang starts an interval; the last one is remembered and *)
(* is the one the overlay is about.                                        *)
OverlayRenders ==
    /\ bellSeen # bell /\ bellSeen' = bell
    /\ IF Rang = {} THEN UNCHANGED <<shown, rings, timer, picture, doubled>>
       ELSE LET started == NewRings(Cardinality(Rang)) IN
            /\ shown' \in Rang /\ timer' \in started
            /\ rings' = rings \cup started
            /\ doubled' = (doubled \/ timer # 0 \/ Cardinality(Rang) > 1)
            /\ picture' = Pictured(shown')
    /\ UNCHANGED <<bell, unlocked, rung>>

(* Faulty variant: the overlay is closed and goes on ringing.              *)
DismissedRinging == /\ shown # NoBell /\ shown' = NoBell
                    /\ rings' = rings /\ timer' = 0 /\ picture' = {}

Dismissed == /\ shown # NoBell /\ shown' = NoBell
             /\ rings' = rings \ {timer} /\ timer' = 0
             /\ picture' = {}

(* Dismiss and Decline do the same; nobody at the door is told.            *)
DismissBell == Dismissed /\ UNCHANGED <<bell, bellSeen, unlocked, doubled, rung>>

(* Open Door asks for a service that no integration registers, and closes  *)
(* the overlay whatever comes of it.                                       *)
OpenDoor == /\ shown # NoBell /\ LockOf[shown] = "lock"
            /\ unlocked' = unlocked + 1
            /\ Dismissed
            /\ UNCHANGED <<bell, bellSeen, doubled, rung>>

BellNext == OverlayRenders \/ DismissBell \/ OpenDoor \/ \E b \in Bells : BellMoves(b)
BellSpec == BellInit /\ [][BellNext]_bellVars

-----------------------------------------------------------------------------
(* What is drawn: nothing, or the bell, its camera's picture or a door,    *)
(* and a button per thing that can be done.                                *)
OverlayDrawn == IF shown = NoBell THEN {}
                ELSE {"dismiss", "decline"} \cup (IF LockOf[shown] = "lock" THEN {"open"} ELSE {})

BellTypeOK ==
    /\ shown \in Bells \cup {NoBell} /\ timer \in 0 .. MaxRings
    /\ rings \subseteq 1 .. MaxRings /\ doubled \in BOOLEAN

(* When the overlay is closed nothing rings and no picture is loaded,      *)
(* unless a bell rang again before it was dismissed: the interval of the   *)
(* ring before is then forgotten and runs for ever.                        *)
QuietOnceClosed == shown = NoBell => picture = {} /\ (~doubled => rings = {})

-----------------------------------------------------------------------------
(***************************************************************************)
(* The picture of a camera on the panel: one video element, which either   *)
(* the WebRTC player (a WHEP request to go2rtc) or the HLS player drives.  *)
(* A badge switches between the two; a player that failed can be retried.  *)
(***************************************************************************)

CONSTANTS MaxPlayers, MaxTurns

ASSUME TileAssumption == MaxPlayers \in Nat \ {0}

Players == 1 .. MaxPlayers

VARIABLES
    mounted, player,    \* the tile is on screen; mode: "hls" or "whep"
    peer,               \* pcRef, 0 is null
    peers,              \* [Players -> "unused" | "asking" | "open" | "closed" ]
    answering,          \* WHEP requests without an answer yet
    hls,                \* hlsRef, 0 is null
    hlsLive,            \* HLS players that were not destroyed
    good, bad,          \* ok and err of the two players
    waiting,            \* retry timers of 400 ms: the player each will start
    late,               \* one of them fired after the tile was switched or left
    turns               \* bound

tileVars == <<mounted, player, peer, peers, answering, hls, hlsLive, good, bad, waiting, late, turns>>

Neither == [whep |-> FALSE, hls |-> FALSE]

-----------------------------------------------------------------------------
(* start and stop of the two players, as changes of the tile's state.      *)
Tile == [peer |-> peer, peers |-> peers, answering |-> answering, hls |-> hls,
         hlsLive |-> hlsLive, good |-> good, bad |-> bad]

(* Faulty variant: stop closes a connection that has begun to play only.   *)
WhepStoppedOpen(t) ==
    [t EXCEPT !.peers = IF t.peer # 0 /\ t.peers[t.peer] = "open" THEN [@ EXCEPT ![t.peer] = "closed"] ELSE @,
              !.peer = 0, !.good.whep = FALSE, !.bad.whep = FALSE]

WhepStopped(t) ==
    [t EXCEPT !.peers = IF t.peer # 0 THEN [@ EXCEPT ![t.peer] = "closed"] ELSE @,
              !.peer = 0, !.good.whep = FALSE, !.bad.whep = FALSE]

FreePeers(t) == {n \in Players : t.peers[n] = "unused"}
FreeHls(t) == Players \ t.hlsLive

(* Faulty variant: start does not look for a connection that is there.     *)
WhepStartedAnew(t) ==
    LET n == CHOOSE n \in FreePeers(t) : \A k \in FreePeers(t) : n <= k IN
    [t EXCEPT !.peer = n, !.peers[n] = "asking", !.answering = @ \cup {n}, !.bad.whep = FALSE]

WhepStarted(t) ==
    IF t.peer # 0 THEN t
    ELSE LET n == CHOOSE n \in FreePeers(t) : \A k \in FreePeers(t) : n <= k IN
         [t EXCEPT !.peer = n, !.peers[n] = "asking", !.answering = @ \cup {n}, !.bad.whep = FALSE]

HlsStopped(t) == [t EXCEPT !.hlsLive = @ \ {t.hls}, !.hls = 0, !.good.hls = FALSE, !.bad.hls = FALSE]

(* The HLS player's start does not look for one that is there already.     *)
HlsStarted(t) ==
    LET n == CHOOSE n \in FreeHls(t) : \A k \in FreeHls(t) : n <= k IN
    [t EXCEPT !.hls = n, !.hlsLive = @ \cup {n}, !.bad.hls = FALSE]

PlayerStarted(t, m) == IF m = "whep" THEN WhepStarted(t) ELSE HlsStarted(t)
PlayerStopped(t, m) == IF m = "whep" THEN WhepStopped(t) ELSE HlsStopped(t)

MayStart(m) == IF m = "whep" THEN FreePeers(Tile) # {} ELSE FreeHls(Tile) # {}

Becomes(t) == /\ peer' = t.peer /\ peers' = t.peers /\ answering' = t.answering
              /\ hls' = t.hls /\ hlsLive' = t.hlsLive /\ good' = t.good /\ bad' = t.bad

OtherPlayer == IF player = "hls" THEN "whep" ELSE "hls"

TileInit ==
    /\ mounted = TRUE /\ player = "hls"
    /\ peer = 0 /\ peers = [n \in Players |-> "unused"] /\ answering = {}
    /\ hls = 1 /\ hlsLive = {1}
    /\ good = Neither /\ bad = Neither
    /\ waiting = {} /\ late = FALSE /\ turns = 0

Turn == turns < MaxTurns /\ turns' = turns + 1

(* The badge: the effects stop both players and start the other one.       *)
SwitchPlayer ==
    /\ mounted /\ Turn /\ MayStart(OtherPlayer)
    /\ player' = OtherPlayer
    /\ Becomes(PlayerStarted(HlsStopped(WhepStopped(Tile)), OtherPlayer))
    /\ waiting' = {[w EXCEPT !.stale = TRUE] : w \in waiting}
    /\ UNCHANGED <<mounted, late>>

(* The view is changed or the full screen is closed: the cleanups run.     *)
LeaveTile ==
    /\ mounted /\ mounted' = FALSE
    /\ Becomes(HlsStopped(WhepStopped(Tile)))
    /\ waiting' = {[w EXCEPT !.stale = TRUE] : w \in waiting}
    /\ UNCHANGED <<player, late, turns>>

(* Retry is offered for an error while nothing plays.                      *)
RetryPlayer ==
    /\ mounted /\ Turn /\ bad[player] /\ ~good[player]
    /\ Becomes(PlayerStopped(Tile, player))
    /\ waiting' = waiting \cup {[of |-> player, stale |-> FALSE]}
    /\ UNCHANGED <<mounted, player, late>>

(* The timer starts the player whatever became of the tile; the HLS one    *)
(* needs the video element.                                                *)
RetryFires ==
    \E w \in waiting :
        /\ waiting' = waiting \ {w}
        /\ IF w.of = "hls" /\ ~mounted THEN UNCHANGED <<peer, peers, answering, hls, hlsLive, good, bad>>
           ELSE MayStart(w.of) /\ Becomes(PlayerStarted(Tile, w.of))
        /\ late' = (late \/ w.stale)
        /\ UNCHANGED <<mounted, player, turns>>

-----------------------------------------------------------------------------
(* go2rtc's answer to the offer. An error, or an answer for a connection   *)
(* that was closed meanwhile, closes whichever connection is current.      *)
WhepAnswers(n, ok) ==
    /\ n \in answering
    /\ LET t == [Tile EXCEPT !.answering = @ \ {n}]
           failed == [t EXCEPT !.peers = IF t.peer # 0 THEN [@ EXCEPT ![t.peer] = "closed"] ELSE @,
                               !.peer = 0, !.bad.whep = TRUE]
       IN Becomes(CASE ~ok -> failed
                    [] ok /\ t.peer = 0 -> t
                    [] ok /\ t.peer # 0 /\ peers[n] = "closed" -> failed
                    [] OTHER -> [t EXCEPT !.peers[n] = "open"])
    /\ UNCHANGED <<mounted, player, waiting, late, turns>>

(* A track arrives; the connection may break, which closes nothing.        *)
TrackArrives ==
    /\ peer # 0 /\ peers[peer] = "open" /\ ~good.whep /\ mounted
    /\ good' = [good EXCEPT !.whep = TRUE]
    /\ UNCHANGED <<mounted, player, peer, peers, answering, hls, hlsLive, bad, waiting, late, turns>>

IceFails ==
    /\ peer # 0 /\ peers[peer] = "open" /\ Turn
    /\ good' = [good EXCEPT !.whep = FALSE] /\ bad' = [bad EXCEPT !.whep = TRUE]
    /\ UNCHANGED <<mounted, player, peer, peers, answering, hls, hlsLive, waiting, late>>

ManifestParsed ==
    /\ hls # 0 /\ ~good.hls
    /\ good' = [good EXCEPT !.hls = TRUE]
    /\ UNCHANGED <<mounted, player, peer, peers, answering, hls, hlsLive, bad, waiting, late, turns>>

(* A fatal error leaves ok as it is: a stream that once played shows as    *)
(* playing and offers no retry.                                            *)
HlsFatal ==
    /\ hls # 0 /\ ~bad.hls
    /\ bad' = [bad EXCEPT !.hls = TRUE]
    /\ UNCHANGED <<mounted, player, peer, peers, answering, hls, hlsLive, good, waiting, late, turns>>

TileNext ==
    \/ SwitchPlayer \/ LeaveTile \/ RetryPlayer \/ RetryFires
    \/ TrackArrives \/ IceFails \/ ManifestParsed \/ HlsFatal
    \/ \E n \in Players, ok \in BOOLEAN : WhepAnswers(n, ok)

TileSpec == TileInit /\ [][TileNext]_tileVars

-----------------------------------------------------------------------------
(* What the tile shows over the video.                                     *)
VideoDrawn == [badge |-> IF good[player] THEN "playing" ELSE IF bad[player] THEN "failed" ELSE "starting",
              retry |-> bad[player] /\ ~good[player],
              spinner |-> ~bad[player] /\ ~good[player]]

(* The full screen is a second tile of the same camera, with sound.        *)
CameraCardDrawn(full) == IF full THEN {"muted tile", "tile with sound"} ELSE {"muted tile"}

LivePeers == {n \in Players : peers[n] \in {"asking", "open"}}

TileTypeOK ==
    /\ player \in {"hls", "whep"} /\ peer \in {0} \cup Players /\ hls \in {0} \cup Players
    /\ hlsLive \subseteq Players /\ answering \subseteq Players
    /\ peers \in [Players -> {"unused", "asking", "open", "closed"}]

(* The video element has one player, the one the badge names, and none     *)
(* once the tile is gone, however switches, answers and failures fall:     *)
(* unless a retry's timer, which nothing cancels, fired after the tile was *)
(* switched or left.                                                       *)
OnePlayer ==
    ~late => /\ Cardinality(LivePeers) + Cardinality(hlsLive) <= 1
             /\ LivePeers # {} => mounted /\ player = "whep"
             /\ hlsLive # {} => mounted /\ player = "hls"

(* A connection that is open is one the tile can still close.              *)
PeersAreHeld == LivePeers \subseteq {peer}
=============================================================================

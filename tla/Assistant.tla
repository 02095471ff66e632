------------------------------ MODULE Assistant ------------------------------
(***************************************************************************)
(* The spoken assistant: FloatingMic of the panel (App.tsx), which records *)
(* until silence, sends what it heard, speaks the reply and listens again, *)
(* and ai.controller.ts, which hears, asks the model and calls a service   *)
(* for one target after the other.  What is said is left out.              *)
(***************************************************************************)
EXTENDS Naturals, FiniteSets

CONSTANTS Lamps,           \* what can be commanded
          MaxRecordings    \* recordings asked for, numbered

ASSUME MicAssumption == MaxRecordings \in Nat

Recordings == 1 .. MaxRecordings
Orders == {"on", "off"}    \* turn_on and turn_off

VARIABLES
    recorder,   \* per recording: none, asked, running, stopping, off
    mic,        \* the refs and the state of FloatingMic
    speech,     \* the utterance being spoken; the ended ones not yet told of
    restarts,   \* timers that start the next recording; is the last one known
    questions,  \* at the server
    lamp        \* the states

micVars == <<recorder, mic, speech, restarts, questions, lamp>>

MicInit ==
    /\ recorder = [r \in Recordings |-> "none"]
    /\ mic = [state |-> "idle", cancelled |-> FALSE, ref |-> 0, clock |-> FALSE,
              resuming |-> {}, sent |-> {}, dropped |-> {}, twice |-> FALSE, over |-> TRUE]
    /\ speech = [talking |-> FALSE, ended |-> 0]
    /\ restarts = [running |-> 0, known |-> FALSE]
    /\ questions = {}
    /\ lamp = [l \in Lamps |-> "off"]

In(states) == {r \in Recordings : recorder[r] \in states}
AtServer == UNCHANGED <<recorder, mic, speech, restarts>>

-----------------------------------------------------------------------------
(* speechSynthesis.cancel(): the utterance ends, which its onend or        *)
(* onerror will tell.                                                      *)
Hushed == IF speech.talking
          THEN [talking |-> FALSE, ended |-> speech.ended + 1] ELSE speech

(* startRecording(): asks for a stream.  Overlapping recordings (twice)    *)
(* are remembered; a stop event still on its way will find its cancel      *)
(* forgotten.                                                              *)
StartRecording(now) ==
    /\ In({"none"}) # {}
    /\ LET r == CHOOSE r \in In({"none"}) : \A s \in In({"none"}) : r <= s
       IN recorder' = [recorder EXCEPT ![r] = "asked"]
    /\ mic' = [now EXCEPT !.cancelled = FALSE, !.twice = @ \/ In({"asked", "running"}) # {},
                          !.dropped = @ \ In({"stopping"})]
    /\ speech' = Hushed
    /\ UNCHANGED <<questions, lamp>>

(* The button, while the overlay is not there.                             *)
Overlay == mic.state # "idle"

PressMic ==
    /\ ~Overlay
    /\ StartRecording([mic EXCEPT !.over = FALSE])
    /\ UNCHANGED restarts

RestartTimerFires ==
    /\ restarts.running > 0
    /\ restarts' = [running |-> restarts.running - 1, known |-> FALSE]
    /\ StartRecording(mic)

(* getUserMedia() answers.                                                 *)
Granted(r) ==
    /\ recorder[r] = "asked"
    /\ recorder' = [recorder EXCEPT ![r] = "running"]
    /\ mic' = [mic EXCEPT !.state = "listening", !.ref = r, !.resuming = @ \cup {r}]
    /\ UNCHANGED <<speech, restarts, questions, lamp>>

Denied(r) ==
    /\ recorder[r] = "asked"
    /\ recorder' = [recorder EXCEPT ![r] = "off"]
    /\ mic' = [mic EXCEPT !.state = "idle"]
    /\ UNCHANGED <<speech, restarts, questions, lamp>>

(* audioCtx.resume() answers: silence is listened for, unless there is no  *)
(* AudioContext, and in both cases the clock of 8 s starts.                *)
(* Faulty variant: the clock starts only when silence can be heard.        *)
ResumedTrying(r) ==
    /\ r \in mic.resuming
    /\ \E audio \in BOOLEAN :
          mic' = [mic EXCEPT !.resuming = @ \ {r}, !.clock = @ \/ audio]
    /\ UNCHANGED <<recorder, speech, restarts, questions, lamp>>
Resumed(r) ==
    /\ r \in mic.resuming
    /\ mic' = [mic EXCEPT !.resuming = @ \ {r}, !.clock = TRUE]
    /\ UNCHANGED <<recorder, speech, restarts, questions, lamp>>

(* stopRecording(): the recorder of mediaRecorderRef.                      *)
Stopped == IF mic.ref # 0 /\ recorder[mic.ref] = "running"
           THEN [recorder EXCEPT ![mic.ref] = "stopping"] ELSE recorder

(* 1.5 s of silence, or 8 s.                                               *)
Silence ==
    /\ mic.clock
    /\ recorder' = Stopped
    /\ mic' = [mic EXCEPT !.clock = FALSE]
    /\ UNCHANGED <<speech, restarts, questions, lamp>>

NothingUnderWay ==
    /\ ~mic.twice /\ In({"asked"}) = {} /\ questions = {}
    /\ speech = [talking |-> FALSE, ended |-> 0]
    /\ restarts.running <= IF restarts.known THEN 1 ELSE 0

(* cancel(): the button or the backdrop, while the overlay is there.       *)
(* over: nothing is left that could start another recording by itself.     *)
(* Faulty variant: the restart timer goes on.                              *)
CancelKeepsTimer ==
    /\ Overlay
    /\ recorder' = Stopped
    /\ mic' = [mic EXCEPT !.state = "idle", !.cancelled = TRUE, !.clock = FALSE,
          !.dropped = @ \cup ({mic.ref} \cap In({"running"})),
          !.over = NothingUnderWay]
    /\ speech' = Hushed
    /\ UNCHANGED <<restarts, questions, lamp>>
Cancel ==
    /\ Overlay
    /\ recorder' = Stopped
    /\ mic' = [mic EXCEPT !.state = "idle", !.cancelled = TRUE, !.clock = FALSE,
          !.dropped = @ \cup ({mic.ref} \cap In({"running"})),
          !.over = NothingUnderWay]
    /\ speech' = Hushed
    /\ restarts' = IF restarts.known
                   THEN [running |-> restarts.running - 1, known |-> FALSE] ELSE restarts
    /\ UNCHANGED <<questions, lamp>>

(* onstop: the tracks are released; a recording that was not cancelled and *)
(* is long enough is sent.                                                 *)
(* Faulty variant: cancelled or not.                                       *)
Question(r) == [of |-> r, step |-> "hear", order |-> "none", wanted |-> {}, left |-> {}, done |-> {},
                refused |-> {}, overruled |-> {}]
StopEventSends(r) ==
    /\ recorder[r] = "stopping"
    /\ recorder' = [recorder EXCEPT ![r] = "off"]
    /\ mic' = [mic EXCEPT !.state = "processing", !.sent = @ \cup {r}]
    /\ questions' = questions \cup {Question(r)}
    /\ UNCHANGED <<speech, restarts, lamp>>
StopEvent(r) ==
    /\ recorder[r] = "stopping"
    /\ recorder' = [recorder EXCEPT ![r] = "off"]
    /\ \/ mic.cancelled /\ UNCHANGED <<mic, questions>>
       \/ /\ ~mic.cancelled
          /\ mic' = [mic EXCEPT !.state = "idle"] /\ UNCHANGED questions
       \/ /\ ~mic.cancelled
          /\ mic' = [mic EXCEPT !.state = "processing", !.sent = @ \cup {r}]
          /\ questions' = questions \cup {Question(r)}
    /\ UNCHANGED <<speech, restarts, lamp>>

-----------------------------------------------------------------------------
(* The server.  voice(): not understood, or words.                         *)
Goes(q, next) == questions' = (questions \ {q}) \cup {next}

Understood(q) ==
    /\ q.step = "hear"
    /\ \E next \in {"reply", "think"} : Goes(q, [q EXCEPT !.step = next])
    /\ AtServer /\ UNCHANGED lamp

(* processWithClaude(): a reply in words, or an order to some lamps.       *)
Thought(q) ==
    /\ q.step = "think"
    /\ \/ Goes(q, [q EXCEPT !.step = "reply"])
       \/ \E order \in Orders, targets \in (SUBSET Lamps) \ {{}} :
             Goes(q, [q EXCEPT !.step = "call", !.order = order, !.wanted = targets,
                               !.left = targets])
    /\ AtServer /\ UNCHANGED lamp

(* One target: the service is called; if that fails the state is set by    *)
(* force; if that fails, too, this target is given up.                     *)
(* Faulty variant: a failure ends the loop.                                *)
SetLamp(l, order) == lamp' = [lamp EXCEPT ![l] = order]
Told(q, next) ==
    questions' = {IF p.order # next.order /\ p # q
                  THEN [p EXCEPT !.overruled = @ \cup (next.done \ q.done)] ELSE p
                  : p \in questions \ {q}} \cup {next}
CallTargetEnds(q) ==
    /\ q.step = "call" /\ q.left # {}
    /\ \E l \in q.left :
          \/ /\ SetLamp(l, q.order)
             /\ Told(q, [q EXCEPT !.left = @ \ {l}, !.done = @ \cup {l}])
          \/ /\ Told(q, [q EXCEPT !.left = {}, !.refused = @ \cup {l}])
             /\ UNCHANGED lamp
    /\ AtServer
CallTarget(q) ==
    /\ q.step = "call" /\ q.left # {}
    /\ \E l \in q.left :
          \/ /\ SetLamp(l, q.order)
             /\ Told(q, [q EXCEPT !.left = @ \ {l}, !.done = @ \cup {l}])
          \/ /\ Told(q, [q EXCEPT !.left = @ \ {l}, !.refused = @ \cup {l}])
             /\ UNCHANGED lamp
    /\ AtServer

(* Done, unless all were given up; the exchange is logged, and answered.   *)
CallsDone(q) ==
    /\ q.step = "call" /\ q.left = {}
    /\ Goes(q, [q EXCEPT !.step = "reply"])
    /\ AtServer /\ UNCHANGED lamp

-----------------------------------------------------------------------------
(* The reply is spoken, whatever has been pressed meanwhile; speaking ends *)
(* what was being spoken.                                                  *)
AiReply(q) ==
    /\ q.step = "reply"
    /\ questions' = questions \ {q}
    /\ mic' = [mic EXCEPT !.state = "done"]
    /\ speech' = [Hushed EXCEPT !.talking = TRUE]
    /\ UNCHANGED <<recorder, restarts, lamp>>

NextRestart == restarts' = [running |-> restarts.running + 1, known |-> TRUE]

(* The request fails on its way: listening again after 2 s.                *)
ReplyLost(q) ==
    /\ questions' = questions \ {q}
    /\ mic' = [mic EXCEPT !.state = "done"]
    /\ NextRestart
    /\ UNCHANGED <<recorder, speech, lamp>>

(* speakAndThen(): spoken to the end, or cancelled; listening again after  *)
(* 0.4 s.                                                                  *)
Spoken ==
    /\ \/ speech.talking /\ speech' = [speech EXCEPT !.talking = FALSE]
       \/ speech.ended > 0 /\ speech' = [speech EXCEPT !.ended = @ - 1]
    /\ NextRestart
    /\ UNCHANGED <<recorder, mic, questions, lamp>>

MicNext ==
    \/ PressMic \/ RestartTimerFires \/ Silence \/ Cancel \/ Spoken
    \/ \E r \in Recordings : Granted(r) \/ Denied(r) \/ Resumed(r) \/ StopEvent(r)
    \/ \E q \in questions : \/ Understood(q) \/ Thought(q) \/ CallTarget(q) \/ CallsDone(q)
                            \/ AiReply(q) \/ ReplyLost(q)

MicSpec == MicInit /\ [][MicNext]_micVars

-----------------------------------------------------------------------------
(* The state has the shape the code gives it.                              *)
MicTypeOK ==
    /\ recorder \in [Recordings -> {"none", "asked", "running", "stopping", "off"}]
    /\ mic \in [state : {"idle", "listening", "processing", "done"}, cancelled : BOOLEAN,
                ref : 0 .. MaxRecordings, clock : BOOLEAN, resuming : SUBSET Recordings,
                sent : SUBSET Recordings, dropped : SUBSET Recordings,
                twice : BOOLEAN, over : BOOLEAN]
    /\ speech \in [talking : BOOLEAN, ended : 0 .. MaxRecordings]
    /\ restarts \in [running : 0 .. MaxRecordings, known : BOOLEAN]
    /\ questions \subseteq [of : Recordings, step : {"hear", "think", "call", "reply"},
                order : Orders \cup {"none"}, wanted : SUBSET Lamps, left : SUBSET Lamps, done : SUBSET Lamps,
                refused : SUBSET Lamps, overruled : SUBSET Lamps]
    /\ lamp \in [Lamps -> Orders]

(* The microphone is let go of again: a recorder that runs is the one      *)
(* stopRecording() would stop, and the clock that calls it runs or is      *)
(* about to be started.  (Two recordings asked for at once, by a second    *)
(* press while the browser still asks for permission or by a restart after *)
(* a press, leave the first one running for ever.)                         *)
MicIsReleased ==
    ~mic.twice => \A r \in In({"running"}) :
                     r = mic.ref /\ (mic.clock \/ r \in mic.resuming)

(* What was cancelled while it was recorded is not sent.                   *)
CancelledIsNotSent == mic.dropped \cap mic.sent = {}

(* A cancel ends the conversation: no recording starts by itself, unless a *)
(* reply was on its way or being spoken (such a reply is spoken            *)
(* nevertheless, and then the microphone is opened again).                 *)
CancelEndsIt == mic.over => In({"asked", "running"}) = {}

(* The reply comes when every lamp of the order has been tried: each one   *)
(* shows what was ordered, was given up, or has been ordered otherwise by  *)
(* somebody since.                                                         *)
AllWereTried ==
    \A q \in questions : q.step = "reply" =>
        /\ q.wanted = q.done \cup q.refused
        /\ \A l \in q.done : lamp[l] = q.order \/ l \in q.overruled
=============================================================================

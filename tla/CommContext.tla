----------------------------- MODULE CommContext -----------------------------
(***************************************************************************)
(* The intercom in the browser, CommContext.tsx with the buttons of        *)
(* CommPanel.tsx, composed with the server of CommGateway.  ui[p] is what  *)
(* the provider keeps on phone p; its "tasks" are the async functions that *)
(* wait: for the microphone, for the ICE servers, for a session            *)
(* description, for an upload.  Everything can happen while they do.       *)
(***************************************************************************)
EXTENDS CommGateway

CONSTANTS Budgets,     \* how often the users do each thing: a set of functions
          MaxMessages, \* entries of the message list
          Routed       \* does the server have a route /api/comm/history?

VARIABLES ui,          \* phone -> the state of the provider
          budget       \* what the users may still do
commVars == <<users, devices, rooms, log, session, on, in, out, shown, ui, budget>>

Chores == {"connect", "drop", "text", "file", "voice", "push", "call", "hangup", "group", "panel"}

ASSUME UsersAssumption ==
    /\ Routed \in BOOLEAN /\ Budgets \subseteq [Chores -> Nat]
    /\ MaxMessages \in Nat /\ HistoryLimit \in Nat
    /\ None \notin [n : Nat, k : {"start", "accept"}]

Fresh(f) == budget[f]                  \* names what is made now
Spend(f) == budget[f] > 0 /\ budget' = [budget EXCEPT ![f] = @ - 1]

Initially == [st |-> "idle", peer |-> None, offer |-> None, pc |-> None, mic |-> FALSE,
              self |-> None, msgs |-> <<>>, fetch |-> <<>>, push |-> FALSE, room |-> None,
              camera |-> FALSE, peers |-> {}, tasks |-> {}, replaced |-> FALSE,
              strayed |-> FALSE]

Emit(p, ms) == out' = [out EXCEPT ![p] = @ \o ms]
EmitSignal(p, to, type) == Emit(p, <<[t |-> "signal", to |-> to, type |-> type]>>)
Become(p, u) == ui' = [ui EXCEPT ![p] = u]
Task(p, k) == {x \in ui[p].tasks : x.k = k}
TaskEnd(u, x) == [u EXCEPT !.tasks = @ \ {x}]
Advance(u, x, step) == [u EXCEPT !.tasks = (@ \ {x}) \cup {[x EXCEPT !.step = step]}]
OnlyUI == UNCHANGED serverSide
PanelOpen == budget["panel"] > 0       \* throughout

-----------------------------------------------------------------------------
(* The message list.                                                       *)

\* Faulty variant: the list grows.
Uncut(ms) == ms
Cut(ms) == IF Len(ms) > MaxMessages
               THEN SubSeq(ms, Len(ms) - MaxMessages + 1, Len(ms)) ELSE ms
Lists(u, id) == \E i \in DOMAIN u.msgs : u.msgs[i].kind = "chat" /\ u.msgs[i].id = id

\* Faulty variant: added whether it is there or not.
AddChatAgain(u, id) ==
    [u EXCEPT !.msgs = Cut(Append(@, [kind |-> "chat", id |-> id, read |-> {}]))]
\* A message that has a msgId is added once.
AddChat(u, id) == IF Lists(u, id) THEN u ELSE
    [u EXCEPT !.msgs = Cut(Append(@, [kind |-> "chat", id |-> id, read |-> {}]))]
AddVoice(u, id) ==
    [u EXCEPT !.msgs = Cut(Append(@, [kind |-> "voice", id |-> id, read |-> {}]))]

\* The rows not shown yet are put in front of the list, in their order.
MergeHistory(u, rows) ==
    LET new == {i \in DOMAIN rows : ~Lists(u, rows[i].id)}
        row(k) == CHOOSE i \in new : Cardinality(new \cap (1 .. i)) = k
        old == [k \in 1 .. Cardinality(new) |->
                   [kind |-> "chat", id |-> rows[row(k)].id, read |-> {}]]
    IN  [u EXCEPT !.msgs = Cut(old \o @)]

\* getHistory, of a table with the first n messages: the latest, oldest first
HistoryRows(n) == SubSeq(log, (IF n > HistoryLimit THEN n - HistoryLimit ELSE 0) + 1, n)
\* An answer that is not ok counts as no rows.
HistoryAnswer(n) == IF Routed THEN HistoryRows(n) ELSE <<>>

-----------------------------------------------------------------------------
(* What the user does.  Online entries of the list other than one's own    *)
(* offer a call and a private message, the others a push call.             *)

Callees(p) == {e.id : e \in {e \in shown[p] : e.online}} \ {ui[p].self}

\* sendMessage
SendMessage(p, to) ==
    /\ Spend("text") /\ to \in Callees(p) \cup {None}
    /\ Emit(p, <<[t |-> "chat", id |-> <<"text", Fresh("text")>>, to |-> to]>>)
    /\ UNCHANGED <<users, devices, rooms, log, session, on, in, shown, ui>>

\* sendMedia and sendVoiceMessage begin with an upload, as long as the
\* phone was connected once
StartUpload(p, k, to) ==
    /\ Spend(k) /\ ui[p].self # None /\ to \in Callees(p) \cup {None}
    /\ Become(p, [ui[p] EXCEPT !.tasks = @ \cup
                    {[k |-> k, id |-> <<k, Fresh(k)>>, to |-> to, step |-> "upload"]}])
    /\ OnlyUI

\* sendMedia: the file is stored; the message is shown at once and announced
SendMedia(p) == \E x \in Task(p, "file") :
    /\ Become(p, AddChat(TaskEnd(ui[p], x), x.id))
    /\ Emit(p, <<[t |-> "chat", id |-> x.id, to |-> x.to]>>)
    /\ UNCHANGED <<users, devices, rooms, log, session, on, in, shown, budget>>

\* the upload of a voice message is announced by the server ...
UploadVoice(p) == \E x \in Task(p, "voice") :
    /\ x.step = "upload"
    /\ DeliverVoiceMessage(x.id, x.to)
    /\ Become(p, Advance(ui[p], x, "stored"))
    /\ UNCHANGED <<users, devices, rooms, log, session, on, out, shown, budget>>
\* ... and shown by the sender when the answer comes
SendVoiceMessage(p) == \E x \in Task(p, "voice") :
    /\ x.step = "stored"
    /\ Become(p, AddVoice(TaskEnd(ui[p], x), x.id))
    /\ OnlyUI /\ UNCHANGED budget

UploadFails(p) == \E x \in Task(p, "file") \cup Task(p, "voice") :
    /\ Become(p, TaskEnd(ui[p], x))
    /\ OnlyUI /\ UNCHANGED budget

\* push notifications are enabled: the event push-subscribed
EnablePush(p) ==
    /\ Spend("push") /\ ~ui[p].push
    /\ Become(p, [ui[p] EXCEPT !.push = TRUE])
    /\ Emit(p, <<[t |-> "push"]>>)
    /\ UNCHANGED <<users, devices, rooms, log, session, on, in, shown>>

\* joinGroupCall and startGroupCall, which makes a new room: microphone first
AskGroupMedia(p, r) ==
    /\ Spend("group") /\ ui[p].room = None
    /\ Become(p, [ui[p] EXCEPT !.tasks = @ \cup {[k |-> "group", room |-> r, n |-> Fresh("group")]}])
    /\ OnlyUI
\* The phone may be in another room by then, which it will never leave:
\* "strayed" says that this happened.
JoinGroup(p) == \E x \in Task(p, "group") :
    /\ Become(p, [TaskEnd(ui[p], x) EXCEPT
                     !.room = x.room, !.camera = TRUE,
                     !.strayed = @ \/ ui[p].room \notin {None, x.room}])
    /\ Emit(p, <<[t |-> "join", room |-> x.room]>>)
    /\ UNCHANGED <<users, devices, rooms, log, session, on, in, shown, budget>>
GroupMediaRefused(p) == \E x \in Task(p, "group") :
    /\ Become(p, TaskEnd(ui[p], x))
    /\ OnlyUI /\ UNCHANGED budget
LeaveGroup(p) ==
    /\ ui[p].room # None
    /\ Become(p, [ui[p] EXCEPT !.room = None, !.camera = FALSE, !.peers = {}])
    /\ Emit(p, <<[t |-> "leave", room |-> ui[p].room]>>)
    /\ UNCHANGED <<users, devices, rooms, log, session, on, in, shown, budget>>

-----------------------------------------------------------------------------
(* Calls between two phones.                                               *)

\* Faulty variant: the connection goes, the screen of the call stays.
CleanupMedia(u) == [u EXCEPT !.pc = None, !.mic = FALSE]
\* cleanup closes the connection: a task that works on it never goes on.
\* Streams and connections that were replaced before are not found again.
Cleanup(u) ==
    [u EXCEPT !.st = "idle", !.peer = None, !.offer = None, !.pc = None, !.mic = FALSE,
              !.tasks = {x \in @ : ~(x.k \in {"start", "accept", "answer"} /\ x.step = "sdp"
                                    /\ u.pc # None /\ u.pc.n = x.n)}]

Hangup(p) ==
    /\ Spend("hangup") /\ ui[p].st # "idle"
    /\ Become(p, Cleanup(ui[p]))
    /\ IF ui[p].peer = None THEN UNCHANGED out ELSE EmitSignal(p, ui[p].peer, "hangup")
    /\ UNCHANGED <<users, devices, rooms, log, session, on, in, shown>>

StartCall(p) == \E c \in Callees(p) :
    /\ Spend("call")
    /\ Become(p, [ui[p] EXCEPT !.st = "calling", !.peer = c, !.tasks = @ \cup
                    {[k |-> "start", to |-> c, step |-> "media", n |-> Fresh("call")]}])
    /\ OnlyUI
AcceptCall(p) ==
    /\ Spend("call") /\ ui[p].st = "incoming"
    /\ ui[p].offer # None /\ ui[p].peer # None
    /\ Become(p, [ui[p] EXCEPT !.tasks = @ \cup
                    {[k |-> "accept", to |-> None, step |-> "media", n |-> Fresh("call")]}])
    /\ OnlyUI

CallTasks(p, step) == {x \in Task(p, "start") \cup Task(p, "accept") : x.step = step}

GotMedia(p) == \E x \in CallTasks(p, "media") :
    /\ Become(p, [Advance(ui[p], x, "ice") EXCEPT !.mic = TRUE])
    /\ OnlyUI /\ UNCHANGED budget
\* A caller that gets no microphone drops the call, a callee hangs up.
MediaRefused(p) == \E x \in CallTasks(p, "media") :
    /\ IF x.k = "start"
           THEN /\ Become(p, [TaskEnd(ui[p], x) EXCEPT !.st = "idle", !.peer = None])
                /\ UNCHANGED out
           ELSE /\ Become(p, Cleanup(TaskEnd(ui[p], x)))
                /\ IF ui[p].peer = None THEN UNCHANGED out
                                        ELSE EmitSignal(p, ui[p].peer, "hangup")
    /\ UNCHANGED <<users, devices, rooms, log, session, on, in, shown, budget>>
\* The new connection replaces one that another task may still work on,
\* which nothing can close from now on: "replaced" says that this happened.
GotIceServers(p) == \E x \in CallTasks(p, "ice") :
    /\ Become(p, [Advance(ui[p], x, "sdp") EXCEPT
                     !.pc = [n |-> x.n, k |-> x.k],
                     !.replaced = @ \/ CallTasks(p, "sdp") \cup Task(p, "answer") # {}])
    /\ OnlyUI /\ UNCHANGED budget
SendOffer(p) == \E x \in CallTasks(p, "sdp") :
    /\ x.k = "start"
    /\ Become(p, TaskEnd(ui[p], x))
    /\ EmitSignal(p, x.to, "offer")
    /\ UNCHANGED <<users, devices, rooms, log, session, on, in, shown, budget>>
\* The answer goes to whoever is the peer by now; without one it throws.
SendAnswer(p) == \E x \in CallTasks(p, "sdp") :
    /\ x.k = "accept"
    /\ IF ui[p].peer = None
           THEN Become(p, TaskEnd(ui[p], x)) /\ UNCHANGED out
           ELSE /\ Become(p, [TaskEnd(ui[p], x) EXCEPT !.st = "connected"])
                /\ EmitSignal(p, ui[p].peer, "answer")
    /\ UNCHANGED <<users, devices, rooms, log, session, on, in, shown, budget>>

-----------------------------------------------------------------------------
(* Messages of the server.                                                 *)

Got(p, t) ==
    /\ on[p] /\ in[p] # <<>> /\ Head(in[p]).t = t
    /\ in' = [in EXCEPT ![p] = Tail(@)]
    /\ UNCHANGED <<users, devices, rooms, log, session, on, shown, budget>>
Says(p) == Head(in[p])

\* welcome: a new client id; the phone registers, also for push messages,
\* and asks for the history
OnWelcome(p) ==
    /\ Got(p, "welcome")
    /\ Become(p, [ui[p] EXCEPT !.self = Says(p).id, !.fetch = Append(@, Len(log))])
    /\ Emit(p, <<[t |-> "register"]>> \o
               (IF ui[p].push THEN <<[t |-> "push"]>> ELSE <<>>))
\* The table was read at some moment since the request.
ShowHistory(p) == \E i \in DOMAIN ui[p].fetch : \E n \in ui[p].fetch[i] .. Len(log) :
    /\ Become(p, [MergeHistory(ui[p], HistoryAnswer(n)) EXCEPT !.fetch = RemoveAt(@, i)])
    /\ OnlyUI /\ UNCHANGED budget

OnChatMessage(p) ==
    /\ Got(p, "chat")
    /\ Become(p, AddChat(ui[p], Says(p).m.id))
    /\ IF PanelOpen /\ ui[p].self # None
           THEN Emit(p, <<[t |-> "receipt", id |-> Says(p).m.id, reader |-> ui[p].self]>>)
           ELSE UNCHANGED out
OnVoiceMessage(p) ==
    /\ Got(p, "voice")
    /\ Become(p, AddVoice(ui[p], Says(p).id))
    /\ UNCHANGED out
MarkRead(ms, id, reader) ==
    [i \in DOMAIN ms |-> IF ms[i].id = id /\ ms[i].kind = "chat"
                            THEN [ms[i] EXCEPT !.read = @ \cup {reader}] ELSE ms[i]]
OnReadReceipt(p) ==
    /\ Got(p, "receipt")
    /\ Become(p, [ui[p] EXCEPT !.msgs = MarkRead(@, Says(p).id, Says(p).reader)])
    /\ UNCHANGED out

\* One member after the other: its tile appears, then the offer to it goes
\* out when the description is made.
Tile(todo) == IF todo = <<>> THEN {} ELSE {Head(todo)}
OnGroupPeers(p) ==
    /\ Got(p, "peers") /\ UNCHANGED out
    /\ LET todo == SetToSeq(Says(p).who)
       IN  IF ~ui[p].camera \/ todo = <<>> THEN UNCHANGED ui ELSE
           Become(p, [ui[p] EXCEPT !.peers = @ \cup Tile(todo),
                                   !.tasks = @ \cup {[k |-> "peers", todo |-> todo]}])
OfferPeer(p) == \E x \in Task(p, "peers") :
    /\ LET rest == Tail(x.todo)
       IN  Become(p, [TaskEnd(ui[p], x) EXCEPT !.peers = @ \cup Tile(rest), !.tasks =
               @ \cup (IF rest = <<>> THEN {} ELSE {[x EXCEPT !.todo = rest]})])
    /\ EmitSignal(p, Head(x.todo), "groupoffer")
    /\ UNCHANGED <<users, devices, rooms, log, session, on, in, shown, budget>>
OnGroupJoin(p) ==
    /\ Got(p, "join") /\ UNCHANGED out
    /\ Become(p, [ui[p] EXCEPT !.peers = @ \cup {Says(p).who}])
OnGroupLeave(p) ==
    /\ Got(p, "left") /\ UNCHANGED out
    /\ Become(p, [ui[p] EXCEPT !.peers = @ \ {Says(p).who}])

\* A group offer adds the tile of its sender and is answered; an answer or a
\* candidate only reaches a connection.
OnGroupSignal(p) ==
    /\ Got(p, "signal") /\ Says(p).type \in {"groupoffer", "groupanswer"}
    /\ IF Says(p).type = "groupoffer" /\ ui[p].camera
           THEN /\ Become(p, [ui[p] EXCEPT !.peers = @ \cup {Says(p).from}])
                /\ EmitSignal(p, Says(p).from, "groupanswer")
           ELSE UNCHANGED <<ui, out>>
\* Whatever the phone is doing, an offer makes it ring.
OnOffer(p) ==
    /\ Got(p, "signal") /\ Says(p).type = "offer"
    /\ Become(p, [ui[p] EXCEPT !.offer = Says(p).from, !.peer = Says(p).from,
                               !.st = "incoming"])
    /\ UNCHANGED out
\* setRemoteDescription takes a while, and refuses an answer that its
\* connection did not ask for.
OnAnswer(p) ==
    /\ Got(p, "signal") /\ Says(p).type = "answer" /\ UNCHANGED out
    /\ \/ /\ ui[p].pc # None /\ ui[p].pc.k = "start"
          /\ Become(p, [ui[p] EXCEPT !.tasks = @ \cup
                 {[k |-> "answer", to |-> None, step |-> "sdp", n |-> ui[p].pc.n]}])
       \/ UNCHANGED ui
AnswerTaken(p) == \E x \in Task(p, "answer") :
    /\ Become(p, [TaskEnd(ui[p], x) EXCEPT !.st = "connected"])
    /\ OnlyUI /\ UNCHANGED budget
OnHangup(p) ==
    /\ Got(p, "signal") /\ Says(p).type = "hangup" /\ UNCHANGED out
    /\ Become(p, Cleanup(ui[p]))

-----------------------------------------------------------------------------
CommInit ==
    /\ users = <<>> /\ devices = <<>> /\ log = <<>>
    /\ rooms = [r \in Rooms |-> {}]
    /\ session = [p \in Phones |-> 0]
    /\ on = [p \in Phones |-> FALSE]
    /\ shown = [p \in Phones |-> {}]
    /\ in = [p \in Phones |-> <<>>] /\ out = [p \in Phones |-> <<>>]
    /\ ui = [p \in Phones |-> Initially]
    /\ budget \in Budgets

UserActs(p) ==
    \/ \E to \in Clients \cup {None} :
          \/ SendMessage(p, to)
          \/ StartUpload(p, "file", to)
          \/ StartUpload(p, "voice", to)
    \/ EnablePush(p)
    \/ \E r \in Rooms : AskGroupMedia(p, r)
    \/ LeaveGroup(p)
    \/ Hangup(p) \/ StartCall(p) \/ AcceptCall(p)
TaskGoesOn(p) ==
    \/ SendMedia(p) \/ UploadVoice(p) \/ SendVoiceMessage(p) \/ UploadFails(p)
    \/ JoinGroup(p) \/ GroupMediaRefused(p) \/ OfferPeer(p)
    \/ GotMedia(p) \/ MediaRefused(p) \/ GotIceServers(p) \/ SendOffer(p) \/ SendAnswer(p)
    \/ AnswerTaken(p) \/ ShowHistory(p)
PhoneReceives(p) ==
    \/ OnWelcome(p) \/ OnChatMessage(p) \/ OnVoiceMessage(p) \/ OnReadReceipt(p)
    \/ OnGroupPeers(p) \/ OnGroupJoin(p) \/ OnGroupLeave(p) \/ OnGroupSignal(p)
    \/ OnOffer(p) \/ OnAnswer(p) \/ OnHangup(p)
ServerReceives(p) ==
    /\ \/ Register(p) \/ RegisterPush(p) \/ ChatMessage(p) \/ ReadReceipt(p) \/ Signal(p)
       \/ JoinGroupCall(p) \/ LeaveGroupCall(p)
    /\ UNCHANGED <<ui, budget>>
Connections(p) ==
    /\ \/ HandleConnection(p) /\ Spend("connect")
       \/ Lose(p) /\ Spend("drop")
       \/ (\E c \in Clients : c[1] = p /\ HandleDisconnect(c)) /\ UNCHANGED budget
    /\ UNCHANGED ui

CommNext == \E p \in Phones :
    \/ UserActs(p) \/ TaskGoesOn(p) \/ PhoneReceives(p) \/ ServerReceives(p)
    \/ Connections(p)
CommSpec == CommInit /\ [][CommNext]_commVars

-----------------------------------------------------------------------------
(* Properties.                                                             *)

Shape(u) ==
    /\ u.self \in Clients \cup {None}
    /\ u.st \in {"idle", "calling", "incoming", "connected"}
    /\ {u.peer, u.offer} \subseteq Clients \cup {None}
    /\ u.room \in Rooms \cup {None} /\ u.peers \subseteq Clients
    /\ Len(u.msgs) <= MaxMessages

(* The type invariant.                                                     *)
CommTypeOK ==
    /\ DOMAIN users \subseteq Clients /\ \A c \in DOMAIN users : users[c] \in {c[1], None}
    /\ DOMAIN devices \subseteq Keys
    /\ \A k \in DOMAIN devices : /\ devices[k].push \in Phones \cup {None}
                                 /\ devices[k].client \in Clients \cup {None}
    /\ rooms \in [Rooms -> SUBSET Clients]
    /\ session \in [Phones -> 0 .. MaxSessions] /\ on \in [Phones -> BOOLEAN]
    /\ \A p \in Phones : Shape(ui[p]) /\ shown[p] \subseteq [id : Keys, online : BOOLEAN]

(* The last list emitted to a connected phone is the server's: every change *)
(* of the two registries is announced, whichever handler makes it.         *)
ListIsCurrent == \A p \in Phones : on[p] => shown[p] = UserList

(* A phone whose record has a push endpoint is in the list under an id     *)
(* that leads to the endpoint, at any moment: before a session registers,  *)
(* with sessions that overlap, and when the end of the older one is        *)
(* noticed after the newer one registered.                                 *)
EveryPhoneReachable ==
    \A p \in Phones : RecordPush(p) = p =>
        \E e \in UserList : FindPushEndpoint(e.id) = p

(* Whoever a phone shows as away can be woken, however old its list: no    *)
(* handler loses an endpoint.  push_call looks the record up by that id.   *)
AwayCanBeRung ==
    \A p \in Phones : \A e \in shown[p] : ~e.online => RecordPush(e.id) # None

(* No chat message is shown twice: shown by its sender at upload, relayed  *)
(* back, and read again from the history after each reconnection.          *)
NothingTwice ==
    \A p \in Phones : \A i, j \in DOMAIN ui[p].msgs :
        (/\ ui[p].msgs[i].kind = "chat" /\ ui[p].msgs[j].kind = "chat"
         /\ ui[p].msgs[i].id = ui[p].msgs[j].id) => i = j

(* A connected phone shows every message that was relayed to its           *)
(* connection and kept, once nothing is on its way to it and while its     *)
(* list is not full, whatever answers to its requests for the history and  *)
(* what messages of its own came in between.                               *)
NothingUnheard ==
    \A p \in Phones :
        on[p] /\ in[p] = <<>> /\ Len(ui[p].msgs) < MaxMessages
        => \A i \in DOMAIN log : Cur(p) \in log[i].heard => Lists(ui[p], log[i].id)

(* What CommContext.tsx says of the history: a connected phone with        *)
(* nothing on its way shows the latest messages to everyone, those sent    *)
(* while it was away included.  Without the route it does not.             *)
NothingLost ==
    \A p \in Phones :
        (/\ on[p] /\ in[p] = <<>> /\ ui[p].fetch = <<>>
         /\ Len(ui[p].msgs) < MaxMessages)
        => \A i \in DOMAIN log : i + HistoryLimit > Len(log) =>
              (log[i].to = None => Lists(ui[p], log[i].id))

(* Only connected clients are in a room.                                   *)
RoomsHoldClients == \A r \in Rooms : rooms[r] \subseteq DOMAIN users

(* Two phones in one group call see each other when nothing is on its way, *)
(* whoever joined second.  Only a phone that strayed into two rooms may be *)
(* missed: its tile goes when it leaves either of them.                    *)
RoomsSeeEachOther ==
    \A p, q \in Phones : \A r \in Rooms :
        (/\ p # q /\ on[p] /\ on[q] /\ {Cur(p), Cur(q)} \subseteq rooms[r]
         /\ ~ui[q].strayed /\ ui[p].room = r
         /\ out[p] = <<>> /\ in[p] = <<>> /\ Task(p, "peers") = {})
        => Cur(q) \in ui[p].peers

(* The call screen tells the truth: a call shown as incoming has an offer  *)
(* and a peer to answer, one shown as connected has a peer connection,     *)
(* whatever hang-ups, refusals and offers met it in between.  Only a       *)
(* connection that was replaced while its task still worked on it escapes  *)
(* cleanup: after a double press on "accept" and a hang-up, the task of    *)
(* the first one answers the next caller and shows "connected" for a call  *)
(* that has no connection.                                                 *)
CallScreenHonest ==
    \A p \in Phones :
        /\ ui[p].st = "connected" /\ ~ui[p].replaced => ui[p].pc # None
        /\ ui[p].st = "incoming" => ui[p].offer # None /\ ui[p].peer # None

(* Every phone can be rung: the lists are current, and lead to the push    *)
(* endpoint of a phone that is away.                                       *)
PhonesCanBeRung == ListIsCurrent /\ EveryPhoneReachable /\ AwayCanBeRung

(* A message is shown once, on every phone that was there when it was said.*)
EachMessageOnce == NothingTwice /\ NothingUnheard

(* The rooms of the server and the tiles of the phones agree.              *)
RoomsAgree == RoomsHoldClients /\ RoomsSeeEachOther
=============================================================================

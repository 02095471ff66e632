----------------------------- MODULE HaContext -----------------------------
(***************************************************************************)
(* The web UI's connection to the hub (frontend/src/context/HaContext.tsx) *)
(* on top of the gateway: login, the handshake, the map of states the UI   *)
(* shows, what a panel patches in it before the hub has answered, service  *)
(* calls with their timeout, lost connections.                             *)
(***************************************************************************)
EXTENDS HaGateway

CONSTANT MaxId  \* bound: message ids the client uses

ASSUME HaContextAssumption == MaxId \in Nat /\ Ids = 1 .. MaxId /\ Tokens \subseteq Nat \ {0}

VARIABLES
    token,      \* the access token, 0 when logged out
    ws,         \* the socket in use, 0 while there is none
    ready,      \* wsConnected: auth_ok was received
    view,       \* the map of states the UI shows, as it had them from the hub
    patched,    \* entities it shows as a panel's patchState left them instead
    cmdId,      \* the next message id
    pending,    \* pendingCalls: calls whose promise has not been resolved
    buffer,     \* what socket.io keeps while it has no connection
    succeeded,  \* auxiliary: ids of the calls whose service succeeded
    reported,   \* auxiliary: ids of the calls reported as successful
    missed      \* auxiliary: entities whose last change since the hub sent the UI
                \* all states it did not tell the UI, or told as a removal

clientVars == <<token, ws, ready, view, patched, cmdId, pending, buffer, reported>>
vars == <<gatewayVars, clientVars, succeeded, missed>>

NoStates == [e \in Entities |-> 0]

ClientTypeOK ==
    /\ token \in Tokens \cup {0} /\ ws \in Sockets \cup {0} /\ ready \in BOOLEAN
    /\ view \in States
    /\ cmdId \in 1 .. MaxId + 1 /\ pending \subseteq Ids
    /\ buffer \in Seq(Request)
    /\ succeeded \subseteq Ids /\ reported \subseteq Ids

ViewTypeOK == patched \subseteq Entities /\ missed \subseteq Entities

(* The token comes from the local storage.                                 *)
Init ==
    /\ GatewayInit
    /\ token \in Tokens \cup {0} /\ ws = 0 /\ ready = FALSE
    /\ view = NoStates /\ cmdId = 1 /\ pending = {} /\ buffer = <<>>
    /\ succeeded = {} /\ reported = {} /\ patched = {} /\ missed = {}
-----------------------------------------------------------------------------
Send(msgs) == up' = [up EXCEPT ![ws] = @ \o msgs]

(* login: POST /api/auth/login answered with a token.                       *)
Login ==
    /\ token = 0 /\ token' \in tokens
    /\ UNCHANGED <<gatewayVars, ws, ready, view, patched, cmdId, pending, buffer, succeeded, missed, reported>>

(* Faulty variants: message ids start again with every connection.         *)
RestartedIds == 1
ZeroIds == 0

ContinuedIds == cmdId

(* io() connects while there is a token, and connects again; socket.io     *)
(* first sends what it kept.                                               *)
Open ==
    /\ token # 0 /\ ws = 0
    /\ Connect(buffer)
    /\ ws' = opened' /\ buffer' = <<>> /\ cmdId' = ContinuedIds
    /\ UNCHANGED <<token, ready, view, patched, pending, succeeded, missed, reported>>

(* The connection is lost.                                                 *)
Drop ==
    /\ ws # 0
    /\ Closed(ws)
    /\ ws' = 0 /\ ready' = FALSE /\ missed' = {}
    /\ UNCHANGED <<opened, up, serverVars, token, view, patched, cmdId, pending, buffer, succeeded,
                   reported>>

(* What logout and auth_invalid have in common: the socket is closed, the  *)
(* states go, and the clean-up of the effect resolves the pending calls.   *)
LoggedOut ==
    /\ token' = 0 /\ ws' = 0 /\ ready' = FALSE /\ missed' = {}
    /\ view' = NoStates /\ patched' = {} /\ pending' = {} /\ buffer' = <<>>
    /\ IF ws # 0 THEN Closed(ws) ELSE UNCHANGED <<peers, down>>
    /\ UNCHANGED <<opened, up, serverVars, cmdId, succeeded, reported>>

Logout == token # 0 /\ LoggedOut

(* The bound on ids leaves two for every handshake to come (OnAuthOk).     *)
RoomForCall ==
    cmdId + 2 * (MaxSockets - opened) + (IF ready THEN 0 ELSE 2) <= MaxId

(* callService: the promise is also resolved by its timeout.               *)
Call ==
    /\ token # 0 /\ RoomForCall
    /\ "eager" \in Env \/ ready
    /\ LET m == [type |-> "call_service", id |-> cmdId]
       IN  IF ws # 0 THEN Send(<<m>>) /\ UNCHANGED buffer
           ELSE buffer' = Append(buffer, m) /\ UNCHANGED up
    /\ cmdId' = cmdId + 1 /\ pending' = pending \cup {cmdId}
    /\ UNCHANGED <<opened, peers, down, serverVars, token, ws, ready, view, patched, succeeded, missed,
                   reported>>

Timeout(id) ==
    /\ id \in pending
    /\ pending' = pending \ {id}
    /\ UNCHANGED <<gatewayVars, token, ws, ready, view, patched, cmdId, buffer, succeeded,
                   missed, reported>>

(* patchState: a floor plan draws what its call should lead to, or goes    *)
(* back to what it drew before when the call has failed.                   *)
PatchState(e) ==
    /\ view[e] # 0 /\ e \notin patched
    /\ patched' = patched \cup {e}
    /\ UNCHANGED <<gatewayVars, token, ws, ready, view, cmdId, pending, buffer, succeeded,
                   missed, reported>>
-----------------------------------------------------------------------------
(* socket.on('message'). *)

(* Faulty variant: messages are handled in any order.                      *)
AnyMessage == DOMAIN down[ws]

FirstMessage == {1} \cap DOMAIN down[ws]

(* The client handles a message of the given types.                        *)
Message(i, types) ==
    /\ ws # 0 /\ i \in FirstMessage
    /\ down[ws][i].type \in types
    /\ down' = [down EXCEPT ![ws] = RemoveAt(@, i)]

(* Faulty variant: the states are asked for without waiting for auth_ok.   *)
HelloEager == << [type |-> "auth", token |-> token], [type |-> "get_states", id |-> 1] >>

Hello == << [type |-> "auth", token |-> token] >>

OnAuthRequired(i) ==
    /\ Message(i, {"auth_required"})
    /\ Send(Hello)
    /\ UNCHANGED <<opened, peers, serverVars, clientVars, succeeded, missed>>

OnAuthInvalid ==
    /\ ws # 0 /\ \E i \in FirstMessage : down[ws][i].type = "auth_invalid"
    /\ LoggedOut

OnAuthOk(i) ==
    /\ Message(i, {"auth_ok"})
    /\ cmdId + 1 \in Ids
    /\ ready' = TRUE
    /\ Send(<< [type |-> "get_states", id |-> cmdId],
               [type |-> "subscribe_events", id |-> cmdId + 1] >>)
    /\ cmdId' = cmdId + 2
    /\ UNCHANGED <<opened, peers, serverVars, token, ws, view, patched, pending, buffer, succeeded, missed,
                   reported>>

(* Faulty variant: an event about an entity the UI does not know is lost.  *)
ViewKnownOnly(m) ==
    IF m.type = "states" THEN m.states
    ELSE IF m.type = "event" /\ view[m.entity] # 0 /\ m.new # 0
    THEN [view EXCEPT ![m.entity] = m.new] ELSE view

(* Faulty variant: states that are there already are not loaded again.     *)
ViewCached(m) ==
    IF m.type = "states" THEN IF view = NoStates THEN m.states ELSE view
    ELSE IF m.type = "event" /\ m.new # 0
    THEN [view EXCEPT ![m.entity] = m.new] ELSE view

(* The states replace the view; an event is applied unless new_state is    *)
(* null; other results change nothing.                                     *)
View(m) ==
    IF m.type = "states" THEN m.states
    ELSE IF m.type = "event" /\ m.new # 0
    THEN [view EXCEPT ![m.entity] = m.new] ELSE view

(* Either way what a panel had patched there is gone.                      *)
Replaced(m) ==
    IF m.type = "states" THEN Entities
    ELSE IF m.type = "event" /\ m.new # 0 THEN {m.entity} ELSE {}

(* Any result with the id of a pending call resolves that call.            *)
OnData(i) ==
    /\ Message(i, {"states", "result", "event"})
    /\ LET m == down[ws][i]
       IN  IF m.type # "event" /\ m.id \in pending
           THEN /\ pending' = pending \ {m.id}
                /\ reported' = IF m.type = "states" \/ m.success THEN reported \cup {m.id}
                               ELSE reported
                /\ UNCHANGED <<view, patched>>
           ELSE /\ view' = View(m) /\ patched' = patched \ Replaced(m)
                /\ UNCHANGED <<pending, reported>>
    /\ UNCHANGED <<opened, peers, up, serverVars, token, ws, ready, cmdId, buffer, succeeded, missed>>

Receive ==
    \/ \E i \in 1 .. MaxDown : OnAuthRequired(i) \/ OnAuthOk(i) \/ OnData(i)
    \/ OnAuthInvalid
-----------------------------------------------------------------------------
Hub ==
    \/ \E s \in Sockets :
          \/ Disconnect(s) \/ Handle(s)
          \/ \E i \in 1 .. MaxUp : Validated(s, i) \/ ValidationFails(s, i)
    \/ \E token_ \in Tokens : Expire(token_)

Settle(s, id, success) ==
    /\ CallSettles(s, id, success)
    /\ succeeded' = IF success THEN succeeded \cup {id} ELSE succeeded
    /\ UNCHANGED <<clientVars, missed>>

(* The UI has been sent all states, and from now on is told of a change   *)
(* only if its subscription stands already; a removal it ignores.          *)
OnItsWay(type) == \E i \in DOMAIN up[ws] : up[ws][i].type = type

StatesSent == ready /\ Live(ws) /\ ~OnItsWay("get_states")

Heard(e) == listeners[ws] # <<>> /\ states'[e] # 0

HubChange(e) ==
    /\ Change(e)
    /\ missed' = IF ~StatesSent THEN missed
                 ELSE IF Heard(e) THEN missed \ {e} ELSE missed \cup {e}
    /\ UNCHANGED <<clientVars, succeeded>>

Next ==
    \/ Login \/ Logout \/ Open \/ Drop \/ Call
    \/ \E id \in Ids : Timeout(id)
    \/ \E e \in Entities : PatchState(e)
    \/ Receive
    \/ Hub /\ UNCHANGED <<clientVars, succeeded, missed>>
    \/ \E s \in Sockets, id \in Ids, success \in BOOLEAN : Settle(s, id, success)
    \/ \E e \in Entities : HubChange(e)

UISpec == Init /\ [][Next]_vars

(* Over the connection in use the hub and the client handle what arrives   *)
(* and validations settle; nobody has to log in, call or reconnect.        *)
ConnectionGoesOn ==
    \/ Receive
    \/ /\ ws # 0 /\ (Handle(ws) \/ Validated(ws, 1))
       /\ UNCHANGED <<clientVars, succeeded, missed>>

UIFairSpec == UISpec /\ WF_vars(ConnectionGoesOn)
-----------------------------------------------------------------------------
(* What the UI shows of an entity is the hub's, unless the UI was not told *)
(* of the last change - it came between the answer to get_states and the   *)
(* subscription, or removed the entity - or a panel has patched it since.  *)
Shows(e) == view[e] = states[e]

Followed(e) == e \notin missed \cup patched

(* Once a connected UI has nothing more to receive and the hub nothing     *)
(* more to handle from it, it shows the states the hub has told it of.     *)
ViewFresh ==
    /\ ready /\ ws # 0
    /\ up[ws] = <<>> /\ down[ws] = <<>> /\ Live(ws)
    => \A e \in Entities : Followed(e) => Shows(e)

(* The UI never goes back to an older state of an entity: not when the     *)
(* connection is lost while events are on their way, nor by its reload.    *)
Forwards == \A e \in Entities : view'[e] # 0 => view'[e] >= view[e]

(* A call reported to the user as successful was executed by its service.  *)
ReportedWasExecuted == reported \subseteq succeeded

(* auth_invalid tells that the token is expired or invalid.                *)
ValidTokenNotRefused ==
    ws # 0 /\ token \in tokens =>
        \A i \in DOMAIN down[ws] : down[ws][i].type # "auth_invalid"

(* Over a connection that stays up with a valid token the UI comes to show *)
(* the states of the hub that it was told of.                              *)
ConnectionStays == <>[](ws # 0 /\ token \in tokens)

UIConverges ==
    ConnectionStays => <>[](ready /\ \A e \in Entities : Followed(e) => Shows(e))

(* What the manual says: the events keep the map of states up to date in   *)
(* real time, over such a connection.                                      *)
ChangesAreShown ==
    ConnectionStays => <>[](ready /\ \A e \in Entities \ patched : Shows(e))

(* What the UI shows follows the hub: it catches up whenever nothing is on *)
(* its way, and never goes back.                                           *)
ViewFollows == [][ViewFresh' /\ Forwards]_vars
-----------------------------------------------------------------------------
(* What every step keeps, and what makes these hold.  The client has one   *)
(* connection, and only while it is logged in.                             *)
OneConnection ==
    /\ peers = {ws} \ {0}
    /\ ws = 0 => ~ready
    /\ ws # 0 => token # 0

(* No id is used twice: what is asked for itself never has the id of a     *)
(* pending call, and a pending call is only answered TRUE once its service *)
(* has succeeded.                                                          *)
Asked(m) ==
    \/ m.type = "auth"
    \/ m.type = "call_service" /\ m.id < cmdId
    \/ m.type \in {"get_states", "subscribe_events"} /\ m.id < cmdId /\ m.id \notin pending

Answered(m) ==
    /\ m.type = "states" => m.id < cmdId /\ m.id \notin pending
    /\ m.type = "result" => /\ m.id < cmdId
                            /\ m.id \in pending /\ m.success => m.id \in succeeded

IdsAreOwn ==
    /\ \A id \in pending : id < cmdId
    /\ \A i \in DOMAIN buffer : Asked(buffer[i])
    /\ \A c \in calls : c[2] < cmdId
    /\ \A s \in Sockets : /\ \A i \in DOMAIN up[s] : Asked(up[s][i])
                          /\ \A i \in DOMAIN down[s] : Answered(down[s][i])

(* The messages on the way tell of ever newer states of an entity, none    *)
(* older than the view nor newer than the hub's; 0 tells of a removal,     *)
(* which only the answer to get_states brings to the view.                 *)
Tells(m, e) == \/ m.type = "states"
               \/ m.type = "event" /\ m.entity = e /\ m.new # 0
Told(m, e) == IF m.type = "states" THEN m.states[e] ELSE m.new

NoNewer(c, d) == d # 0 => c <= d

NewsInOrder ==
    /\ \A e \in Entities : /\ view[e] <= changes /\ states[e] <= changes
                           /\ NoNewer(view[e], states[e])
    /\ ws # 0 =>
          \A i \in DOMAIN down[ws] : \A e \in Entities : Tells(down[ws][i], e) =>
              /\ NoNewer(view[e], Told(down[ws][i], e))
              /\ Told(down[ws][i], e) <= changes /\ NoNewer(Told(down[ws][i], e), states[e])
              /\ \A j \in DOMAIN down[ws] : i < j /\ Tells(down[ws][j], e)
                    => NoNewer(Told(down[ws][i], e), Told(down[ws][j], e))

(* What the newest of them tells of an entity, or else the view, is the    *)
(* hub's.                                                                  *)
Newest(i, e) == /\ Tells(down[ws][i], e)
                /\ \A j \in DOMAIN down[ws] : i < j => ~Tells(down[ws][j], e)

UpToDate(e) ==
    \/ view[e] = states[e] /\ \A i \in DOMAIN down[ws] : ~Tells(down[ws][i], e)
    \/ \E i \in DOMAIN down[ws] : Newest(i, e) /\ Told(down[ws][i], e) = states[e]

(* Once connected, the subscription stands or is on its way, and the UI is *)
(* up to date but for the changes it was not told of, or has asked for the *)
(* states.                                                                 *)
NewsArrive ==
    ready /\ Live(ws) =>
        /\ OnItsWay("subscribe_events") \/ listeners[ws] # <<>>
        /\ OnItsWay("get_states") \/ \A e \in Entities \ missed : UpToDate(e)

ClientInv == OneConnection /\ IdsAreOwn /\ ReportedWasExecuted
ViewInv == NewsInOrder /\ NewsArrive
=============================================================================

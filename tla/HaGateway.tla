----------------------------- MODULE HaGateway -----------------------------
(***************************************************************************)
(* The WebSocket gateway of the hub (websocket/): one session per socket,  *)
(* the two phases of a connection, the commands, and the listeners its     *)
(* subscriptions put on the event bus.                                     *)
(*                                                                         *)
(* A socket carries its messages in order and reliably while it is open.   *)
(* The client's end may close first: what is on the way to the client is   *)
(* then lost, what the client sent still arrives until the server notices. *)
(* A message is handled in one step up to its first await: the validation  *)
(* of the token, or the service called.                                    *)
(***************************************************************************)
EXTENDS Integers, Sequences, FiniteSets, SequencesExt

CONSTANTS
    Entities,
    Ids,         \* message ids, chosen by the client
    Tokens,      \* access tokens
    Env,         \* what the environment does: subset of Behaviours
    MaxSockets,  \* bound: connections, numbered in the order they open
    MaxChanges,  \* bound: state changes
    MaxUp,       \* bound: messages any client has on the way, pending validations
    MaxDown      \* bound: messages on the way to the client

(*   failure the database rejects the query that validates a token         *)
(*   remove  entities are removed                                          *)
(* and for the client of HaContext:                                        *)
(*   eager   it calls services before the connection is authenticated      *)
Behaviours == {"failure", "remove", "eager"}

ASSUME HaGatewayAssumption ==
    /\ Ids \subseteq Nat
    /\ Env \subseteq Behaviours
    /\ {MaxSockets, MaxChanges, MaxUp, MaxDown} \subseteq Nat

Sockets == 1 .. MaxSockets

VARIABLES
    opened,      \* sockets opened so far
    peers,       \* sockets whose client end is open
    sessions,    \* WsSessionService.sessions
    listeners,   \* on the event bus: of a socket's subscriptions, in order
    validating,  \* tokens being validated, per socket
    calls,       \* services called and not yet settled: <<socket, id>>
    tokens,      \* tokens the auth service accepts
    states,      \* number of the change each entity has its state from, 0: none
    changes,     \* state changes so far
    up, down,    \* messages on the way to the server, to the client
    proven       \* auxiliary: sockets a valid token was presented on

serverVars == <<sessions, listeners, validating, calls, tokens, states, changes, proven>>
netVars == <<opened, peers, up, down>>
gatewayVars == <<serverVars, netVars>>
-----------------------------------------------------------------------------
(* Faulty variant: a session that is marked instead of deleted.            *)
ClosedSession == [phase |-> "closed", subscriptions |-> {}]

NoSession == [phase |-> "none", subscriptions |-> {}]
Session == [phase : {"none", "auth", "command"}, subscriptions : SUBSET Ids]
States == [Entities -> 0 .. MaxChanges]

Request ==
    [type : {"auth"}, token : Tokens]
        \cup [type : {"get_states", "subscribe_events", "call_service"}, id : Ids]
        \cup [type : {"unsubscribe_events"}, id : Ids, subscription : Ids]

Reply ==
    [type : {"auth_required", "auth_ok", "auth_invalid"}]
        \cup [type : {"states"}, id : Ids, states : States]
        \cup [type : {"result"}, id : Ids, success : BOOLEAN]
        \cup [type : {"event"}, id : Ids, entity : Entities, new : 0 .. MaxChanges]

TypeOK ==
    /\ opened \in {0} \cup Sockets /\ peers \subseteq Sockets
    /\ sessions \in [Sockets -> Session]
    /\ listeners \in [Sockets -> Seq(Ids)]
    /\ validating \in [Sockets -> Seq(Tokens)]
    /\ calls \subseteq Sockets \X Ids
    /\ tokens \subseteq Tokens
    /\ states \in States /\ changes \in 0 .. MaxChanges
    /\ up \in [Sockets -> Seq(Request)] /\ down \in [Sockets -> Seq(Reply)]
    /\ proven \subseteq Sockets

GatewayInit ==
    /\ opened = 0 /\ peers = {}
    /\ sessions = [s \in Sockets |-> NoSession]
    /\ listeners = [s \in Sockets |-> <<>>]
    /\ validating = [s \in Sockets |-> <<>>] /\ calls = {}
    /\ tokens = Tokens
    /\ states = [e \in Entities |-> 0] /\ changes = 0
    /\ up = [s \in Sockets |-> <<>>] /\ down = [s \in Sockets |-> <<>>]
    /\ proven = {}
-----------------------------------------------------------------------------
Live(s) == sessions[s].phase # "none"
Room(s) == Len(down[s]) < MaxDown

(* What the client still receives when the server emits m.                 *)
Sent(s, m) == IF s \in peers THEN [down EXCEPT ![s] = Append(@, m)] ELSE down

(* handleConnection of the next socket, whose client has sent `first'.     *)
Connect(first) ==
    LET s == opened + 1
    IN  /\ s \in Sockets
        /\ opened' = s
        /\ peers' = peers \cup {s}
        /\ sessions' = [sessions EXCEPT ![s].phase = "auth"]
        /\ down' = [down EXCEPT ![s] = <<[type |-> "auth_required"]>>]
        /\ up' = [up EXCEPT ![s] = first]
        /\ UNCHANGED <<listeners, validating, calls, tokens, states, changes, proven>>

(* Faulty variant: the session goes, its listeners stay.                   *)
LeakedListeners(s) == listeners

(* destroySession takes off the listener of every subscription of s: by    *)
(* ListenersMatchSubscriptions, which says so, those are all of them.      *)
OtherListeners(s) == [listeners EXCEPT ![s] = <<>>]

(* Faulty variant: auth_invalid without socket.disconnect().               *)
NotDestroyed(s) == UNCHANGED <<sessions, listeners>> /\ up' = [up EXCEPT ![s] = <<>>]

(* handleDisconnect: destroySession, by the server or by the notice that   *)
(* the client has gone; messages not handled by then are not.              *)
Destroyed(s) ==
    /\ sessions' = [sessions EXCEPT ![s] = NoSession]
    /\ listeners' = OtherListeners(s)
    /\ up' = [up EXCEPT ![s] = <<>>]

Disconnect(s) ==
    /\ Live(s) /\ s \notin peers
    /\ Destroyed(s)
    /\ UNCHANGED <<opened, peers, down, validating, calls, tokens, states, changes,
                   proven>>

(* The client's end closes: what is on the way to it is lost.              *)
Closed(s) ==
    /\ peers' = peers \ {s}
    /\ down' = [down EXCEPT ![s] = <<>>]
-----------------------------------------------------------------------------
(* Messages.  Every handler takes the oldest message of socket s.          *)

Taken(s) == up' = [up EXCEPT ![s] = Tail(@)]
Handling(s, phase, type) ==
    /\ up[s] # <<>> /\ Room(s)
    /\ sessions[s].phase = phase /\ Head(up[s]).type = type

(* handleAuthMessage: anything but `auth' ends the connection ...          *)
RefuseUnauthenticated(s) ==
    /\ up[s] # <<>> /\ Room(s)
    /\ sessions[s].phase = "auth" /\ Head(up[s]).type # "auth"
    /\ down' = Sent(s, [type |-> "auth_invalid"])
    /\ Destroyed(s)
    /\ UNCHANGED <<opened, peers, validating, calls, tokens, states, changes, proven>>

(* ... and `auth' is validated while other messages are handled.           *)
Authenticate(s) ==
    /\ Handling(s, "auth", "auth") /\ Len(validating[s]) < MaxUp
    /\ validating' = [validating EXCEPT ![s] = Append(@, Head(up[s]).token)]
    /\ Taken(s)
    /\ UNCHANGED <<opened, peers, down, sessions, listeners, calls, tokens, states,
                   changes, proven>>

(* Faulty variant: the answer of the auth service is not looked at.        *)
AcceptsAny(token) == TRUE

Accepts(token) == token \in tokens

(* The i-th pending validation of s answers; the session may be gone.      *)
Validated(s, i) ==
    /\ i \in DOMAIN validating[s] /\ Room(s)
    /\ validating' = [validating EXCEPT ![s] = RemoveAt(@, i)]
    /\ LET token == validating[s][i]
       IN  /\ proven' = IF token \in tokens THEN proven \cup {s} ELSE proven
           /\ IF Accepts(token)
              THEN /\ sessions' = IF Live(s) THEN [sessions EXCEPT ![s].phase = "command"]
                                  ELSE sessions
                   /\ down' = IF Live(s) THEN Sent(s, [type |-> "auth_ok"]) ELSE down
                   /\ UNCHANGED <<listeners, up>>
              ELSE /\ down' = IF Live(s) THEN Sent(s, [type |-> "auth_invalid"]) ELSE down
                   /\ Destroyed(s)
    /\ UNCHANGED <<opened, peers, calls, tokens, states, changes>>

(* validateToken rejects (the database does): logged, nothing is sent.     *)
ValidationFails(s, i) ==
    /\ "failure" \in Env
    /\ i \in DOMAIN validating[s]
    /\ validating' = [validating EXCEPT ![s] = RemoveAt(@, i)]
    /\ UNCHANGED <<netVars, sessions, listeners, calls, tokens, states, changes, proven>>

(* An `auth' in the command phase has no id and is answered by an error.   *)
AuthenticateAgain(s) ==
    /\ Handling(s, "command", "auth")
    /\ Taken(s)
    /\ UNCHANGED <<opened, peers, down, serverVars>>

GetStates(s) ==
    /\ Handling(s, "command", "get_states")
    /\ down' = Sent(s, [type |-> "states", id |-> Head(up[s]).id, states |-> states])
    /\ Taken(s)
    /\ UNCHANGED <<opened, peers, serverVars>>

(* What is left of the listeners q when the one of subscription id goes.   *)
Without(q, id) == IF id \in ToSet(q) THEN RemoveAt(q, CHOOSE i \in DOMAIN q : q[i] = id)
                  ELSE q

(* An old listener of the same id is taken off before the new one is put.  *)
WithListener(q, id) == Append(Without(q, id), id)

Subscribe(s) ==
    /\ Handling(s, "command", "subscribe_events")
    /\ LET id == Head(up[s]).id
       IN  /\ listeners' = [listeners EXCEPT ![s] = WithListener(@, id)]
           /\ sessions' = [sessions EXCEPT ![s].subscriptions = @ \cup {id}]
           /\ down' = Sent(s, [type |-> "result", id |-> id, success |-> TRUE])
    /\ Taken(s)
    /\ UNCHANGED <<opened, peers, validating, calls, tokens, states, changes, proven>>

Unsubscribe(s) ==
    /\ Handling(s, "command", "unsubscribe_events")
    /\ LET id == Head(up[s]).subscription
       IN  IF id \in sessions[s].subscriptions
           THEN /\ listeners' = [listeners EXCEPT ![s] = Without(@, id)]
                /\ sessions' = [sessions EXCEPT ![s].subscriptions = @ \ {id}]
           ELSE UNCHANGED <<listeners, sessions>>
    /\ down' = Sent(s, [type |-> "result", id |-> Head(up[s]).id, success |-> TRUE])
    /\ Taken(s)
    /\ UNCHANGED <<opened, peers, validating, calls, tokens, states, changes, proven>>

(* call_service: the answer follows when the service has settled.          *)
CallService(s) ==
    /\ Handling(s, "command", "call_service")
    /\ calls' = calls \cup {<<s, Head(up[s]).id>>}
    /\ Taken(s)
    /\ UNCHANGED <<opened, peers, down, sessions, listeners, validating, tokens, states,
                   changes, proven>>

CallSettles(s, id, success) ==
    /\ <<s, id>> \in calls /\ Room(s)
    /\ calls' = calls \ {<<s, id>>}
    /\ down' = IF Live(s) THEN Sent(s, [type |-> "result", id |-> id, success |-> success])
               ELSE down
    /\ UNCHANGED <<opened, peers, up, sessions, listeners, validating, tokens, states,
                   changes, proven>>

Handle(s) ==
    \/ RefuseUnauthenticated(s) \/ Authenticate(s) \/ AuthenticateAgain(s)
    \/ GetStates(s) \/ Subscribe(s) \/ Unsubscribe(s) \/ CallService(s)
-----------------------------------------------------------------------------
(* The rest of the hub. *)

(* What the listeners of s send when e changes to c.                       *)
EventsOf(s, e, c) == [i \in DOMAIN listeners[s] |->
                       [type |-> "event", id |-> listeners[s][i], entity |-> e, new |-> c]]

(* A state changes or an entity is removed: every listener sends an event. *)
Change(e) ==
    /\ changes < MaxChanges
    /\ changes' = changes + 1
    /\ states' \in {[states EXCEPT ![e] = changes']}
           \cup IF "remove" \in Env /\ states[e] # 0 THEN {[states EXCEPT ![e] = 0]} ELSE {}
    /\ \A s \in Sockets : Len(down[s]) + Len(listeners[s]) <= MaxDown
    /\ down' = [s \in Sockets |-> IF s \in peers THEN down[s] \o EventsOf(s, e, states'[e])
                                  ELSE down[s]]
    /\ UNCHANGED <<opened, peers, up, sessions, listeners, validating, calls, tokens,
                   proven>>

(* A token expires, is revoked, or its user is deactivated.                *)
Expire(token) ==
    /\ tokens' = tokens \ {token}
    /\ tokens' # tokens
    /\ UNCHANGED <<netVars, sessions, listeners, validating, calls, states, changes, proven>>

GatewayNext ==
    \/ \E s \in Sockets :
          \/ Disconnect(s)
          \/ Handle(s)
          \/ \E i \in 1 .. MaxUp : Validated(s, i) \/ ValidationFails(s, i)
          \/ \E id \in Ids, success \in BOOLEAN : CallSettles(s, id, success)
    \/ \E e \in Entities : Change(e)
    \/ \E token \in Tokens : Expire(token)
-----------------------------------------------------------------------------
(* Any client: it sends what it likes, reads, and goes away.               *)
AnyClient ==
    \/ Connect(<<>>)
    \/ \E s \in peers :
          \/ /\ Live(s) /\ Len(up[s]) < MaxUp
             /\ \E m \in Request : up' = [up EXCEPT ![s] = Append(@, m)]
             /\ UNCHANGED <<opened, peers, down, serverVars>>
          \/ /\ down[s] # <<>>
             /\ down' = [down EXCEPT ![s] = Tail(@)]
             /\ UNCHANGED <<opened, peers, up, serverVars>>
          \/ /\ Closed(s)
             /\ UNCHANGED <<opened, up, serverVars>>

Spec == GatewayInit /\ [][GatewayNext \/ AnyClient]_gatewayVars
-----------------------------------------------------------------------------
(* The listeners on the event bus are exactly the subscriptions of the     *)
(* live sessions: whatever the order of subscribing, resubscribing,        *)
(* disconnecting and late validations, none is left behind or doubled.     *)
ListenersMatchSubscriptions ==
    \A s \in Sockets : /\ IsInjective(listeners[s])
                       /\ ToSet(listeners[s]) = sessions[s].subscriptions

(* States and events only go to sockets on which a valid token was shown.  *)
OnlyProvenReceive ==
    \A s \in Sockets : \A i \in DOMAIN down[s] :
        down[s][i].type \in {"states", "event"} => s \in proven

(* Nothing is sent on a socket after it was told its auth is invalid.      *)
InvalidIsLast ==
    \A s \in Sockets : \A i \in DOMAIN down[s] :
        down[s][i].type = "auth_invalid" => i = Len(down[s])

(* A socket without a valid token hears nothing of the house, and nothing  *)
(* at all once it was refused, however validations, lost sockets and       *)
(* requests interleave.                                                    *)
NothingToStrangers == OnlyProvenReceive /\ InvalidIsLast

(* What every step keeps, and what makes the two hold: only a session in   *)
(* the command phase subscribes, it got there by a valid token, who was    *)
(* refused has no session, and a socket has none before it opens.          *)
CommandsAreProven ==
    \A s \in Sockets : /\ sessions[s].phase = "command" => s \in proven
                       /\ sessions[s].phase # "command" => sessions[s].subscriptions = {}

RefusedAreOut ==
    \A s \in Sockets : Live(s) =>
        \A i \in DOMAIN down[s] : down[s][i].type # "auth_invalid"

LiveAreOpened == \A s \in Sockets : Live(s) => s <= opened

GatewayInv ==
    /\ ListenersMatchSubscriptions /\ NothingToStrangers
    /\ CommandsAreProven /\ RefusedAreOut
=============================================================================

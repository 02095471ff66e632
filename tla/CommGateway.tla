----------------------------- MODULE CommGateway -----------------------------
(***************************************************************************)
(* The intercom of the server, comm.gateway.ts: who is connected, which    *)
(* phone can be woken by a push notification, the rooms of group calls and *)
(* the relaying of chat and call signals.  A phone of Phones is a browser  *)
(* with its own device id in local storage; every connection of it is a    *)
(* session with a client id of its own, <<phone, n>>, so a phone that      *)
(* comes back before the server noticed that it went is there twice.       *)
(*                                                                         *)
(* Socket.io keeps the messages of one connection in order in each         *)
(* direction.  Those in flight when the connection drops are lost; those a *)
(* phone emits while it is not connected wait in its send buffer and go    *)
(* out on the next connection, before anything that connection answers.    *)
(* The phone's side, which fills "out" and empties "in", is CommContext.   *)
(* A user list is shown when it is emitted: of the lists in flight only    *)
(* the last one counts.  The line "... left" that handleDisconnect adds to *)
(* the chat is left out.                                                   *)
(***************************************************************************)
EXTENDS Naturals, Sequences, SequencesExt, FiniteSets, Functions

CONSTANTS Phones,      \* browsers, each with its comm_device_id
          MaxSessions, \* bound: connections a phone makes
          Rooms,       \* names of group call rooms
          HistoryLimit \* rows that GET /comm/history returns at most

CONSTANT None          \* not a phone, a client id or a key

Clients == Phones \X (1 .. MaxSessions)
Keys    == Phones \cup Clients     \* of the device registry

ASSUME CommAssumption ==
    /\ MaxSessions \in Nat
    /\ IsFiniteSet(Rooms)
    /\ Phones \cap Clients = {} /\ None \notin Keys \cup Rooms

VARIABLES users,    \* client id -> the phone it registered as, or None
          devices,  \* device registry: key -> [push, client]
          rooms,    \* room -> client ids in it ({}: no such room)
          log,      \* chat_messages table: the messages saved, oldest first;
                    \* auxiliary in it, "heard": the sessions each was relayed to
          session,  \* phone -> number of its last connection
          on,       \* phone -> that connection is open
          in,       \* phone -> messages on their way to it
          out,      \* phone -> messages on their way to the server
          shown     \* phone -> the user list last emitted to it
serverSide == <<users, devices, rooms, log, session, on, in, out, shown>>

Cur(p)  == <<p, session[p]>>
Here(c) == on[c[1]] /\ session[c[1]] = c[2]

-----------------------------------------------------------------------------
(* What the server computes from its maps.                                 *)

\* Faulty variant: a record whose client was cleared is passed over.
UserListByRecord ==
    LET online == DOMAIN users
        away   == {k \in DOMAIN devices :
                      /\ devices[k].push # None
                      /\ devices[k].client \notin online \cup {None}}
    IN  {[id |-> c, online |-> TRUE] : c \in online}
            \cup {[id |-> k, online |-> FALSE] : k \in away}
\* An online user is listed by its client id, a phone that is away but can
\* be woken by the key of its record.
UserList ==
    LET online == DOMAIN users
        known  == {users[c] : c \in online} \ {None}
        away   == {k \in DOMAIN devices :
                      /\ devices[k].push # None
                      /\ k \notin known
                      /\ devices[k].client = None \/ devices[k].client \notin online}
    IN  {[id |-> c, online |-> TRUE] : c \in online}
            \cup {[id |-> k, online |-> FALSE] : k \in away}

RecordPush(k) == IF k \in DOMAIN devices THEN devices[k].push ELSE None

FindPushEndpoint(id) ==
    IF id \in DOMAIN users /\ users[id] # None THEN RecordPush(users[id])
                                               ELSE RecordPush(id)

\* findSocket(c)?.emit(m), for every c of C; a socket that is gone loses it.
Emitted(q, C, m) ==
    [p \in Phones |-> IF Here(Cur(p)) /\ Cur(p) \in C \cap DOMAIN users
                          THEN Append(q[p], m) ELSE q[p]]
\* those of C that Emitted reaches
Hears(C) == {c \in C \cap DOMAIN users : Here(c)}
\* server.emit(m)
Broadcast(q, m) == Emitted(q, Clients, m)

\* Faulty variant: only those in a session that registered are told.
AnnounceToKnown ==
    shown' = [p \in Phones |-> IF on'[p] /\ Cur(p) \in DOMAIN users /\ users[Cur(p)] # None
                                   THEN UserList' ELSE shown[p]]
\* server.emit('users'), after users or devices became those of this step
Announce == shown' = [p \in Phones |-> IF on'[p] THEN UserList' ELSE shown[p]]

-----------------------------------------------------------------------------
(* Connections.                                                            *)

\* welcome and the list to the new socket, the list to the others
HandleConnection(p) ==
    /\ ~on[p] /\ session[p] < MaxSessions
    /\ UNCHANGED <<devices, rooms, log, out>>
    /\ LET c == <<p, session[p] + 1>>
       IN  /\ session' = [session EXCEPT ![p] = @ + 1]
           /\ on' = [on EXCEPT ![p] = TRUE]
           /\ users' = [x \in DOMAIN users \cup {c} |->
                            IF x = c THEN None ELSE users[x]]
           /\ in' = [in EXCEPT ![p] = <<[t |-> "welcome", id |-> c]>>]
    /\ Announce

\* the phone loses its connection; the server does not know yet
Lose(p) ==
    /\ on[p]
    /\ on' = [on EXCEPT ![p] = FALSE]
    /\ in' = [in EXCEPT ![p] = <<>>]
    /\ out' = [out EXCEPT ![p] = <<>>]
    /\ UNCHANGED <<users, devices, rooms, log, session, shown>>

\* leaveRoom: what the members that stay are told
LeftRoom(q, c, r) ==
    IF c \in rooms[r]
        THEN Emitted(q, rooms[r] \ {c}, [t |-> "left", room |-> r, who |-> c])
        ELSE q

\* Faulty variant: a disconnected client stays in its rooms.
HandleDisconnectKeepsRooms(c) ==
    /\ c \in DOMAIN users /\ ~Here(c)
    /\ users' = [x \in DOMAIN users \ {c} |-> users[x]]
    /\ UNCHANGED <<devices, rooms, log, session, on, in, out>>
    /\ Announce
\* leaveRoom for every room of c: what the phone p is told
LeftRooms(p, c) ==
    LET rs == SetToSeq({r \in Rooms : {c, Cur(p)} \subseteq rooms[r]})
    IN  IF Here(Cur(p)) /\ Cur(p) \in DOMAIN users
            THEN [i \in DOMAIN rs |-> [t |-> "left", room |-> rs[i], who |-> c]]
            ELSE <<>>
\* handleDisconnect, once the server notices that the socket of c is gone
HandleDisconnect(c) ==
    /\ c \in DOMAIN users /\ ~Here(c)
    /\ users' = [x \in DOMAIN users \ {c} |-> users[x]]
    /\ rooms' = [r \in Rooms |-> rooms[r] \ {c}]
    /\ LET k == IF users[c] # None THEN users[c] ELSE c
       IN  devices' = IF k \in DOMAIN devices
                          THEN [devices EXCEPT ![k].client = None] ELSE devices
    /\ in' = [p \in Phones |-> in[p] \o LeftRooms(p, c)]
    /\ UNCHANGED <<log, session, on, out>>
    /\ Announce

-----------------------------------------------------------------------------
(* Messages of a connected client.  The sender is always known: a socket   *)
(* is open only between handleConnection and handleDisconnect of its id.   *)

Received(p, t) ==
    /\ on[p] /\ out[p] # <<>> /\ Head(out[p]).t = t
    /\ out' = [out EXCEPT ![p] = Tail(@)]

\* Faulty variant: the record of the phone is made anew.
RegisterForgets(p) ==
    /\ Received(p, "register")
    /\ users' = [users EXCEPT ![Cur(p)] = p]
    /\ devices' = [k \in DOMAIN devices \cup {p} |->
                      IF k = p THEN [push |-> None, client |-> Cur(p)]
                               ELSE devices[k]]
    /\ UNCHANGED <<rooms, log, session, on, in>>
    /\ Announce
\* register: the session is that of the phone, whose record keeps its endpoint
Register(p) ==
    /\ Received(p, "register")
    /\ users' = [users EXCEPT ![Cur(p)] = p]
    /\ devices' = [k \in DOMAIN devices \cup {p} |->
                      IF k = p THEN [push |-> RecordPush(p), client |-> Cur(p)]
                               ELSE devices[k]]
    /\ UNCHANGED <<rooms, log, session, on, in>>
    /\ Announce

\* register_push: under the phone if the session registered, else under the
\* client id; the client of an existing record stays
RegisterPush(p) ==
    /\ Received(p, "push")
    /\ LET k   == IF users[Cur(p)] # None THEN users[Cur(p)] ELSE Cur(p)
           old == IF k \in DOMAIN devices THEN devices[k].client ELSE Cur(p)
       IN  devices' = [x \in DOMAIN devices \cup {k} |->
                          IF x = k THEN [push |-> p, client |-> old]
                                   ELSE devices[x]]
    /\ UNCHANGED users
    /\ UNCHANGED <<rooms, log, session, on, in>>
    /\ Announce

\* chat_message: saved (an error of the database is swallowed) and relayed,
\* to everyone or to the addressee and back to the sender
ChatMessage(p) ==
    /\ Received(p, "chat")
    /\ LET h == Head(out[p])
           m == [id |-> h.id, from |-> Cur(p), to |-> h.to]
           C == IF h.to = None THEN Clients ELSE {h.to}
           row == [id |-> h.id, to |-> h.to,
                   heard |-> Hears(C) \cup (IF h.to = None THEN {} ELSE {Cur(p)})]
           echo == [in EXCEPT ![p] = Append(@, [t |-> "chat", m |-> m])]
       IN  /\ \E saved \in BOOLEAN : log' = IF saved THEN Append(log, row) ELSE log
           /\ in' = IF h.to = None
                        THEN Emitted(in, C, [t |-> "chat", m |-> m])
                        ELSE Emitted(echo, C, [t |-> "chat", m |-> m])
    /\ UNCHANGED <<users, devices, rooms, session, on, shown>>

ReadReceipt(p) ==
    /\ Received(p, "receipt")
    /\ in' = Broadcast(in, [t |-> "receipt", id |-> Head(out[p]).id,
                                             reader |-> Head(out[p]).reader])
    /\ UNCHANGED <<users, devices, rooms, log, session, on, shown>>

\* signal: relayed to the addressee if it is there.  The push notification
\* of an offer changes nothing here.
Signal(p) ==
    /\ Received(p, "signal")
    /\ in' = Emitted(in, {Head(out[p]).to},
                     [t |-> "signal", type |-> Head(out[p]).type, from |-> Cur(p)])
    /\ UNCHANGED <<users, devices, rooms, log, session, on, shown>>

\* Faulty variant: those in the room are not told.
JoinGroupCallUntold(p) ==
    /\ Received(p, "join")
    /\ LET r == Head(out[p]).room
       IN  /\ rooms' = [rooms EXCEPT ![r] = @ \cup {Cur(p)}]
           /\ in' = [in EXCEPT ![p] = Append(@, [t |-> "peers", room |-> r, who |-> rooms[r]])]
    /\ UNCHANGED <<users, devices, log, session, on, shown>>
JoinGroupCall(p) ==
    /\ Received(p, "join")
    /\ LET r == Head(out[p]).room
           told == [in EXCEPT ![p] = Append(@,
                       [t |-> "peers", room |-> r, who |-> rooms[r] \cap DOMAIN users])]
       IN  /\ rooms' = [rooms EXCEPT ![r] = @ \cup {Cur(p)}]
           /\ in' = Emitted(told, rooms[r] \ {Cur(p)},
                            [t |-> "join", room |-> r, who |-> Cur(p)])
    /\ UNCHANGED <<users, devices, log, session, on, shown>>

LeaveGroupCall(p) ==
    /\ Received(p, "leave")
    /\ LET r == Head(out[p]).room
       IN  /\ rooms' = [rooms EXCEPT ![r] = @ \ {Cur(p)}]
           /\ in' = LeftRoom(in, Cur(p), r)
    /\ UNCHANGED <<users, devices, log, session, on, shown>>

\* deliverVoiceMessage, called by the upload of a voice message
DeliverVoiceMessage(id, to) ==
    in' = Emitted(in, IF to = None THEN Clients ELSE {to}, [t |-> "voice", id |-> id])

=============================================================================

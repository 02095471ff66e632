----------------------------- MODULE CommProofs -----------------------------
(* Proofs about the intercom: the registries and lists of the server       *)
(* (CommGateway), the call screens of the phones, their group calls and    *)
(* the messages they show (CommContext).                                   *)
EXTENDS CommContext, SequenceTheorems, FiniteSetTheorems, TLAPS

-----------------------------------------------------------------------------
(* The server.                                                             *)

(* A session of users was opened, and that of a connected phone is there.  *)
SessionsAreKnown ==
    /\ session \in [Phones -> 0 .. MaxSessions] /\ on \in [Phones -> BOOLEAN]
    /\ DOMAIN users \subseteq Clients /\ IsFiniteSet(DOMAIN users)
    /\ \A c \in DOMAIN users : users[c] \in {c[1], None} /\ c[2] <= session[c[1]]
    /\ \A p \in Phones : on[p] => Cur(p) \in DOMAIN users

(* The record of a phone names a session of that phone that registered, or *)
(* one that is gone.                                                       *)
RecordsAreTrue ==
    /\ DOMAIN devices \subseteq Keys
    /\ \A k \in DOMAIN devices :
          /\ devices[k].push \in Phones \cup {None}
          /\ devices[k].client \in Clients \cup {None}
          /\ devices[k].client # None =>
                devices[k].client[2] <= session[devices[k].client[1]]
          /\ k \in Phones /\ devices[k].client \in DOMAIN users
                => users[devices[k].client] = k

ShownAreKeys == shown \in [Phones -> SUBSET [id : Keys, online : BOOLEAN]]

ServerInv ==
    /\ SessionsAreKnown /\ RecordsAreTrue
    /\ rooms \in [Rooms -> SUBSET Clients] /\ RoomsHoldClients
    /\ ShownAreKeys /\ AwayCanBeRung /\ ListIsCurrent

LEMMA Numbers == MaxSessions \in Nat /\ Phones \cap Clients = {} /\ None \notin Keys
BY CommAssumption DEF CommAssumption

LEMMA ServerInitially == CommInit => ServerInv
<1> SUFFICES ASSUME CommInit PROVE ServerInv
    OBVIOUS
<1> USE Numbers DEF CommInit
<1>1. DOMAIN users = {} /\ DOMAIN devices = {}
  OBVIOUS
<1>2. SessionsAreKnown
  BY <1>1, FS_EmptySet DEF SessionsAreKnown
<1>3. RecordsAreTrue
  BY <1>1 DEF RecordsAreTrue
<1> QED BY <1>1, <1>2, <1>3 DEF ServerInv, RoomsHoldClients, ShownAreKeys, AwayCanBeRung,
           ListIsCurrent

(* A list that is announced is current, and leads to endpoints, if no      *)
(* endpoint was lost.                                                      *)
LEMMA AnnouncedIsCurrent ==
    ASSUME ServerInv, SessionsAreKnown', RecordsAreTrue', Announce,
           \A k \in Keys : RecordPush(k) # None => RecordPush(k)' # None
    PROVE  ShownAreKeys' /\ AwayCanBeRung' /\ ListIsCurrent'
<1>1. \A e \in UserList' : /\ e \in [id : Keys, online : BOOLEAN]
                           /\ ~e.online => RecordPush(e.id)' # None
  <2>1. ASSUME NEW e \in UserList'
        PROVE  \/ \E c \in (DOMAIN users)' : e = [id |-> c, online |-> TRUE]
               \/ \E k \in (DOMAIN devices)' : /\ e = [id |-> k, online |-> FALSE]
                                              /\ devices'[k].push # None
    BY DEF UserList
  <2>2. (DOMAIN users)' \subseteq Keys /\ (DOMAIN devices)' \subseteq Keys
    BY DEF SessionsAreKnown, RecordsAreTrue, Keys
  <2>3. ASSUME NEW c \in (DOMAIN users)', NEW e, e = [id |-> c, online |-> TRUE]
        PROVE  e \in [id : Keys, online : BOOLEAN] /\ e.online
    BY <2>2, <2>3
  <2>4. ASSUME NEW k \in (DOMAIN devices)', NEW e, e = [id |-> k, online |-> FALSE],
               devices'[k].push # None
        PROVE  e \in [id : Keys, online : BOOLEAN] /\ RecordPush(e.id)' # None
    BY <2>2, <2>4 DEF RecordPush
  <2> QED BY <2>1, <2>3, <2>4
<1>2. \A p \in Phones : shown'[p] = IF on'[p] THEN UserList' ELSE shown[p]
  BY DEF Announce
<1>3. \A p \in Phones : \A e \in shown[p] : ~e.online => RecordPush(e.id)' # None
  BY DEF ServerInv, ShownAreKeys, AwayCanBeRung
<1>4. ShownAreKeys'
  BY <1>1, Zenon DEF ServerInv, ShownAreKeys, Announce
<1>5. AwayCanBeRung'
  BY <1>1, <1>2, <1>3 DEF AwayCanBeRung
<1> QED BY <1>2, <1>4, <1>5 DEF ListIsCurrent

LEMMA ConnectionKeeps ==
    ASSUME ServerInv, NEW p \in Phones, HandleConnection(p) PROVE ServerInv'
<1> DEFINE c == <<p, session[p] + 1>>
<1> USE Numbers
<1>1. /\ ~on[p] /\ session[p] < MaxSessions /\ UNCHANGED <<devices, rooms>>
      /\ session' = [session EXCEPT ![p] = @ + 1] /\ on' = [on EXCEPT ![p] = TRUE]
      /\ users' = [x \in DOMAIN users \cup {c} |-> IF x = c THEN None ELSE users[x]]
      /\ Announce
  BY DEF HandleConnection
<1>2. session[p] \in 0 .. MaxSessions /\ c \in Clients /\ session' \in [Phones -> 0 .. MaxSessions]
  BY <1>1 DEF ServerInv, SessionsAreKnown, Clients
<1>3. \A d \in Clients : d[1] \in Phones /\ d[2] \in Nat
  BY DEF Clients
<1>4. \A d \in Clients : d[2] <= session[d[1]] => d # c /\ d[2] <= session'[d[1]]
  BY <1>1, <1>2, <1>3 DEF ServerInv, SessionsAreKnown
<1> HIDE DEF c
<1>5. SessionsAreKnown'
  <2>1. \A d \in (DOMAIN users)' : users'[d] \in {d[1], None} /\ d[2] <= session'[d[1]]
    BY <1>1, <1>2, <1>4 DEF ServerInv, SessionsAreKnown, c
  <2>2. ASSUME NEW q \in Phones, on'[q] PROVE Cur(q)' \in (DOMAIN users)'
    BY <1>1, <2>2 DEF ServerInv, SessionsAreKnown, Cur, c
  <2>3. on' \in [Phones -> BOOLEAN] /\ (DOMAIN users)' \subseteq Clients
    BY <1>1, <1>2 DEF ServerInv, SessionsAreKnown
  <2>4. IsFiniteSet((DOMAIN users)')
    BY <1>1, FS_AddElement DEF ServerInv, SessionsAreKnown
  <2> QED BY <1>2, <2>1, <2>2, <2>3, <2>4 DEF SessionsAreKnown
<1>6. RecordsAreTrue'
  <2> SUFFICES ASSUME NEW k \in DOMAIN devices
               PROVE  /\ devices[k].client # None =>
                           devices[k].client[2] <= session'[devices[k].client[1]]
                      /\ k \in Phones /\ devices[k].client \in (DOMAIN users)'
                           => users'[devices[k].client] = k
    BY <1>1 DEF ServerInv, RecordsAreTrue
  <2>1. CASE devices[k].client = None
    BY <2>1, <1>5 DEF SessionsAreKnown, Keys
  <2>2. CASE devices[k].client # None
    <3>1. devices[k].client \in Clients /\ devices[k].client # c
          /\ devices[k].client[2] <= session'[devices[k].client[1]]
      BY <1>4, <2>2 DEF ServerInv, RecordsAreTrue
    <3>2. k \in Phones /\ devices[k].client \in DOMAIN users => users[devices[k].client] = k
      BY DEF ServerInv, RecordsAreTrue
    <3> QED BY <1>1, <3>1, <3>2
  <2> QED BY <2>1, <2>2
<1>7. rooms' \in [Rooms -> SUBSET Clients] /\ RoomsHoldClients'
  BY <1>1 DEF ServerInv, RoomsHoldClients
<1>8. ShownAreKeys' /\ AwayCanBeRung' /\ ListIsCurrent'
  BY <1>1, <1>5, <1>6, AnnouncedIsCurrent DEF RecordPush
<1> QED BY <1>5, <1>6, <1>7, <1>8 DEF ServerInv

LEMMA DropKeeps ==
    ASSUME ServerInv, NEW p \in Phones, Lose(p) PROVE ServerInv'
<1>1. on' = [on EXCEPT ![p] = FALSE] /\ UNCHANGED <<users, devices, rooms, session, shown>>
  BY DEF Lose
<1>2. SessionsAreKnown' /\ RecordsAreTrue'
  BY <1>1 DEF ServerInv, SessionsAreKnown, RecordsAreTrue, Cur
<1>3. /\ rooms' \in [Rooms -> SUBSET Clients] /\ RoomsHoldClients'
      /\ ShownAreKeys' /\ AwayCanBeRung'
  BY <1>1 DEF ServerInv, RoomsHoldClients, ShownAreKeys, AwayCanBeRung, RecordPush
<1>4. UserList' = UserList /\ \A q \in Phones : on'[q] => on[q]
  BY <1>1 DEF UserList, ServerInv, SessionsAreKnown
<1>5. ListIsCurrent'
  BY <1>1, <1>4 DEF ServerInv, ListIsCurrent
<1> QED BY <1>2, <1>3, <1>5 DEF ServerInv

(* The end of a session clears the client of its record, whose endpoint    *)
(* stays, and takes it out of every room.                                  *)
LEMMA DisconnectKeeps ==
    ASSUME ServerInv, NEW c \in Clients, HandleDisconnect(c) PROVE ServerInv'
<1> DEFINE k == IF users[c] # None THEN users[c] ELSE c
<1>1. /\ c \in DOMAIN users /\ ~Here(c)
      /\ users' = [x \in DOMAIN users \ {c} |-> users[x]]
      /\ rooms' = [r \in Rooms |-> rooms[r] \ {c}]
      /\ devices' = IF k \in DOMAIN devices
                        THEN [devices EXCEPT ![k].client = None] ELSE devices
      /\ UNCHANGED <<session, on>> /\ Announce
  BY DEF HandleDisconnect
<1>2. /\ (DOMAIN devices)' = DOMAIN devices
      /\ \A x \in DOMAIN devices : /\ devices'[x].push = devices[x].push
                                   /\ devices'[x].client \in {devices[x].client, None}
  BY <1>1
<1>3. \A p \in Phones : Cur(p)' = Cur(p) /\ (on[p] => Cur(p) # c)
  BY <1>1 DEF Cur, Here
<1>4. SessionsAreKnown'
  <2>1. IsFiniteSet((DOMAIN users)')
    BY <1>1, FS_RemoveElement DEF ServerInv, SessionsAreKnown
  <2> QED BY <1>1, <1>3, <2>1 DEF ServerInv, SessionsAreKnown
<1>5. RecordsAreTrue'
  <2>1. \A x \in DOMAIN devices :
           /\ devices'[x].push \in Phones \cup {None}
           /\ devices'[x].client \in Clients \cup {None}
           /\ devices'[x].client # None => devices'[x].client = devices[x].client
    BY <1>2 DEF ServerInv, RecordsAreTrue
  <2>2. None \notin DOMAIN users
    BY Numbers DEF ServerInv, SessionsAreKnown, Keys
  <2>3. \A x \in DOMAIN devices :
           /\ devices'[x].client # None =>
                 devices'[x].client[2] <= session'[devices'[x].client[1]]
           /\ x \in Phones /\ devices'[x].client \in (DOMAIN users)'
                 => users'[devices'[x].client] = x
    BY <1>1, <2>1, <2>2 DEF ServerInv, RecordsAreTrue
  <2> QED BY <1>2, <2>1, <2>3 DEF ServerInv, RecordsAreTrue
<1>6. rooms' \in [Rooms -> SUBSET Clients] /\ RoomsHoldClients'
  BY <1>1 DEF ServerInv, RoomsHoldClients
<1>7. ShownAreKeys' /\ AwayCanBeRung' /\ ListIsCurrent'
  BY <1>1, <1>2, <1>4, <1>5, AnnouncedIsCurrent DEF RecordPush
<1> QED BY <1>4, <1>5, <1>6, <1>7 DEF ServerInv

LEMMA RegisterKeeps ==
    ASSUME ServerInv, NEW p \in Phones, Register(p), on[p] PROVE ServerInv'
<1>1. /\ users' = [users EXCEPT ![Cur(p)] = p]
      /\ devices' = [k \in DOMAIN devices \cup {p} |->
                        IF k = p THEN [push |-> RecordPush(p), client |-> Cur(p)]
                                 ELSE devices[k]]
      /\ UNCHANGED <<rooms, session, on>> /\ Announce
  BY DEF Register
<1>2. /\ Cur(p) \in DOMAIN users /\ Cur(p) \in Clients /\ p \in Keys
      /\ Cur(p)[1] = p /\ Cur(p)[2] = session[p] /\ Cur(p) # None
      /\ session[p] \in Nat
  BY Numbers DEF ServerInv, SessionsAreKnown, Cur, Keys
<1>3. RecordPush(p) \in Phones \cup {None}
  BY DEF ServerInv, RecordsAreTrue, RecordPush
<1>4. /\ (DOMAIN users)' = DOMAIN users /\ (DOMAIN devices)' = DOMAIN devices \cup {p}
      /\ users'[Cur(p)] = p /\ \A c \in DOMAIN users : c # Cur(p) => users'[c] = users[c]
      /\ devices'[p].push = RecordPush(p) /\ devices'[p].client = Cur(p)
      /\ \A k \in DOMAIN devices : k # p => devices'[k] = devices[k]
  BY <1>1, <1>2
<1>5. SessionsAreKnown'
  BY <1>1, <1>2, <1>4 DEF ServerInv, SessionsAreKnown, Cur
<1>6. RecordsAreTrue'
  <2>1. ASSUME NEW k \in DOMAIN devices, k # p, k \in Phones, devices[k].client \in DOMAIN users
        PROVE  devices[k].client # Cur(p)
    BY <1>2, <2>1, Numbers DEF ServerInv, RecordsAreTrue, SessionsAreKnown, Keys
  <2>2. ASSUME NEW k \in DOMAIN devices \cup {p}
        PROVE  /\ devices'[k].push \in Phones \cup {None}
               /\ devices'[k].client \in Clients \cup {None}
               /\ devices'[k].client # None =>
                     devices'[k].client[2] <= session[devices'[k].client[1]]
               /\ k \in Phones /\ devices'[k].client \in DOMAIN users
                     => users'[devices'[k].client] = k
    BY <1>2, <1>3, <1>4, <2>1 DEF ServerInv, RecordsAreTrue
  <2> QED BY <1>1, <1>2, <1>4, <2>2 DEF RecordsAreTrue, ServerInv
<1>7. rooms' \in [Rooms -> SUBSET Clients] /\ RoomsHoldClients'
  BY <1>1, <1>4 DEF ServerInv, RoomsHoldClients
<1>8. ShownAreKeys' /\ AwayCanBeRung' /\ ListIsCurrent'
  BY <1>1, <1>4, <1>5, <1>6, AnnouncedIsCurrent DEF RecordPush
<1> QED BY <1>5, <1>6, <1>7, <1>8 DEF ServerInv

LEMMA RegisterPushKeeps ==
    ASSUME ServerInv, NEW p \in Phones, RegisterPush(p), on[p] PROVE ServerInv'
<1> DEFINE k   == IF users[Cur(p)] # None THEN users[Cur(p)] ELSE Cur(p)
           old == IF k \in DOMAIN devices THEN devices[k].client ELSE Cur(p)
<1>1. /\ devices' = [x \in DOMAIN devices \cup {k} |->
                        IF x = k THEN [push |-> p, client |-> old] ELSE devices[x]]
      /\ UNCHANGED <<users, rooms, session, on>> /\ Announce
  BY DEF RegisterPush
<1>2. /\ Cur(p) \in DOMAIN users /\ Cur(p) \in Clients
      /\ Cur(p)[1] = p /\ Cur(p)[2] = session[p] /\ Cur(p) # None /\ p # None
      /\ session[p] \in Nat
  BY Numbers DEF ServerInv, SessionsAreKnown, Cur, Keys
<1>3. k \in Keys /\ (k \in Phones => k = p /\ users[Cur(p)] = p)
  BY <1>2, Numbers DEF ServerInv, SessionsAreKnown, Keys
<1>4. /\ old \in Clients \cup {None}
      /\ old # None => old[2] <= session[old[1]]
      /\ k \in Phones /\ old \in DOMAIN users => users[old] = k
  BY <1>2, <1>3 DEF ServerInv, RecordsAreTrue
<1> HIDE DEF k, old
<1>5. /\ (DOMAIN devices)' = DOMAIN devices \cup {k}
      /\ devices'[k].push = p /\ devices'[k].client = old
      /\ \A x \in DOMAIN devices : x # k => devices'[x] = devices[x]
  BY <1>1
<1>6. SessionsAreKnown'
  BY <1>1 DEF ServerInv, SessionsAreKnown, Cur
<1>7. RecordsAreTrue'
  BY <1>1, <1>3, <1>4, <1>5 DEF ServerInv, RecordsAreTrue
<1>8. rooms' \in [Rooms -> SUBSET Clients] /\ RoomsHoldClients'
  BY <1>1 DEF ServerInv, RoomsHoldClients
<1>9. ShownAreKeys' /\ AwayCanBeRung' /\ ListIsCurrent'
  BY <1>1, <1>2, <1>5, <1>6, <1>7, AnnouncedIsCurrent DEF RecordPush
<1> QED BY <1>6, <1>7, <1>8, <1>9 DEF ServerInv

LEMMA RoomStepKeeps ==
    ASSUME ServerInv, NEW p \in Phones, on[p], JoinGroupCall(p) \/ LeaveGroupCall(p)
    PROVE  ServerInv'
<1>1. PICK r : \/ rooms' = [rooms EXCEPT ![r] = @ \cup {Cur(p)}]
               \/ rooms' = [rooms EXCEPT ![r] = @ \ {Cur(p)}]
  BY DEF JoinGroupCall, LeaveGroupCall
<1>2. UNCHANGED <<users, devices, session, on, shown>>
  BY DEF JoinGroupCall, LeaveGroupCall
<1>3. Cur(p) \in DOMAIN users /\ DOMAIN users \subseteq Clients
  BY DEF ServerInv, SessionsAreKnown
<1>4. rooms' \in [Rooms -> SUBSET Clients] /\ RoomsHoldClients'
  BY <1>1, <1>2, <1>3 DEF ServerInv, RoomsHoldClients
<1>5. UserList' = UserList
  BY <1>2 DEF UserList
<1> QED BY <1>2, <1>4, <1>5 DEF ServerInv, SessionsAreKnown, RecordsAreTrue, Cur,
           ShownAreKeys, AwayCanBeRung, RecordPush, ListIsCurrent

LEMMA RelayKeeps ==
    ASSUME ServerInv, UNCHANGED <<users, devices, rooms, session, on, shown>> PROVE ServerInv'
<1>1. UserList' = UserList
  BY DEF UserList
<1> QED BY <1>1 DEF ServerInv, SessionsAreKnown, RecordsAreTrue, Cur, RoomsHoldClients,
           ShownAreKeys, AwayCanBeRung, RecordPush, ListIsCurrent

(* Every phone that can be woken is in the list, under an id that leads    *)
(* to its endpoint.                                                        *)
LEMMA RecordsLead == ServerInv => EveryPhoneReachable
<1> SUFFICES ASSUME ServerInv, NEW p \in Phones, RecordPush(p) = p
             PROVE  \E e \in UserList : FindPushEndpoint(e.id) = p
    BY DEF EveryPhoneReachable
<1>1. p \in DOMAIN devices /\ devices[p].push = p /\ p # None /\ p \notin DOMAIN users
  BY Numbers DEF RecordPush, Keys, ServerInv, SessionsAreKnown
<1>2. CASE \E c \in DOMAIN users : users[c] = p
  <2>1. PICK c \in DOMAIN users : users[c] = p
    BY <1>2
  <2>2. [id |-> c, online |-> TRUE] \in UserList
    BY DEF UserList
  <2>3. FindPushEndpoint(c) = p
    BY <1>1, <2>1 DEF FindPushEndpoint
  <2> QED BY <2>2, <2>3
<1>3. CASE ~\E c \in DOMAIN users : users[c] = p
  <2>1. devices[p].client \notin DOMAIN users
    BY <1>1, <1>3 DEF ServerInv, RecordsAreTrue
  <2>2. [id |-> p, online |-> FALSE] \in UserList
    BY <1>1, <1>3, <2>1 DEF UserList
  <2>3. FindPushEndpoint(p) = p
    BY <1>1 DEF FindPushEndpoint
  <2> QED BY <2>2, <2>3
<1> QED BY <1>2, <1>3

-----------------------------------------------------------------------------
(* What is on its way to the phones: any sequence of messages, of which    *)
(* the signals name the client they come from; a list of members is finite. *)
Named(m) == /\ m.t = "signal" => m.from \in Clients
            /\ m.t = "peers" => IsFiniteSet(m.who)
Inbox(q) == q \in Seq(Range(q)) /\ \A i \in 1 .. Len(q) : Named(q[i])
InboxInv == DOMAIN in = Phones /\ \A p \in Phones : Inbox(in[p])

LEMMA InboxOf ==
    ASSUME NEW S, NEW q \in Seq(S), \A i \in 1 .. Len(q) : Named(q[i]) PROVE Inbox(q)
BY SeqOfRange DEF Inbox

LEMMA InboxAppended ==
    ASSUME NEW q, Inbox(q), NEW m, Named(m) PROVE Inbox(Append(q, m))
<1> DEFINE S == Range(q) \cup {m}
<1>1. q \in Seq(S)
  BY DEF Inbox
<1> HIDE DEF S
<1>2. Append(q, m) \in Seq(S) /\ \A i \in 1 .. Len(Append(q, m)) : Named(Append(q, m)[i])
  BY <1>1, AppendProperties DEF S, Inbox
<1> QED BY <1>2, InboxOf

LEMMA InboxTail ==
    ASSUME NEW q, Inbox(q), q # <<>> PROVE Inbox(Tail(q)) /\ Named(Head(q))
<1>1. q \in Seq(Range(q))
  BY DEF Inbox
<1> DEFINE S == Range(q)
<1> HIDE DEF S
<1>2. /\ Tail(q) \in Seq(S) /\ Len(Tail(q)) = Len(q) - 1 /\ Len(q) \in Nat \ {0}
      /\ \A i \in 1 .. Len(q) - 1 : Tail(q)[i] = q[i + 1]
      /\ Head(q) = q[1]
  BY <1>1 DEF S
<1>3. \A i \in 1 .. Len(Tail(q)) : Named(Tail(q)[i])
  BY <1>2 DEF Inbox
<1>4. Inbox(Tail(q))
  BY <1>2, <1>3, InboxOf
<1>5. Named(Head(q))
  BY <1>2 DEF Inbox
<1> QED BY <1>4, <1>5

LEMMA InboxJoined ==
    ASSUME NEW q, Inbox(q), NEW r, Inbox(r) PROVE Inbox(q \o r)
<1> DEFINE S == Range(q) \cup Range(r)
<1>1. q \in Seq(S) /\ r \in Seq(S)
  BY DEF Inbox
<1> HIDE DEF S
<1>2. /\ q \o r \in Seq(S) /\ Len(q \o r) = Len(q) + Len(r)
      /\ \A i \in 1 .. Len(q) + Len(r) :
            (q \o r)[i] = IF i <= Len(q) THEN q[i] ELSE r[i - Len(q)]
  BY <1>1, ConcatProperties, Zenon
<1>3. Len(q) \in Nat /\ Len(r) \in Nat
  BY <1>1
<1>4. ASSUME NEW i \in 1 .. Len(q) + Len(r) PROVE Named((q \o r)[i])
  <2>1. CASE i <= Len(q)
    BY <1>2, <1>3, <2>1 DEF Inbox
  <2>2. CASE ~(i <= Len(q))
    <3>1. i - Len(q) \in 1 .. Len(r)
      BY <1>3, <2>2
    <3> QED BY <1>2, <2>2, <3>1 DEF Inbox
  <2> QED BY <2>1, <2>2
<1> QED BY <1>2, <1>4, InboxOf

LEMMA InboxSingle == ASSUME NEW m, Named(m) PROVE Inbox(<<m>>)
<1>1. <<m>> \in Seq({m}) /\ Len(<<m>>) = 1 /\ <<m>>[1] = m
  OBVIOUS
<1> DEFINE q == <<m>>
<1>2. q \in Seq({m}) /\ \A i \in 1 .. Len(q) : Named(q[i])
  BY <1>1
<1> HIDE DEF q
<1>3. Inbox(q)
  BY <1>2, InboxOf
<1> QED BY <1>3 DEF q

LEMMA InboxEmpty == Inbox(<<>>)
<1> DEFINE q == <<>>
<1>1. q \in Seq({}) /\ Len(q) = 0
  OBVIOUS
<1> HIDE DEF q
<1>2. \A i \in 1 .. Len(q) : Named(q[i])
  BY <1>1
<1>3. Inbox(q)
  BY <1>1, <1>2, InboxOf
<1> QED BY <1>3 DEF q

LEMMA InboxEmitted ==
    ASSUME NEW q, \A p \in Phones : Inbox(q[p]), NEW C, NEW m, Named(m)
    PROVE  DOMAIN Emitted(q, C, m) = Phones /\ \A p \in Phones : Inbox(Emitted(q, C, m)[p])
BY InboxAppended DEF Emitted

LEMMA SetAsSequence ==
    ASSUME NEW S, IsFiniteSet(S)
    PROVE  /\ Cardinality(S) \in Nat /\ SetToSeq(S) \in [1 .. Cardinality(S) -> S]
           /\ \A d \in S : \E i \in 1 .. Cardinality(S) : SetToSeq(S)[i] = d
<1>1. Cardinality(S) \in Nat /\ ExistsBijection(1 .. Cardinality(S), S)
  BY FS_CardinalityType
<1>2. PICK f : f \in Bijection(1 .. Cardinality(S), S)
  BY <1>1 DEF ExistsBijection
<1>3. f \in [1 .. Cardinality(S) -> S] /\ IsInjective(f)
  BY <1>2 DEF Bijection, Injection
<1> DEFINE n == Cardinality(S)
           g == SetToSeq(S)
<1>4. g \in [1 .. n -> S] /\ IsInjective(g)
  BY <1>3 DEF SetToSeq
<1>5. Cardinality(1 .. n) = n
  BY <1>1, FS_Interval
<1>6. g \in Surjection(1 .. n, S)
  <2>1. g \in Injection(1 .. n, S)
    BY <1>4 DEF Injection
  <2> HIDE DEF n, g
  <2> QED BY <1>5, <2>1, FS_Injection DEF n
<1> QED BY <1>1, <1>4, <1>6 DEF Surjection

LEMMA FunctionAsSequence ==
    ASSUME NEW n \in Nat, NEW M, NEW q \in [1 .. n -> M]
    PROVE  q \in Seq(M) /\ \A i \in 1 .. Len(q) : q[i] \in M
OBVIOUS

LEMMA InboxLeft ==
    ASSUME NEW p, NEW c PROVE Inbox(LeftRooms(p, c))
<1> DEFINE R  == {r \in Rooms : {c, Cur(p)} \subseteq rooms[r]}
           rs == SetToSeq(R)
           M  == {[t |-> "left", room |-> r, who |-> c] : r \in R}
           q  == [i \in DOMAIN rs |-> [t |-> "left", room |-> rs[i], who |-> c]]
<1>1. IsFiniteSet(R)
  BY CommAssumption, FS_Subset DEF CommAssumption
<1>2. Cardinality(R) \in Nat /\ rs \in [1 .. Cardinality(R) -> R]
  BY <1>1, SetAsSequence
<1>3. q \in [1 .. Cardinality(R) -> M]
  BY <1>2
<1>5. \A m \in M : Named(m)
  BY DEF Named
<1> HIDE DEF M, q
<1>4. q \in Seq(M) /\ \A i \in 1 .. Len(q) : q[i] \in M
  BY <1>2, <1>3, FunctionAsSequence
<1>6. Inbox(q)
  BY <1>4, <1>5, InboxOf
<1>7. LeftRooms(p, c) = q \/ LeftRooms(p, c) = <<>>
  BY DEF LeftRooms, q
<1> QED BY <1>6, <1>7, InboxEmpty

(* Every step of the server, and of a phone, leaves such sequences.        *)
LEMMA InboxServer ==
    ASSUME InboxInv, IsFiniteSet(DOMAIN users),
           \/ \E p \in Phones :
                \/ HandleConnection(p) \/ Lose(p) \/ Register(p) \/ RegisterPush(p)
                \/ ChatMessage(p) \/ ReadReceipt(p) \/ JoinGroupCall(p) \/ LeaveGroupCall(p)
                \/ (\E t : Got(p, t))
           \/ \E p \in Phones : Signal(p) /\ Cur(p) \in Clients
           \/ \E c : HandleDisconnect(c)
           \/ \E id, to : DeliverVoiceMessage(id, to)
    PROVE  InboxInv'
<1> USE DEF InboxInv
<1>1. ASSUME NEW p \in Phones, NEW q, Inbox(q), in' = [in EXCEPT ![p] = q] PROVE InboxInv'
  BY <1>1
<1>2. ASSUME NEW q, \A p \in Phones : Inbox(q[p]), NEW C, NEW m, Named(m), in' = Emitted(q, C, m)
      PROVE  InboxInv'
  BY <1>2, InboxEmitted
<1>3. ASSUME NEW p \in Phones, HandleConnection(p) PROVE InboxInv'
  <2>1. in' = [in EXCEPT ![p] = <<[t |-> "welcome", id |-> <<p, session[p] + 1>>]>>]
    BY <1>3 DEF HandleConnection
  <2> QED BY <2>1, <1>1, InboxSingle DEF Named
<1>4. ASSUME NEW p \in Phones, Lose(p) PROVE InboxInv'
  BY <1>4, <1>1, InboxEmpty DEF Lose
<1>5. ASSUME NEW p \in Phones, Register(p) \/ RegisterPush(p) PROVE InboxInv'
  BY <1>5 DEF Register, RegisterPush
<1>6. ASSUME NEW p \in Phones, ChatMessage(p) PROVE InboxInv'
  <2>1. PICK m : /\ m.t = "chat"
                 /\ \E C : \/ in' = Emitted(in, C, m)
                           \/ in' = Emitted([in EXCEPT ![p] = Append(@, m)], C, m)
    <3> DEFINE h == Head(out[p])
               w == [id |-> h.id, from |-> Cur(p), to |-> h.to]
               m == [t |-> "chat", m |-> w]
    <3>1. \E C : \/ in' = Emitted(in, C, m)
                \/ in' = Emitted([in EXCEPT ![p] = Append(@, m)], C, m)
      BY <1>6 DEF ChatMessage
    <3>2. m.t = "chat"
      OBVIOUS
    <3> HIDE DEF m
    <3> QED BY <3>1, <3>2
  <2>2. Named(m)
    BY <2>1 DEF Named
  <2>3. \A q \in Phones : Inbox([in EXCEPT ![p] = Append(@, m)][q])
    BY <2>2, InboxAppended
  <2> QED BY <2>1, <2>2, <2>3, <1>2
<1>7. ASSUME NEW p \in Phones, ReadReceipt(p) PROVE InboxInv'
  <2>1. in' = Emitted(in, Clients, [t |-> "receipt", id |-> Head(out[p]).id,
                                    reader |-> Head(out[p]).reader])
    BY <1>7 DEF ReadReceipt, Broadcast
  <2>2. Named([t |-> "receipt", id |-> Head(out[p]).id, reader |-> Head(out[p]).reader])
    BY DEF Named
  <2> QED BY <2>1, <2>2, <1>2
<1>8. ASSUME NEW p \in Phones, NEW r, NEW c, in' = LeftRoom(in, c, r) PROVE InboxInv'
  <2>1. Named([t |-> "left", room |-> r, who |-> c])
    BY DEF Named
  <2> QED BY <1>8, <2>1, <1>2 DEF LeftRoom
<1>9. ASSUME NEW p \in Phones, LeaveGroupCall(p) PROVE InboxInv'
  BY <1>8, <1>9 DEF LeaveGroupCall
<1>10. ASSUME NEW p \in Phones, JoinGroupCall(p) PROVE InboxInv'
  <2> DEFINE r == Head(out[p]).room
             m == [t |-> "peers", room |-> r, who |-> rooms[r] \cap DOMAIN users]
             n == [t |-> "join", room |-> r, who |-> Cur(p)]
  <2>1. in' = Emitted([in EXCEPT ![p] = Append(@, m)], rooms[r] \ {Cur(p)}, n)
    BY <1>10 DEF JoinGroupCall
  <2>2. Named(m) /\ Named(n)
    BY FS_Subset DEF Named
  <2> HIDE DEF r, m, n
  <2>3. \A q \in Phones : Inbox([in EXCEPT ![p] = Append(@, m)][q])
    BY <2>2, InboxAppended
  <2> QED BY <2>1, <2>2, <2>3, <1>2
<1>11. ASSUME NEW p \in Phones, NEW t, Got(p, t) PROVE InboxInv'
  BY <1>11, <1>1, InboxTail DEF Got
<1>12. ASSUME NEW p \in Phones, Signal(p), Cur(p) \in Clients PROVE InboxInv'
  <2>1. in' = Emitted(in, {Head(out[p]).to},
                      [t |-> "signal", type |-> Head(out[p]).type, from |-> Cur(p)])
    BY <1>12 DEF Signal
  <2>2. Named([t |-> "signal", type |-> Head(out[p]).type, from |-> Cur(p)])
    BY <1>12 DEF Named
  <2> QED BY <2>1, <2>2, <1>2
<1>13. ASSUME NEW c, HandleDisconnect(c) PROVE InboxInv'
  BY <1>13, InboxLeft, InboxJoined DEF HandleDisconnect
<1>14. ASSUME NEW id, NEW to, DeliverVoiceMessage(id, to) PROVE InboxInv'
  <2>1. Named([t |-> "voice", id |-> id])
    BY DEF Named
  <2> QED BY <1>14, <2>1, <1>2 DEF DeliverVoiceMessage
<1> QED BY <1>3, <1>4, <1>5, <1>6, <1>7, <1>9, <1>10, <1>11, <1>12, <1>13, <1>14

-----------------------------------------------------------------------------
(* The phones.                                                             *)
CallKinds == {"start", "accept", "answer"}
CallTask == {x \in [k : CallKinds, to : Keys \cup {None},
                    step : {"media", "ice", "sdp"}, n : Nat] :
                x.k = "answer" => x.step = "sdp"}
Calls(u) == {x \in u.tasks : x.k \in CallKinds}
Fields == {"st", "peer", "offer", "pc", "mic", "self", "msgs", "fetch", "push", "room",
           "camera", "peers", "tasks", "replaced", "strayed"}

(* Of the tasks of calls that have a connection, none was left behind by a *)
(* hang-up, unless its connection was replaced by another one.             *)
CallInv(u) ==
    /\ DOMAIN u = Fields
    /\ Calls(u) \subseteq CallTask
    /\ u.pc # None => u.pc.n \in Nat
    /\ u.st = "connected" /\ ~u.replaced => u.pc # None
    /\ u.st = "incoming" => u.offer # None /\ u.peer # None
    /\ ~u.replaced => \A x \in Calls(u) :
          x.step = "sdp" => u.pc # None /\ u.pc.n = x.n

PhonesInv == /\ DOMAIN ui = Phones /\ \A p \in Phones : CallInv(ui[p])
             /\ budget \in [Chores -> Nat]

LEMMA CallUnchanged ==
    ASSUME NEW u, CallInv(u), NEW v, DOMAIN v = DOMAIN u, Calls(v) \subseteq Calls(u),
           v.st = u.st, v.peer = u.peer, v.offer = u.offer, v.pc = u.pc,
           v.replaced = u.replaced
    PROVE  CallInv(v)
BY DEF CallInv

LEMMA Becomes ==
    ASSUME PhonesInv, NEW p \in Phones, NEW u, Become(p, u), CallInv(u)
    PROVE  DOMAIN ui' = Phones /\ \A q \in Phones : CallInv(ui'[q])
BY DEF PhonesInv, Become

LEMMA Spends ==
    ASSUME PhonesInv, NEW f \in Chores, Spend(f)
    PROVE  budget' \in [Chores -> Nat] /\ budget[f] \in Nat
<1>1. budget \in [Chores -> Nat] /\ budget[f] > 0 /\ budget' = [budget EXCEPT ![f] = @ - 1]
  BY DEF PhonesInv, Spend
<1> QED BY <1>1

(* What the lists and the buttons beside the call change.                  *)
LEMMA OtherFields ==
    ASSUME NEW u, CallInv(u)
    PROVE  /\ \A w : CallInv([u EXCEPT !.msgs = w]) /\ CallInv([u EXCEPT !.push = w])
           /\ \A w : CallInv([u EXCEPT !.fetch = w]) /\ CallInv([u EXCEPT !.peers = w])
           /\ \A w, z : CallInv([u EXCEPT !.self = w, !.fetch = z])
           /\ \A w, y, z : CallInv([u EXCEPT !.room = w, !.camera = y, !.strayed = z])
           /\ \A w, y, z : CallInv([u EXCEPT !.room = w, !.camera = y, !.peers = z])
<1> USE DEF CallInv, Calls, Fields
<1>1. \A w : CallInv([u EXCEPT !.msgs = w]) /\ CallInv([u EXCEPT !.push = w])
  OBVIOUS
<1>2. \A w : CallInv([u EXCEPT !.fetch = w]) /\ CallInv([u EXCEPT !.peers = w])
  OBVIOUS
<1>3. /\ \A w, z : CallInv([u EXCEPT !.self = w, !.fetch = z])
      /\ \A w, y, z : CallInv([u EXCEPT !.room = w, !.camera = y, !.strayed = z])
  OBVIOUS
<1>4. \A w, y, z : CallInv([u EXCEPT !.room = w, !.camera = y, !.peers = z])
  OBVIOUS
<1> QED BY <1>1, <1>2, <1>3, <1>4

LEMMA OtherTasks ==
    ASSUME NEW u, CallInv(u), NEW T, \A x \in T : x.k \in CallKinds => x \in u.tasks
    PROVE  CallInv([u EXCEPT !.tasks = T]) /\ [u EXCEPT !.tasks = T].peer = u.peer
BY DEF CallInv, Calls, Fields

LEMMA FinishedTask ==
    ASSUME NEW u, CallInv(u), NEW x PROVE CallInv(TaskEnd(u, x))
BY OtherTasks DEF TaskEnd

LEMMA AddsChat == ASSUME NEW u, CallInv(u), NEW id PROVE CallInv(AddChat(u, id))
BY OtherFields DEF AddChat

LEMMA AddsVoice == ASSUME NEW u, CallInv(u), NEW id PROVE CallInv(AddVoice(u, id))
BY OtherFields DEF AddVoice

(* cleanup closes the connection, and with it the task that works on it.   *)
LEMMA CleansUp == ASSUME NEW u, CallInv(u) PROVE CallInv(Cleanup(u))
<1> DEFINE T == {x \in u.tasks :
                   ~(x.k \in CallKinds /\ x.step = "sdp" /\ u.pc # None /\ u.pc.n = x.n)}
           v == [u EXCEPT !.st = "idle", !.peer = None, !.offer = None, !.pc = None,
                          !.mic = FALSE, !.tasks = T]
<1>1. /\ DOMAIN v = Fields /\ v.st = "idle" /\ v.pc = None
      /\ v.replaced = u.replaced /\ v.tasks = T
  <2> HIDE DEF T
  <2> QED BY DEF CallInv, Fields
<1>2. Cleanup(u) = v
  BY DEF Cleanup, CallKinds
<1>3. \A x \in Calls(v) : x \in Calls(u) /\ ~(x.step = "sdp" /\ u.pc # None /\ u.pc.n = x.n)
  BY <1>1 DEF Calls
<1> HIDE DEF v, T
<1> QED BY <1>1, <1>2, <1>3 DEF CallInv

(* The next step of a task of a call.                                      *)
LEMMA TaskStep ==
    ASSUME NEW x \in CallTask, NEW s \in {"media", "ice", "sdp"}, x.k = "answer" => s = "sdp"
    PROVE  /\ [x EXCEPT !.step = s] \in CallTask /\ [x EXCEPT !.step = s].step = s
           /\ [x EXCEPT !.step = s].n = x.n
BY DEF CallTask

LEMMA AsksIce ==
    ASSUME NEW u, CallInv(u), NEW x \in Calls(u), x.k # "answer", NEW m
    PROVE  CallInv([Advance(u, x, "ice") EXCEPT !.mic = m])
<1> DEFINE y == [x EXCEPT !.step = "ice"]
           T == (u.tasks \ {x}) \cup {y}
           v == [[u EXCEPT !.tasks = T] EXCEPT !.mic = m]
<1>1. y \in CallTask /\ y.step = "ice"
  BY TaskStep DEF CallInv
<1> HIDE DEF y
<1>2. /\ DOMAIN v = Fields /\ v.st = u.st /\ v.peer = u.peer /\ v.offer = u.offer
      /\ v.pc = u.pc /\ v.replaced = u.replaced /\ v.tasks = T
  BY DEF CallInv, Fields
<1>3. Advance(u, x, "ice") = [u EXCEPT !.tasks = T]
  BY DEF Advance, y
<1> HIDE DEF v
<1>4. \A z \in Calls(v) : z \in Calls(u) \/ z = y
  BY <1>2 DEF Calls
<1>5. CallInv(v)
  BY <1>1, <1>2, <1>4 DEF CallInv
<1> QED BY <1>3, <1>5 DEF v

LEMMA MakesConnection ==
    ASSUME NEW u, CallInv(u), NEW x \in Calls(u), x.k # "answer", NEW other \in BOOLEAN,
           ~other => \A z \in Calls(u) : z.step # "sdp"
    PROVE  CallInv([Advance(u, x, "sdp") EXCEPT
                      !.pc = [n |-> x.n, k |-> x.k], !.replaced = @ \/ other])
<1> DEFINE y == [x EXCEPT !.step = "sdp"]
           T == (u.tasks \ {x}) \cup {y}
           c == [n |-> x.n, k |-> x.k]
           v == [[u EXCEPT !.tasks = T] EXCEPT !.pc = c, !.replaced = u.replaced \/ other]
<1>1. y \in CallTask /\ y.step = "sdp" /\ y.n = x.n /\ x.n \in Nat /\ x.k \in {"start", "accept"}
  BY TaskStep DEF CallInv, CallTask, CallKinds
<1>2. c # None /\ c.n = x.n
  BY <1>1, UsersAssumption DEF UsersAssumption
<1> HIDE DEF y, c
<1>3. /\ DOMAIN v = Fields /\ v.st = u.st /\ v.peer = u.peer /\ v.offer = u.offer
      /\ v.pc = c /\ (v.replaced <=> u.replaced \/ other) /\ v.tasks = T
  BY DEF CallInv, Fields
<1>4. /\ Advance(u, x, "sdp") = [u EXCEPT !.tasks = T]
      /\ [u EXCEPT !.tasks = T].replaced = u.replaced
  BY DEF Advance, y, CallInv, Fields
<1> HIDE DEF v
<1>5. \A z \in Calls(v) : z \in Calls(u) \/ z = y
  BY <1>3 DEF Calls
<1>6. CallInv(v)
  BY <1>1, <1>2, <1>3, <1>5 DEF CallInv
<1> QED BY <1>4, <1>6 DEF v, c

LEMMA UserActsKeepCalls ==
    ASSUME PhonesInv, ShownAreKeys, NEW p \in Phones, UserActs(p) PROVE PhonesInv'
<1> DEFINE u == ui[p]
<1>1. CallInv(u) /\ DOMAIN u = Fields
  BY DEF PhonesInv, CallInv
<1>2. ASSUME NEW v, CallInv(v), Become(p, v), budget' \in [Chores -> Nat] PROVE PhonesInv'
  BY <1>2, Becomes DEF PhonesInv
<1>3. Callees(p) \subseteq Keys
  BY DEF Callees, ShownAreKeys
<1>4. ASSUME NEW to, SendMessage(p, to) PROVE PhonesInv'
  BY <1>4, Spends DEF SendMessage, PhonesInv, Chores
<1>5. ASSUME NEW k \in {"file", "voice"}, NEW to, StartUpload(p, k, to) PROVE PhonesInv'
  <2> DEFINE y == [k |-> k, id |-> <<k, Fresh(k)>>, to |-> to, step |-> "upload"]
             T == u.tasks \cup {y}
  <2>1. Become(p, [u EXCEPT !.tasks = T])
    BY <1>5 DEF StartUpload
  <2>2. y.k = k
    OBVIOUS
  <2> HIDE DEF y
  <2>3. \A x \in T : x.k \in CallKinds => x \in u.tasks
    BY <2>2 DEF CallKinds
  <2>4. CallInv([u EXCEPT !.tasks = T])
    BY <1>1, <2>3, OtherTasks
  <2> QED BY <1>2, <1>5, <2>1, <2>4, Spends DEF StartUpload, Chores
<1>6. CASE EnablePush(p)
  BY <1>1, <1>2, <1>6, OtherFields, Spends DEF EnablePush, Chores
<1>7. ASSUME NEW r, AskGroupMedia(p, r) PROVE PhonesInv'
  <2> DEFINE y == [k |-> "group", room |-> r, n |-> Fresh("group")]
             T == u.tasks \cup {y}
  <2>1. Become(p, [u EXCEPT !.tasks = T])
    BY <1>7 DEF AskGroupMedia
  <2>2. y.k = "group"
    OBVIOUS
  <2> HIDE DEF y
  <2>3. \A x \in T : x.k \in CallKinds => x \in u.tasks
    BY <2>2 DEF CallKinds
  <2>4. CallInv([u EXCEPT !.tasks = T])
    BY <1>1, <2>3, OtherTasks
  <2> QED BY <1>2, <1>7, <2>1, <2>4, Spends DEF AskGroupMedia, Chores
<1>8. CASE LeaveGroup(p)
  BY <1>1, <1>2, <1>8, OtherFields DEF LeaveGroup, PhonesInv
<1>9. CASE Hangup(p)
  BY <1>1, <1>2, <1>9, CleansUp, Spends DEF Hangup, Chores
<1>10. CASE StartCall(p)
  <2>1. PICK c \in Callees(p) :
          /\ Spend("call")
          /\ Become(p, [u EXCEPT !.st = "calling", !.peer = c, !.tasks = @ \cup
                          {[k |-> "start", to |-> c, step |-> "media", n |-> Fresh("call")]}])
    BY <1>10 DEF StartCall
  <2> DEFINE y == [k |-> "start", to |-> c, step |-> "media", n |-> Fresh("call")]
             T == u.tasks \cup {y}
             v == [u EXCEPT !.st = "calling", !.peer = c, !.tasks = T]
  <2>2. budget' \in [Chores -> Nat] /\ Fresh("call") \in Nat
    BY <2>1, Spends DEF Fresh, Chores
  <2>3. y \in CallTask /\ y.step = "media"
    BY <1>3, <2>2 DEF CallTask, CallKinds
  <2> HIDE DEF y
  <2>4. /\ DOMAIN v = Fields /\ v.st = "calling" /\ v.pc = u.pc /\ v.replaced = u.replaced
        /\ v.tasks = T
    BY <1>1 DEF Fields
  <2>5. Become(p, v)
    BY <2>1 DEF y
  <2> HIDE DEF v
  <2>6. \A z \in Calls(v) : z \in Calls(u) \/ z = y
    BY <2>4 DEF Calls
  <2>7. CallInv(v)
    BY <1>1, <2>3, <2>4, <2>6 DEF CallInv
  <2> QED BY <1>2, <2>2, <2>5, <2>7
<1>11. CASE AcceptCall(p)
  <2> DEFINE y == [k |-> "accept", to |-> None, step |-> "media", n |-> Fresh("call")]
             T == u.tasks \cup {y}
             v == [u EXCEPT !.tasks = T]
  <2>1. budget' \in [Chores -> Nat] /\ Fresh("call") \in Nat
    BY <1>11, Spends DEF AcceptCall, Fresh, Chores
  <2>2. y \in CallTask /\ y.step = "media"
    BY <2>1 DEF CallTask, CallKinds
  <2> HIDE DEF y
  <2>3. /\ DOMAIN v = Fields /\ v.st = u.st /\ v.pc = u.pc /\ v.replaced = u.replaced
        /\ v.tasks = T /\ v.peer = u.peer /\ v.offer = u.offer
    BY <1>1 DEF Fields
  <2>4. Become(p, v)
    BY <1>11 DEF y, AcceptCall
  <2> HIDE DEF v
  <2>5. \A z \in Calls(v) : z \in Calls(u) \/ z = y
    BY <2>3 DEF Calls
  <2>6. CallInv(v)
    BY <1>1, <2>2, <2>3, <2>5 DEF CallInv
  <2> QED BY <1>2, <2>1, <2>4, <2>6
<1> QED
  BY <1>4, <1>5, <1>6, <1>7, <1>8, <1>9, <1>10, <1>11 DEF UserActs

LEMMA TasksKeepCalls ==
    ASSUME PhonesInv, NEW p \in Phones, TaskGoesOn(p) PROVE PhonesInv'
<1> DEFINE u == ui[p]
<1>1. CallInv(u) /\ DOMAIN u = Fields
  BY DEF PhonesInv, CallInv
<1>2. ASSUME NEW v, CallInv(v), Become(p, v) PROVE PhonesInv'
  <2>1. UNCHANGED budget
    BY DEF TaskGoesOn, SendMedia, UploadVoice, SendVoiceMessage, UploadFails, JoinGroup,
           GroupMediaRefused, OfferPeer, GotMedia, MediaRefused, GotIceServers, SendOffer,
           SendAnswer, AnswerTaken, ShowHistory
  <2> QED BY <1>2, <2>1, Becomes DEF PhonesInv
<1>3. \A x : CallInv(TaskEnd(u, x))
  BY <1>1, FinishedTask
<1>4. CASE SendMedia(p)
  BY <1>2, <1>3, <1>4, AddsChat DEF SendMedia
<1>5. CASE UploadVoice(p)
  <2>1. PICK x \in Task(p, "voice") : Become(p, Advance(u, x, "stored"))
    BY <1>5 DEF UploadVoice
  <2> DEFINE y == [x EXCEPT !.step = "stored"]
             T == (u.tasks \ {x}) \cup {y}
  <2>2. x.k = "voice"
    BY <2>1 DEF Task
  <2>3. y.k \notin CallKinds
    BY <2>2 DEF CallKinds
  <2> HIDE DEF y
  <2>4. CallInv([u EXCEPT !.tasks = T])
    BY <1>1, <2>3, OtherTasks
  <2> QED BY <1>2, <2>1, <2>4 DEF Advance, y
<1>6. CASE SendVoiceMessage(p)
  BY <1>2, <1>3, <1>6, AddsVoice DEF SendVoiceMessage
<1>7. CASE UploadFails(p) \/ GroupMediaRefused(p) \/ SendOffer(p)
  BY <1>2, <1>3, <1>7 DEF UploadFails, GroupMediaRefused, SendOffer
<1>8. CASE JoinGroup(p)
  <2>1. PICK x \in Task(p, "group") :
          Become(p, [TaskEnd(u, x) EXCEPT !.room = x.room, !.camera = TRUE,
                                          !.strayed = @ \/ u.room \notin {None, x.room}])
    BY <1>8 DEF JoinGroup
  <2> DEFINE w == TaskEnd(u, x)
             z == w.strayed \/ u.room \notin {None, x.room}
  <2>2. CallInv(w)
    BY <1>3
  <2> HIDE DEF w
  <2>3. CallInv([w EXCEPT !.room = x.room, !.camera = TRUE, !.strayed = z])
    <3> HIDE DEF z
    <3> QED BY <2>2, OtherFields
  <2> QED BY <1>2, <2>1, <2>3 DEF w
<1>9. CASE OfferPeer(p)
  <2>1. PICK x \in Task(p, "peers") :
          Become(p, [TaskEnd(u, x) EXCEPT !.peers = @ \cup Tile(Tail(x.todo)), !.tasks =
              @ \cup (IF Tail(x.todo) = <<>> THEN {} ELSE {[x EXCEPT !.todo = Tail(x.todo)]})])
    BY <1>9 DEF OfferPeer
  <2> DEFINE y == [x EXCEPT !.todo = Tail(x.todo)]
             w == TaskEnd(u, x)
             T == w.tasks \cup (IF Tail(x.todo) = <<>> THEN {} ELSE {y})
             P == w.peers \cup Tile(Tail(x.todo))
  <2>2. x.k = "peers"
    BY <2>1 DEF Task
  <2>3. y.k = "peers" \/ y.k = x.k
    BY <2>2
  <2> HIDE DEF y
  <2>4. CallInv(w)
    BY <1>3
  <2> HIDE DEF w
  <2>5. CallInv([w EXCEPT !.tasks = T])
    BY <2>2, <2>3, <2>4, OtherTasks DEF CallKinds
  <2>6. CallInv([w EXCEPT !.peers = P, !.tasks = T])
    <3> DEFINE a == [w EXCEPT !.tasks = T]
               b == [w EXCEPT !.peers = P, !.tasks = T]
    <3>1. DOMAIN w = Fields
      BY <2>4 DEF CallInv
    <3> HIDE DEF T, P
    <3>2. /\ DOMAIN b = DOMAIN a /\ b.tasks = a.tasks /\ b.st = a.st /\ b.peer = a.peer
          /\ b.offer = a.offer /\ b.pc = a.pc /\ b.replaced = a.replaced
      BY <3>1 DEF Fields
    <3> HIDE DEF a, b
    <3>3. CallInv(b)
      BY <2>5, <3>2, CallUnchanged DEF a, Calls
    <3> QED BY <3>3 DEF b
  <2> QED BY <1>2, <2>1, <2>6 DEF w, y
<1>10. CASE GotMedia(p)
  <2>1. PICK x \in CallTasks(p, "media") :
          Become(p, [Advance(u, x, "ice") EXCEPT !.mic = TRUE])
    BY <1>10 DEF GotMedia
  <2>2. x \in Calls(u) /\ x.k # "answer"
    BY <2>1 DEF CallTasks, Task, Calls, CallKinds
  <2> QED BY <1>1, <1>2, <2>1, <2>2, AsksIce
<1>11. CASE MediaRefused(p)
  <2>1. PICK x :
          \/ Become(p, [TaskEnd(u, x) EXCEPT !.st = "idle", !.peer = None])
          \/ Become(p, Cleanup(TaskEnd(u, x)))
    BY <1>11 DEF MediaRefused
  <2>2. CallInv([TaskEnd(u, x) EXCEPT !.st = "idle", !.peer = None])
    <3> DEFINE w == TaskEnd(u, x)
               v == [w EXCEPT !.st = "idle", !.peer = None]
    <3>1. CallInv(w)
      BY <1>3
    <3> HIDE DEF w
    <3>2. /\ DOMAIN v = Fields /\ v.st = "idle" /\ v.pc = w.pc /\ v.replaced = w.replaced
          /\ v.tasks = w.tasks
      BY <3>1 DEF CallInv, Fields
    <3> HIDE DEF v
    <3>3. CallInv(v)
      BY <3>1, <3>2 DEF CallInv, Calls
    <3> QED BY <3>3 DEF v, w
  <2> QED BY <1>2, <1>3, <2>1, <2>2, CleansUp
<1>12. CASE GotIceServers(p)
  <2>1. PICK x \in CallTasks(p, "ice") :
          Become(p, [Advance(u, x, "sdp") EXCEPT
                       !.pc = [n |-> x.n, k |-> x.k],
                       !.replaced = @ \/ CallTasks(p, "sdp") \cup Task(p, "answer") # {}])
    BY <1>12 DEF GotIceServers
  <2>2. x \in Calls(u) /\ x.k # "answer"
    BY <2>1 DEF CallTasks, Task, Calls, CallKinds
  <2> DEFINE other == CallTasks(p, "sdp") \cup Task(p, "answer") # {}
  <2>3. ~other => \A z \in Calls(u) : z.step # "sdp"
    BY DEF CallTasks, Task, Calls, CallKinds
  <2>4. other \in BOOLEAN
    OBVIOUS
  <2>5. Become(p, [Advance(u, x, "sdp") EXCEPT
                     !.pc = [n |-> x.n, k |-> x.k], !.replaced = @ \/ other])
    BY <2>1
  <2> HIDE DEF other, u
  <2> QED BY <1>1, <1>2, <2>2, <2>3, <2>4, <2>5, MakesConnection
<1>13. CASE SendAnswer(p) \/ AnswerTaken(p)
  <2>1. PICK x \in CallTasks(p, "sdp") \cup Task(p, "answer") :
          \/ Become(p, TaskEnd(u, x))
          \/ Become(p, [TaskEnd(u, x) EXCEPT !.st = "connected"])
    BY <1>13 DEF SendAnswer, AnswerTaken
  <2>2. x \in Calls(u) /\ x.step = "sdp"
    BY <1>1, <2>1 DEF CallTasks, Task, Calls, CallKinds, CallInv, CallTask
  <2>3. CallInv([TaskEnd(u, x) EXCEPT !.st = "connected"])
    <3> DEFINE w == TaskEnd(u, x)
               v == [w EXCEPT !.st = "connected"]
    <3>1. CallInv(w) /\ w.pc = u.pc /\ w.replaced = u.replaced
      BY <1>1, <1>3 DEF TaskEnd, CallInv, Fields
    <3> HIDE DEF w
    <3>2. /\ DOMAIN v = Fields /\ v.st = "connected" /\ v.pc = w.pc /\ v.replaced = w.replaced
          /\ v.tasks = w.tasks
      BY <3>1 DEF CallInv, Fields
    <3>3. ~u.replaced => u.pc # None
      BY <1>1, <2>2 DEF CallInv
    <3> HIDE DEF v
    <3>4. CallInv(v)
      BY <3>1, <3>2, <3>3 DEF CallInv, Calls
    <3> QED BY <3>4 DEF v, w
  <2> QED BY <1>2, <1>3, <2>1, <2>3
<1>14. CASE ShowHistory(p)
  <2>1. PICK n, i : Become(p, [MergeHistory(u, HistoryAnswer(n)) EXCEPT !.fetch = RemoveAt(@, i)])
    BY <1>14 DEF ShowHistory
  <2>2. CallInv(MergeHistory(u, HistoryAnswer(n)))
    BY <1>1, OtherFields DEF MergeHistory
  <2> QED BY <1>2, <2>1, <2>2, OtherFields
<1> QED
  BY <1>4, <1>5, <1>6, <1>7, <1>8, <1>9, <1>10, <1>11, <1>12, <1>13, <1>14 DEF TaskGoesOn

LEMMA ReceivingKeepsCalls ==
    ASSUME PhonesInv, InboxInv, NEW p \in Phones, PhoneReceives(p)
    PROVE  PhonesInv' /\ \E t : Got(p, t)
<1> DEFINE u == ui[p]
           m == Says(p)
<1>1. CallInv(u) /\ DOMAIN u = Fields
  BY DEF PhonesInv, CallInv
<1>2. ASSUME NEW t, Got(p, t), NEW v, CallInv(v), Become(p, v)
      PROVE  PhonesInv' /\ \E k : Got(p, k)
  BY <1>2, Becomes DEF PhonesInv, Got
<1>3. ASSUME NEW t, Got(p, t), UNCHANGED ui
      PROVE  PhonesInv' /\ \E k : Got(p, k)
  BY <1>3 DEF PhonesInv, Got
<1>4. ASSUME NEW t, Got(p, t) PROVE Named(m)
  BY <1>4, InboxTail DEF Got, InboxInv, Says
<1>5. CASE OnWelcome(p)
  <2>1. CallInv([u EXCEPT !.self = m.id, !.fetch = Append(u.fetch, Len(log))])
    BY <1>1, OtherFields
  <2> QED BY <1>2, <1>5, <2>1 DEF OnWelcome
<1>6. CASE OnChatMessage(p)
  BY <1>1, <1>2, <1>6, AddsChat DEF OnChatMessage
<1>7. CASE OnVoiceMessage(p)
  BY <1>1, <1>2, <1>7, AddsVoice DEF OnVoiceMessage
<1>8. CASE OnReadReceipt(p)
  BY <1>1, <1>2, <1>8, OtherFields DEF OnReadReceipt
<1>9. CASE OnGroupPeers(p)
  <2>1. PICK todo : \/ UNCHANGED ui
                    \/ Become(p, [u EXCEPT !.peers = @ \cup Tile(todo),
                                           !.tasks = @ \cup {[k |-> "peers", todo |-> todo]}])
    BY <1>9 DEF OnGroupPeers
  <2> DEFINE y == [k |-> "peers", todo |-> todo]
             T == u.tasks \cup {y}
             P == u.peers \cup Tile(todo)
             a == [u EXCEPT !.tasks = T]
             b == [u EXCEPT !.peers = P, !.tasks = T]
  <2>2. y.k = "peers"
    OBVIOUS
  <2> HIDE DEF y
  <2>3. CallInv(a)
    BY <1>1, <2>2, OtherTasks DEF CallKinds
  <2>4. CallInv(b)
    <3> HIDE DEF T, P
    <3>1. /\ DOMAIN b = DOMAIN a /\ b.tasks = a.tasks /\ b.st = a.st /\ b.peer = a.peer
          /\ b.offer = a.offer /\ b.pc = a.pc /\ b.replaced = a.replaced
      BY <1>1 DEF Fields
    <3> HIDE DEF a, b
    <3> QED BY <2>3, <3>1, CallUnchanged DEF Calls
  <2>5. Got(p, "peers")
    BY <1>9 DEF OnGroupPeers
  <2> QED BY <1>2, <1>3, <2>1, <2>4, <2>5 DEF y
<1>10. CASE OnGroupJoin(p)
  BY <1>1, <1>2, <1>10, OtherFields DEF OnGroupJoin
<1>11. CASE OnGroupLeave(p)
  BY <1>1, <1>2, <1>11, OtherFields DEF OnGroupLeave
<1>12. CASE OnGroupSignal(p)
  BY <1>1, <1>2, <1>3, <1>12, OtherFields DEF OnGroupSignal
<1>13. CASE OnOffer(p)
  <2> DEFINE v == [u EXCEPT !.offer = m.from, !.peer = m.from, !.st = "incoming"]
  <2>1. Got(p, "signal") /\ Become(p, v)
    BY <1>13 DEF OnOffer
  <2>2. m.from # None
    BY <1>4, <2>1, Numbers DEF Named, Got, Says, Keys
  <2>3. /\ DOMAIN v = Fields /\ v.st = "incoming" /\ v.pc = u.pc /\ v.replaced = u.replaced
        /\ v.tasks = u.tasks /\ v.offer = m.from /\ v.peer = m.from
    BY <1>1 DEF Fields
  <2> HIDE DEF v
  <2>4. CallInv(v)
    BY <1>1, <2>2, <2>3 DEF CallInv, Calls
  <2> QED BY <1>2, <2>1, <2>4
<1>14. CASE OnAnswer(p)
  <2> DEFINE y == [k |-> "answer", to |-> None, step |-> "sdp", n |-> u.pc.n]
             T == u.tasks \cup {y}
             v == [u EXCEPT !.tasks = T]
  <2>1. Got(p, "signal") /\ (UNCHANGED ui \/ (u.pc # None /\ Become(p, v)))
    BY <1>14 DEF OnAnswer
  <2>2. u.pc # None => y \in CallTask /\ y.n = u.pc.n
    BY <1>1 DEF CallInv, CallTask, CallKinds
  <2> HIDE DEF y
  <2>3. /\ DOMAIN v = Fields /\ v.st = u.st /\ v.pc = u.pc /\ v.replaced = u.replaced
        /\ v.peer = u.peer /\ v.offer = u.offer /\ v.tasks = T
    BY <1>1 DEF Fields
  <2> HIDE DEF v
  <2>4. \A z \in Calls(v) : z \in Calls(u) \/ z = y
    BY <2>3 DEF Calls
  <2>5. u.pc # None => CallInv(v)
    BY <1>1, <2>2, <2>3, <2>4 DEF CallInv
  <2> QED BY <1>2, <1>3, <2>1, <2>5
<1>15. CASE OnHangup(p)
  BY <1>1, <1>2, <1>15, CleansUp DEF OnHangup
<1> QED
  BY <1>5, <1>6, <1>7, <1>8, <1>9, <1>10, <1>11, <1>12, <1>13, <1>14, <1>15 DEF PhoneReceives

-----------------------------------------------------------------------------
(* All together.                                                           *)
CommInv == ServerInv /\ InboxInv /\ PhonesInv

LEMMA CommInitially == CommInit => CommInv
<1> SUFFICES ASSUME CommInit PROVE CommInv
    OBVIOUS
<1>1. InboxInv
  BY InboxEmpty DEF CommInit, InboxInv
<1>2. CallInv(Initially)
  BY DEF Initially, CallInv, Calls, Fields
<1>3. PhonesInv
  BY <1>2, UsersAssumption DEF CommInit, PhonesInv, UsersAssumption
<1> QED BY <1>1, <1>3, ServerInitially DEF CommInv

LEMMA CommStep == CommInv /\ [CommNext]_commVars => CommInv'
<1> SUFFICES ASSUME CommInv, [CommNext]_commVars PROVE CommInv'
    OBVIOUS
<1>1. ServerInv /\ InboxInv /\ PhonesInv /\ ShownAreKeys /\ IsFiniteSet(DOMAIN users)
  BY DEF CommInv, ServerInv, SessionsAreKnown
<1>2. CASE UNCHANGED commVars
  <2>1. ServerInv'
    BY <1>1, <1>2, RelayKeeps DEF commVars
  <2>2. InboxInv' /\ PhonesInv'
    BY <1>1, <1>2 DEF commVars, InboxInv, PhonesInv
  <2> QED BY <2>1, <2>2 DEF CommInv
<1>3. ASSUME NEW p \in Phones, UserActs(p) PROVE CommInv'
  <2>1. UNCHANGED <<users, devices, rooms, session, on, in, shown>>
    BY <1>3 DEF UserActs, SendMessage, StartUpload, EnablePush, AskGroupMedia, LeaveGroup,
           Hangup, StartCall, AcceptCall, OnlyUI, serverSide
  <2>2. ServerInv' /\ InboxInv'
    BY <1>1, <2>1, RelayKeeps DEF InboxInv
  <2> QED BY <1>1, <1>3, <2>2, UserActsKeepCalls DEF CommInv
<1>4. ASSUME NEW p \in Phones, TaskGoesOn(p) PROVE CommInv'
  <2>1. /\ UNCHANGED <<users, devices, rooms, session, on, shown>>
        /\ UNCHANGED in \/ \E id, to : DeliverVoiceMessage(id, to)
    BY <1>4 DEF TaskGoesOn, SendMedia, UploadVoice, SendVoiceMessage, UploadFails, JoinGroup,
           GroupMediaRefused, OfferPeer, GotMedia, MediaRefused, GotIceServers, SendOffer,
           SendAnswer, AnswerTaken, ShowHistory, OnlyUI, serverSide
  <2>2. ServerInv'
    BY <1>1, <2>1, RelayKeeps
  <2>3. InboxInv'
    <3>1. CASE UNCHANGED in
      BY <1>1, <3>1 DEF InboxInv
    <3>2. CASE \E id, to : DeliverVoiceMessage(id, to)
      BY <1>1, <3>2, InboxServer
    <3> QED BY <2>1, <3>1, <3>2
  <2> QED BY <1>1, <1>4, <2>2, <2>3, TasksKeepCalls DEF CommInv
<1>5. ASSUME NEW p \in Phones, PhoneReceives(p) PROVE CommInv'
  <2>1. PhonesInv' /\ \E t : Got(p, t)
    BY <1>1, <1>5, ReceivingKeepsCalls
  <2>2. UNCHANGED <<users, devices, rooms, session, on, shown>>
    BY <2>1 DEF Got
  <2>3. ServerInv' /\ InboxInv'
    BY <1>1, <2>1, <2>2, RelayKeeps, InboxServer
  <2> QED BY <2>1, <2>3 DEF CommInv
<1>6. ASSUME NEW p \in Phones, ServerReceives(p) PROVE CommInv'
  <2>1. on[p] /\ UNCHANGED <<ui, budget>>
    BY <1>6 DEF ServerReceives, Register, RegisterPush, ChatMessage, ReadReceipt, Signal,
           JoinGroupCall, LeaveGroupCall, Received
  <2>2. Cur(p) \in Clients
    BY <1>1, <2>1 DEF ServerInv, SessionsAreKnown
  <2>3. InboxInv'
    BY <1>1, <1>6, <2>2, InboxServer DEF ServerReceives
  <2>4. ASSUME ChatMessage(p) \/ ReadReceipt(p) \/ Signal(p) PROVE ServerInv'
    BY <1>1, <2>4, RelayKeeps DEF ChatMessage, ReadReceipt, Signal
  <2>5. ServerInv'
    BY <1>1, <1>6, <2>1, <2>4, RegisterKeeps, RegisterPushKeeps, RoomStepKeeps
       DEF ServerReceives
  <2>6. PhonesInv'
    BY <1>1, <2>1 DEF PhonesInv
  <2> QED BY <2>3, <2>5, <2>6 DEF CommInv
<1>7. ASSUME NEW p \in Phones, Connections(p) PROVE CommInv'
  <2>1. PhonesInv'
    BY <1>1, <1>7, Spends DEF Connections, PhonesInv, Chores
  <2>2. ServerInv'
    BY <1>1, <1>7, ConnectionKeeps, DropKeeps, DisconnectKeeps DEF Connections
  <2>3. InboxInv'
    BY <1>1, <1>7, InboxServer DEF Connections
  <2> QED BY <2>1, <2>2, <2>3 DEF CommInv
<1> QED
  BY <1>2, <1>3, <1>4, <1>5, <1>6, <1>7 DEF CommNext

LEMMA CommInvariant == CommSpec => []CommInv
<1> QED BY CommInitially, CommStep, PTL DEF CommSpec

(* The registries, the lists and the rooms of the server have their shapes *)
(* (SessionsAreKnown, RecordsAreTrue), whatever connections overlap: an    *)
(* open connection is that of a known client, and the record of a phone    *)
(* names a session of that phone or one that is gone.                      *)
THEOREM RegistriesAreTrue == CommSpec => [](SessionsAreKnown /\ RecordsAreTrue /\ RoomsHoldClients)
<1>1. CommInv => SessionsAreKnown /\ RecordsAreTrue /\ RoomsHoldClients
  BY DEF CommInv, ServerInv
<1> QED BY <1>1, CommInvariant, PTL

(* Every phone can be rung, for any number of phones and sessions: the     *)
(* lists the phones show are the server's, whoever has a push endpoint is  *)
(* in them under an id that leads to it, and whoever is shown as away has  *)
(* one (comm.gateway.ts, getUserList, findPushEndpoint, push_call).        *)
THEOREM PhonesAreRung == CommSpec => []PhonesCanBeRung
<1>1. CommInv => PhonesCanBeRung
  BY RecordsLead DEF CommInv, ServerInv, PhonesCanBeRung
<1> QED BY <1>1, CommInvariant, PTL

(* The call screen of every phone is honest, however the calls, hang-ups,  *)
(* refusals and offers of any number of phones interleave with what        *)
(* startCall and acceptCall of CommContext.tsx wait for.                   *)
THEOREM ScreensAreHonest == CommSpec => []CallScreenHonest
<1>1. CommInv => CallScreenHonest
  BY DEF CommInv, PhonesInv, CallInv, CallScreenHonest
<1> QED BY <1>1, CommInvariant, PTL

-----------------------------------------------------------------------------
(* What a phone is told of the members of its room.  The message m adds    *)
(* the tile of d, or takes it away.                                        *)
Queue(q) == q \in Seq(Range(q))
Added(m, d)   == \/ m.t = "join" /\ m.who = d
                 \/ m.t = "peers" /\ d \in m.who
Removed(m, d) == m.t = "left" /\ m.who = d

(* After the messages q the phone shows d: the last one about d adds it,   *)
(* or none takes it away and the phone u shows it, or is about to.         *)
Coming(q, d) == \E i \in 1 .. Len(q) :
                    Added(q[i], d) /\ \A j \in i .. Len(q) : ~Removed(q[j], d)
Stays(q, d) == \A j \in 1 .. Len(q) : ~Removed(q[j], d)
Todo(u) == {x \in u.tasks : x.k = "peers"}
SeenIn(u, d) == d \in u.peers \/ \E x \in Todo(u) : d \in Range(Tail(x.todo))
Told(q, u, d) == Coming(q, d) \/ (Stays(q, d) /\ SeenIn(u, d))

LEMMA QueueOf == ASSUME NEW S, NEW q \in Seq(S) PROVE Queue(q)
BY SeqOfRange DEF Queue

LEMMA QueueAppended ==
    ASSUME NEW q, Queue(q), NEW m
    PROVE  /\ Queue(Append(q, m)) /\ Len(q) \in Nat /\ Len(Append(q, m)) = Len(q) + 1
           /\ \A i \in 1 .. Len(q) : Append(q, m)[i] = q[i]
           /\ Append(q, m)[Len(q) + 1] = m
<1> DEFINE S == Range(q) \cup {m}
<1>1. q \in Seq(S)
  BY DEF Queue
<1>2. m \in S
  OBVIOUS
<1> HIDE DEF S
<1>3. Append(q, m) \in Seq(S) /\ Len(Append(q, m)) = Len(q) + 1
  BY <1>1, <1>2, AppendProperties
<1>4. /\ \A i \in 1 .. Len(q) : Append(q, m)[i] = q[i]
      /\ Append(q, m)[Len(q) + 1] = m
  BY <1>1, <1>2, AppendProperties
<1>5. Queue(Append(q, m))
  BY <1>3, QueueOf
<1>6. Len(q) \in Nat
  BY <1>1, LenProperties
<1> QED BY <1>3, <1>4, <1>5, <1>6

LEMMA QueueJoined ==
    ASSUME NEW q, Queue(q), NEW r, Queue(r)
    PROVE  /\ Queue(q \o r) /\ Len(q) \in Nat /\ Len(r) \in Nat /\ Len(q \o r) = Len(q) + Len(r)
           /\ \A i \in 1 .. Len(q) : (q \o r)[i] = q[i]
           /\ \A i \in Len(q) + 1 .. Len(q) + Len(r) : (q \o r)[i] = r[i - Len(q)]
<1> DEFINE S == Range(q) \cup Range(r)
<1>1. q \in Seq(S) /\ r \in Seq(S)
  BY DEF Queue
<1> HIDE DEF S
<1>2. Queue(q \o r)
  BY <1>1, ConcatProperties, QueueOf
<1>3. /\ Len(q \o r) = Len(q) + Len(r)
      /\ \A i \in 1 .. Len(q) + Len(r) :
            (q \o r)[i] = IF i <= Len(q) THEN q[i] ELSE r[i - Len(q)]
  BY <1>1, ConcatProperties, Zenon
<1>4. Len(q) \in Nat /\ Len(r) \in Nat
  BY <1>1, LenProperties
<1> HIDE <1>1
<1> QED BY <1>2, <1>3, <1>4

LEMMA QueueTail ==
    ASSUME NEW q, Queue(q), q # <<>>
    PROVE  /\ Queue(Tail(q)) /\ Len(q) \in Nat \ {0} /\ Len(Tail(q)) = Len(q) - 1
           /\ \A i \in 1 .. Len(q) - 1 : Tail(q)[i] = q[i + 1]
           /\ Head(q) = q[1]
<1> DEFINE S == Range(q)
<1>1. q \in Seq(S)
  BY DEF Queue
<1> HIDE DEF S
<1>2. Queue(Tail(q)) /\ Len(q) \in Nat \ {0}
  BY <1>1, HeadTailProperties, EmptySeq, QueueOf
<1> QED BY <1>1, <1>2, HeadTailProperties

LEMMA QueueEmpty == Queue(<<>>) /\ Len(<<>>) = 0
BY QueueOf, EmptySeq

(* A message about somebody else comes last.                               *)
LEMMA ToldBefore ==
    ASSUME NEW q, Queue(q), NEW u, NEW d, Told(q, u, d), NEW m, ~Removed(m, d)
    PROVE  Told(Append(q, m), u, d)
<1>1. /\ Len(q) \in Nat /\ Len(Append(q, m)) = Len(q) + 1
      /\ \A i \in 1 .. Len(q) : Append(q, m)[i] = q[i]
      /\ Append(q, m)[Len(q) + 1] = m
  BY QueueAppended
<1> DEFINE a == Append(q, m)
<1> HIDE DEF a
<1>2. CASE Coming(q, d)
  <2>1. PICK i \in 1 .. Len(q) : Added(q[i], d) /\ \A j \in i .. Len(q) : ~Removed(q[j], d)
    BY <1>2 DEF Coming
  <2>2. \A j \in i .. Len(a) : j \in i .. Len(q) \/ j = Len(q) + 1
    BY <1>1 DEF a
  <2>3. i \in 1 .. Len(a) /\ Added(a[i], d) /\ \A j \in i .. Len(a) : ~Removed(a[j], d)
    BY <1>1, <2>1, <2>2 DEF a
  <2> QED BY <2>3 DEF Coming, Told, a
<1>3. CASE Stays(q, d) /\ SeenIn(u, d)
  <2>1. \A j \in 1 .. Len(a) : j \in 1 .. Len(q) \/ j = Len(q) + 1
    BY <1>1 DEF a
  <2>2. Stays(a, d)
    BY <1>1, <1>3, <2>1 DEF a, Stays
  <2> QED BY <1>3, <2>2 DEF Told, a
<1> QED BY <1>2, <1>3 DEF Told

(* The last message adds d.                                                *)
LEMMA ToldLast ==
    ASSUME NEW q, Queue(q), NEW u, NEW d, NEW m, Added(m, d)
    PROVE  Told(Append(q, m), u, d)
<1> DEFINE n == Len(q) + 1
           a == Append(q, m)
<1>1. Len(q) \in Nat /\ Len(a) = n /\ a[n] = m
  BY QueueAppended
<1> HIDE DEF a
<1>2. ~Removed(m, d)
  BY DEF Added, Removed
<1>3. n \in 1 .. Len(a) /\ \A j \in n .. Len(a) : j = n
  BY <1>1
<1>4. Coming(a, d)
  BY <1>1, <1>2, <1>3 DEF Coming
<1> QED BY <1>4 DEF Told, a

(* Messages that take nobody away, or only others.                         *)
LEMMA ToldBeforeAll ==
    ASSUME NEW q, Queue(q), NEW u, NEW d, Told(q, u, d), NEW r, Queue(r), Stays(r, d)
    PROVE  Told(q \o r, u, d)
<1> DEFINE a == q \o r
<1>1. /\ Len(q) \in Nat /\ Len(r) \in Nat /\ Len(a) = Len(q) + Len(r)
      /\ \A i \in 1 .. Len(q) : a[i] = q[i]
      /\ \A i \in Len(q) + 1 .. Len(q) + Len(r) : a[i] = r[i - Len(q)]
  BY QueueJoined
<1> HIDE DEF a
<1>2. ASSUME NEW j \in Len(q) + 1 .. Len(q) + Len(r) PROVE ~Removed(a[j], d)
  <2>1. j - Len(q) \in 1 .. Len(r)
    BY <1>1
  <2> QED BY <1>1, <2>1 DEF Stays
<1>3. CASE Coming(q, d)
  <2>1. PICK i \in 1 .. Len(q) : Added(q[i], d) /\ \A j \in i .. Len(q) : ~Removed(q[j], d)
    BY <1>3 DEF Coming
  <2>2. \A j \in i .. Len(a) : j \in i .. Len(q) \/ j \in Len(q) + 1 .. Len(q) + Len(r)
    BY <1>1
  <2>3. i \in 1 .. Len(a) /\ Added(a[i], d) /\ \A j \in i .. Len(a) : ~Removed(a[j], d)
    BY <1>1, <1>2, <2>1, <2>2
  <2> QED BY <2>3 DEF Coming, Told, a
<1>4. CASE Stays(q, d) /\ SeenIn(u, d)
  <2>1. \A j \in 1 .. Len(a) : j \in 1 .. Len(q) \/ j \in Len(q) + 1 .. Len(q) + Len(r)
    BY <1>1
  <2>2. Stays(a, d)
    BY <1>1, <1>2, <1>4, <2>1 DEF Stays
  <2> QED BY <1>4, <2>2 DEF Told, a
<1> QED BY <1>3, <1>4 DEF Told

(* The phone took in the first message.                                    *)
LEMMA ToldAfter ==
    ASSUME NEW q, Queue(q), q # <<>>, NEW u, NEW v, NEW d, Told(q, u, d),
           Added(Head(q), d) => SeenIn(v, d),
           ~Removed(Head(q), d) /\ SeenIn(u, d) => SeenIn(v, d)
    PROVE  Told(Tail(q), v, d)
<1> DEFINE a == Tail(q)
<1>1. /\ Len(q) \in Nat \ {0} /\ Len(a) = Len(q) - 1 /\ Head(q) = q[1]
      /\ \A i \in 1 .. Len(q) - 1 : a[i] = q[i + 1]
  BY QueueTail
<1> HIDE DEF a
<1>2. \A j \in 1 .. Len(a) : j + 1 \in 1 .. Len(q) /\ a[j] = q[j + 1]
  BY <1>1
<1>3. CASE Coming(q, d)
  <2>1. PICK i \in 1 .. Len(q) : Added(q[i], d) /\ \A j \in i .. Len(q) : ~Removed(q[j], d)
    BY <1>3 DEF Coming
  <2>2. CASE i = 1
    <3>1. Stays(a, d)
      BY <1>2, <2>1, <2>2 DEF Stays
    <3> QED BY <1>1, <2>1, <2>2, <3>1 DEF Told, a
  <2>3. CASE i # 1
    <3> DEFINE k == i - 1
    <3>1. k \in 1 .. Len(a) /\ i = k + 1 /\ \A j \in k .. Len(a) : j + 1 \in i .. Len(q)
      BY <1>1, <2>3
    <3>2. \A j \in k .. Len(a) : j \in 1 .. Len(a)
      BY <3>1
    <3> HIDE DEF k
    <3>3. Coming(a, d)
      BY <1>2, <2>1, <3>1, <3>2 DEF Coming
    <3> QED BY <3>3 DEF Told, a
  <2> QED BY <2>2, <2>3
<1>4. CASE Stays(q, d) /\ SeenIn(u, d)
  <2>1. ~Removed(Head(q), d)
    BY <1>1, <1>4 DEF Stays
  <2>2. Stays(a, d)
    BY <1>2, <1>4 DEF Stays
  <2> QED BY <1>4, <2>1, <2>2 DEF Told, a
<1> QED BY <1>3, <1>4 DEF Told

LEMMA ToldStill ==
    ASSUME NEW q, NEW u, NEW v, NEW d, Told(q, u, d), SeenIn(u, d) => SeenIn(v, d)
    PROVE  Told(q, v, d)
BY DEF Told

-----------------------------------------------------------------------------
(* How a phone comes to be in two rooms: never, unless it strayed.  After  *)
(* the first n of the messages o, of a phone in the rooms R, it is in no   *)
(* room but r, or in none if r is None.                                    *)
Leaves(m, s) == m.t = "leave" /\ m.room = s
LeftBut(o, R, n, r) ==
    /\ \A s \in R : r = None \/ s # r => \E j \in 1 .. n : Leaves(o[j], s)
    /\ \A i \in 1 .. n : (o[i].t = "join" /\ (r = None \/ o[i].room # r))
          => \E j \in i + 1 .. n : Leaves(o[j], o[i].room)
InOneRoom(o, R, room) ==
    /\ \A s, t \in R : s = t
    /\ \A n \in 1 .. Len(o) : o[n].t = "join" => LeftBut(o, R, n - 1, o[n].room)
    /\ LeftBut(o, R, Len(o), room)

LEMMA FewerRooms ==
    ASSUME NEW o, NEW R, NEW room, InOneRoom(o, R, room), NEW Q \in SUBSET R
    PROVE  InOneRoom(o, Q, room)
BY DEF InOneRoom, LeftBut

LEMMA LeftButGrows ==
    ASSUME NEW o, NEW a, NEW n \in Nat, \A i \in 1 .. n : a[i] = o[i],
           NEW R, NEW r, LeftBut(o, R, n, r)
    PROVE  LeftBut(a, R, n, r)
<1>1. \A i \in 1 .. n : \A j \in i + 1 .. n : j \in 1 .. n
  OBVIOUS
<1> QED BY <1>1 DEF LeftBut

(* More messages, none of which joins a room.                              *)
LEMMA SaysMore ==
    ASSUME NEW o, Queue(o), NEW ms, Queue(ms), \A j \in 1 .. Len(ms) : ms[j].t # "join",
           NEW R, NEW room, InOneRoom(o, R, room)
    PROVE  InOneRoom(o \o ms, R, room)
<1> DEFINE a == o \o ms
<1>1. /\ Len(o) \in Nat /\ Len(ms) \in Nat /\ Len(a) = Len(o) + Len(ms)
      /\ \A i \in 1 .. Len(o) : a[i] = o[i]
      /\ \A i \in Len(o) + 1 .. Len(o) + Len(ms) : a[i] = ms[i - Len(o)]
  BY QueueJoined
<1> HIDE DEF a
<1>2. \A i \in 1 .. Len(a) : a[i].t = "join" => i \in 1 .. Len(o) /\ o[i] = a[i]
  <2>1. ASSUME NEW i \in 1 .. Len(a), i \notin 1 .. Len(o) PROVE a[i].t # "join"
    <3>1. i \in Len(o) + 1 .. Len(o) + Len(ms) /\ i - Len(o) \in 1 .. Len(ms)
      BY <1>1, <2>1
    <3> QED BY <1>1, <3>1
  <2> QED BY <1>1, <2>1
<1>3. ASSUME NEW n \in 1 .. Len(a), a[n].t = "join" PROVE LeftBut(a, R, n - 1, a[n].room)
  <2>1. n \in 1 .. Len(o) /\ o[n] = a[n]
    BY <1>2, <1>3
  <2>2. n - 1 \in Nat /\ \A i \in 1 .. n - 1 : a[i] = o[i]
    BY <1>1, <2>1
  <2>3. LeftBut(o, R, n - 1, o[n].room)
    BY <1>3, <2>1 DEF InOneRoom
  <2> HIDE DEF LeftBut
  <2> QED BY <2>1, <2>2, <2>3, LeftButGrows
<1>4. LeftBut(a, R, Len(a), room)
  <2>1. LeftBut(o, R, Len(o), room)
    BY DEF InOneRoom
  <2>2. \A j \in 1 .. Len(o) : j \in 1 .. Len(a)
    BY <1>1
  <2>3. \A i \in 1 .. Len(o) : \A j \in i + 1 .. Len(o) : j \in i + 1 .. Len(a) /\ a[j] = o[j]
    BY <1>1
  <2>4. ASSUME NEW s \in R, room = None \/ s # room
        PROVE  \E j \in 1 .. Len(a) : Leaves(a[j], s)
    <3>1. PICK j \in 1 .. Len(o) : Leaves(o[j], s)
      BY <2>1, <2>4 DEF LeftBut
    <3> QED BY <1>1, <2>2, <3>1
  <2>5. ASSUME NEW i \in 1 .. Len(a), a[i].t = "join", room = None \/ a[i].room # room
        PROVE  \E j \in i + 1 .. Len(a) : Leaves(a[j], a[i].room)
    <3>1. i \in 1 .. Len(o) /\ o[i] = a[i]
      BY <1>2, <2>5
    <3>2. PICK j \in i + 1 .. Len(o) : Leaves(o[j], o[i].room)
      BY <2>1, <2>5, <3>1 DEF LeftBut
    <3> QED BY <2>3, <3>1, <3>2
  <2> QED BY <2>4, <2>5 DEF LeftBut
<1> QED BY <1>3, <1>4 DEF InOneRoom, a

(* The phone asks for one more room, after it left the others.             *)
LEMMA AsksForRoom ==
    ASSUME NEW o, Queue(o), NEW R, NEW room, InOneRoom(o, R, room),
           NEW m, m.t = "join", m.room # None, room \in {None, m.room}
    PROVE  InOneRoom(Append(o, m), R, m.room)
<1> DEFINE a == Append(o, m)
<1>1. /\ Len(o) \in Nat /\ Len(a) = Len(o) + 1
      /\ \A i \in 1 .. Len(o) : a[i] = o[i]
      /\ a[Len(o) + 1] = m
  BY QueueAppended
<1> HIDE DEF a
<1>2. LeftBut(o, R, Len(o), m.room)
  BY DEF InOneRoom, LeftBut
<1>3. LeftBut(a, R, Len(o), m.room)
  BY <1>1, <1>2, LeftButGrows
<1>4. ASSUME NEW n \in 1 .. Len(a), a[n].t = "join" PROVE LeftBut(a, R, n - 1, a[n].room)
  <2>1. CASE n = Len(o) + 1
    BY <1>1, <1>3, <2>1
  <2>2. CASE n # Len(o) + 1
    <3>1. n \in 1 .. Len(o) /\ a[n] = o[n] /\ n - 1 \in Nat /\ \A i \in 1 .. n - 1 : a[i] = o[i]
      BY <1>1, <2>2
    <3>2. LeftBut(o, R, n - 1, o[n].room)
      BY <1>4, <3>1 DEF InOneRoom
    <3> QED BY <3>1, <3>2, LeftButGrows
  <2> QED BY <2>1, <2>2
<1>5. LeftBut(a, R, Len(a), m.room)
  <2>1. \A j \in 1 .. Len(o) : j \in 1 .. Len(a)
    BY <1>1
  <2>2. \A i \in 1 .. Len(o) : \A j \in i + 1 .. Len(o) : j \in i + 1 .. Len(a)
    BY <1>1
  <2>3. ASSUME NEW s \in R, m.room = None \/ s # m.room
        PROVE  \E j \in 1 .. Len(a) : Leaves(a[j], s)
    BY <1>3, <2>1, <2>3 DEF LeftBut
  <2>4. ASSUME NEW i \in 1 .. Len(a), a[i].t = "join", m.room = None \/ a[i].room # m.room,
               i # Len(o) + 1
        PROVE  \E j \in i + 1 .. Len(a) : Leaves(a[j], a[i].room)
    <3>1. i \in 1 .. Len(o)
      BY <1>1, <2>4
    <3> QED BY <1>3, <2>2, <2>4, <3>1 DEF LeftBut
  <2> QED BY <1>1, <2>3, <2>4 DEF LeftBut
<1> QED BY <1>4, <1>5 DEF InOneRoom, a

(* The phone leaves its room.                                              *)
LEMMA LeavesRoom ==
    ASSUME NEW o, Queue(o), NEW R, NEW room, InOneRoom(o, R, room),
           NEW m, m.t = "leave", m.room = room
    PROVE  InOneRoom(Append(o, m), R, None)
<1> DEFINE a == Append(o, m)
<1>1. /\ Len(o) \in Nat /\ Len(a) = Len(o) + 1
      /\ \A i \in 1 .. Len(o) : a[i] = o[i]
      /\ a[Len(o) + 1] = m
  BY QueueAppended
<1> HIDE DEF a
<1>2. \A i \in 1 .. Len(a) : a[i].t = "join" => i \in 1 .. Len(o) /\ a[i] = o[i]
  BY <1>1
<1>3. ASSUME NEW n \in 1 .. Len(a), a[n].t = "join" PROVE LeftBut(a, R, n - 1, a[n].room)
  <2>1. n \in 1 .. Len(o) /\ a[n] = o[n] /\ n - 1 \in Nat /\ \A i \in 1 .. n - 1 : a[i] = o[i]
    BY <1>1, <1>2, <1>3
  <2>2. LeftBut(o, R, n - 1, o[n].room)
    BY <1>3, <2>1 DEF InOneRoom
  <2> QED BY <2>1, <2>2, LeftButGrows
<1>4. LeftBut(a, R, Len(a), None)
  <2>1. LeftBut(o, R, Len(o), room)
    BY DEF InOneRoom
  <2>2. Len(a) \in 1 .. Len(a) /\ Leaves(a[Len(a)], room)
    BY <1>1 DEF Leaves
  <2>3. /\ \A j \in 1 .. Len(o) : j \in 1 .. Len(a)
        /\ \A i \in 1 .. Len(o) : Len(a) \in i + 1 .. Len(a)
        /\ \A i \in 1 .. Len(o) : \A j \in i + 1 .. Len(o) : j \in i + 1 .. Len(a) /\ a[j] = o[j]
    BY <1>1
  <2>4. ASSUME NEW s \in R PROVE \E j \in 1 .. Len(a) : Leaves(a[j], s)
    <3>1. CASE s = room
      BY <2>2, <3>1
    <3>2. CASE s # room
      <4>1. PICK j \in 1 .. Len(o) : Leaves(o[j], s)
        BY <2>1, <3>2 DEF LeftBut
      <4> QED BY <1>1, <2>3, <4>1
    <3> QED BY <3>1, <3>2
  <2>5. ASSUME NEW i \in 1 .. Len(a), a[i].t = "join"
        PROVE  \E j \in i + 1 .. Len(a) : Leaves(a[j], a[i].room)
    <3>1. i \in 1 .. Len(o) /\ a[i] = o[i]
      BY <1>2, <2>5
    <3>2. CASE a[i].room = room
      BY <2>2, <2>3, <3>1, <3>2
    <3>3. CASE a[i].room # room
      <4>1. PICK j \in i + 1 .. Len(o) : Leaves(o[j], o[i].room)
        BY <2>1, <2>5, <3>1, <3>3 DEF LeftBut
      <4> QED BY <2>3, <3>1, <4>1
    <3> QED BY <3>2, <3>3
  <2> QED BY <2>4, <2>5 DEF LeftBut
<1> QED BY <1>3, <1>4 DEF InOneRoom, a

(* The server took in the first message: Q are the rooms the phone is in   *)
(* then.                                                                   *)
LEMMA LeftButTail ==
    ASSUME NEW o, Queue(o), NEW n \in 1 .. Len(o), NEW R, NEW r, LeftBut(o, R, n, r),
           NEW Q, \A s \in Q : \/ s \in R /\ ~Leaves(o[1], s)
                               \/ o[1].t = "join" /\ o[1].room = s
    PROVE  LeftBut(Tail(o), Q, n - 1, r)
<1> DEFINE a == Tail(o)
<1>1. Len(o) \in Nat /\ 1 \in 1 .. n /\ o # <<>>
  <2>1. Len(o) \in Nat
    BY QueueJoined
  <2>2. o # <<>>
    BY QueueEmpty
  <2> QED BY <2>1, <2>2
<1>2. \A i \in 1 .. Len(o) - 1 : a[i] = o[i + 1]
  BY <1>1, QueueTail
<1> HIDE DEF a
<1>3. ASSUME NEW i \in 1 .. n, NEW j \in i + 1 .. n PROVE j - 1 \in i .. n - 1 /\ a[j - 1] = o[j]
  <2>1. j - 1 \in i .. n - 1 /\ j - 1 \in 1 .. Len(o) - 1 /\ (j - 1) + 1 = j
    BY <1>1
  <2> QED BY <1>2, <2>1
<1>4. ASSUME NEW s \in Q, r = None \/ s # r PROVE \E j \in 1 .. n - 1 : Leaves(a[j], s)
  <2>1. PICK j \in 1 + 1 .. n : Leaves(o[j], s)
    <3>1. CASE s \in R /\ ~Leaves(o[1], s)
      <4>1. PICK j \in 1 .. n : Leaves(o[j], s)
        BY <1>4, <3>1 DEF LeftBut
      <4>2. j # 1
        BY <3>1, <4>1
      <4>3. j \in 1 + 1 .. n
        BY <1>1, <4>2
      <4> QED BY <4>1, <4>3
    <3>2. CASE o[1].t = "join" /\ o[1].room = s
      BY <1>1, <1>4, <3>2 DEF LeftBut
    <3> QED BY <3>1, <3>2
  <2> QED BY <1>1, <1>3, <2>1
<1>5. ASSUME NEW i \in 1 .. n - 1, a[i].t = "join", r = None \/ a[i].room # r
      PROVE  \E j \in i + 1 .. n - 1 : Leaves(a[j], a[i].room)
  <2>1. i + 1 \in 1 .. n /\ i \in 1 .. Len(o) - 1
    BY <1>1
  <2>2. a[i] = o[i + 1]
    BY <1>2, <2>1
  <2>3. PICK j \in (i + 1) + 1 .. n : Leaves(o[j], o[i + 1].room)
    BY <1>5, <2>1, <2>2 DEF LeftBut
  <2>4. j - 1 \in i + 1 .. n - 1 /\ a[j - 1] = o[j]
    BY <1>3, <2>1
  <2> QED BY <2>2, <2>3, <2>4
<1> QED BY <1>4, <1>5 DEF LeftBut, a

LEMMA ServerHears ==
    ASSUME NEW o, Queue(o), o # <<>>, NEW R, NEW room, InOneRoom(o, R, room),
           NEW Q, \A s, t \in Q : s = t,
           \A s \in Q : \/ s \in R /\ ~Leaves(o[1], s)
                        \/ o[1].t = "join" /\ o[1].room = s
    PROVE  InOneRoom(Tail(o), Q, room)
<1> DEFINE a == Tail(o)
<1>1. /\ Len(o) \in Nat \ {0} /\ Len(a) = Len(o) - 1
      /\ \A i \in 1 .. Len(o) - 1 : a[i] = o[i + 1]
  BY QueueTail
<1>2. ASSUME NEW n \in 1 .. Len(a), a[n].t = "join" PROVE LeftBut(a, Q, n - 1, a[n].room)
  <2> HIDE DEF a
  <2>1. n \in 1 .. Len(o) /\ n + 1 \in 1 .. Len(o) /\ a[n] = o[n + 1] /\ (n + 1) - 1 = n
    BY <1>1
  <2>2. LeftBut(o, R, n, a[n].room)
    BY <1>2, <2>1 DEF InOneRoom
  <2> QED BY <2>1, <2>2, LeftButTail DEF a
<1>3. LeftBut(a, Q, Len(a), room)
  <2>1. LeftBut(o, R, Len(o), room) /\ Len(o) \in 1 .. Len(o)
    BY <1>1 DEF InOneRoom
  <2>2. LeftBut(Tail(o), Q, Len(o) - 1, room)
    BY <2>1, LeftButTail
  <2> QED BY <1>1, <2>2
<1> QED BY <1>2, <1>3 DEF InOneRoom

LEMMA ServerHearsOther ==
    ASSUME NEW o, Queue(o), o # <<>>, NEW R, NEW room, InOneRoom(o, R, room),
           \A s \in R : ~Leaves(o[1], s)
    PROVE  InOneRoom(Tail(o), R, room)
<1>1. \A s, r \in R : s = r
  BY DEF InOneRoom
<1>2. \A s \in R : \/ s \in R /\ ~Leaves(o[1], s)
                   \/ o[1].t = "join" /\ o[1].room = s
  OBVIOUS
<1> QED BY <1>1, <1>2, ServerHears

(* The server puts a phone into the one room it asked for.                 *)
LEMMA OneRoomAsked ==
    ASSUME NEW o, Queue(o), o # <<>>, NEW R, NEW room, InOneRoom(o, R, room), o[1].t = "join"
    PROVE  \A s \in R : s = o[1].room
<1>1. Len(o) \in Nat \ {0}
  BY QueueTail
<1>2. 1 \in 1 .. Len(o) /\ 1 - 1 = 0
  BY <1>1
<1>3. LeftBut(o, R, 0, o[1].room)
  BY <1>2 DEF InOneRoom
<1>4. \A j \in 1 .. 0 : FALSE
  OBVIOUS
<1> QED BY <1>3, <1>4 DEF LeftBut

-----------------------------------------------------------------------------
(* The group calls of all phones.                                          *)

(* A phone in a room has its camera on, and members left to offer to.      *)
ViewOK(u) ==
    /\ DOMAIN u = Fields /\ u.room \in Rooms \cup {None}
    /\ u.room # None => u.camera
    /\ \A x \in Todo(u) : DOMAIN x = {"k", "todo"} /\ Queue(x.todo) /\ x.todo # <<>>
    /\ \A x \in u.tasks : x.k = "group" => x.room \in Rooms
OutOK(o) == /\ Queue(o)
            /\ \A i \in 1 .. Len(o) : o[i].t \in {"join", "leave"} => o[i].room \in Rooms
ViewsInv == /\ DOMAIN ui = Phones /\ DOMAIN out = Phones
            /\ \A p \in Phones : OutOK(out[p]) /\ ViewOK(ui[p])

InRooms(q) == {r \in Rooms : on[q] /\ Cur(q) \in rooms[r]}
OneRoomInv == \A q \in Phones : ~ui[q].strayed => InOneRoom(out[q], InRooms(q), ui[q].room)

(* A member p of the room r is told of the member q, unless it is about to *)
(* join it again.                                                          *)
Asks(o, r) == \E i \in 1 .. Len(o) : o[i].t = "join" /\ o[i].room = r
Sees(p, q, r) ==
    (/\ on[p] /\ on[q] /\ Cur(p) \in rooms[r] /\ Cur(q) \in rooms[r]
     /\ ~ui[q].strayed /\ ui[p].room = r /\ ~Asks(out[p], r))
    => Told(in[p], ui[p], Cur(q))
SeesInv == \A p, q \in Phones : \A r \in Rooms : p # q => Sees(p, q, r)

RoomsInv == ViewsInv /\ OneRoomInv /\ SeesInv

(* Steps that change nothing of this.                                      *)
OutQuiet ==
    /\ DOMAIN out' = Phones
    /\ \A p \in Phones :
          /\ OutOK(out'[p])
          /\ \A r : Asks(out[p], r) => Asks(out'[p], r)
          /\ \A R, room : InOneRoom(out[p], R, room) => InOneRoom(out'[p], R, room)
InQuiet == \A p \in Phones : \A u, d : Told(in[p], u, d) => Told(in'[p], u, d)
ToldKept == \A p \in Phones : \A d :
    ui[p].room \in Rooms /\ Told(in[p], ui[p], d) => Told(in'[p], ui'[p], d)
ViewsKept ==
    /\ DOMAIN ui' = Phones
    /\ \A p \in Phones :
          ViewOK(ui'[p]) /\ ui'[p].room = ui[p].room /\ ui'[p].strayed = ui[p].strayed
UIQuiet == ViewsKept /\ \A p \in Phones : \A d : SeenIn(ui[p], d) => SeenIn(ui'[p], d)

LEMMA ToldOn == InQuiet /\ UIQuiet => ToldKept /\ ViewsKept
BY ToldStill DEF InQuiet, UIQuiet, ToldKept

LEMMA RoomsKept ==
    ASSUME RoomsInv, UNCHANGED <<session, on, rooms>>, OutQuiet, ToldKept, ViewsKept
    PROVE  RoomsInv'
<1>1. ViewsInv'
  BY DEF OutQuiet, ViewsKept, ViewsInv
<1>2. \A q \in Phones : Cur(q)' = Cur(q) /\ InRooms(q)' = InRooms(q)
  BY DEF Cur, InRooms
<1>3. OneRoomInv'
  BY <1>2 DEF RoomsInv, OneRoomInv, OutQuiet, ViewsKept
<1>4. SeesInv'
  <2> SUFFICES ASSUME NEW p \in Phones, NEW q \in Phones, NEW r \in Rooms, p # q
               PROVE  Sees(p, q, r)'
    BY DEF SeesInv
  <2>1. Sees(p, q, r)
    BY DEF RoomsInv, SeesInv
  <2> QED BY <1>2, <2>1 DEF Sees, OutQuiet, ViewsKept, ToldKept
<1> QED BY <1>1, <1>3, <1>4 DEF RoomsInv

LEMMA QuietStep ==
    ASSUME RoomsInv, UNCHANGED <<session, on, rooms>>, OutQuiet, InQuiet, UIQuiet
    PROVE  RoomsInv'
BY RoomsKept, ToldOn

LEMMA OutSame == ASSUME ViewsInv, UNCHANGED out PROVE OutQuiet
BY DEF ViewsInv, OutQuiet

LEMMA InSame == UNCHANGED in => InQuiet
BY DEF InQuiet

LEMMA UISame == ASSUME ViewsInv, UNCHANGED ui PROVE UIQuiet
BY DEF ViewsInv, UIQuiet, ViewsKept

LEMMA OutSaid ==
    ASSUME ViewsInv, NEW p \in Phones, NEW ms, Queue(ms), Emit(p, ms),
           \A j \in 1 .. Len(ms) : ms[j].t \notin {"join", "leave"}
    PROVE  OutQuiet
<1> DEFINE o == out[p]
           a == o \o ms
<1>1. OutOK(o) /\ Queue(o) /\ out' = [out EXCEPT ![p] = a] /\ DOMAIN out = Phones
  BY DEF ViewsInv, OutOK, Emit
<1>2. /\ Queue(a) /\ Len(o) \in Nat /\ Len(ms) \in Nat /\ Len(a) = Len(o) + Len(ms)
      /\ \A i \in 1 .. Len(o) : a[i] = o[i]
      /\ \A i \in Len(o) + 1 .. Len(o) + Len(ms) : a[i] = ms[i - Len(o)]
  BY <1>1, QueueJoined
<1>3. \A R, room : InOneRoom(o, R, room) => InOneRoom(a, R, room)
  BY <1>1, SaysMore
<1> HIDE DEF o, a
<1>4. \A i \in 1 .. Len(o) : i \in 1 .. Len(a)
  BY <1>2
<1>5. \A r : Asks(o, r) => Asks(a, r)
  BY <1>2, <1>4 DEF Asks
<1>6. ASSUME NEW i \in 1 .. Len(a), a[i].t \in {"join", "leave"} PROVE a[i].room \in Rooms
  <2>1. CASE i \in 1 .. Len(o)
    BY <1>1, <1>2, <1>6, <2>1 DEF OutOK
  <2>2. CASE i \notin 1 .. Len(o)
    <3>1. i \in Len(o) + 1 .. Len(o) + Len(ms) /\ i - Len(o) \in 1 .. Len(ms)
      BY <1>2, <2>2
    <3> QED BY <1>2, <1>6, <3>1
  <2> QED BY <2>1, <2>2
<1>7. OutOK(a)
  BY <1>2, <1>6 DEF OutOK
<1> QED BY <1>1, <1>3, <1>5, <1>7 DEF OutQuiet, ViewsInv, o

LEMMA OutTail == ASSUME NEW o, OutOK(o), o # <<>> PROVE OutOK(Tail(o))
<1> DEFINE a == Tail(o)
<1>1. /\ Queue(a) /\ Len(o) \in Nat \ {0} /\ Len(a) = Len(o) - 1
      /\ \A i \in 1 .. Len(o) - 1 : a[i] = o[i + 1]
  BY QueueTail DEF OutOK
<1> HIDE DEF a
<1>2. \A i \in 1 .. Len(a) : i + 1 \in 1 .. Len(o) /\ a[i] = o[i + 1]
  BY <1>1
<1>3. OutOK(a)
  BY <1>1, <1>2 DEF OutOK
<1> QED BY <1>3 DEF a

LEMMA OutHeard ==
    ASSUME ViewsInv, NEW p \in Phones, NEW t, Received(p, t), t \notin {"join", "leave"}
    PROVE  OutQuiet
<1> DEFINE o == out[p]
           a == Tail(o)
<1>1. /\ OutOK(o) /\ Queue(o) /\ o # <<>> /\ Head(o).t = t /\ out' = [out EXCEPT ![p] = a]
      /\ DOMAIN out = Phones
  BY DEF ViewsInv, OutOK, Received
<1>2. /\ Queue(a) /\ Len(o) \in Nat \ {0} /\ Len(a) = Len(o) - 1 /\ Head(o) = o[1]
      /\ \A i \in 1 .. Len(o) - 1 : a[i] = o[i + 1]
  BY <1>1, QueueTail
<1>3. ASSUME NEW R, NEW room, InOneRoom(o, R, room) PROVE InOneRoom(a, R, room)
  <2>1. \A s : ~Leaves(o[1], s)
    BY <1>1, <1>2 DEF Leaves
  <2> QED BY <1>1, <1>3, <2>1, ServerHearsOther
<1> HIDE DEF o, a
<1>4. ASSUME NEW r, Asks(o, r) PROVE Asks(a, r)
  <2>1. PICK i \in 1 .. Len(o) : o[i].t = "join" /\ o[i].room = r
    BY <1>4 DEF Asks
  <2>2. i # 1
    BY <1>1, <1>2, <2>1
  <2>3. i - 1 \in 1 .. Len(a) /\ a[i - 1] = o[i]
    BY <1>2, <2>2
  <2> QED BY <2>1, <2>3 DEF Asks
<1>5. OutOK(a)
  BY <1>1, OutTail DEF a
<1> QED BY <1>1, <1>3, <1>4, <1>5 DEF OutQuiet, ViewsInv, o

LEMMA InTold ==
    ASSUME InboxInv, NEW C, NEW m, m.t # "left", in' = Emitted(in, C, m) PROVE InQuiet
<1>1. \A d : ~Removed(m, d)
  BY DEF Removed
<1>2. \A p \in Phones : Queue(in[p]) /\ in'[p] \in {in[p], Append(in[p], m)}
  BY DEF InboxInv, Inbox, Queue, Emitted
<1> QED BY <1>1, <1>2, ToldBefore DEF InQuiet

LEMMA InTaken ==
    ASSUME InboxInv, NEW p \in Phones, NEW t, Got(p, t), t \notin {"join", "peers", "left"}
    PROVE  InQuiet
<1>1. /\ DOMAIN in = Phones /\ Queue(in[p]) /\ in[p] # <<>> /\ Head(in[p]).t = t
      /\ in' = [in EXCEPT ![p] = Tail(@)]
  BY DEF InboxInv, Inbox, Queue, Got
<1>2. \A d : ~Added(Head(in[p]), d) /\ ~Removed(Head(in[p]), d)
  BY <1>1 DEF Added, Removed
<1>3. \A u, d : Told(in[p], u, d) => Told(Tail(in[p]), u, d)
  BY <1>1, <1>2, ToldAfter
<1> QED BY <1>1, <1>3 DEF InQuiet

LEMMA OneMessage == ASSUME NEW m PROVE Queue(<<m>>) /\ Len(<<m>>) = 1 /\ <<m>>[1] = m
<1>1. <<m>> \in Seq({m})
  OBVIOUS
<1> QED BY <1>1, QueueOf

LEMMA OutSaidOne ==
    ASSUME ViewsInv, NEW p \in Phones, NEW m, m.t \notin {"join", "leave"}, Emit(p, <<m>>) PROVE OutQuiet
<1> DEFINE ms == <<m>>
<1>1. Queue(ms) /\ Len(ms) = 1 /\ ms[1] = m /\ Emit(p, ms)
  BY OneMessage
<1> HIDE DEF ms
<1>2. \A j \in 1 .. Len(ms) : ms[j].t \notin {"join", "leave"}
  BY <1>1
<1> QED BY <1>1, <1>2, OutSaid

LEMMA OutSignal ==
    ASSUME ViewsInv, NEW p \in Phones, NEW to, NEW type, EmitSignal(p, to, type) PROVE OutQuiet
<1> DEFINE m == [t |-> "signal", to |-> to, type |-> type]
<1>1. m.t \notin {"join", "leave"} /\ Emit(p, <<m>>)
  BY DEF EmitSignal
<1> HIDE DEF m
<1> QED BY <1>1, OutSaidOne

(* What the lists, the buttons and the calls change is not seen in a room. *)
Looks(u, v) ==
    /\ DOMAIN u = Fields /\ DOMAIN v = Fields
    /\ v.room = u.room /\ v.camera = u.camera /\ v.strayed = u.strayed
    /\ v.peers = u.peers /\ Todo(v) = Todo(u)
    /\ \A x \in v.tasks : x.k = "group" => x \in u.tasks \/ x.room \in Rooms

LEMMA LooksOn ==
    ASSUME ViewsInv, NEW p \in Phones, NEW v, Become(p, v), Looks(ui[p], v) PROVE UIQuiet
<1>1. ViewOK(ui[p]) /\ DOMAIN ui = Phones /\ ui' = [ui EXCEPT ![p] = v]
  BY DEF ViewsInv, Become
<1>2. ViewOK(v) /\ v.room = ui[p].room /\ v.strayed = ui[p].strayed
  BY <1>1 DEF Looks, ViewOK
<1>3. \A d : SeenIn(ui[p], d) => SeenIn(v, d)
  BY DEF Looks, SeenIn
<1> QED BY <1>1, <1>2, <1>3 DEF UIQuiet, ViewsKept, ViewsInv

LEMMA LooksOver == ASSUME NEW u, NEW v, NEW w, Looks(u, v), Looks(v, w) PROVE Looks(u, w)
BY DEF Looks

LEMMA LooksTasks ==
    ASSUME NEW u, DOMAIN u = Fields, NEW T,
           \A x \in T : x \in u.tasks \/ (x.k # "peers" /\ (x.k = "group" => x.room \in Rooms)),
           \A x \in u.tasks : x.k = "peers" => x \in T
    PROVE  Looks(u, [u EXCEPT !.tasks = T])
<1> DEFINE v == [u EXCEPT !.tasks = T]
<1>1. /\ DOMAIN v = Fields /\ v.room = u.room /\ v.camera = u.camera
      /\ v.strayed = u.strayed /\ v.peers = u.peers /\ v.tasks = T
  BY DEF Fields
<1> HIDE DEF v
<1>2. Todo(v) = Todo(u)
  BY <1>1 DEF Todo
<1>3. Looks(u, v)
  BY <1>1, <1>2 DEF Looks
<1> QED BY <1>3 DEF v

LEMMA LooksWithout ==
    ASSUME NEW u, DOMAIN u = Fields, NEW x, x.k # "peers"
    PROVE  Looks(u, TaskEnd(u, x)) /\ DOMAIN TaskEnd(u, x) = Fields
<1>1. Looks(u, TaskEnd(u, x))
  BY LooksTasks DEF TaskEnd
<1> QED BY <1>1 DEF Looks

LEMMA LooksWith ==
    ASSUME NEW u, DOMAIN u = Fields, NEW y, y.k # "peers", y.k = "group" => y.room \in Rooms
    PROVE  Looks(u, [u EXCEPT !.tasks = @ \cup {y}])
BY LooksTasks

LEMMA LooksAdvanced ==
    ASSUME NEW u, DOMAIN u = Fields, NEW x, x.k \notin {"peers", "group"}, NEW step
    PROVE  Looks(u, Advance(u, x, step)) /\ DOMAIN Advance(u, x, step) = Fields
<1> DEFINE y == [x EXCEPT !.step = step]
           T == (u.tasks \ {x}) \cup {y}
<1>1. y.k = x.k
  OBVIOUS
<1> HIDE DEF y
<1>2. Looks(u, [u EXCEPT !.tasks = T])
  BY <1>1, LooksTasks
<1>3. Looks(u, Advance(u, x, step))
  BY <1>2 DEF Advance, y
<1> QED BY <1>3 DEF Looks

LEMMA LooksFields ==
    ASSUME NEW u, DOMAIN u = Fields
    PROVE  /\ \A w : Looks(u, [u EXCEPT !.msgs = w]) /\ Looks(u, [u EXCEPT !.push = w])
           /\ \A w : Looks(u, [u EXCEPT !.fetch = w]) /\ Looks(u, [u EXCEPT !.st = w])
           /\ \A w : Looks(u, [u EXCEPT !.mic = w])
           /\ \A w, z : Looks(u, [u EXCEPT !.self = w, !.fetch = z])
           /\ \A w, z : Looks(u, [u EXCEPT !.msgs = w, !.fetch = z])
           /\ \A w, z : Looks(u, [u EXCEPT !.pc = w, !.replaced = z])
           /\ \A w, z : Looks(u, [u EXCEPT !.st = w, !.peer = z])
           /\ \A w, y, z : Looks(u, [u EXCEPT !.offer = w, !.peer = y, !.st = z])
<1> USE DEF Looks, Todo, Fields
<1>1. \A w : Looks(u, [u EXCEPT !.msgs = w]) /\ Looks(u, [u EXCEPT !.push = w])
  OBVIOUS
<1>2. \A w : Looks(u, [u EXCEPT !.fetch = w]) /\ Looks(u, [u EXCEPT !.st = w])
  OBVIOUS
<1>3. \A w : Looks(u, [u EXCEPT !.mic = w])
  OBVIOUS
<1>4. \A w, z : Looks(u, [u EXCEPT !.self = w, !.fetch = z])
  OBVIOUS
<1>5. \A w, z : Looks(u, [u EXCEPT !.msgs = w, !.fetch = z])
  OBVIOUS
<1>6. \A w, z : Looks(u, [u EXCEPT !.pc = w, !.replaced = z])
  OBVIOUS
<1>7. \A w, z : Looks(u, [u EXCEPT !.st = w, !.peer = z])
  OBVIOUS
<1>8. \A w, y, z : Looks(u, [u EXCEPT !.offer = w, !.peer = y, !.st = z])
  OBVIOUS
<1> QED BY <1>1, <1>2, <1>3, <1>4, <1>5, <1>6, <1>7, <1>8

LEMMA LooksSame == ASSUME NEW u, ViewOK(u) PROVE Looks(u, u) /\ DOMAIN u = Fields
BY DEF Looks, ViewOK

LEMMA LooksAdded ==
    ASSUME NEW u, DOMAIN u = Fields, NEW id
    PROVE  Looks(u, AddChat(u, id)) /\ Looks(u, AddVoice(u, id))
<1>1. Looks(u, u)
  BY DEF Looks
<1> QED BY <1>1, LooksFields DEF AddChat, AddVoice

LEMMA LooksCleaned == ASSUME NEW u, DOMAIN u = Fields PROVE Looks(u, Cleanup(u))
<1> DEFINE T == {x \in u.tasks :
                   ~(x.k \in CallKinds /\ x.step = "sdp" /\ u.pc # None /\ u.pc.n = x.n)}
           v == [u EXCEPT !.st = "idle", !.peer = None, !.offer = None, !.pc = None,
                          !.mic = FALSE, !.tasks = T]
<1>1. /\ DOMAIN v = Fields /\ v.room = u.room /\ v.camera = u.camera
      /\ v.strayed = u.strayed /\ v.peers = u.peers /\ v.tasks = T
  <2> HIDE DEF T
  <2> QED BY DEF Fields
<1>2. T \subseteq u.tasks /\ \A x \in u.tasks : x.k = "peers" => x \in T
  BY DEF CallKinds
<1>3. Cleanup(u) = v
  BY DEF Cleanup, CallKinds
<1> HIDE DEF v, T
<1>4. Todo(v) = Todo(u)
  BY <1>1, <1>2 DEF Todo
<1> QED BY <1>1, <1>2, <1>3, <1>4 DEF Looks

LEMMA LooksCalling ==
    ASSUME NEW u, DOMAIN u = Fields, NEW st, NEW c, NEW y, y.k \notin {"peers", "group"}
    PROVE  Looks(u, [u EXCEPT !.st = st, !.peer = c, !.tasks = @ \cup {y}])
<1> DEFINE T == u.tasks \cup {y}
           v == [u EXCEPT !.st = st, !.peer = c, !.tasks = T]
<1>1. /\ DOMAIN v = Fields /\ v.room = u.room /\ v.camera = u.camera
      /\ v.strayed = u.strayed /\ v.peers = u.peers /\ v.tasks = T
  <2> HIDE DEF T
  <2> QED BY DEF Fields
<1> HIDE DEF v
<1>2. Todo(v) = Todo(u)
  BY <1>1 DEF Todo
<1>3. Looks(u, v)
  BY <1>1, <1>2 DEF Looks
<1> QED BY <1>3 DEF v

LEMMA UserActsOutside ==
    ASSUME RoomsInv, NEW p \in Phones, UserActs(p), ~LeaveGroup(p) PROVE RoomsInv'
<1> DEFINE u == ui[p]
<1>1. ViewsInv /\ DOMAIN u = Fields
  BY DEF RoomsInv, ViewsInv, ViewOK
<1>2. ASSUME UNCHANGED <<session, on, rooms, in>>, OutQuiet, NEW v, Become(p, v), Looks(u, v)
      PROVE  RoomsInv'
  BY <1>1, <1>2, LooksOn, InSame, QuietStep
<1>3. ASSUME OnlyUI, NEW v, Become(p, v), Looks(u, v) PROVE RoomsInv'
  <2>1. UNCHANGED <<session, on, rooms, in>> /\ UNCHANGED out
    BY <1>3 DEF OnlyUI, serverSide
  <2> QED BY <1>1, <1>2, <1>3, <2>1, OutSame
<1>4. ASSUME NEW to, SendMessage(p, to) PROVE RoomsInv'
  <2> DEFINE m == [t |-> "chat", id |-> <<"text", Fresh("text")>>, to |-> to]
  <2>1. Emit(p, <<m>>) /\ UNCHANGED <<session, on, rooms>> /\ UNCHANGED in /\ UNCHANGED ui
    BY <1>4 DEF SendMessage
  <2>2. m.t \notin {"join", "leave"}
    OBVIOUS
  <2> HIDE DEF m
  <2>3. OutQuiet
    BY <1>1, <2>1, <2>2, OutSaidOne
  <2> QED BY <1>1, <2>1, <2>3, InSame, UISame, QuietStep
<1>5. ASSUME NEW k \in {"file", "voice"}, NEW to, StartUpload(p, k, to) PROVE RoomsInv'
  <2> DEFINE y == [k |-> k, id |-> <<k, Fresh(k)>>, to |-> to, step |-> "upload"]
  <2>1. Become(p, [u EXCEPT !.tasks = @ \cup {y}]) /\ OnlyUI
    BY <1>5 DEF StartUpload
  <2>2. y.k = k
    OBVIOUS
  <2> HIDE DEF y
  <2>3. Looks(u, [u EXCEPT !.tasks = @ \cup {y}])
    BY <1>1, <2>2, LooksWith
  <2> QED BY <1>3, <2>1, <2>3
<1>6. CASE EnablePush(p)
  <2> DEFINE m == [t |-> "push"]
  <2>1. /\ Become(p, [u EXCEPT !.push = TRUE]) /\ Emit(p, <<m>>)
        /\ UNCHANGED <<session, on, rooms, in>>
    BY <1>6 DEF EnablePush
  <2>2. m.t \notin {"join", "leave"}
    OBVIOUS
  <2> HIDE DEF m
  <2> QED BY <1>1, <1>2, <2>1, <2>2, OutSaidOne, LooksFields
<1>7. ASSUME NEW r \in Rooms, AskGroupMedia(p, r) PROVE RoomsInv'
  <2> DEFINE y == [k |-> "group", room |-> r, n |-> Fresh("group")]
  <2>1. Become(p, [u EXCEPT !.tasks = @ \cup {y}]) /\ OnlyUI
    BY <1>7 DEF AskGroupMedia
  <2>2. y.k = "group" /\ y.room = r
    OBVIOUS
  <2> HIDE DEF y
  <2>3. Looks(u, [u EXCEPT !.tasks = @ \cup {y}])
    BY <1>1, <2>2, LooksWith
  <2> QED BY <1>3, <2>1, <2>3
<1>8. CASE Hangup(p)
  <2>1. OutQuiet
    BY <1>1, <1>8, OutSame, OutSignal DEF Hangup
  <2>2. Become(p, Cleanup(u)) /\ UNCHANGED <<session, on, rooms, in>>
    BY <1>8 DEF Hangup
  <2> QED BY <1>1, <1>2, <2>1, <2>2, LooksCleaned
<1>9. CASE StartCall(p)
  <2>1. PICK c : Become(p, [u EXCEPT !.st = "calling", !.peer = c, !.tasks = @ \cup
                      {[k |-> "start", to |-> c, step |-> "media", n |-> Fresh("call")]}])
    BY <1>9 DEF StartCall
  <2> DEFINE y == [k |-> "start", to |-> c, step |-> "media", n |-> Fresh("call")]
  <2>2. y.k = "start" /\ OnlyUI
    BY <1>9 DEF StartCall
  <2>3. Become(p, [u EXCEPT !.st = "calling", !.peer = c, !.tasks = @ \cup {y}])
    BY <2>1
  <2> HIDE DEF y
  <2>4. Looks(u, [u EXCEPT !.st = "calling", !.peer = c, !.tasks = @ \cup {y}])
    BY <1>1, <2>2, LooksCalling
  <2> QED BY <1>3, <2>2, <2>3, <2>4
<1>10. CASE AcceptCall(p)
  <2> DEFINE y == [k |-> "accept", to |-> None, step |-> "media", n |-> Fresh("call")]
  <2>1. Become(p, [u EXCEPT !.tasks = @ \cup {y}]) /\ OnlyUI
    BY <1>10 DEF AcceptCall
  <2>2. y.k = "accept"
    OBVIOUS
  <2> HIDE DEF y
  <2>3. Looks(u, [u EXCEPT !.tasks = @ \cup {y}])
    BY <1>1, <2>2, LooksWith
  <2> QED BY <1>3, <2>1, <2>3
<1> QED BY <1>4, <1>5, <1>6, <1>7, <1>8, <1>9, <1>10 DEF UserActs

LEMMA TasksOutside ==
    ASSUME RoomsInv, InboxInv, NEW p \in Phones, TaskGoesOn(p), ~JoinGroup(p), ~OfferPeer(p)
    PROVE  RoomsInv'
<1> DEFINE u == ui[p]
<1>1. ViewsInv /\ DOMAIN u = Fields
  BY DEF RoomsInv, ViewsInv, ViewOK
<1>2. ASSUME UNCHANGED <<session, on, rooms>>, OutQuiet, InQuiet, NEW v, Become(p, v), Looks(u, v)
      PROVE  RoomsInv'
  BY <1>1, <1>2, LooksOn, QuietStep
<1>3. ASSUME OnlyUI, NEW v, Become(p, v), Looks(u, v) PROVE RoomsInv'
  <2>1. UNCHANGED <<session, on, rooms>> /\ UNCHANGED in /\ UNCHANGED out
    BY <1>3 DEF OnlyUI, serverSide
  <2> QED BY <1>1, <1>2, <1>3, <2>1, OutSame, InSame
<1>4. \A x : x.k # "peers" => Looks(u, TaskEnd(u, x)) /\ DOMAIN TaskEnd(u, x) = Fields
  BY <1>1, LooksWithout
<1>5. CASE SendMedia(p)
  <2>1. PICK x \in Task(p, "file") :
          /\ Become(p, AddChat(TaskEnd(u, x), x.id))
          /\ Emit(p, <<[t |-> "chat", id |-> x.id, to |-> x.to]>>)
          /\ UNCHANGED <<users, devices, rooms, log, session, on, in, shown, budget>>
    BY <1>5 DEF SendMedia
  <2> DEFINE m == [t |-> "chat", id |-> x.id, to |-> x.to]
  <2>2. m.t \notin {"join", "leave"} /\ Emit(p, <<m>>)
    BY <2>1
  <2> HIDE DEF m
  <2>3. OutQuiet /\ InQuiet
    BY <1>1, <2>1, <2>2, OutSaidOne, InSame
  <2>4. Looks(u, AddChat(TaskEnd(u, x), x.id))
    <3>1. x.k = "file"
      BY DEF Task
    <3> QED BY <1>4, <3>1, LooksAdded, LooksOver
  <2> QED BY <1>2, <2>1, <2>3, <2>4
<1>6. CASE UploadVoice(p)
  <2>1. PICK x \in Task(p, "voice") :
          /\ DeliverVoiceMessage(x.id, x.to)
          /\ Become(p, Advance(u, x, "stored"))
          /\ UNCHANGED <<users, devices, rooms, log, session, on, out, shown, budget>>
    BY <1>6 DEF UploadVoice
  <2>2. InQuiet
    <3> DEFINE m == [t |-> "voice", id |-> x.id]
    <3>1. m.t # "left" /\ \E C : in' = Emitted(in, C, m)
      BY <2>1 DEF DeliverVoiceMessage
    <3> HIDE DEF m
    <3> QED BY <3>1, InTold
  <2>3. Looks(u, Advance(u, x, "stored"))
    <3>1. x.k = "voice"
      BY DEF Task
    <3> QED BY <1>1, <3>1, LooksAdvanced
  <2> QED BY <1>1, <1>2, <2>1, <2>2, <2>3, OutSame
<1>7. CASE SendVoiceMessage(p)
  <2>1. PICK x \in Task(p, "voice") : Become(p, AddVoice(TaskEnd(u, x), x.id)) /\ OnlyUI
    BY <1>7 DEF SendVoiceMessage
  <2>2. x.k = "voice"
    BY DEF Task
  <2>3. Looks(u, AddVoice(TaskEnd(u, x), x.id))
    BY <1>4, <2>2, LooksAdded, LooksOver
  <2> QED BY <1>3, <2>1, <2>3
<1>8. CASE UploadFails(p) \/ GroupMediaRefused(p)
  <2>1. PICK x : x.k # "peers" /\ Become(p, TaskEnd(u, x)) /\ OnlyUI
    BY <1>8 DEF UploadFails, GroupMediaRefused, Task
  <2> QED BY <1>3, <1>4, <2>1
<1>9. \A step : \A x \in CallTasks(p, step) : x.k \notin {"peers", "group"}
  BY DEF CallTasks, Task
<1>10. CASE GotMedia(p)
  <2>1. PICK x \in CallTasks(p, "media") :
          Become(p, [Advance(u, x, "ice") EXCEPT !.mic = TRUE]) /\ OnlyUI
    BY <1>10 DEF GotMedia
  <2>2. Looks(u, Advance(u, x, "ice")) /\ DOMAIN Advance(u, x, "ice") = Fields
    BY <1>1, <1>9, LooksAdvanced
  <2>3. Looks(u, [Advance(u, x, "ice") EXCEPT !.mic = TRUE])
    BY <2>2, LooksFields, LooksOver
  <2> QED BY <1>3, <2>1, <2>3
<1>11. CASE MediaRefused(p)
  <2>1. PICK x \in CallTasks(p, "media") :
          /\ \/ /\ Become(p, [TaskEnd(u, x) EXCEPT !.st = "idle", !.peer = None])
                /\ UNCHANGED out
             \/ /\ Become(p, Cleanup(TaskEnd(u, x)))
                /\ UNCHANGED out \/ EmitSignal(p, u.peer, "hangup")
          /\ UNCHANGED <<users, devices, rooms, log, session, on, in, shown, budget>>
    BY <1>11 DEF MediaRefused
  <2>2. Looks(u, TaskEnd(u, x)) /\ DOMAIN TaskEnd(u, x) = Fields
    BY <1>4, <1>9
  <2>3. /\ Looks(u, [TaskEnd(u, x) EXCEPT !.st = "idle", !.peer = None])
        /\ Looks(u, Cleanup(TaskEnd(u, x)))
    BY <2>2, LooksFields, LooksCleaned, LooksOver
  <2>4. OutQuiet /\ InQuiet
    BY <1>1, <2>1, OutSame, OutSignal, InSame
  <2> QED BY <1>2, <2>1, <2>3, <2>4
<1>12. CASE GotIceServers(p)
  <2>1. PICK x \in CallTasks(p, "ice") : \E c, z :
          Become(p, [Advance(u, x, "sdp") EXCEPT !.pc = c, !.replaced = z]) /\ OnlyUI
    BY <1>12 DEF GotIceServers
  <2>4. PICK c, z : Become(p, [Advance(u, x, "sdp") EXCEPT !.pc = c, !.replaced = z]) /\ OnlyUI
    BY <2>1
  <2>2. Looks(u, Advance(u, x, "sdp")) /\ DOMAIN Advance(u, x, "sdp") = Fields
    BY <1>1, <1>9, LooksAdvanced
  <2>3. Looks(u, [Advance(u, x, "sdp") EXCEPT !.pc = c, !.replaced = z])
    BY <2>2, LooksFields, LooksOver
  <2> QED BY <1>3, <2>3, <2>4
<1>13. CASE SendOffer(p)
  <2>1. PICK x \in CallTasks(p, "sdp") :
          /\ Become(p, TaskEnd(u, x)) /\ EmitSignal(p, x.to, "offer")
          /\ UNCHANGED <<users, devices, rooms, log, session, on, in, shown, budget>>
    BY <1>13 DEF SendOffer
  <2>2. OutQuiet /\ InQuiet
    BY <1>1, <2>1, OutSignal, InSame
  <2> QED BY <1>2, <1>4, <1>9, <2>1, <2>2
<1>14. CASE SendAnswer(p)
  <2>1. PICK x \in CallTasks(p, "sdp") :
          /\ \/ Become(p, TaskEnd(u, x)) /\ UNCHANGED out
             \/ /\ Become(p, [TaskEnd(u, x) EXCEPT !.st = "connected"])
                /\ EmitSignal(p, u.peer, "answer")
          /\ UNCHANGED <<users, devices, rooms, log, session, on, in, shown, budget>>
    BY <1>14 DEF SendAnswer
  <2>2. Looks(u, TaskEnd(u, x)) /\ DOMAIN TaskEnd(u, x) = Fields
    BY <1>4, <1>9
  <2>3. Looks(u, [TaskEnd(u, x) EXCEPT !.st = "connected"])
    BY <2>2, LooksFields, LooksOver
  <2>4. OutQuiet /\ InQuiet
    BY <1>1, <2>1, OutSame, OutSignal, InSame
  <2> QED BY <1>2, <2>1, <2>2, <2>3, <2>4
<1>15. CASE ShowHistory(p)
  <2>1. PICK i, n : /\ Become(p, [MergeHistory(u, HistoryAnswer(n)) EXCEPT !.fetch = RemoveAt(@, i)])
                    /\ OnlyUI
    BY <1>15 DEF ShowHistory
  <2> DEFINE w == MergeHistory(u, HistoryAnswer(n))
  <2>2. Looks(u, w) /\ DOMAIN w = Fields
    <3>1. Looks(u, w)
      BY <1>1, LooksFields DEF MergeHistory
    <3> QED BY <3>1 DEF Looks
  <2> HIDE DEF w
  <2>3. Looks(u, [w EXCEPT !.fetch = RemoveAt(@, i)])
    BY <2>2, LooksFields, LooksOver
  <2> QED BY <1>3, <2>1, <2>3 DEF w
<1>16. CASE AnswerTaken(p)
  <2>1. PICK x \in Task(p, "answer") :
          Become(p, [TaskEnd(u, x) EXCEPT !.st = "connected"]) /\ OnlyUI
    BY <1>16 DEF AnswerTaken
  <2>2. Looks(u, TaskEnd(u, x)) /\ DOMAIN TaskEnd(u, x) = Fields
    <3>1. x.k = "answer"
      BY DEF Task
    <3> QED BY <1>4, <3>1
  <2>3. Looks(u, [TaskEnd(u, x) EXCEPT !.st = "connected"])
    BY <2>2, LooksFields, LooksOver
  <2> QED BY <1>3, <2>1, <2>3
<1> QED
  BY <1>5, <1>6, <1>7, <1>8, <1>10, <1>11, <1>12, <1>13, <1>14, <1>15, <1>16
     DEF TaskGoesOn

LEMMA GrowsOn ==
    ASSUME ViewsInv, NEW p \in Phones, NEW v, Become(p, v), ViewOK(v),
           v.room = ui[p].room, v.strayed = ui[p].strayed,
           \A d : SeenIn(ui[p], d) => SeenIn(v, d)
    PROVE  UIQuiet
BY DEF ViewsInv, Become, UIQuiet, ViewsKept

LEMMA PeersChange ==
    ASSUME NEW u, ViewOK(u), NEW P
    PROVE  /\ ViewOK([u EXCEPT !.peers = P]) /\ [u EXCEPT !.peers = P].room = u.room
           /\ [u EXCEPT !.peers = P].strayed = u.strayed
           /\ \A d : SeenIn([u EXCEPT !.peers = P], d) <=>
                      d \in P \/ \E x \in Todo(u) : d \in Range(Tail(x.todo))
<1> DEFINE v == [u EXCEPT !.peers = P]
<1>1. /\ DOMAIN v = Fields /\ v.room = u.room /\ v.camera = u.camera
      /\ v.strayed = u.strayed /\ v.tasks = u.tasks /\ v.peers = P
  BY DEF ViewOK, Fields
<1> HIDE DEF v
<1>2. Todo(v) = Todo(u)
  BY <1>1 DEF Todo
<1>3. /\ ViewOK(v)
      /\ \A d : SeenIn(v, d) <=> d \in P \/ \E x \in Todo(u) : d \in Range(Tail(x.todo))
  BY <1>1, <1>2 DEF ViewOK, SeenIn
<1> QED BY <1>1, <1>3 DEF v

LEMMA HeadOrTail ==
    ASSUME NEW q, Queue(q), NEW d \in Range(q)
    PROVE  q # <<>> /\ d \in Tile(q) \cup Range(Tail(q))
<1>1. PICK i \in 1 .. Len(q) : d = q[i]
  BY RangeEquality DEF Queue
<1>2. q # <<>>
  BY <1>1, QueueEmpty
<1>3. /\ Len(q) \in Nat \ {0} /\ Len(Tail(q)) = Len(q) - 1 /\ Head(q) = q[1] /\ Queue(Tail(q))
      /\ \A j \in 1 .. Len(q) - 1 : Tail(q)[j] = q[j + 1]
  BY <1>2, QueueTail
<1>4. CASE i = 1
  BY <1>1, <1>2, <1>3, <1>4 DEF Tile
<1>5. CASE i # 1
  <2>1. i - 1 \in 1 .. Len(q) - 1 /\ (i - 1) + 1 = i
    BY <1>3, <1>5
  <2>2. d = Tail(q)[i - 1] /\ i - 1 \in 1 .. Len(Tail(q))
    BY <1>1, <1>3, <2>1
  <2>3. d \in Range(Tail(q))
    BY <1>3, <2>2, RangeEquality DEF Queue
  <2> QED BY <1>2, <2>3
<1> QED BY <1>4, <1>5

LEMMA MembersInLine ==
    ASSUME NEW S, IsFiniteSet(S) PROVE Queue(SetToSeq(S)) /\ S \subseteq Range(SetToSeq(S))
<1> DEFINE n == Cardinality(S)
           q == SetToSeq(S)
<1>1. n \in Nat /\ q \in [1 .. n -> S] /\ \A d \in S : \E i \in 1 .. n : q[i] = d
  BY SetAsSequence
<1> HIDE DEF n, q
<1>2. q \in Seq(S) /\ DOMAIN q = 1 .. n
  BY <1>1
<1>3. Queue(q)
  BY <1>2, QueueOf
<1>4. S \subseteq Range(q)
  BY <1>1, <1>2 DEF Range
<1> QED BY <1>3, <1>4 DEF q

(* The next member is offered a connection: the phone shows it already,    *)
(* and the one after it from now on.                                       *)
LEMMA OfferOutside ==
    ASSUME RoomsInv, NEW p \in Phones, OfferPeer(p) PROVE RoomsInv'
<1> DEFINE u == ui[p]
<1>1. PICK x \in Task(p, "peers") :
        /\ LET rest == Tail(x.todo)
           IN  Become(p, [TaskEnd(u, x) EXCEPT !.peers = @ \cup Tile(rest), !.tasks =
                   @ \cup (IF rest = <<>> THEN {} ELSE {[x EXCEPT !.todo = rest]})])
        /\ EmitSignal(p, Head(x.todo), "groupoffer")
        /\ UNCHANGED <<users, devices, rooms, log, session, on, in, shown, budget>>
  BY DEF OfferPeer
<1> DEFINE rest == Tail(x.todo)
           y == [x EXCEPT !.todo = rest]
           Y == IF rest = <<>> THEN {} ELSE {y}
           w == TaskEnd(u, x)
           T == (u.tasks \ {x}) \cup Y
           P == u.peers \cup Tile(rest)
           v == [w EXCEPT !.peers = P, !.tasks = T]
<1>2. ViewsInv /\ ViewOK(u) /\ x \in Todo(u)
  BY DEF RoomsInv, ViewsInv, Todo, Task
<1>3. Queue(x.todo) /\ x.todo # <<>> /\ x.k = "peers" /\ DOMAIN x = {"k", "todo"} /\ Queue(rest)
  <2>1. Queue(x.todo) /\ x.todo # <<>> /\ x.k = "peers" /\ DOMAIN x = {"k", "todo"}
    BY <1>2 DEF ViewOK, Todo
  <2> QED BY <2>1, QueueTail
<1> HIDE DEF rest
<1>4. y.k = "peers" /\ y.todo = rest /\ DOMAIN y = {"k", "todo"}
  BY <1>3
<1> HIDE DEF y
<1>5. /\ w.tasks = u.tasks \ {x} /\ w.peers = u.peers /\ DOMAIN w = Fields
      /\ w.room = u.room /\ w.camera = u.camera /\ w.strayed = u.strayed
  BY <1>2 DEF TaskEnd, ViewOK, Fields
<1>6. Become(p, v)
  BY <1>1, <1>5 DEF rest, y
<1> HIDE DEF w
<1>7. /\ DOMAIN v = Fields /\ v.room = u.room /\ v.camera = u.camera
      /\ v.strayed = u.strayed /\ v.tasks = T /\ v.peers = P
  BY <1>5 DEF Fields
<1> HIDE DEF v
<1>8. \A z \in Todo(v) : z \in Todo(u) \/ (z = y /\ rest # <<>>)
  BY <1>7 DEF Todo
<1>9. ViewOK(v)
  <2>1. \A z \in v.tasks : z.k = "group" => z \in u.tasks
    BY <1>4, <1>7
  <2> QED BY <1>2, <1>3, <1>4, <1>7, <1>8, <2>1 DEF ViewOK
<1>10. ASSUME NEW d, SeenIn(u, d) PROVE SeenIn(v, d)
  <2>1. CASE d \in u.peers
    BY <1>7, <2>1 DEF SeenIn
  <2>2. ASSUME NEW z \in Todo(u), d \in Range(Tail(z.todo)), z # x PROVE SeenIn(v, d)
    <3>1. z \in Todo(v)
      BY <1>7, <2>2 DEF Todo
    <3> QED BY <2>2, <3>1 DEF SeenIn
  <2>3. ASSUME d \in Range(rest) PROVE SeenIn(v, d)
    <3>1. rest # <<>> /\ (d \in Tile(rest) \/ d \in Range(Tail(rest)))
      BY <1>3, <2>3, HeadOrTail
    <3>2. y \in Todo(v)
      BY <1>4, <1>7, <3>1 DEF Todo
    <3> QED BY <1>4, <1>7, <3>1, <3>2 DEF SeenIn
  <2> QED BY <1>10, <2>1, <2>2, <2>3 DEF SeenIn, rest
<1>11. UIQuiet
  BY <1>2, <1>6, <1>7, <1>9, <1>10, GrowsOn
<1>12. OutQuiet /\ InQuiet
  BY <1>1, <1>2, OutSignal, InSame
<1> QED BY <1>1, <1>11, <1>12, QuietStep

(* A phone takes in a message about the members of a room.                 *)
LEMMA PeersArrive ==
    ASSUME RoomsInv, InboxInv, NEW p \in Phones, OnGroupPeers(p) PROVE RoomsInv'
<1> DEFINE u == ui[p]
           m == Head(in[p])
           todo == SetToSeq(m.who)
           y == [k |-> "peers", todo |-> todo]
           T == u.tasks \cup {y}
           P == u.peers \cup Tile(todo)
           v == [u EXCEPT !.peers = P, !.tasks = T]
<1>1. /\ Got(p, "peers") /\ UNCHANGED out /\ UNCHANGED <<session, on, rooms>>
      /\ IF ~u.camera \/ todo = <<>> THEN UNCHANGED ui ELSE Become(p, v)
  BY DEF OnGroupPeers, Got, Says
<1>2. ViewsInv /\ ViewOK(u) /\ OutQuiet
  BY <1>1, OutSame DEF RoomsInv, ViewsInv
<1>3. /\ DOMAIN in = Phones /\ Inbox(in[p]) /\ Queue(in[p]) /\ in[p] # <<>> /\ m.t = "peers"
      /\ in' = [in EXCEPT ![p] = Tail(@)]
  BY <1>1 DEF InboxInv, Inbox, Queue, Got
<1>4. Queue(todo) /\ m.who \subseteq Range(todo)
  <2>1. IsFiniteSet(m.who)
    BY <1>3, InboxTail DEF Named
  <2> QED BY <2>1, MembersInLine
<1>5. \A d : (Added(m, d) <=> d \in m.who) /\ ~Removed(m, d)
  BY <1>3 DEF Added, Removed
<1> HIDE DEF m, todo
<1>6. CASE ~u.camera \/ todo = <<>>
  <2>1. UNCHANGED ui
    BY <1>1, <1>6
  <2>2. ViewsKept
    BY <1>2, <2>1, UISame DEF UIQuiet
  <2>3. ASSUME NEW q \in Phones, NEW d, ui[q].room \in Rooms, Told(in[q], ui[q], d)
        PROVE  Told(in'[q], ui'[q], d)
    <3>1. CASE q = p
      <4>1. u.camera
        BY <1>2, <2>3, <3>1, CommAssumption DEF ViewOK, CommAssumption
      <4>2. m.who = {}
        <5>1. todo = <<>>
          BY <1>6, <4>1
        <5>2. Range(todo) = {}
          BY <1>4, <5>1, HeadOrTail
        <5> QED BY <1>4, <5>2
      <4>3. ~Added(m, d) /\ ~Removed(m, d)
        BY <1>5, <4>2
      <4>4. Told(Tail(in[p]), u, d)
        BY <1>3, <2>3, <3>1, <4>3, ToldAfter DEF m
      <4> QED BY <1>3, <2>1, <3>1, <4>4
    <3>2. CASE q # p
      BY <1>3, <2>1, <2>3, <3>2
    <3> QED BY <3>1, <3>2
  <2>4. ToldKept
    BY <2>3 DEF ToldKept
  <2> QED BY <1>1, <1>2, <2>2, <2>4, RoomsKept
<1>7. CASE ~(~u.camera \/ todo = <<>>)
  <2>1. Become(p, v)
    BY <1>1, <1>7
  <2>2. y.k = "peers" /\ y.todo = todo /\ DOMAIN y = {"k", "todo"}
    OBVIOUS
  <2> HIDE DEF y
  <2>3. /\ DOMAIN v = Fields /\ v.room = u.room /\ v.camera = u.camera
        /\ v.strayed = u.strayed /\ v.tasks = T /\ v.peers = P
    BY <1>2 DEF ViewOK, Fields
  <2> HIDE DEF v
  <2>4. Todo(v) = Todo(u) \cup {y}
    BY <2>2, <2>3 DEF Todo
  <2>5. ViewOK(v)
    <3>1. \A x \in v.tasks : x.k = "group" => x \in u.tasks
      BY <2>2, <2>3
    <3> QED BY <1>2, <1>4, <1>7, <2>2, <2>3, <2>4, <3>1 DEF ViewOK
  <2>6. \A d : SeenIn(u, d) => SeenIn(v, d)
    BY <2>3, <2>4 DEF SeenIn
  <2>7. UIQuiet
    BY <1>2, <2>1, <2>3, <2>5, <2>6, GrowsOn
  <2>8. ASSUME NEW d, d \in m.who PROVE SeenIn(v, d)
    <3>1. d \in Tile(todo) \cup Range(Tail(todo))
      BY <1>4, <2>8, HeadOrTail
    <3> QED BY <2>2, <2>3, <2>4, <3>1 DEF SeenIn
  <2>9. \A d : Told(in[p], u, d) => Told(Tail(in[p]), v, d)
    BY <1>3, <1>5, <2>6, <2>8, ToldAfter DEF m
  <2>10. ui' = [ui EXCEPT ![p] = v] /\ DOMAIN ui = Phones
    BY <1>2, <2>1 DEF Become, ViewsInv
  <2>11. ToldKept
    BY <1>3, <2>9, <2>10 DEF ToldKept
  <2> QED BY <1>1, <1>2, <2>7, <2>11, RoomsKept DEF UIQuiet
<1> QED BY <1>6, <1>7

LEMMA MemberArrives ==
    ASSUME RoomsInv, InboxInv, NEW p \in Phones, OnGroupJoin(p) \/ OnGroupLeave(p)
    PROVE  RoomsInv'
<1> DEFINE u == ui[p]
           m == Head(in[p])
           P == IF m.t = "join" THEN u.peers \cup {m.who} ELSE u.peers \ {m.who}
           v == [u EXCEPT !.peers = P]
<1>1. /\ Become(p, v) /\ UNCHANGED out /\ UNCHANGED <<session, on, rooms>>
      /\ Got(p, m.t) /\ m.t \in {"join", "left"}
  BY DEF OnGroupJoin, OnGroupLeave, Got, Says
<1>2. ViewsInv /\ ViewOK(u) /\ OutQuiet
  BY <1>1, OutSame DEF RoomsInv, ViewsInv
<1>3. /\ DOMAIN in = Phones /\ Queue(in[p]) /\ in[p] # <<>>
      /\ in' = [in EXCEPT ![p] = Tail(@)]
  BY <1>1 DEF InboxInv, Inbox, Queue, Got
<1> HIDE DEF m, P
<1>4. /\ ViewOK(v) /\ v.room = u.room /\ v.strayed = u.strayed
      /\ \A d : SeenIn(v, d) <=> d \in P \/ \E x \in Todo(u) : d \in Range(Tail(x.todo))
  BY <1>2, PeersChange
<1> HIDE DEF v
<1>5. ui' = [ui EXCEPT ![p] = v] /\ DOMAIN ui = Phones
  BY <1>1, <1>2 DEF Become, ViewsInv
<1>6. ViewsKept
  BY <1>2, <1>4, <1>5 DEF ViewsKept, ViewsInv
<1>7. \A d : /\ Added(m, d) => SeenIn(v, d)
             /\ ~Removed(m, d) /\ SeenIn(u, d) => SeenIn(v, d)
  BY <1>1, <1>4 DEF Added, Removed, SeenIn, P
<1>8. ASSUME NEW d, Told(in[p], u, d) PROVE Told(Tail(in[p]), v, d)
  <2>1. /\ Added(Head(in[p]), d) => SeenIn(v, d)
        /\ ~Removed(Head(in[p]), d) /\ SeenIn(u, d) => SeenIn(v, d)
    BY <1>7 DEF m
  <2> HIDE DEF u
  <2>2. Queue(in[p]) /\ in[p] # <<>> /\ Told(in[p], u, d)
    BY <1>3, <1>8
  <2> QED BY <2>1, <2>2, ToldAfter
<1>9. ToldKept
  BY <1>3, <1>5, <1>8 DEF ToldKept
<1> QED BY <1>1, <1>2, <1>6, <1>9, RoomsKept

LEMMA ReceivingOutside ==
    ASSUME RoomsInv, InboxInv, NEW p \in Phones, PhoneReceives(p) PROVE RoomsInv'
<1> DEFINE u == ui[p]
           m == Says(p)
<1>1. ViewsInv /\ ViewOK(u) /\ DOMAIN u = Fields
  BY DEF RoomsInv, ViewsInv, ViewOK
<1>2. ASSUME NEW t, Got(p, t), t \notin {"join", "peers", "left"}, OutQuiet, UIQuiet PROVE RoomsInv'
  <2>1. InQuiet
    BY <1>2, InTaken
  <2>2. UNCHANGED <<session, on, rooms>>
    BY <1>2 DEF Got
  <2> QED BY <1>2, <2>1, <2>2, QuietStep
<1>3. ASSUME NEW t, Got(p, t), t \notin {"join", "peers", "left"}, OutQuiet,
             NEW v, Become(p, v), Looks(u, v)
      PROVE  RoomsInv'
  BY <1>1, <1>2, <1>3, LooksOn
<1>4. CASE OnWelcome(p)
  <2>1. /\ Got(p, "welcome")
        /\ \E w, z : Become(p, [u EXCEPT !.self = w, !.fetch = z])
    BY <1>4 DEF OnWelcome
  <2> DEFINE a == <<[t |-> "register"]>>
             b == IF u.push THEN <<[t |-> "push"]>> ELSE <<>>
  <2>2. Emit(p, a \o b)
    BY <1>4 DEF OnWelcome
  <2>3. a \in Seq({[t |-> "register"]}) /\ b \in Seq({[t |-> "push"]})
    <3>1. /\ <<[t |-> "register"]>> \in Seq({[t |-> "register"]})
          /\ <<[t |-> "push"]>> \in Seq({[t |-> "push"]})
      OBVIOUS
    <3>2. <<>> \in Seq({[t |-> "push"]})
      BY EmptySeq
    <3>3. b \in Seq({[t |-> "push"]})
      BY <3>1, <3>2, Zenon
    <3> QED BY <3>1, <3>3
  <2> DEFINE S == {[t |-> "register"], [t |-> "push"]}
  <2>4. a \in Seq(S) /\ b \in Seq(S)
    BY <2>3
  <2>5. \A x \in S : x.t \notin {"join", "leave"}
    OBVIOUS
  <2> HIDE DEF a, b, S
  <2> DEFINE c == a \o b
  <2>6. c \in Seq(S)
    BY <2>4, ConcatProperties
  <2> HIDE DEF c
  <2>7. Queue(c) /\ \A j \in 1 .. Len(c) : c[j].t \notin {"join", "leave"}
    BY <2>5, <2>6, QueueOf, ElementOfSeq
  <2>8. OutQuiet
    BY <1>1, <2>2, <2>7, OutSaid DEF c
  <2> QED BY <1>1, <1>3, <2>1, <2>8, LooksFields
<1>5. CASE OnChatMessage(p)
  <2>1. Got(p, "chat") /\ \E id : Become(p, AddChat(u, id))
    BY <1>5 DEF OnChatMessage
  <2>2. OutQuiet
    <3> DEFINE r == [t |-> "receipt", id |-> m.m.id, reader |-> u.self]
    <3>1. Emit(p, <<r>>) \/ UNCHANGED out
      BY <1>5 DEF OnChatMessage
    <3>2. r.t \notin {"join", "leave"}
      OBVIOUS
    <3> HIDE DEF r
    <3> QED BY <1>1, <3>1, <3>2, OutSame, OutSaidOne
  <2> QED BY <1>1, <1>3, <2>1, <2>2, LooksAdded
<1>6. CASE OnVoiceMessage(p)
  <2>1. Got(p, "voice") /\ (\E id : Become(p, AddVoice(u, id))) /\ UNCHANGED out
    BY <1>6 DEF OnVoiceMessage
  <2> QED BY <1>1, <1>3, <2>1, OutSame, LooksAdded
<1>7. CASE OnReadReceipt(p)
  <2>1. Got(p, "receipt") /\ (\E w : Become(p, [u EXCEPT !.msgs = w])) /\ UNCHANGED out
    BY <1>7 DEF OnReadReceipt
  <2> QED BY <1>1, <1>3, <2>1, OutSame, LooksFields
<1>8. CASE OnGroupPeers(p)
  BY <1>8, PeersArrive
<1>9. CASE OnGroupJoin(p) \/ OnGroupLeave(p)
  BY <1>9, MemberArrives
<1>10. CASE OnGroupSignal(p)
  <2>1. /\ Got(p, "signal")
        /\ \/ /\ Become(p, [u EXCEPT !.peers = u.peers \cup {m.from}])
              /\ EmitSignal(p, m.from, "groupanswer")
           \/ UNCHANGED ui /\ UNCHANGED out
    BY <1>10 DEF OnGroupSignal
  <2>2. OutQuiet
    BY <1>1, <2>1, OutSame, OutSignal
  <2>3. UIQuiet
    <3>1. CASE UNCHANGED ui
      BY <1>1, <3>1, UISame
    <3>2. CASE Become(p, [u EXCEPT !.peers = u.peers \cup {m.from}])
      <4> DEFINE P == u.peers \cup {m.from}
                 v == [u EXCEPT !.peers = P]
      <4> HIDE DEF P
      <4>1. /\ ViewOK(v) /\ v.room = u.room /\ v.strayed = u.strayed
            /\ \A d : SeenIn(v, d) <=> d \in P \/ \E x \in Todo(u) : d \in Range(Tail(x.todo))
        BY <1>1, PeersChange
      <4>2. Become(p, v)
        BY <3>2 DEF P
      <4> HIDE DEF v
      <4>3. \A d : SeenIn(u, d) => SeenIn(v, d)
        BY <4>1 DEF SeenIn, P
      <4> QED BY <1>1, <4>1, <4>2, <4>3, GrowsOn
    <3> QED BY <2>1, <3>1, <3>2
  <2> QED BY <1>2, <2>1, <2>2, <2>3
<1>11. CASE OnOffer(p)
  <2>1. /\ Got(p, "signal") /\ UNCHANGED out
        /\ \E w, y, z : Become(p, [u EXCEPT !.offer = w, !.peer = y, !.st = z])
    BY <1>11 DEF OnOffer
  <2> QED BY <1>1, <1>3, <2>1, OutSame, LooksFields
<1>12. CASE OnAnswer(p)
  <2> DEFINE y == [k |-> "answer", to |-> None, step |-> "sdp", n |-> u.pc.n]
  <2>1. /\ Got(p, "signal") /\ UNCHANGED out
        /\ UNCHANGED ui \/ Become(p, [u EXCEPT !.tasks = @ \cup {y}])
    BY <1>12 DEF OnAnswer
  <2>2. y.k = "answer"
    OBVIOUS
  <2> HIDE DEF y
  <2>3. Looks(u, [u EXCEPT !.tasks = @ \cup {y}])
    BY <1>1, <2>2, LooksWith
  <2> QED BY <1>1, <1>2, <1>3, <2>1, <2>3, OutSame, UISame
<1>13. CASE OnHangup(p)
  <2>1. Got(p, "signal") /\ UNCHANGED out /\ Become(p, Cleanup(u))
    BY <1>13 DEF OnHangup
  <2> QED BY <1>1, <1>3, <2>1, OutSame, LooksCleaned
<1> QED
  BY <1>4, <1>5, <1>6, <1>7, <1>8, <1>9, <1>10, <1>11, <1>12, <1>13 DEF PhoneReceives

(* The phone says one thing to the server.                                 *)
LEMMA OutOne ==
    ASSUME ViewsInv, NEW p \in Phones, NEW m, Emit(p, <<m>>) PROVE out' = [out EXCEPT ![p] = Append(out[p], m)]
<1> DEFINE o == out[p]
           S == Range(o) \cup {m}
<1>1. o \in Seq(S) /\ m \in S
  BY DEF ViewsInv, OutOK, Queue
<1> HIDE DEF S
<1>2. Append(o, m) = o \o <<m>>
  BY <1>1, AppendIsConcat
<1> QED BY <1>2 DEF Emit

LEMMA OutAppended ==
    ASSUME NEW o, OutOK(o), NEW m, m.room \in Rooms
    PROVE  /\ OutOK(Append(o, m)) /\ (m.t = "join" => Asks(Append(o, m), m.room))
           /\ \A r : Asks(o, r) => Asks(Append(o, m), r)
<1> DEFINE a == Append(o, m)
<1>1. /\ Queue(a) /\ Len(o) \in Nat /\ Len(a) = Len(o) + 1
      /\ \A i \in 1 .. Len(o) : a[i] = o[i]
      /\ a[Len(o) + 1] = m
  BY QueueAppended DEF OutOK
<1> HIDE DEF a
<1>2. \A i \in 1 .. Len(a) : i \in 1 .. Len(o) \/ i = Len(o) + 1
  BY <1>1
<1>3. OutOK(a)
  BY <1>1, <1>2 DEF OutOK
<1>4. Len(o) + 1 \in 1 .. Len(a) /\ \A i \in 1 .. Len(o) : i \in 1 .. Len(a)
  BY <1>1
<1>5. (m.t = "join" => Asks(a, m.room)) /\ \A r : Asks(o, r) => Asks(a, r)
  BY <1>1, <1>4 DEF Asks
<1> QED BY <1>3, <1>5 DEF a

(* A phone changes its room and says so: the other phones are not touched. *)
LEMMA RoomChanges ==
    ASSUME RoomsInv, UNCHANGED <<session, on, rooms, in>>, NEW p \in Phones,
           NEW v, Become(p, v), ViewOK(v), ~v.strayed => ~ui[p].strayed,
           NEW a, OutOK(a), out' = [out EXCEPT ![p] = a],
           ~v.strayed => InOneRoom(a, InRooms(p), v.room),
           \A r \in Rooms : v.room = r => Asks(a, r)
    PROVE  RoomsInv'
<1>1. /\ DOMAIN ui = Phones /\ DOMAIN out = Phones /\ ui' = [ui EXCEPT ![p] = v]
      /\ \A q \in Phones : OutOK(out[q]) /\ ViewOK(ui[q])
  BY DEF RoomsInv, ViewsInv, Become
<1>2. ViewsInv'
  BY <1>1 DEF ViewsInv
<1>3. \A q \in Phones : Cur(q)' = Cur(q) /\ InRooms(q)' = InRooms(q)
  BY DEF Cur, InRooms
<1>4. OneRoomInv'
  BY <1>1, <1>3 DEF RoomsInv, OneRoomInv
<1>5. SeesInv'
  <2> SUFFICES ASSUME NEW q \in Phones, NEW t \in Phones, NEW r \in Rooms, q # t
               PROVE  Sees(q, t, r)'
    BY DEF SeesInv
  <2>1. Sees(q, t, r)
    BY DEF RoomsInv, SeesInv
  <2>2. CASE q = p
    BY <1>1, <2>2 DEF Sees
  <2>3. CASE q # p
    <3>1. ui'[q] = ui[q] /\ out'[q] = out[q] /\ (~ui'[t].strayed => ~ui[t].strayed)
      BY <1>1, <2>3
    <3> QED BY <1>3, <2>1, <3>1 DEF Sees
  <2> QED BY <2>2, <2>3
<1> QED BY <1>2, <1>4, <1>5 DEF RoomsInv

LEMMA JoinsARoom ==
    ASSUME RoomsInv, NEW p \in Phones, JoinGroup(p) PROVE RoomsInv'
<1> DEFINE u == ui[p]
           o == out[p]
<1>1. PICK x \in Task(p, "group") :
        /\ Become(p, [TaskEnd(u, x) EXCEPT !.room = x.room, !.camera = TRUE,
                                           !.strayed = @ \/ u.room \notin {None, x.room}])
        /\ Emit(p, <<[t |-> "join", room |-> x.room]>>)
        /\ UNCHANGED <<users, devices, rooms, log, session, on, in, shown, budget>>
  BY DEF JoinGroup
<1>2. ViewsInv /\ ViewOK(u) /\ OutOK(o) /\ (~u.strayed => InOneRoom(o, InRooms(p), u.room))
  BY DEF RoomsInv, ViewsInv, OneRoomInv
<1>3. x \in u.tasks /\ x.k = "group" /\ x.room \in Rooms /\ x.room # None
  BY <1>2, CommAssumption DEF Task, ViewOK, CommAssumption
<1> DEFINE w == TaskEnd(u, x)
           z == w.strayed \/ u.room \notin {None, x.room}
           v == [w EXCEPT !.room = x.room, !.camera = TRUE, !.strayed = z]
           m == [t |-> "join", room |-> x.room]
           a == Append(o, m)
<1>4. Looks(u, w)
  BY <1>2, <1>3, LooksWithout DEF ViewOK
<1>5. Become(p, v)
  BY <1>1
<1> HIDE DEF w
<1>6. /\ DOMAIN v = Fields /\ v.room = x.room /\ v.camera = TRUE /\ v.strayed = z
      /\ v.tasks = w.tasks /\ v.peers = w.peers
  <2> HIDE DEF z
  <2> QED BY <1>4 DEF Looks, Fields
<1> HIDE DEF v
<1>7. Todo(v) = Todo(u)
  BY <1>4, <1>6 DEF Looks, Todo
<1>8. ViewOK(v)
  BY <1>2, <1>3, <1>4, <1>6, <1>7 DEF ViewOK, Looks
<1>9. ~v.strayed => ~u.strayed /\ u.room \in {None, x.room}
  BY <1>4, <1>6 DEF Looks
<1>10. m.t = "join" /\ m.room = x.room
  OBVIOUS
<1>11. out' = [out EXCEPT ![p] = a]
  BY <1>1, <1>2, OutOne
<1> HIDE DEF m
<1>12. OutOK(a) /\ Asks(a, x.room)
  BY <1>2, <1>3, <1>10, OutAppended
<1>13. ~v.strayed => InOneRoom(a, InRooms(p), x.room)
  BY <1>2, <1>3, <1>9, <1>10, AsksForRoom DEF OutOK
<1> QED BY <1>1, <1>5, <1>6, <1>8, <1>9, <1>11, <1>12, <1>13, RoomChanges

LEMMA LeavesARoom ==
    ASSUME RoomsInv, NEW p \in Phones, LeaveGroup(p) PROVE RoomsInv'
<1> DEFINE u == ui[p]
           o == out[p]
           m == [t |-> "leave", room |-> u.room]
           v == [u EXCEPT !.room = None, !.camera = FALSE, !.peers = {}]
           a == Append(o, m)
<1>1. /\ u.room # None /\ Become(p, v) /\ Emit(p, <<m>>)
      /\ UNCHANGED <<users, devices, rooms, log, session, on, in, shown, budget>>
  BY DEF LeaveGroup
<1>2. ViewsInv /\ ViewOK(u) /\ OutOK(o) /\ (~u.strayed => InOneRoom(o, InRooms(p), u.room))
  BY DEF RoomsInv, ViewsInv, OneRoomInv
<1>3. /\ DOMAIN v = Fields /\ v.room = None /\ v.strayed = u.strayed /\ v.tasks = u.tasks
  BY <1>2 DEF ViewOK, Fields
<1> HIDE DEF v
<1>4. Todo(v) = Todo(u)
  BY <1>3 DEF Todo
<1>5. ViewOK(v)
  BY <1>2, <1>3, <1>4 DEF ViewOK
<1>6. m.t = "leave" /\ m.room = u.room /\ m.room \in Rooms
  BY <1>1, <1>2 DEF ViewOK
<1>7. out' = [out EXCEPT ![p] = a]
  BY <1>1, <1>2, OutOne
<1> HIDE DEF m
<1>8. OutOK(a)
  BY <1>2, <1>6, OutAppended
<1>9. ~v.strayed => InOneRoom(a, InRooms(p), v.room)
  <2> SUFFICES ASSUME ~u.strayed PROVE InOneRoom(a, InRooms(p), None)
    BY <1>3
  <2>1. InOneRoom(o, InRooms(p), u.room) /\ Queue(o)
    BY <1>2 DEF OutOK
  <2> HIDE DEF o, u
  <2> QED BY <1>6, <2>1, LeavesRoom
<1>10. \A r \in Rooms : v.room # r
  BY <1>3, CommAssumption DEF CommAssumption
<1> QED BY <1>1, <1>3, <1>5, <1>7, <1>8, <1>9, <1>10, RoomChanges

-----------------------------------------------------------------------------
(* What the server does to the rooms.                                      *)

LEMMA ServerQuiet ==
    ASSUME RoomsInv, InboxInv, NEW p \in Phones, UNCHANGED ui,
           \/ Register(p) \/ RegisterPush(p) \/ ChatMessage(p) \/ ReadReceipt(p) \/ Signal(p)
    PROVE  RoomsInv'
<1>1. ViewsInv /\ UIQuiet
  BY UISame DEF RoomsInv
<1>2. ASSUME NEW t \in {"register", "push", "chat", "receipt", "signal"}, Received(p, t),
             InQuiet, UNCHANGED <<session, on, rooms>>
      PROVE  RoomsInv'
  BY <1>1, <1>2, OutHeard, QuietStep
<1>3. CASE Register(p) \/ RegisterPush(p)
  BY <1>2, <1>3, InSame DEF Register, RegisterPush
<1>4. CASE ReadReceipt(p)
  <2> DEFINE m == [t |-> "receipt", id |-> Head(out[p]).id, reader |-> Head(out[p]).reader]
  <2>1. m.t # "left" /\ \E C : in' = Emitted(in, C, m)
    BY <1>4 DEF ReadReceipt, Broadcast
  <2> HIDE DEF m
  <2> QED BY <1>2, <1>4, <2>1, InTold DEF ReadReceipt
<1>5. CASE Signal(p)
  <2> DEFINE m == [t |-> "signal", type |-> Head(out[p]).type, from |-> Cur(p)]
  <2>1. m.t # "left" /\ \E C : in' = Emitted(in, C, m)
    BY <1>5 DEF Signal
  <2> HIDE DEF m
  <2> QED BY <1>2, <1>5, <2>1, InTold DEF Signal
<1>6. CASE ChatMessage(p)
  <2> DEFINE h == Head(out[p])
             w == [id |-> h.id, from |-> Cur(p), to |-> h.to]
             m == [t |-> "chat", m |-> w]
             echo == [in EXCEPT ![p] = Append(@, m)]
  <2>1. PICK C : in' = Emitted(in, C, m) \/ in' = Emitted(echo, C, m)
    BY <1>6 DEF ChatMessage
  <2>2. m.t # "left"
    OBVIOUS
  <2> HIDE DEF m
  <2>3. \A d : ~Removed(m, d)
    BY <2>2 DEF Removed
  <2>4. DOMAIN in = Phones /\ \A q \in Phones : Queue(in[q])
    BY DEF InboxInv, Inbox, Queue
  <2>5. InQuiet
    <3> SUFFICES ASSUME NEW q \in Phones, NEW u, NEW d, Told(in[q], u, d)
                 PROVE  Told(in'[q], u, d)
      BY DEF InQuiet
    <3>1. Queue(Append(in[q], m)) /\ Told(Append(in[q], m), u, d)
      BY <2>3, <2>4, QueueAppended, ToldBefore
    <3>2. Told(Append(Append(in[q], m), m), u, d)
      BY <2>3, <3>1, ToldBefore
    <3>3. in'[q] \in {in[q], Append(in[q], m), Append(Append(in[q], m), m)}
      BY <2>1, <2>4 DEF Emitted
    <3> QED BY <3>1, <3>2, <3>3
  <2> QED BY <1>2, <1>6, <2>5 DEF ChatMessage
<1> QED BY <1>3, <1>4, <1>5, <1>6

(* The head of what a phone says is gone: it asks for no other room.       *)
LEMMA AsksLess ==
    ASSUME NEW o, Queue(o), o # <<>>, NEW r, Asks(o, r), ~(o[1].t = "join" /\ o[1].room = r)
    PROVE  Asks(Tail(o), r)
<1> DEFINE a == Tail(o)
<1>1. /\ Len(o) \in Nat \ {0} /\ Len(a) = Len(o) - 1
      /\ \A i \in 1 .. Len(o) - 1 : a[i] = o[i + 1]
  BY QueueTail
<1> HIDE DEF a
<1>2. PICK i \in 1 .. Len(o) : o[i].t = "join" /\ o[i].room = r
  BY DEF Asks
<1>3. i - 1 \in 1 .. Len(a) /\ i - 1 \in 1 .. Len(o) - 1 /\ (i - 1) + 1 = i
  BY <1>1, <1>2
<1>4. a[i - 1] = o[i]
  BY <1>1, <1>3
<1> QED BY <1>2, <1>3, <1>4 DEF Asks, a

LEMMA ServerLetsIn ==
    ASSUME RoomsInv, InboxInv, ServerInv, NEW p \in Phones, UNCHANGED ui, JoinGroupCall(p)
    PROVE  RoomsInv'
<1> DEFINE o == out[p]
           c == Cur(p)
           r0 == Head(o).room
           m == [t |-> "peers", room |-> r0, who |-> rooms[r0] \cap DOMAIN users]
           n == [t |-> "join", room |-> r0, who |-> c]
           told == [in EXCEPT ![p] = Append(@, m)]
<1>1. /\ on[p] /\ o # <<>> /\ Head(o).t = "join" /\ out' = [out EXCEPT ![p] = Tail(o)]
      /\ rooms' = [rooms EXCEPT ![r0] = @ \cup {c}]
      /\ in' = Emitted(told, rooms[r0] \ {c}, n)
      /\ UNCHANGED <<users, session, on>>
  BY DEF JoinGroupCall, Received
<1>2. /\ DOMAIN ui = Phones /\ DOMAIN out = Phones /\ OutOK(o) /\ Queue(o)
      /\ \A q \in Phones : OutOK(out[q]) /\ ViewOK(ui[q])
  BY DEF RoomsInv, ViewsInv, OutOK
<1>3. o[1] = Head(o) /\ 1 \in 1 .. Len(o)
  BY <1>1, <1>2, QueueTail
<1>4. r0 \in Rooms /\ rooms \in [Rooms -> SUBSET Clients]
  BY <1>1, <1>2, <1>3 DEF OutOK, ServerInv
<1>5. /\ \A d : ~Removed(m, d) /\ ~Removed(n, d)
      /\ \A d \in rooms[r0] \cap DOMAIN users : Added(m, d)
      /\ Added(n, c)
  BY DEF Removed, Added
<1>6. \A q \in Phones : \A r \in Rooms : Cur(q) \in rooms[r] => Cur(q) \in DOMAIN users
  BY DEF ServerInv, RoomsHoldClients
<1>7. \A q, t \in Phones : q # t => Cur(q) # Cur(t)
  BY DEF Cur
<1>8. \A q \in Phones : Cur(q)' = Cur(q) /\ (Here(Cur(q)) <=> on[q])
  BY <1>1 DEF Cur, Here
<1> HIDE DEF m, n
<1>9. DOMAIN in = Phones /\ \A q \in Phones : Queue(in[q])
  BY DEF InboxInv, Inbox, Queue
<1>10. /\ in'[p] = Append(in[p], m)
       /\ \A q \in Phones : q # p => in'[q] = IF on[q] /\ Cur(q) \in (rooms[r0] \ {c}) \cap DOMAIN users
                                           THEN Append(in[q], n) ELSE in[q]
  BY <1>1, <1>8, <1>9 DEF Emitted
<1>11. /\ \A r \in Rooms : r # r0 => rooms'[r] = rooms[r]
       /\ rooms'[r0] = rooms[r0] \cup {c}
  BY <1>1, <1>4
<1> HIDE DEF r0
<1>12. ViewsInv'
  BY <1>1, <1>2, OutTail DEF ViewsInv
<1>13. OneRoomInv'
  <2> SUFFICES ASSUME NEW q \in Phones, ~ui[q].strayed
               PROVE  InOneRoom(out'[q], InRooms(q)', ui[q].room)
    BY DEF OneRoomInv
  <2>1. InOneRoom(out[q], InRooms(q), ui[q].room)
    BY DEF RoomsInv, OneRoomInv
  <2>2. CASE q # p
    <3>1. InRooms(q)' = InRooms(q)
      BY <1>1, <1>7, <1>8, <1>11, <2>2 DEF InRooms
    <3> QED BY <1>1, <1>2, <2>1, <2>2, <3>1
  <2>3. CASE q = p
    <3>1. o[1].t = "join" /\ o[1].room = r0
      BY <1>1, <1>3 DEF r0
    <3>2. \A s \in InRooms(p) : s = r0
      BY <1>1, <1>2, <2>1, <2>3, <3>1, OneRoomAsked
    <3>3. \A s \in InRooms(p)' : s \in InRooms(p) \/ s = r0
      BY <1>1, <1>8, <1>11 DEF InRooms
    <3> DEFINE Q == InRooms(p)'
               R == InRooms(p)
    <3>4. /\ \A s, t \in Q : s = t
          /\ \A s \in Q : \/ s \in R /\ ~Leaves(o[1], s)
                          \/ o[1].t = "join" /\ o[1].room = s
      BY <3>1, <3>2, <3>3
    <3>5. Queue(o) /\ o # <<>> /\ InOneRoom(o, R, ui[p].room)
      BY <1>1, <1>2, <2>1, <2>3
    <3> HIDE DEF Q, R, o
    <3>6. InOneRoom(Tail(o), Q, ui[p].room)
      BY <3>4, <3>5, ServerHears
    <3> QED BY <1>1, <1>2, <2>3, <3>6 DEF Q
  <2> QED BY <2>2, <2>3
<1>14. SeesInv'
  <2> SUFFICES ASSUME NEW q \in Phones, NEW t \in Phones, NEW r \in Rooms, q # t,
                      on[q], on[t], Cur(q) \in rooms'[r], Cur(t) \in rooms'[r],
                      ~ui[t].strayed, ui[q].room = r, ~Asks(out'[q], r)
               PROVE  Told(in'[q], ui[q], Cur(t))
    BY <1>1, <1>8 DEF SeesInv, Sees
  <2>1. Cur(q) \in rooms[r] /\ Cur(t) \in rooms[r] /\ ~Asks(out[q], r) => Told(in[q], ui[q], Cur(t))
    BY DEF RoomsInv, SeesInv, Sees
  <2>2. Told(in[q], ui[q], Cur(t)) => Told(in'[q], ui[q], Cur(t))
    <3>1. in'[q] \in {in[q], Append(in[q], m), Append(in[q], n)}
      BY <1>10
    <3>2. Queue(in[q]) /\ ~Removed(m, Cur(t)) /\ ~Removed(n, Cur(t))
      BY <1>5, <1>9
    <3> SUFFICES ASSUME Told(in[q], ui[q], Cur(t)) PROVE Told(in'[q], ui[q], Cur(t))
      OBVIOUS
    <3> QED BY <3>1, <3>2, ToldBefore
  <2>3. CASE q = p /\ r = r0
    <3>1. Cur(t) \in rooms[r0]
      BY <1>7, <1>11, <2>3
    <3>2. Added(m, Cur(t))
      BY <1>4, <1>5, <1>6, <3>1
    <3>3. Queue(in[q]) /\ in'[q] = Append(in[q], m)
      BY <1>9, <1>10, <2>3
    <3> QED BY <3>2, <3>3, ToldLast
  <2>4. CASE q = p /\ r # r0
    <3>1. ~(o[1].t = "join" /\ o[1].room = r) /\ out'[q] = Tail(o)
      BY <1>1, <1>2, <1>3, <2>4 DEF r0
    <3>2. ~Asks(out[q], r)
      BY <1>1, <1>2, <2>4, <3>1, AsksLess
    <3> QED BY <1>11, <2>1, <2>2, <2>4, <3>2
  <2>5. CASE q # p
    <3>1. Cur(q) \in rooms[r] /\ Cur(q) # c /\ out'[q] = out[q]
      BY <1>1, <1>2, <1>7, <1>11, <2>5
    <3>2. CASE t = p /\ r = r0
      <4>1. in'[q] = Append(in[q], n) /\ Cur(t) = c
        BY <1>6, <1>10, <2>5, <3>1, <3>2
      <4> QED BY <1>5, <1>9, <4>1, ToldLast
    <3>3. CASE ~(t = p /\ r = r0)
      <4>1. Cur(t) \in rooms[r]
        BY <1>7, <1>11, <3>3
      <4> QED BY <2>1, <2>2, <3>1, <4>1
    <3> QED BY <3>2, <3>3
  <2> QED BY <2>3, <2>4, <2>5
<1> QED BY <1>12, <1>13, <1>14 DEF RoomsInv

(* Whoever leaves is in that room alone, unless it strayed: nobody else is *)
(* told of it that still should see it.                                    *)
LEMMA ServerLetsOut ==
    ASSUME RoomsInv, InboxInv, ServerInv, NEW p \in Phones, UNCHANGED ui, LeaveGroupCall(p)
    PROVE  RoomsInv'
<1> DEFINE o == out[p]
           c == Cur(p)
           r0 == Head(o).room
           m == [t |-> "left", room |-> r0, who |-> c]
<1>1. /\ on[p] /\ o # <<>> /\ Head(o).t = "leave" /\ out' = [out EXCEPT ![p] = Tail(o)]
      /\ rooms' = [rooms EXCEPT ![r0] = @ \ {c}]
      /\ in' = LeftRoom(in, c, r0)
      /\ UNCHANGED <<users, session, on>>
  BY DEF LeaveGroupCall, Received
<1>2. /\ DOMAIN ui = Phones /\ DOMAIN out = Phones /\ OutOK(o) /\ Queue(o)
      /\ \A q \in Phones : OutOK(out[q]) /\ ViewOK(ui[q])
  BY DEF RoomsInv, ViewsInv, OutOK
<1>3. o[1] = Head(o) /\ 1 \in 1 .. Len(o)
  BY <1>1, <1>2, QueueTail
<1>4. r0 \in Rooms /\ rooms \in [Rooms -> SUBSET Clients]
  BY <1>1, <1>2, <1>3 DEF OutOK, ServerInv
<1>5. \A d : Removed(m, d) => d = c
  BY DEF Removed
<1>6. \A q, t \in Phones : q # t => Cur(q) # Cur(t)
  BY DEF Cur
<1>7. \A q \in Phones : Cur(q)' = Cur(q)
  BY <1>1 DEF Cur
<1>8. DOMAIN in = Phones /\ \A q \in Phones : Queue(in[q])
  BY DEF InboxInv, Inbox, Queue
<1>9. o[1].t = "leave" /\ o[1].room = r0
  BY <1>1, <1>3
<1> HIDE DEF m, r0
<1>10. /\ c \notin rooms[r0] => in' = in
       /\ in'[p] = in[p]
       /\ \A q \in Phones : in'[q] \in {in[q], Append(in[q], m)}
  BY <1>1, <1>8 DEF LeftRoom, Emitted, m
<1>11. /\ \A r \in Rooms : r # r0 => rooms'[r] = rooms[r]
       /\ rooms'[r0] = rooms[r0] \ {c}
  BY <1>1, <1>4
<1>12. ViewsInv'
  BY <1>1, <1>2, OutTail DEF ViewsInv
<1>13. OneRoomInv'
  <2> SUFFICES ASSUME NEW q \in Phones, ~ui[q].strayed
               PROVE  InOneRoom(out'[q], InRooms(q)', ui[q].room)
    BY <1>1 DEF OneRoomInv
  <2>1. InOneRoom(out[q], InRooms(q), ui[q].room)
    BY DEF RoomsInv, OneRoomInv
  <2>2. CASE q # p
    <3>1. InRooms(q)' = InRooms(q)
      BY <1>1, <1>6, <1>7, <1>11, <2>2 DEF InRooms
    <3> QED BY <1>1, <1>2, <2>1, <2>2, <3>1
  <2>3. CASE q = p
    <3> DEFINE Q == InRooms(p)'
               R == InRooms(p)
    <3>1. \A s \in Q : s \in R /\ s # r0
      BY <1>1, <1>4, <1>7, <1>11 DEF InRooms
    <3>2. Queue(o) /\ o # <<>> /\ InOneRoom(o, R, ui[p].room)
      BY <1>1, <1>2, <2>1, <2>3
    <3> HIDE DEF Q, R, o
    <3>3. /\ \A s, t \in Q : s = t
          /\ \A s \in Q : \/ s \in R /\ ~Leaves(o[1], s)
                          \/ o[1].t = "join" /\ o[1].room = s
      BY <1>9, <3>1, <3>2 DEF InOneRoom, Leaves
    <3>4. InOneRoom(Tail(o), Q, ui[p].room)
      BY <3>2, <3>3, ServerHears
    <3> QED BY <1>1, <1>2, <2>3, <3>4 DEF Q
  <2> QED BY <2>2, <2>3
<1>14. SeesInv'
  <2> SUFFICES ASSUME NEW q \in Phones, NEW t \in Phones, NEW r \in Rooms, q # t,
                      on[q], on[t], Cur(q) \in rooms'[r], Cur(t) \in rooms'[r],
                      ~ui[t].strayed, ui[q].room = r, ~Asks(out'[q], r)
               PROVE  Told(in'[q], ui[q], Cur(t))
    BY <1>1, <1>7 DEF SeesInv, Sees
  <2>1. Cur(q) \in rooms[r] /\ Cur(t) \in rooms[r]
    BY <1>11
  <2>2. ~Asks(out[q], r)
    <3>1. ~(o[1].t = "join" /\ o[1].room = r)
      BY <1>9
    <3>2. out'[q] = IF q = p THEN Tail(o) ELSE out[q]
      BY <1>1, <1>2
    <3> QED BY <1>1, <1>2, <3>1, <3>2, AsksLess
  <2>3. Told(in[q], ui[q], Cur(t))
    BY <2>1, <2>2 DEF RoomsInv, SeesInv, Sees
  <2>4. CASE q = p \/ c \notin rooms[r0]
    BY <1>10, <2>3, <2>4
  <2>5. CASE t # p
    <3>1. Queue(in[q]) /\ ~Removed(m, Cur(t))
      BY <1>5, <1>6, <1>8, <2>5
    <3> QED BY <1>10, <2>3, <3>1, ToldBefore
  <2>6. CASE t = p /\ c \in rooms[r0]
    <3>1. r # r0
      BY <1>11, <2>6
    <3>2. r \in InRooms(p) /\ r0 \in InRooms(p)
      BY <1>1, <1>4, <2>1, <2>6 DEF InRooms
    <3>3. \A s, v \in InRooms(p) : s = v
      BY <2>6 DEF RoomsInv, OneRoomInv, InOneRoom
    <3> QED BY <3>1, <3>2, <3>3
  <2> QED BY <2>4, <2>5, <2>6
<1> QED BY <1>12, <1>13, <1>14 DEF RoomsInv

-----------------------------------------------------------------------------
(* Connections.  A session that is new is in no room, and one that is gone *)
(* is nobody's.                                                            *)
LEMMA NothingSaid == OutOK(<<>>) /\ \A room : InOneRoom(<<>>, {}, room)
<1> DEFINE q == <<>>
<1>1. Queue(q) /\ Len(q) = 0
  BY QueueEmpty
<1> HIDE DEF q
<1>2. \A i \in 1 .. Len(q) : FALSE
  BY <1>1
<1>3. OutOK(q)
  BY <1>1, <1>2 DEF OutOK
<1>4. \A room : InOneRoom(q, {}, room)
  BY <1>1, <1>2 DEF InOneRoom, LeftBut
<1> QED BY <1>3, <1>4 DEF q

(* The phone p is in no room; the others are as they were.                 *)
LEMMA OnePhoneOut ==
    ASSUME RoomsInv, NEW p \in Phones, UNCHANGED <<ui, rooms>>,
           \A q \in Phones : q # p => /\ Cur(q)' = Cur(q) /\ on'[q] = on[q]
                                      /\ out'[q] = out[q] /\ in'[q] = in[q],
           DOMAIN out' = Phones, OutOK(out'[p]), \A r \in Rooms : ~(on'[p] /\ Cur(p)' \in rooms[r]),
           \A room : InOneRoom(out[p], InRooms(p), room) => InOneRoom(out'[p], {}, room)
    PROVE  RoomsInv'
<1>1. ViewsInv'
  BY DEF RoomsInv, ViewsInv
<1>2. OneRoomInv'
  <2> SUFFICES ASSUME NEW q \in Phones, ~ui[q].strayed
               PROVE  InOneRoom(out'[q], InRooms(q)', ui[q].room)
    BY DEF OneRoomInv
  <2>1. InOneRoom(out[q], InRooms(q), ui[q].room)
    BY DEF RoomsInv, OneRoomInv
  <2>2. CASE q = p
    <3>1. InRooms(p)' = {}
      BY DEF InRooms
    <3> QED BY <2>1, <2>2, <3>1
  <2>3. CASE q # p
    <3>1. InRooms(q)' = InRooms(q) /\ out'[q] = out[q]
      BY <2>3 DEF InRooms
    <3> QED BY <2>1, <3>1
  <2> QED BY <2>2, <2>3
<1>3. SeesInv'
  <2> SUFFICES ASSUME NEW q \in Phones, NEW t \in Phones, NEW r \in Rooms, q # t
               PROVE  Sees(q, t, r)'
    BY DEF SeesInv
  <2>1. Sees(q, t, r)
    BY DEF RoomsInv, SeesInv
  <2>2. CASE q = p \/ t = p
    BY <2>2 DEF Sees
  <2>3. CASE q # p /\ t # p
    BY <2>1, <2>3 DEF Sees
  <2> QED BY <2>2, <2>3
<1> QED BY <1>1, <1>2, <1>3 DEF RoomsInv

LEMMA ConnectionOpens ==
    ASSUME RoomsInv, ServerInv, InboxInv, NEW p \in Phones, UNCHANGED ui, HandleConnection(p)
    PROVE  RoomsInv'
<1>1. /\ UNCHANGED <<rooms, out>>
      /\ session' = [session EXCEPT ![p] = @ + 1]
      /\ on' = [on EXCEPT ![p] = TRUE]
      /\ in' = [in EXCEPT ![p] = <<[t |-> "welcome", id |-> <<p, session[p] + 1>>]>>]
  BY DEF HandleConnection
<1>2. /\ session \in [Phones -> 0 .. MaxSessions] /\ on \in [Phones -> BOOLEAN]
      /\ \A r \in Rooms : rooms[r] \subseteq DOMAIN users
      /\ \A c \in DOMAIN users : c[2] <= session[c[1]]
      /\ DOMAIN in = Phones
  BY DEF ServerInv, SessionsAreKnown, RoomsHoldClients, InboxInv
<1>3. \A q \in Phones : q # p => /\ Cur(q)' = Cur(q) /\ on'[q] = on[q]
                                 /\ out'[q] = out[q] /\ in'[q] = in[q]
  BY <1>1, <1>2 DEF Cur
<1>4. Cur(p)' \notin DOMAIN users
  <2>1. Cur(p)' = <<p, session[p] + 1>> /\ session[p] \in Nat
    BY <1>1, <1>2, Numbers DEF Cur
  <2> QED BY <1>2, <2>1
<1>5. \A r \in Rooms : ~(on'[p] /\ Cur(p)' \in rooms[r])
  BY <1>2, <1>4
<1>6. DOMAIN out' = Phones /\ OutOK(out'[p])
  BY <1>1 DEF RoomsInv, ViewsInv
<1>7. \A room : InOneRoom(out[p], InRooms(p), room) => InOneRoom(out'[p], {}, room)
  BY <1>1, FewerRooms
<1> QED BY <1>1, <1>3, <1>5, <1>6, <1>7, OnePhoneOut

LEMMA ConnectionDrops ==
    ASSUME RoomsInv, ServerInv, InboxInv, NEW p \in Phones, UNCHANGED ui, Lose(p)
    PROVE  RoomsInv'
<1>1. /\ UNCHANGED <<rooms, session>>
      /\ on' = [on EXCEPT ![p] = FALSE]
      /\ in' = [in EXCEPT ![p] = <<>>]
      /\ out' = [out EXCEPT ![p] = <<>>]
  BY DEF Lose
<1>2. /\ on \in [Phones -> BOOLEAN] /\ DOMAIN in = Phones /\ DOMAIN out = Phones
  BY DEF ServerInv, SessionsAreKnown, InboxInv, RoomsInv, ViewsInv
<1>3. \A q \in Phones : q # p => /\ Cur(q)' = Cur(q) /\ on'[q] = on[q]
                                 /\ out'[q] = out[q] /\ in'[q] = in[q]
  BY <1>1, <1>2 DEF Cur
<1>4. ~on'[p] /\ out'[p] = <<>> /\ DOMAIN out' = Phones
  BY <1>1, <1>2
<1> QED BY <1>1, <1>3, <1>4, NothingSaid, OnePhoneOut

(* The server notices that a socket is gone: its rooms are told.           *)
LEMMA LeftStays ==
    ASSUME NEW p, NEW c, NEW d, d # c
    PROVE  Queue(LeftRooms(p, c)) /\ Stays(LeftRooms(p, c), d)
<1> DEFINE rs == SetToSeq({r \in Rooms : {c, Cur(p)} \subseteq rooms[r]})
           q == [i \in DOMAIN rs |-> [t |-> "left", room |-> rs[i], who |-> c]]
<1>1. Queue(LeftRooms(p, c))
  BY InboxLeft DEF Inbox, Queue
<1>2. LeftRooms(p, c) = q \/ LeftRooms(p, c) = <<>>
  BY DEF LeftRooms
<1>3. \A i \in DOMAIN q : ~Removed(q[i], d)
  BY DEF Removed
<1> HIDE DEF q
<1>4. Len(<<>>) = 0
  BY QueueEmpty
<1>5. Queue(LeftRooms(p, c)) => DOMAIN LeftRooms(p, c) = 1 .. Len(LeftRooms(p, c))
  BY DEF Queue
<1>6. CASE LeftRooms(p, c) = q
  BY <1>1, <1>3, <1>5, <1>6 DEF Stays
<1>7. CASE LeftRooms(p, c) = <<>>
  BY <1>4, <1>7, <1>1 DEF Stays
<1> QED BY <1>1, <1>2, <1>6, <1>7

LEMMA ConnectionEnds ==
    ASSUME RoomsInv, ServerInv, InboxInv, NEW c \in Clients, UNCHANGED ui, HandleDisconnect(c)
    PROVE  RoomsInv'
<1>1. /\ ~Here(c) /\ UNCHANGED <<session, on, out>>
      /\ rooms' = [r \in Rooms |-> rooms[r] \ {c}]
      /\ in' = [p \in Phones |-> in[p] \o LeftRooms(p, c)]
  BY DEF HandleDisconnect
<1>2. ViewsInv'
  BY <1>1 DEF RoomsInv, ViewsInv
<1>3. \A q \in Phones : /\ Cur(q)' = Cur(q) /\ (on[q] => Cur(q) # c)
                        /\ InRooms(q)' \in SUBSET InRooms(q)
  BY <1>1 DEF Cur, Here, InRooms
<1>4. \A q \in Phones : Queue(in[q])
  BY DEF InboxInv, Inbox, Queue
<1>5. OneRoomInv'
  <2> SUFFICES ASSUME NEW q \in Phones, ~ui[q].strayed
               PROVE  InOneRoom(out[q], InRooms(q)', ui[q].room)
    BY <1>1 DEF OneRoomInv
  <2>1. InOneRoom(out[q], InRooms(q), ui[q].room)
    BY DEF RoomsInv, OneRoomInv
  <2> QED BY <1>3, <2>1, FewerRooms
<1>6. SeesInv'
  <2> SUFFICES ASSUME NEW q \in Phones, NEW t \in Phones, NEW r \in Rooms, q # t,
                      on[q], on[t], Cur(q) \in rooms'[r], Cur(t) \in rooms'[r],
                      ~ui[t].strayed, ui[q].room = r, ~Asks(out[q], r)
               PROVE  Told(in'[q], ui[q], Cur(t))
    BY <1>1, <1>3 DEF SeesInv, Sees
  <2>1. Cur(q) \in rooms[r] /\ Cur(t) \in rooms[r]
    BY <1>1
  <2>2. Told(in[q], ui[q], Cur(t))
    BY <2>1 DEF RoomsInv, SeesInv, Sees
  <2>3. Queue(LeftRooms(q, c)) /\ Stays(LeftRooms(q, c), Cur(t))
    BY <1>3, LeftStays
  <2>4. in'[q] = in[q] \o LeftRooms(q, c)
    BY <1>1
  <2> QED BY <1>4, <2>2, <2>3, <2>4, ToldBeforeAll
<1> QED BY <1>2, <1>5, <1>6 DEF RoomsInv

-----------------------------------------------------------------------------
LEMMA RoomsInitially == CommInit => RoomsInv
<1> SUFFICES ASSUME CommInit PROVE RoomsInv
    OBVIOUS
<1>1. /\ ui = [p \in Phones |-> Initially] /\ out = [p \in Phones |-> <<>>]
      /\ rooms = [r \in Rooms |-> {}]
  BY DEF CommInit
<1>2. ViewOK(Initially)
  BY DEF ViewOK, Todo, Fields, Initially
<1>3. ViewsInv
  BY <1>1, <1>2, NothingSaid DEF ViewsInv
<1>4. \A p \in Phones : InRooms(p) = {}
  BY <1>1 DEF InRooms
<1>5. OneRoomInv
  BY <1>1, <1>4, NothingSaid DEF OneRoomInv
<1>6. SeesInv
  BY <1>1 DEF SeesInv, Sees
<1> QED BY <1>3, <1>5, <1>6 DEF RoomsInv

LEMMA RoomsStep == CommInv /\ RoomsInv /\ [CommNext]_commVars => RoomsInv'
<1> SUFFICES ASSUME CommInv, RoomsInv, [CommNext]_commVars PROVE RoomsInv'
    OBVIOUS
<1>1. ServerInv /\ InboxInv /\ PhonesInv
  BY DEF CommInv
<1>2. CASE UNCHANGED commVars
  <2>1. UNCHANGED <<session, on, rooms, in, out, ui>>
    BY <1>2 DEF commVars
  <2>2. OutQuiet /\ InQuiet /\ UIQuiet
    BY <2>1, OutSame, InSame, UISame DEF RoomsInv
  <2> QED BY <2>1, <2>2, QuietStep
<1>3. ASSUME NEW p \in Phones, UserActs(p) PROVE RoomsInv'
  BY <1>1, <1>3, UserActsOutside, LeavesARoom DEF UserActs
<1>4. ASSUME NEW p \in Phones, TaskGoesOn(p) PROVE RoomsInv'
  BY <1>1, <1>4, TasksOutside, JoinsARoom, OfferOutside DEF TaskGoesOn
<1>5. ASSUME NEW p \in Phones, PhoneReceives(p) PROVE RoomsInv'
  BY <1>1, <1>5, ReceivingOutside
<1>6. ASSUME NEW p \in Phones, ServerReceives(p) PROVE RoomsInv'
  BY <1>1, <1>6, ServerQuiet, ServerLetsIn, ServerLetsOut DEF ServerReceives
<1>7. ASSUME NEW p \in Phones, Connections(p) PROVE RoomsInv'
  BY <1>1, <1>7, ConnectionOpens, ConnectionDrops, ConnectionEnds DEF Connections
<1> QED BY <1>2, <1>3, <1>4, <1>5, <1>6, <1>7 DEF CommNext

LEMMA NothingOnItsWay ==
    ASSUME RoomsInv, NEW p \in Phones, NEW q \in Phones, NEW r \in Rooms, p # q,
           on[p], on[q], Cur(p) \in rooms[r], Cur(q) \in rooms[r],
           ~ui[q].strayed, ui[p].room = r,
           out[p] = <<>>, in[p] = <<>>, Task(p, "peers") = {}
    PROVE  Cur(q) \in ui[p].peers
<1>1. Len(<<>>) = 0 /\ \A i \in 1 .. 0 : FALSE
  BY QueueEmpty
<1>2. ~Asks(out[p], r)
  BY <1>1 DEF Asks
<1>3. Told(in[p], ui[p], Cur(q))
  BY <1>2 DEF RoomsInv, SeesInv, Sees
<1>4. ~Coming(in[p], Cur(q))
  BY <1>1 DEF Coming
<1>5. Todo(ui[p]) = {}
  BY DEF Todo, Task
<1> QED BY <1>3, <1>4, <1>5 DEF Told, SeenIn

(* The rooms of the server and the tiles of the phones agree, for any      *)
(* number of phones and rooms: a room holds connected clients only, and    *)
(* who is in a room with nothing on its way shows everyone who is, but     *)
(* those that strayed into two rooms.  A member is told of another, or is  *)
(* about to be (SeesInv), since whoever did not stray leaves its room      *)
(* before it asks for the next one (OneRoomInv).                           *)
THEOREM RoomsAreSeen == CommSpec => []RoomsAgree
<1>1. CommInit => CommInv /\ RoomsInv
  BY CommInitially, RoomsInitially
<1>2. CommInv /\ RoomsInv /\ [CommNext]_commVars => (CommInv /\ RoomsInv)'
  BY CommStep, RoomsStep
<1>3. CommInv /\ RoomsInv => RoomsAgree
  <2>1. CommInv => RoomsHoldClients
    BY DEF CommInv, ServerInv
  <2>2. RoomsInv => RoomsSeeEachOther
    BY NothingOnItsWay DEF RoomsSeeEachOther
  <2> QED BY <2>1, <2>2 DEF RoomsAgree
<1> QED BY <1>1, <1>2, <1>3, PTL DEF CommSpec

-----------------------------------------------------------------------------
(* The message lists.                                                      *)
ListOK(ms) == Queue(ms) /\ \A i \in 1 .. Len(ms) : DOMAIN ms[i] = {"kind", "id", "read"}
Once(ms) == \A i, j \in 1 .. Len(ms) :
    (ms[i].kind = "chat" /\ ms[j].kind = "chat" /\ ms[i].id = ms[j].id) => i = j
Has(ms, id) == \E i \in 1 .. Len(ms) : ms[i].kind = "chat" /\ ms[i].id = id
NotFull(ms) == Len(ms) < MaxMessages

(* The list ns goes on from ms: no message comes twice and none is lost.   *)
GoesOn(ms, ns) ==
    /\ ListOK(ns) /\ (Once(ms) => Once(ns))
    /\ NotFull(ns) => NotFull(ms) /\ \A id : Has(ms, id) => Has(ns, id)

LEMMA GoesOnAsItIs == ASSUME NEW ms, ListOK(ms) PROVE GoesOn(ms, ms)
BY DEF GoesOn

LEMMA Limits == MaxMessages \in Nat /\ HistoryLimit \in Nat
BY UsersAssumption DEF UsersAssumption

LEMMA ListCut ==
    ASSUME NEW ms, ListOK(ms)
    PROVE  /\ ListOK(Cut(ms)) /\ (Once(ms) => Once(Cut(ms)))
           /\ NotFull(Cut(ms)) => Cut(ms) = ms
<1> DEFINE n == Len(ms)
           k == n - MaxMessages
           S == Range(ms)
           ns == SubSeq(ms, k + 1, n)
<1>1. MaxMessages \in Nat /\ n \in Nat /\ ms \in Seq(S) /\ \A i \in 1 .. n : ms[i] \in S
  <2>1. ms \in Seq(S)
    BY DEF ListOK, Queue
  <2> HIDE DEF S
  <2> QED BY <2>1, Limits, LenProperties
<1>2. CASE n <= MaxMessages
  BY <1>1, <1>2 DEF Cut
<1>3. CASE ~(n <= MaxMessages)
  <2>1. Cut(ms) = ns /\ k \in Nat /\ k > 0 /\ n = k + MaxMessages
    BY <1>1, <1>3 DEF Cut
  <2>2. k + 1 \in Int /\ n \in Int /\ \A i \in k + 1 .. n : ms[i] \in S
    BY <1>1, <2>1
  <2> HIDE DEF S, k, n
  <2>3. /\ ns \in Seq(S) /\ Len(ns) = IF k + 1 <= n THEN n - (k + 1) + 1 ELSE 0
        /\ \A i \in 1 .. n - (k + 1) + 1 : ns[i] = ms[(k + 1) + i - 1]
    BY <2>2, SubSeqProperties
  <2> HIDE DEF ns
  <2>4. Len(ns) = MaxMessages
    BY <1>1, <2>1, <2>3
  <2>5. \A i \in 1 .. Len(ns) : k + i \in 1 .. n /\ ns[i] = ms[k + i]
    <3> TAKE i \in 1 .. Len(ns)
    <3>1. i \in 1 .. n - (k + 1) + 1 /\ (k + 1) + i - 1 = k + i /\ k + i \in 1 .. n
      BY <1>1, <2>1, <2>4
    <3> QED BY <2>3, <3>1
  <2>6. Queue(ns)
    BY <2>3, QueueOf
  <2>7. ListOK(ns)
    BY <2>5, <2>6 DEF ListOK, n
  <2>8. Once(ms) => Once(ns)
    <3> SUFFICES ASSUME Once(ms), NEW i \in 1 .. Len(ns), NEW j \in 1 .. Len(ns),
                        ns[i].kind = "chat", ns[j].kind = "chat", ns[i].id = ns[j].id
                 PROVE  i = j
      BY DEF Once
    <3>1. k + i = k + j
      BY <2>5 DEF Once, n
    <3> QED BY <2>1, <2>4, <3>1
  <2> QED BY <1>1, <2>1, <2>4, <2>7, <2>8 DEF NotFull
<1> QED BY <1>2, <1>3

LEMMA ListAppended ==
    ASSUME NEW ms, ListOK(ms), NEW m, DOMAIN m = {"kind", "id", "read"},
           m.kind = "chat" => ~Has(ms, m.id)
    PROVE  /\ GoesOn(ms, Cut(Append(ms, m)))
           /\ NotFull(Cut(Append(ms, m))) /\ m.kind = "chat" => Has(Cut(Append(ms, m)), m.id)
<1> DEFINE ns == Append(ms, m)
<1>1. /\ Queue(ns) /\ Len(ms) \in Nat /\ Len(ns) = Len(ms) + 1
      /\ \A i \in 1 .. Len(ms) : ns[i] = ms[i]
      /\ ns[Len(ms) + 1] = m
  BY QueueAppended DEF ListOK
<1> HIDE DEF ns
<1>2. \A i \in 1 .. Len(ns) : i \in 1 .. Len(ms) \/ i = Len(ms) + 1
  BY <1>1
<1>3. Len(ms) + 1 \in 1 .. Len(ns) /\ \A i \in 1 .. Len(ms) : i \in 1 .. Len(ns)
  BY <1>1
<1>4. ListOK(ns)
  BY <1>1, <1>2 DEF ListOK
<1>5. Once(ms) => Once(ns)
  <2> SUFFICES ASSUME Once(ms), NEW i \in 1 .. Len(ns), NEW j \in 1 .. Len(ns),
                      ns[i].kind = "chat", ns[j].kind = "chat", ns[i].id = ns[j].id
               PROVE  i = j
    BY DEF Once
  <2>1. CASE i \in 1 .. Len(ms) /\ j \in 1 .. Len(ms)
    BY <1>1, <2>1 DEF Once
  <2>2. CASE ~(i \in 1 .. Len(ms) /\ j \in 1 .. Len(ms))
    BY <1>1, <1>2, <2>2 DEF Has
  <2> QED BY <2>1, <2>2
<1>6. /\ \A id : Has(ms, id) => Has(ns, id)
      /\ m.kind = "chat" => Has(ns, m.id)
  BY <1>1, <1>3 DEF Has
<1>7. NotFull(ns) => NotFull(ms)
  BY <1>1, Limits DEF NotFull
<1>8. /\ ListOK(Cut(ns)) /\ (Once(ns) => Once(Cut(ns)))
      /\ NotFull(Cut(ns)) => Cut(ns) = ns
  BY <1>4, ListCut
<1> QED BY <1>5, <1>6, <1>7, <1>8 DEF GoesOn, ns

(* The rows of old are put in front.                                       *)
LEMMA ListMerged ==
    ASSUME NEW ms, ListOK(ms), NEW old, ListOK(old), Once(old),
           \A i \in 1 .. Len(old) : ~Has(ms, old[i].id)
    PROVE  /\ GoesOn(ms, Cut(old \o ms))
           /\ NotFull(Cut(old \o ms)) => \A id : Has(old, id) => Has(Cut(old \o ms), id)
<1> DEFINE ns == old \o ms
           n == Len(old)
<1>1. /\ Queue(ns) /\ n \in Nat /\ Len(ms) \in Nat /\ Len(ns) = n + Len(ms)
      /\ \A i \in 1 .. n : ns[i] = old[i]
      /\ \A i \in n + 1 .. n + Len(ms) : ns[i] = ms[i - n]
  BY QueueJoined DEF ListOK
<1> HIDE DEF ns
<1>2. \A i \in 1 .. Len(ns) : i \in 1 .. n \/ (i \in n + 1 .. n + Len(ms) /\ i - n \in 1 .. Len(ms))
  BY <1>1
<1>3. /\ \A i \in 1 .. n : i \in 1 .. Len(ns)
      /\ \A i \in 1 .. Len(ms) : n + i \in 1 .. Len(ns) /\ ns[n + i] = ms[i]
  <2> SUFFICES ASSUME NEW i \in 1 .. Len(ms) PROVE n + i \in 1 .. Len(ns) /\ ns[n + i] = ms[i]
    BY <1>1
  <2>1. n + i \in n + 1 .. n + Len(ms) /\ (n + i) - n = i
    BY <1>1
  <2> QED BY <1>1, <2>1
<1>4. ListOK(ns)
  <2> SUFFICES ASSUME NEW i \in 1 .. Len(ns) PROVE DOMAIN ns[i] = {"kind", "id", "read"}
    BY <1>1 DEF ListOK
  <2>1. CASE i \in 1 .. n
    BY <1>1, <2>1 DEF ListOK
  <2>2. CASE i \in n + 1 .. n + Len(ms) /\ i - n \in 1 .. Len(ms)
    BY <1>1, <2>2 DEF ListOK
  <2> QED BY <1>2, <2>1, <2>2
<1>5. Once(ms) => Once(ns)
  <2> SUFFICES ASSUME Once(ms), NEW i \in 1 .. Len(ns), NEW j \in 1 .. Len(ns),
                      ns[i].kind = "chat", ns[j].kind = "chat", ns[i].id = ns[j].id
               PROVE  i = j
    BY DEF Once
  <2> DEFINE a == i - n
             b == j - n
  <2>1. /\ i \in 1 .. n \/ (a \in 1 .. Len(ms) /\ ns[i] = ms[a] /\ i = n + a)
        /\ j \in 1 .. n \/ (b \in 1 .. Len(ms) /\ ns[j] = ms[b] /\ j = n + b)
    BY <1>1, <1>2
  <2> HIDE DEF a, b
  <2>2. CASE i \in 1 .. n /\ j \in 1 .. n
    BY <1>1, <2>2 DEF Once
  <2>3. CASE i \in 1 .. n /\ j \notin 1 .. n
    BY <1>1, <2>1, <2>3 DEF Has
  <2>4. CASE i \notin 1 .. n /\ j \in 1 .. n
    BY <1>1, <2>1, <2>4 DEF Has
  <2>5. CASE i \notin 1 .. n /\ j \notin 1 .. n
    BY <2>1, <2>5 DEF Once
  <2> QED BY <2>2, <2>3, <2>4, <2>5
<1>6. \A id : Has(ms, id) \/ Has(old, id) => Has(ns, id)
  BY <1>1, <1>3 DEF Has
<1>7. NotFull(ns) => NotFull(ms)
  BY <1>1, Limits DEF NotFull
<1>8. /\ ListOK(Cut(ns)) /\ (Once(ns) => Once(Cut(ns)))
      /\ NotFull(Cut(ns)) => Cut(ns) = ns
  BY <1>4, ListCut
<1> QED BY <1>5, <1>6, <1>7, <1>8 DEF GoesOn, ns

(* How many of the numbers of K come up to one of them: a place for each.  *)
LEMMA Ranked ==
    ASSUME NEW n \in Nat, NEW K \in SUBSET (1 .. n)
    PROVE  /\ Cardinality(K) \in Nat
           /\ \A i, j \in K : Cardinality(K \cap (1 .. i)) = Cardinality(K \cap (1 .. j)) => i = j
           /\ \A k \in 1 .. Cardinality(K) : \E i \in K : Cardinality(K \cap (1 .. i)) = k
           /\ \A i \in K : Cardinality(K \cap (1 .. i)) \in 1 .. Cardinality(K)
<1> DEFINE N == Cardinality(K)
           R(i) == Cardinality(K \cap (1 .. i))
           f == [i \in K |-> R(i)]
<1>1. IsFiniteSet(K) /\ N \in Nat
  <2>1. IsFiniteSet(1 .. n)
    BY FS_Interval
  <2> QED BY <2>1, FS_Subset, FS_CardinalityType
<1>2. \A i \in K : i \in Nat /\ i > 0 /\ i \in 1 .. i
  OBVIOUS
<1>3. ASSUME NEW i \in K PROVE IsFiniteSet(K \cap (1 .. i)) /\ R(i) \in 1 .. N
  <2>1. IsFiniteSet(K \cap (1 .. i)) /\ R(i) \in Nat /\ R(i) <= N
    BY <1>1, FS_Subset, FS_CardinalityType
  <2>2. K \cap (1 .. i) # {}
    BY <1>2
  <2>3. R(i) # 0
    BY <2>1, <2>2, FS_EmptySet
  <2> QED BY <1>1, <2>1, <2>3
<1>4. ASSUME NEW i \in K, NEW j \in K, i < j PROVE R(i) # R(j)
  <2>1. K \cap (1 .. i) \subseteq K \cap (1 .. j)
    BY <1>2, <1>4
  <2>2. j \in K \cap (1 .. j) /\ j \notin K \cap (1 .. i)
    BY <1>2, <1>4
  <2>3. K \cap (1 .. i) # K \cap (1 .. j)
    BY <2>2
  <2> QED BY <1>3, <2>1, <2>3, FS_Subset
<1>5. \A i, j \in K : R(i) = R(j) => i = j
  BY <1>2, <1>4
<1>6. f \in [K -> 1 .. N] /\ \A i, j \in K : f[i] = f[j] => i = j
  BY <1>3, <1>5
<1>7. IsFiniteSet(1 .. N) /\ Cardinality(1 .. N) = N
  BY <1>1, FS_Interval
<1> HIDE DEF f
<1>8. f \in Injection(K, 1 .. N)
  BY <1>6 DEF Injection, IsInjective
<1>9. f \in Surjection(K, 1 .. N)
  BY <1>7, <1>8, FS_Injection
<1>10. \A k \in 1 .. N : \E i \in K : f[i] = k
  BY <1>9 DEF Surjection
<1>11. \A k \in 1 .. N : \E i \in K : R(i) = k
  BY <1>10 DEF f
<1> QED BY <1>1, <1>3, <1>5, <1>11

-----------------------------------------------------------------------------
(* The history.                                                            *)
RowsOK(rows) == Queue(rows) /\ \A i, j \in 1 .. Len(rows) : rows[i].id = rows[j].id => i = j

LEMMA ShowsHas == ASSUME NEW u, ListOK(u.msgs) PROVE \A id : Lists(u, id) <=> Has(u.msgs, id)
<1>1. DOMAIN u.msgs = 1 .. Len(u.msgs)
  BY DEF ListOK, Queue
<1> QED BY <1>1 DEF Lists, Has

LEMMA HistoryMerged ==
    ASSUME NEW u, "msgs" \in DOMAIN u, ListOK(u.msgs), NEW rows, RowsOK(rows)
    PROVE  \E ns : /\ MergeHistory(u, rows) = [u EXCEPT !.msgs = ns]
                   /\ GoesOn(u.msgs, ns)
<1> DEFINE new == {i \in DOMAIN rows : ~Lists(u, rows[i].id)}
           R(i) == Cardinality(new \cap (1 .. i))
           row(k) == CHOOSE i \in new : R(i) = k
           N == Cardinality(new)
           old == [k \in 1 .. N |-> [kind |-> "chat", id |-> rows[row(k)].id, read |-> {}]]
           ns == Cut(old \o u.msgs)
<1>1. Len(rows) \in Nat /\ DOMAIN rows = 1 .. Len(rows)
  BY DEF RowsOK, Queue
<1>2. new \in SUBSET (1 .. Len(rows))
  BY <1>1
<1> HIDE DEF new
<1>3. /\ N \in Nat
      /\ \A i, j \in new : R(i) = R(j) => i = j
      /\ \A k \in 1 .. N : \E i \in new : R(i) = k
      /\ \A i \in new : R(i) \in 1 .. N
  BY <1>1, <1>2, Ranked
<1> HIDE DEF R
<1>4. \A k \in 1 .. N : row(k) \in new /\ R(row(k)) = k
  BY <1>3
<1> HIDE DEF row, N
<1>6. Queue(old) /\ Len(old) = N
  <2> DEFINE M == {old[k] : k \in 1 .. N}
  <2>1. old \in [1 .. N -> M]
    OBVIOUS
  <2> HIDE DEF old, M
  <2>2. old \in Seq(M)
    BY <1>3, <2>1
  <2>3. DOMAIN old = 1 .. N
    BY <2>1
  <2> QED BY <1>3, <2>2, <2>3, QueueOf, LenProperties
<1>7. \A k \in 1 .. N : /\ old[k].kind = "chat" /\ old[k].id = rows[row(k)].id
                        /\ DOMAIN old[k] = {"kind", "id", "read"}
  OBVIOUS
<1> HIDE DEF old
<1>8. ListOK(old)
  BY <1>6, <1>7 DEF ListOK
<1>9. Once(old)
  <2> SUFFICES ASSUME NEW k \in 1 .. N, NEW l \in 1 .. N, old[k].id = old[l].id PROVE k = l
    BY <1>6 DEF Once
  <2>1. row(k) = row(l)
    BY <1>2, <1>4, <1>7 DEF RowsOK
  <2> QED BY <1>4, <2>1
<1>10. \A i \in new : ~Has(u.msgs, rows[i].id)
  BY ShowsHas DEF new
<1>11. \A k \in 1 .. Len(old) : ~Has(u.msgs, old[k].id)
  BY <1>4, <1>6, <1>7, <1>10
<1>12. GoesOn(u.msgs, ns)
  BY <1>8, <1>9, <1>11, ListMerged
<1>13. MergeHistory(u, rows) = [u EXCEPT !.msgs = ns]
  BY DEF MergeHistory, old, row, R, N, new
<1> QED BY <1>12, <1>13

(* The answer, of a table with n messages, holds different rows.           *)
LEMMA HistoryRead ==
    ASSUME RowsOK(log), NEW n \in 0 .. Len(log)
    PROVE  RowsOK(HistoryAnswer(n))
<1> DEFINE a == IF n > HistoryLimit THEN n - HistoryLimit ELSE 0
           S == Range(log)
           rows == SubSeq(log, a + 1, n)
<1>1. Len(log) \in Nat /\ log \in Seq(S) /\ \A i \in 1 .. Len(log) : log[i] \in S
  <2>1. log \in Seq(S)
    BY DEF RowsOK, Queue
  <2> HIDE DEF S
  <2> QED BY <2>1, LenProperties
<1>2. n \in Nat /\ n <= Len(log) /\ HistoryLimit \in Nat
  BY <1>1, Limits
<1>3. a \in Nat /\ a <= n
  BY <1>2
<1> HIDE DEF S, a
<1>4. /\ rows \in Seq(S) /\ Len(rows) = IF a + 1 <= n THEN n - (a + 1) + 1 ELSE 0
      /\ \A i \in 1 .. n - (a + 1) + 1 : rows[i] = log[(a + 1) + i - 1]
  <2>1. a + 1 \in Int /\ n \in Int /\ \A i \in a + 1 .. n : log[i] \in S
    BY <1>1, <1>2, <1>3
  <2> QED BY <2>1, SubSeqProperties
<1> HIDE DEF rows
<1>5. Len(rows) = n - a
  BY <1>2, <1>3, <1>4
<1>6. \A i \in 1 .. Len(rows) : a + i \in 1 .. Len(log) /\ rows[i] = log[a + i]
  <2> TAKE i \in 1 .. Len(rows)
  <2>1. i \in 1 .. n - (a + 1) + 1 /\ (a + 1) + i - 1 = a + i /\ a + i \in 1 .. Len(log)
    BY <1>1, <1>2, <1>3, <1>5
  <2> QED BY <1>4, <2>1
<1>7. RowsOK(rows)
  <2>1. Queue(rows)
    BY <1>4, QueueOf
  <2>2. ASSUME NEW i \in 1 .. Len(rows), NEW j \in 1 .. Len(rows), rows[i].id = rows[j].id
        PROVE  i = j
    <3>1. a + i = a + j
      BY <1>6, <2>2 DEF RowsOK
    <3> QED BY <1>2, <1>3, <1>5, <3>1
  <2> QED BY <2>1, <2>2 DEF RowsOK
<1>9. HistoryAnswer(n) = IF Routed THEN rows ELSE <<>>
  BY DEF HistoryAnswer, HistoryRows, rows, a
<1>10. RowsOK(<<>>)
  <2> DEFINE q == <<>>
  <2>1. Queue(q) /\ Len(q) = 0
    BY QueueEmpty
  <2> HIDE DEF q
  <2>2. \A i \in 1 .. Len(q) : FALSE
    BY <2>1
  <2>3. RowsOK(q)
    BY <2>1, <2>2 DEF RowsOK
  <2> QED BY <2>3 DEF q
<1>11. CASE Routed
  BY <1>7, <1>9, <1>11
<1>12. CASE ~Routed
  BY <1>9, <1>10, <1>12
<1> QED BY <1>11, <1>12

LEMMA QueueWithout ==
    ASSUME NEW q, Queue(q), NEW i \in 1 .. Len(q)
    PROVE  /\ Queue(RemoveAt(q, i))
           /\ \A k \in 1 .. Len(RemoveAt(q, i)) : \E j \in 1 .. Len(q) : RemoveAt(q, i)[k] = q[j]
<1> DEFINE S == Range(q)
           n == Len(q)
           a == SubSeq(q, 1, i - 1)
           b == SubSeq(q, i + 1, n)
           c == a \o b
<1>1. n \in Nat /\ q \in Seq(S) /\ \A j \in 1 .. n : q[j] \in S
  <2>1. q \in Seq(S)
    BY DEF Queue
  <2> HIDE DEF S
  <2> QED BY <2>1, LenProperties
<1> HIDE DEF S, n
<1>0. i \in 1 .. n
  BY DEF n
<1>2. /\ a \in Seq(S) /\ Len(a) = IF 1 <= i - 1 THEN (i - 1) - 1 + 1 ELSE 0
      /\ \A j \in 1 .. (i - 1) - 1 + 1 : a[j] = q[1 + j - 1]
  <2>1. 1 \in Int /\ i - 1 \in Int /\ \A j \in 1 .. i - 1 : q[j] \in S
    BY <1>0, <1>1
  <2> QED BY <2>1, SubSeqProperties
<1>3. /\ b \in Seq(S) /\ Len(b) = IF i + 1 <= n THEN n - (i + 1) + 1 ELSE 0
      /\ \A j \in 1 .. n - (i + 1) + 1 : b[j] = q[(i + 1) + j - 1]
  <2>1. i + 1 \in Int /\ n \in Int /\ \A j \in i + 1 .. n : q[j] \in S
    BY <1>0, <1>1
  <2> QED BY <2>1, SubSeqProperties
<1> HIDE DEF a, b
<1>4. Len(a) = i - 1 /\ \A j \in 1 .. i - 1 : a[j] = q[j]
  BY <1>0, <1>1, <1>2
<1>5. Len(b) = n - i /\ \A j \in 1 .. n - i : b[j] = q[i + j]
  <2>1. n - (i + 1) + 1 = n - i /\ \A j \in 1 .. n - i : (i + 1) + j - 1 = i + j
    BY <1>0, <1>1
  <2> QED BY <1>0, <1>1, <1>3, <2>1
<1>6. Queue(c) /\ Len(c) = n - 1
  <2>1. c \in Seq(S) /\ Len(c) = Len(a) + Len(b)
    BY <1>2, <1>3, ConcatProperties
  <2> HIDE DEF c
  <2>2. Queue(c)
    BY <2>1, QueueOf
  <2> QED BY <1>0, <1>1, <1>4, <1>5, <2>1, <2>2
<1>7. \A k \in 1 .. n - 1 : c[k] = IF k <= i - 1 THEN a[k] ELSE b[k - (i - 1)]
  <2>1. \A k \in 1 .. Len(a) + Len(b) : c[k] = IF k <= Len(a) THEN a[k] ELSE b[k - Len(a)]
    BY <1>2, <1>3, ConcatProperties
  <2>2. Len(a) + Len(b) = n - 1
    BY <1>0, <1>1, <1>4, <1>5
  <2> QED BY <1>4, <2>1, <2>2
<1> HIDE DEF c
<1>8. \A k \in 1 .. n - 1 : c[k] = q[IF k <= i - 1 THEN k ELSE k + 1]
  <2> TAKE k \in 1 .. n - 1
  <2>1. CASE k <= i - 1
    BY <1>0, <1>1, <1>4, <1>7, <2>1
  <2>2. CASE ~(k <= i - 1)
    <3>1. k - (i - 1) \in 1 .. n - i /\ i + (k - (i - 1)) = k + 1
      BY <1>0, <1>1, <2>2
    <3> QED BY <1>5, <1>7, <2>2, <3>1
  <2> QED BY <2>1, <2>2
<1>9. ASSUME NEW k \in 1 .. n - 1 PROVE \E j \in 1 .. n : c[k] = q[j]
  <2>1. (IF k <= i - 1 THEN k ELSE k + 1) \in 1 .. n
    BY <1>0, <1>1
  <2> QED BY <1>8, <2>1
<1>11. c = RemoveAt(q, i)
  BY DEF RemoveAt, a, b, c, n
<1> QED BY <1>6, <1>9, <1>11 DEF n

-----------------------------------------------------------------------------
(* Who has said what.  The id of a message is in one place at a time: with *)
(* the phone that uploads the file, on its way to the server, or saved.    *)
Ids(o) == {o[i].id : i \in {j \in 1 .. Len(o) : o[j].t = "chat"}}
Said(o) == \A i, j \in 1 .. Len(o) :
    (o[i].t = "chat" /\ o[j].t = "chat" /\ o[i].id = o[j].id) => i = j
Files(u) == {x \in u.tasks : x.k = "file"}
FileIds(u) == {x.id : x \in Files(u)}
Own(p) == Ids(out[p]) \cup FileIds(ui[p])
Mine(o, u) == /\ Said(o) /\ Ids(o) \cap FileIds(u) = {}
              /\ \A x, y \in Files(u) : x.id = y.id => x = y
LogIds == {log[i].id : i \in 1 .. Len(log)}
Used(id) == \E f \in {"text", "file"}, n \in Nat : id = <<f, n>> /\ n > budget[f]

IdsInv ==
    /\ RowsOK(log) /\ \A id \in LogIds : Used(id)
    /\ \A p \in Phones : /\ Mine(out[p], ui[p])
                         /\ \A id \in Own(p) : Used(id) /\ id \notin LogIds
    /\ \A p, q \in Phones : p # q => Own(p) \cap Own(q) = {}

(* What the phones show, and what of the history they asked for.           *)
FetchOK(f) == Queue(f) /\ \A i \in 1 .. Len(f) : f[i] \in Nat
ListsInv == \A p \in Phones : /\ ListOK(ui[p].msgs) /\ Once(ui[p].msgs)
                              /\ FetchOK(ui[p].fetch)

(* A connected phone shows a message that was relayed to its connection,   *)
(* or the message is on its way to it.                                     *)
Brings(q, id) == \E j \in 1 .. Len(q) : q[j].t = "chat" /\ q[j].m.id = id
HeardOf(u, q, id) == Has(u.msgs, id) \/ Brings(q, id)
RelaysInv == \A i \in 1 .. Len(log) : \A c \in log[i].heard :
    c[1] \in Phones /\ c[2] \in Nat /\ c[2] <= session[c[1]]
LostInv == \A p \in Phones : on[p] /\ NotFull(ui[p].msgs) =>
    \A i \in 1 .. Len(log) : Cur(p) \in log[i].heard => HeardOf(ui[p], in[p], log[i].id)

TalkInv == IdsInv /\ ListsInv /\ RelaysInv /\ LostInv

-----------------------------------------------------------------------------
(* Steps that say nothing.                                                 *)
NoChat(o, a) == Ids(a) \subseteq Ids(o) /\ (Said(o) => Said(a))
OutPlain == \A p \in Phones : NoChat(out[p], out'[p])
BringsKept == \A p \in Phones : \A id : Brings(in[p], id) => Brings(in'[p], id)
UIGoes == \A p \in Phones : GoesOn(ui[p].msgs, ui'[p].msgs) /\ FetchOK(ui'[p].fetch)
FilesKept == \A p \in Phones : Files(ui'[p]) \subseteq Files(ui[p])
BudgetKept == \A id : Used(id) => Used(id)'

LEMMA IdsKept ==
    ASSUME IdsInv, UNCHANGED log, OutPlain, FilesKept, BudgetKept PROVE IdsInv'
<1>1. \A p \in Phones : Mine(out'[p], ui'[p]) /\ Own(p)' \subseteq Own(p)
  BY DEF IdsInv, Mine, OutPlain, NoChat, FilesKept, Own, FileIds
<1>2. LogIds' = LogIds
  BY DEF LogIds
<1> QED BY <1>1, <1>2 DEF IdsInv, BudgetKept

LEMMA ListsKept == ASSUME ListsInv, UIGoes PROVE ListsInv'
BY DEF ListsInv, UIGoes, GoesOn

LEMMA LostKept ==
    ASSUME RelaysInv, LostInv, UNCHANGED <<log, session>>, \A p \in Phones : on'[p] => on[p],
           UIGoes, BringsKept
    PROVE  RelaysInv' /\ LostInv'
BY DEF RelaysInv, LostInv, UIGoes, GoesOn, HeardOf, BringsKept, Cur

LEMMA TalkKept ==
    ASSUME TalkInv, UNCHANGED <<log, session>>, \A p \in Phones : on'[p] => on[p],
           OutPlain, FilesKept, BudgetKept, UIGoes, BringsKept
    PROVE  TalkInv'
BY IdsKept, ListsKept, LostKept DEF TalkInv

LEMMA UIRests == ASSUME ListsInv, UNCHANGED ui PROVE UIGoes /\ FilesKept
BY GoesOnAsItIs DEF ListsInv, UIGoes, FilesKept

LEMMA OutRests == UNCHANGED out => OutPlain
BY DEF OutPlain, NoChat

LEMMA InRests == UNCHANGED in => BringsKept
BY DEF BringsKept

LEMMA BudgetRests == UNCHANGED budget => BudgetKept
BY DEF BudgetKept, Used

LEMMA BudgetSpent == ASSUME PhonesInv, NEW f \in Chores, Spend(f) PROVE BudgetKept
<1>1. budget \in [Chores -> Nat] /\ budget' = [budget EXCEPT ![f] = @ - 1]
  BY DEF PhonesInv, Spend
<1>2. \A g \in {"text", "file"} : g \in Chores
  BY DEF Chores
<1>3. \A g \in Chores : budget[g] \in Nat /\ budget'[g] \in Int /\ budget'[g] <= budget[g]
  BY <1>1
<1>4. \A g \in Chores : \A n \in Nat : n > budget[g] => n > budget'[g]
  BY <1>3
<1> QED BY <1>2, <1>4 DEF BudgetKept, Used

(* The phone says more, and nothing in the chat.                           *)
LEMMA PlainSaid ==
    ASSUME NEW o, Queue(o), NEW ms, Queue(ms), \A j \in 1 .. Len(ms) : ms[j].t # "chat"
    PROVE  NoChat(o, o \o ms)
<1> DEFINE a == o \o ms
<1>1. /\ Len(o) \in Nat /\ Len(ms) \in Nat /\ Len(a) = Len(o) + Len(ms)
      /\ \A i \in 1 .. Len(o) : a[i] = o[i]
      /\ \A i \in Len(o) + 1 .. Len(o) + Len(ms) : a[i] = ms[i - Len(o)]
  BY QueueJoined
<1> HIDE DEF a
<1>2. \A i \in 1 .. Len(a) : a[i].t = "chat" => i \in 1 .. Len(o) /\ o[i] = a[i]
  <2>1. ASSUME NEW i \in 1 .. Len(a), i \notin 1 .. Len(o) PROVE a[i].t # "chat"
    <3>1. i \in Len(o) + 1 .. Len(o) + Len(ms) /\ i - Len(o) \in 1 .. Len(ms)
      BY <1>1, <2>1
    <3> QED BY <1>1, <3>1
  <2> QED BY <1>1, <2>1
<1>3. Ids(a) \subseteq Ids(o)
  BY <1>2 DEF Ids
<1>4. Said(o) => Said(a)
  BY <1>2 DEF Said
<1> QED BY <1>3, <1>4 DEF NoChat, a

LEMMA PlainHeard == ASSUME NEW o, Queue(o), o # <<>> PROVE NoChat(o, Tail(o))
<1> DEFINE a == Tail(o)
<1>1. /\ Len(o) \in Nat \ {0} /\ Len(a) = Len(o) - 1
      /\ \A i \in 1 .. Len(o) - 1 : a[i] = o[i + 1]
  BY QueueTail
<1> HIDE DEF a
<1>2. \A i \in 1 .. Len(a) : i \in Nat /\ i + 1 \in 1 .. Len(o) /\ a[i] = o[i + 1]
  BY <1>1
<1>3. Ids(a) \subseteq Ids(o)
  BY <1>2 DEF Ids
<1>4. Said(o) => Said(a)
  <2> SUFFICES ASSUME Said(o), NEW i \in 1 .. Len(a), NEW j \in 1 .. Len(a),
                      a[i].t = "chat", a[j].t = "chat", a[i].id = a[j].id
               PROVE  i = j
    BY DEF Said
  <2>1. i + 1 = j + 1
    BY <1>2 DEF Said
  <2> QED BY <1>2, <2>1
<1> QED BY <1>3, <1>4 DEF NoChat, a

LEMMA OutPlainSaid ==
    ASSUME ViewsInv, NEW p \in Phones, NEW ms, Queue(ms), \A j \in 1 .. Len(ms) : ms[j].t # "chat",
           Emit(p, ms)
    PROVE  OutPlain
<1>1. DOMAIN out = Phones /\ Queue(out[p]) /\ out' = [out EXCEPT ![p] = out[p] \o ms]
  BY DEF ViewsInv, OutOK, Emit
<1>2. NoChat(out[p], out[p] \o ms)
  BY <1>1, PlainSaid
<1> QED BY <1>1, <1>2 DEF OutPlain, NoChat

LEMMA OutPlainOne ==
    ASSUME ViewsInv, NEW p \in Phones, NEW m, m.t # "chat", Emit(p, <<m>>) PROVE OutPlain
<1> DEFINE ms == <<m>>
<1>1. Queue(ms) /\ \A j \in 1 .. Len(ms) : ms[j].t # "chat"
  <2>1. Queue(ms) /\ Len(ms) = 1 /\ ms[1] = m
    BY OneMessage
  <2> HIDE DEF ms
  <2> QED BY <2>1
<1> HIDE DEF ms
<1>2. Emit(p, ms)
  BY DEF ms
<1> QED BY <1>1, <1>2, OutPlainSaid

LEMMA OutPlainSignal ==
    ASSUME ViewsInv, NEW p \in Phones, NEW to, NEW type, EmitSignal(p, to, type) PROVE OutPlain
<1> DEFINE m == [t |-> "signal", to |-> to, type |-> type]
<1>1. m.t # "chat" /\ Emit(p, <<m>>)
  BY DEF EmitSignal
<1> HIDE DEF m
<1> QED BY <1>1, OutPlainOne

LEMMA OutPlainHeard ==
    ASSUME ViewsInv, NEW p \in Phones, NEW t, Received(p, t) PROVE OutPlain
<1>1. /\ DOMAIN out = Phones /\ Queue(out[p]) /\ out[p] # <<>>
      /\ out' = [out EXCEPT ![p] = Tail(out[p])]
  BY DEF ViewsInv, OutOK, Received
<1>2. NoChat(out[p], Tail(out[p]))
  BY <1>1, PlainHeard
<1> QED BY <1>1, <1>2 DEF OutPlain, NoChat

(* The phone changes nothing of its messages, history and files.           *)
SameTalk(u, v) == /\ DOMAIN u = Fields /\ DOMAIN v = Fields
                  /\ v.msgs = u.msgs /\ v.fetch = u.fetch /\ Files(v) \subseteq Files(u)

LEMMA SameTalkOver ==
    ASSUME NEW u, NEW v, NEW w, SameTalk(u, v), SameTalk(v, w) PROVE SameTalk(u, w)
BY DEF SameTalk

LEMMA SameTalkTasks ==
    ASSUME NEW u, DOMAIN u = Fields, NEW T, \A x \in T : x.k = "file" => x \in u.tasks
    PROVE  SameTalk(u, [u EXCEPT !.tasks = T])
<1> DEFINE v == [u EXCEPT !.tasks = T]
<1>1. DOMAIN v = Fields /\ v.msgs = u.msgs /\ v.fetch = u.fetch /\ v.tasks = T
  BY DEF Fields
<1> HIDE DEF v
<1>2. SameTalk(u, v)
  BY <1>1 DEF SameTalk, Files
<1> QED BY <1>2 DEF v

LEMMA SameTalkWithout ==
    ASSUME NEW u, DOMAIN u = Fields, NEW x
    PROVE  SameTalk(u, TaskEnd(u, x)) /\ DOMAIN TaskEnd(u, x) = Fields
<1>1. SameTalk(u, TaskEnd(u, x))
  BY SameTalkTasks DEF TaskEnd
<1> QED BY <1>1 DEF SameTalk

LEMMA SameTalkWith ==
    ASSUME NEW u, DOMAIN u = Fields, NEW y, y.k # "file"
    PROVE  SameTalk(u, [u EXCEPT !.tasks = @ \cup {y}])
BY SameTalkTasks

LEMMA SameTalkAdvanced ==
    ASSUME NEW u, DOMAIN u = Fields, NEW x, x.k # "file", NEW step
    PROVE  SameTalk(u, Advance(u, x, step)) /\ DOMAIN Advance(u, x, step) = Fields
<1> DEFINE y == [x EXCEPT !.step = step]
           T == (u.tasks \ {x}) \cup {y}
<1>1. y.k = x.k
  OBVIOUS
<1> HIDE DEF y
<1>2. SameTalk(u, [u EXCEPT !.tasks = T])
  BY <1>1, SameTalkTasks
<1>3. SameTalk(u, Advance(u, x, step))
  BY <1>2 DEF Advance, y
<1> QED BY <1>3 DEF SameTalk

LEMMA SameTalkFields ==
    ASSUME NEW u, DOMAIN u = Fields
    PROVE  /\ SameTalk(u, u)
           /\ \A w : SameTalk(u, [u EXCEPT !.push = w]) /\ SameTalk(u, [u EXCEPT !.mic = w])
           /\ \A w : SameTalk(u, [u EXCEPT !.st = w]) /\ SameTalk(u, [u EXCEPT !.peers = w])
           /\ \A w, z : SameTalk(u, [u EXCEPT !.st = w, !.peer = z])
           /\ \A w, z : SameTalk(u, [u EXCEPT !.pc = w, !.replaced = z])
           /\ \A w, y, z : SameTalk(u, [u EXCEPT !.offer = w, !.peer = y, !.st = z])
           /\ \A w, y, z : SameTalk(u, [u EXCEPT !.room = w, !.camera = y, !.peers = z])
           /\ \A w, y, z : SameTalk(u, [u EXCEPT !.room = w, !.camera = y, !.strayed = z])
<1> USE DEF SameTalk, Files, Fields
<1>1. SameTalk(u, u)
  OBVIOUS
<1>2. \A w : SameTalk(u, [u EXCEPT !.push = w]) /\ SameTalk(u, [u EXCEPT !.mic = w])
  OBVIOUS
<1>3. \A w : SameTalk(u, [u EXCEPT !.st = w]) /\ SameTalk(u, [u EXCEPT !.peers = w])
  OBVIOUS
<1>4. \A w, z : SameTalk(u, [u EXCEPT !.st = w, !.peer = z])
  OBVIOUS
<1>5. \A w, z : SameTalk(u, [u EXCEPT !.pc = w, !.replaced = z])
  OBVIOUS
<1>6. \A w, y, z : SameTalk(u, [u EXCEPT !.offer = w, !.peer = y, !.st = z])
  OBVIOUS
<1>7. \A w, y, z : SameTalk(u, [u EXCEPT !.room = w, !.camera = y, !.peers = z])
  OBVIOUS
<1>8. \A w, y, z : SameTalk(u, [u EXCEPT !.room = w, !.camera = y, !.strayed = z])
  OBVIOUS
<1> QED BY <1>1, <1>2, <1>3, <1>4, <1>5, <1>6, <1>7, <1>8

LEMMA SameTalkCalling ==
    ASSUME NEW u, DOMAIN u = Fields, NEW w, NEW z, NEW T, \A x \in T : x.k = "file" => x \in u.tasks
    PROVE  /\ SameTalk(u, [u EXCEPT !.st = w, !.peer = z, !.tasks = T])
           /\ SameTalk(u, [u EXCEPT !.peers = w, !.tasks = T])
<1> USE DEF SameTalk, Files, Fields
<1>1. SameTalk(u, [u EXCEPT !.st = w, !.peer = z, !.tasks = T])
  OBVIOUS
<1>2. SameTalk(u, [u EXCEPT !.peers = w, !.tasks = T])
  OBVIOUS
<1> QED BY <1>1, <1>2

LEMMA SameTalkCleaned == ASSUME NEW u, DOMAIN u = Fields PROVE SameTalk(u, Cleanup(u))
<1> DEFINE T == {x \in u.tasks : ~(x.k \in {"start", "accept", "answer"}
                                  /\ x.step = "sdp" /\ u.pc # None /\ u.pc.n = x.n)}
           v == [u EXCEPT !.st = "idle", !.peer = None, !.offer = None, !.pc = None,
                          !.mic = FALSE, !.tasks = T]
<1>1. v = Cleanup(u)
  BY DEF Cleanup
<1>2. \A x \in T : x \in u.tasks
  OBVIOUS
<1> HIDE DEF T
<1>3. DOMAIN v = Fields /\ v.msgs = u.msgs /\ v.fetch = u.fetch /\ v.tasks = T
  BY DEF Fields
<1> HIDE DEF v
<1>4. SameTalk(u, v)
  BY <1>2, <1>3 DEF SameTalk, Files
<1> QED BY <1>1, <1>4

LEMMA UIFollows ==
    ASSUME ListsInv, ViewsInv, NEW p \in Phones, NEW v, Become(p, v), SameTalk(ui[p], v)
    PROVE  UIGoes /\ FilesKept
<1>1. DOMAIN ui = Phones /\ ui' = [ui EXCEPT ![p] = v]
  BY DEF ViewsInv, Become
<1>2. GoesOn(ui[p].msgs, v.msgs) /\ FetchOK(v.fetch)
  BY GoesOnAsItIs DEF SameTalk, ListsInv
<1>3. \A q \in Phones : GoesOn(ui[q].msgs, ui[q].msgs) /\ FetchOK(ui[q].fetch)
  BY GoesOnAsItIs DEF ListsInv
<1>4. UIGoes
  BY <1>1, <1>2, <1>3 DEF UIGoes
<1>5. FilesKept
  BY <1>1 DEF FilesKept, SameTalk
<1> QED BY <1>4, <1>5

(* Steps of a phone that are not about messages.                           *)
LEMMA TalkElsewhere ==
    ASSUME TalkInv, ViewsInv, NEW p \in Phones, NEW v, Become(p, v), SameTalk(ui[p], v),
           OutPlain, BringsKept, BudgetKept, UNCHANGED <<log, session, on>>
    PROVE  TalkInv'
BY UIFollows, TalkKept DEF TalkInv

-----------------------------------------------------------------------------
(* Ids are made, and go on.                                                *)
LEMMA IdsMoved ==
    ASSUME IdsInv, UNCHANGED log, BudgetKept, NEW p \in Phones, NEW I,
           \A q \in Phones : q # p => Own(q)' = Own(q) /\ Mine(out'[q], ui'[q]),
           Mine(out'[p], ui'[p]), Own(p)' \subseteq Own(p) \cup I,
           \A id \in I : ~Used(id) /\ Used(id)'
    PROVE  IdsInv'
<1>1. LogIds' = LogIds
  BY DEF LogIds
<1>2. \A q \in Phones : \A id \in I : id \notin Own(q) /\ id \notin LogIds
  BY DEF IdsInv
<1>3. \A id \in LogIds' : Used(id)'
  BY <1>1 DEF IdsInv, BudgetKept
<1>4. \A q \in Phones : \A id \in Own(q)' : Used(id)' /\ id \notin LogIds'
  BY <1>1, <1>2 DEF IdsInv, BudgetKept
<1>5. \A q, r \in Phones : q # r => Own(q)' \cap Own(r)' = {}
  BY <1>2 DEF IdsInv
<1>6. \A q \in Phones : Mine(out'[q], ui'[q])
  OBVIOUS
<1> QED BY <1>3, <1>4, <1>5, <1>6 DEF IdsInv

LEMMA ChatSaid ==
    ASSUME NEW o, Queue(o), NEW m, m.t = "chat"
    PROVE  /\ Ids(Append(o, m)) = Ids(o) \cup {m.id}
           /\ Said(o) /\ m.id \notin Ids(o) => Said(Append(o, m))
<1> DEFINE a == Append(o, m)
<1>1. /\ Len(o) \in Nat /\ Len(a) = Len(o) + 1
      /\ \A i \in 1 .. Len(o) : a[i] = o[i]
      /\ a[Len(o) + 1] = m
  BY QueueAppended
<1> HIDE DEF a
<1>2. /\ \A i \in 1 .. Len(a) : i \in 1 .. Len(o) \/ i = Len(o) + 1
      /\ \A i \in 1 .. Len(o) : i \in 1 .. Len(a)
      /\ Len(o) + 1 \in 1 .. Len(a)
  BY <1>1
<1>3. Ids(a) = Ids(o) \cup {m.id}
  <2>1. ASSUME NEW id \in Ids(a) PROVE id \in Ids(o) \cup {m.id}
    <3>1. PICK i \in 1 .. Len(a) : a[i].t = "chat" /\ id = a[i].id
      BY <2>1 DEF Ids
    <3> QED BY <1>1, <1>2, <3>1 DEF Ids
  <2>2. ASSUME NEW id \in Ids(o) PROVE id \in Ids(a)
    <3>1. PICK i \in 1 .. Len(o) : o[i].t = "chat" /\ id = o[i].id
      BY <2>2 DEF Ids
    <3> QED BY <1>1, <1>2, <3>1 DEF Ids
  <2>3. m.id \in Ids(a)
    BY <1>1, <1>2 DEF Ids
  <2> QED BY <2>1, <2>2, <2>3
<1>4. ASSUME Said(o), m.id \notin Ids(o) PROVE Said(a)
  <2> SUFFICES ASSUME NEW i \in 1 .. Len(a), NEW j \in 1 .. Len(a),
                      a[i].t = "chat", a[j].t = "chat", a[i].id = a[j].id
               PROVE  i = j
    BY DEF Said
  <2>1. CASE i \in 1 .. Len(o) /\ j \in 1 .. Len(o)
    BY <1>1, <1>4, <2>1 DEF Said
  <2>2. CASE ~(i \in 1 .. Len(o) /\ j \in 1 .. Len(o))
    BY <1>1, <1>2, <1>4, <2>2 DEF Ids
  <2> QED BY <2>1, <2>2
<1> QED BY <1>3, <1>4 DEF a

LEMMA Minted ==
    ASSUME PhonesInv, NEW f \in {"text", "file"}, Spend(f), NEW id, id = <<f, Fresh(f)>>
    PROVE  ~Used(id) /\ Used(id)'
<1> DEFINE n == budget[f]
<1>1. budget \in [Chores -> Nat] /\ n > 0 /\ budget' = [budget EXCEPT ![f] = @ - 1] /\ f \in Chores
  BY DEF PhonesInv, Spend, Chores
<1>2. n \in Nat /\ budget'[f] = n - 1 /\ n > n - 1 /\ ~(n > n)
  BY <1>1
<1>3. ~\E g \in {"text", "file"}, m \in Nat : <<f, n>> = <<g, m>> /\ m > budget[g]
  BY <1>2
<1>4. id = <<f, n>>
  BY DEF Fresh
<1>5. ~Used(id)
  BY <1>3, <1>4 DEF Used
<1>6. n \in Nat /\ n > budget'[f]
  BY <1>2
<1> HIDE DEF n
<1>7. Used(id)'
  BY <1>4, <1>6 DEF Used
<1> QED BY <1>5, <1>7

(* sendMessage: the phone says something new.                              *)
LEMMA TextSaid ==
    ASSUME TalkInv, ViewsInv, PhonesInv, NEW p \in Phones, NEW to, SendMessage(p, to)
    PROVE  TalkInv'
<1>0. PICK id : id = <<"text", Fresh("text")>>
  OBVIOUS
<1> DEFINE m == [t |-> "chat", id |-> id, to |-> to]
           o == out[p]
<1>1. Spend("text") /\ Emit(p, <<m>>) /\ UNCHANGED <<log, session, on, in, ui>>
  BY <1>0 DEF SendMessage
<1>2. ~Used(id) /\ Used(id)' /\ BudgetKept
  BY <1>0, <1>1, Minted, BudgetSpent DEF Chores
<1>3. m.t = "chat" /\ m.id = id
  OBVIOUS
<1> HIDE DEF m
<1>4. DOMAIN out = Phones /\ Queue(o) /\ out' = [out EXCEPT ![p] = Append(o, m)]
  BY <1>1, OutOne DEF ViewsInv, OutOK
<1>5. IdsInv /\ id \notin Own(p) /\ Mine(o, ui[p])
  BY <1>2 DEF TalkInv, IdsInv
<1>6. Ids(Append(o, m)) = Ids(o) \cup {id} /\ (Said(o) /\ id \notin Ids(o) => Said(Append(o, m)))
  BY <1>3, <1>4, ChatSaid
<1>7. Mine(out'[p], ui'[p]) /\ Own(p)' \subseteq Own(p) \cup {id}
  BY <1>1, <1>4, <1>5, <1>6 DEF Mine, Own
<1>8. \A q \in Phones : q # p => Own(q)' = Own(q) /\ Mine(out'[q], ui'[q])
  BY <1>1, <1>4, <1>5 DEF Own, IdsInv
<1>9. IdsInv'
  <2> DEFINE I == {id}
  <2>1. Own(p)' \subseteq Own(p) \cup I /\ \A x \in I : ~Used(x) /\ Used(x)'
    BY <1>2, <1>7
  <2> HIDE DEF I
  <2> QED BY <1>1, <1>2, <1>5, <1>7, <1>8, <2>1, IdsMoved
<1>10. UIGoes /\ BringsKept
  BY <1>1, UIRests, InRests DEF TalkInv
<1> QED BY <1>1, <1>9, <1>10, ListsKept, LostKept DEF TalkInv

(* sendMedia begins: the phone holds a new file.                           *)
LEMMA FileChosen ==
    ASSUME TalkInv, ViewsInv, PhonesInv, NEW p \in Phones, NEW to, StartUpload(p, "file", to)
    PROVE  TalkInv'
<1>0. PICK id : id = <<"file", Fresh("file")>>
  OBVIOUS
<1> DEFINE y == [k |-> "file", id |-> id, to |-> to, step |-> "upload"]
           u == ui[p]
           v == [u EXCEPT !.tasks = @ \cup {y}]
<1>1. Spend("file") /\ Become(p, v) /\ UNCHANGED <<log, session, on>> /\ UNCHANGED in /\ UNCHANGED out
  BY <1>0 DEF StartUpload, OnlyUI, serverSide
<1>2. ~Used(id) /\ Used(id)' /\ BudgetKept
  BY <1>0, <1>1, Minted, BudgetSpent DEF Chores
<1>3. y.k = "file" /\ y.id = id
  OBVIOUS
<1> HIDE DEF y
<1>4. DOMAIN ui = Phones /\ DOMAIN u = Fields /\ ui' = [ui EXCEPT ![p] = v]
  BY <1>1 DEF ViewsInv, ViewOK, Become
<1>5. v.msgs = u.msgs /\ v.fetch = u.fetch /\ Files(v) = Files(u) \cup {y}
  BY <1>3, <1>4 DEF Fields, Files
<1> HIDE DEF v
<1>6. IdsInv /\ id \notin Own(p) /\ Mine(out[p], u)
  BY <1>2 DEF TalkInv, IdsInv
<1>7. FileIds(v) = FileIds(u) \cup {id}
  BY <1>3, <1>5 DEF FileIds
<1>8. Mine(out'[p], ui'[p]) /\ Own(p)' \subseteq Own(p) \cup {id}
  <2>1. \A x, z \in Files(v) : x.id = z.id => x = z
    BY <1>3, <1>5, <1>6 DEF Mine, Own, FileIds
  <2>2. Ids(out[p]) \cap FileIds(v) = {}
    BY <1>6, <1>7 DEF Mine, Own
  <2>3. Mine(out[p], v)
    BY <1>6, <2>1, <2>2 DEF Mine
  <2> QED BY <1>1, <1>4, <1>7, <2>3 DEF Own
<1>9. \A q \in Phones : q # p => Own(q)' = Own(q) /\ Mine(out'[q], ui'[q])
  BY <1>1, <1>4, <1>6 DEF Own, IdsInv
<1>10. IdsInv'
  <2> DEFINE I == {id}
  <2>1. Own(p)' \subseteq Own(p) \cup I /\ \A x \in I : ~Used(x) /\ Used(x)'
    BY <1>2, <1>8
  <2> HIDE DEF I
  <2> QED BY <1>1, <1>2, <1>6, <1>8, <1>9, <2>1, IdsMoved
<1>11. UIGoes /\ BringsKept
  <2>1. GoesOn(u.msgs, v.msgs) /\ FetchOK(v.fetch)
    BY <1>5, GoesOnAsItIs DEF TalkInv, ListsInv
  <2>2. \A q \in Phones : GoesOn(ui[q].msgs, ui[q].msgs) /\ FetchOK(ui[q].fetch)
    BY GoesOnAsItIs DEF TalkInv, ListsInv
  <2>3. UIGoes
    BY <1>4, <2>1, <2>2 DEF UIGoes
  <2> QED BY <1>1, <2>3, InRests
<1> QED BY <1>1, <1>10, <1>11, ListsKept, LostKept DEF TalkInv

LEMMA UserActsTalk ==
    ASSUME TalkInv, ViewsInv, PhonesInv, NEW p \in Phones, UserActs(p) PROVE TalkInv'
<1> DEFINE u == ui[p]
<1>1. DOMAIN u = Fields
  BY DEF ViewsInv, ViewOK
<1>2. ASSUME OnlyUI, BudgetKept, NEW v, Become(p, v), SameTalk(u, v) PROVE TalkInv'
  <2>1. UNCHANGED <<log, session, on>> /\ UNCHANGED in /\ UNCHANGED out
    BY <1>2 DEF OnlyUI, serverSide
  <2> QED BY <1>2, <2>1, InRests, OutRests, TalkElsewhere
<1>3. ASSUME NEW to, SendMessage(p, to) PROVE TalkInv'
  BY <1>3, TextSaid
<1>4. ASSUME NEW to, StartUpload(p, "file", to) PROVE TalkInv'
  BY <1>4, FileChosen
<1>5. ASSUME NEW to, StartUpload(p, "voice", to) PROVE TalkInv'
  <2> DEFINE y == [k |-> "voice", id |-> <<"voice", Fresh("voice")>>, to |-> to, step |-> "upload"]
  <2>1. Become(p, [u EXCEPT !.tasks = @ \cup {y}]) /\ OnlyUI /\ Spend("voice")
    BY <1>5 DEF StartUpload
  <2>2. y.k # "file" /\ BudgetKept
    BY <2>1, BudgetSpent DEF Chores
  <2> HIDE DEF y
  <2>3. SameTalk(u, [u EXCEPT !.tasks = @ \cup {y}])
    BY <1>1, <2>2, SameTalkWith
  <2> QED BY <1>2, <2>1, <2>2, <2>3
<1>6. CASE EnablePush(p)
  <2> DEFINE m == [t |-> "push"]
  <2>1. /\ Become(p, [u EXCEPT !.push = TRUE]) /\ Emit(p, <<m>>) /\ Spend("push")
        /\ UNCHANGED <<log, session, on>> /\ UNCHANGED in
    BY <1>6 DEF EnablePush
  <2>2. m.t # "chat"
    OBVIOUS
  <2> HIDE DEF m
  <2>3. OutPlain /\ BudgetKept
    BY <2>1, <2>2, OutPlainOne, BudgetSpent DEF Chores
  <2>4. SameTalk(u, [u EXCEPT !.push = TRUE])
    BY <1>1, SameTalkFields
  <2> QED BY <2>1, <2>3, <2>4, InRests, TalkElsewhere
<1>7. ASSUME NEW r \in Rooms, AskGroupMedia(p, r) PROVE TalkInv'
  <2> DEFINE y == [k |-> "group", room |-> r, n |-> Fresh("group")]
  <2>1. Become(p, [u EXCEPT !.tasks = @ \cup {y}]) /\ OnlyUI /\ Spend("group")
    BY <1>7 DEF AskGroupMedia
  <2>2. y.k # "file" /\ BudgetKept
    BY <2>1, BudgetSpent DEF Chores
  <2> HIDE DEF y
  <2>3. SameTalk(u, [u EXCEPT !.tasks = @ \cup {y}])
    BY <1>1, <2>2, SameTalkWith
  <2> QED BY <1>2, <2>1, <2>2, <2>3
<1>8. CASE LeaveGroup(p)
  <2> DEFINE m == [t |-> "leave", room |-> u.room]
             v == [u EXCEPT !.room = None, !.camera = FALSE, !.peers = {}]
  <2>1. Become(p, v) /\ Emit(p, <<m>>) /\ UNCHANGED budget /\ UNCHANGED <<log, session, on>> /\ UNCHANGED in
    BY <1>8 DEF LeaveGroup
  <2>2. m.t # "chat"
    OBVIOUS
  <2>3. SameTalk(u, v)
    BY <1>1, SameTalkFields
  <2> HIDE DEF m, v
  <2>4. OutPlain /\ BudgetKept
    BY <2>1, <2>2, OutPlainOne, BudgetRests
  <2> QED BY <2>1, <2>3, <2>4, InRests, TalkElsewhere
<1>9. CASE Hangup(p)
  <2>1. /\ Become(p, Cleanup(u)) /\ Spend("hangup") /\ UNCHANGED <<log, session, on>> /\ UNCHANGED in
        /\ UNCHANGED out \/ EmitSignal(p, u.peer, "hangup")
    BY <1>9 DEF Hangup
  <2>2. OutPlain /\ BudgetKept
    BY <2>1, OutRests, OutPlainSignal, BudgetSpent DEF Chores
  <2>3. SameTalk(u, Cleanup(u))
    BY <1>1, SameTalkCleaned
  <2> QED BY <2>1, <2>2, <2>3, InRests, TalkElsewhere
<1>10. CASE StartCall(p)
  <2>1. PICK c : Become(p, [u EXCEPT !.st = "calling", !.peer = c, !.tasks = @ \cup
                      {[k |-> "start", to |-> c, step |-> "media", n |-> Fresh("call")]}])
    BY <1>10 DEF StartCall
  <2> DEFINE y == [k |-> "start", to |-> c, step |-> "media", n |-> Fresh("call")]
             T == u.tasks \cup {y}
             v == [u EXCEPT !.st = "calling", !.peer = c, !.tasks = T]
  <2>2. y.k # "file" /\ OnlyUI /\ Spend("call")
    BY <1>10 DEF StartCall
  <2>3. Become(p, v)
    BY <2>1
  <2> HIDE DEF y
  <2>4. \A x \in T : x.k = "file" => x \in u.tasks
    BY <2>2
  <2> HIDE DEF T
  <2>5. SameTalk(u, v)
    BY <1>1, <2>4, SameTalkCalling
  <2> HIDE DEF v
  <2>6. BudgetKept
    BY <2>2, BudgetSpent DEF Chores
  <2> QED BY <1>2, <2>2, <2>3, <2>5, <2>6
<1>11. CASE AcceptCall(p)
  <2> DEFINE y == [k |-> "accept", to |-> None, step |-> "media", n |-> Fresh("call")]
  <2>1. Become(p, [u EXCEPT !.tasks = @ \cup {y}]) /\ OnlyUI /\ Spend("call")
    BY <1>11 DEF AcceptCall
  <2>2. y.k # "file" /\ BudgetKept
    BY <2>1, BudgetSpent DEF Chores
  <2> HIDE DEF y
  <2>3. SameTalk(u, [u EXCEPT !.tasks = @ \cup {y}])
    BY <1>1, <2>2, SameTalkWith
  <2> QED BY <1>2, <2>1, <2>2, <2>3
<1> QED BY <1>3, <1>4, <1>5, <1>6, <1>7, <1>8, <1>9, <1>10, <1>11 DEF UserActs

-----------------------------------------------------------------------------
(* The list of a phone goes on.                                            *)
LEMMA UIBecomes ==
    ASSUME ListsInv, ViewsInv, NEW p \in Phones, NEW v, Become(p, v),
           GoesOn(ui[p].msgs, v.msgs), v.fetch = ui[p].fetch, Files(v) \subseteq Files(ui[p])
    PROVE  UIGoes /\ FilesKept
<1>1. DOMAIN ui = Phones /\ ui' = [ui EXCEPT ![p] = v]
  BY DEF ViewsInv, Become
<1>2. FetchOK(v.fetch)
  BY DEF ListsInv
<1>3. \A q \in Phones : GoesOn(ui[q].msgs, ui[q].msgs) /\ FetchOK(ui[q].fetch)
  BY GoesOnAsItIs DEF ListsInv
<1>4. UIGoes
  BY <1>1, <1>2, <1>3 DEF UIGoes
<1>5. FilesKept
  BY <1>1 DEF FilesKept
<1> QED BY <1>4, <1>5

LEMMA ChatAdded ==
    ASSUME NEW u, DOMAIN u = Fields, ListOK(u.msgs), NEW id, NEW v, v = AddChat(u, id)
    PROVE  /\ GoesOn(u.msgs, v.msgs) /\ (NotFull(v.msgs) => Has(v.msgs, id))
           /\ v.fetch = u.fetch /\ Files(v) = Files(u)
<1> DEFINE m == [kind |-> "chat", id |-> id, read |-> {}]
           ns == Cut(Append(u.msgs, m))
<1>1. Lists(u, id) <=> Has(u.msgs, id)
  BY ShowsHas
<1>2. CASE Lists(u, id)
  BY <1>1, <1>2, GoesOnAsItIs DEF AddChat
<1>3. CASE ~Lists(u, id)
  <2>1. DOMAIN m = {"kind", "id", "read"} /\ m.kind = "chat" /\ m.id = id
    OBVIOUS
  <2>2. v = [u EXCEPT !.msgs = ns]
    BY <1>3 DEF AddChat
  <2> HIDE DEF m
  <2>3. GoesOn(u.msgs, ns) /\ (NotFull(ns) => Has(ns, id))
    BY <1>1, <1>3, <2>1, ListAppended
  <2> HIDE DEF ns
  <2>4. v.msgs = ns /\ v.fetch = u.fetch /\ v.tasks = u.tasks
    BY <2>2 DEF Fields
  <2> QED BY <2>3, <2>4 DEF Files
<1> QED BY <1>2, <1>3

LEMMA VoiceAdded ==
    ASSUME NEW u, DOMAIN u = Fields, ListOK(u.msgs), NEW id, NEW v, v = AddVoice(u, id)
    PROVE  GoesOn(u.msgs, v.msgs) /\ v.fetch = u.fetch /\ Files(v) = Files(u)
<1> DEFINE m == [kind |-> "voice", id |-> id, read |-> {}]
           ns == Cut(Append(u.msgs, m))
<1>1. DOMAIN m = {"kind", "id", "read"} /\ m.kind # "chat"
  OBVIOUS
<1>2. v = [u EXCEPT !.msgs = ns]
  BY DEF AddVoice
<1> HIDE DEF m
<1>3. GoesOn(u.msgs, ns)
  BY <1>1, ListAppended
<1> HIDE DEF ns
<1>4. v.msgs = ns /\ v.fetch = u.fetch /\ v.tasks = u.tasks
  BY <1>2 DEF Fields
<1> QED BY <1>3, <1>4 DEF Files

LEMMA BringsBefore ==
    ASSUME NEW q, Queue(q), NEW r, Queue(r), NEW m
    PROVE  \A id : Brings(q, id) => Brings(Append(q, m), id) /\ Brings(q \o r, id)
<1>1. /\ Len(q) \in Nat /\ Len(Append(q, m)) = Len(q) + 1
      /\ \A i \in 1 .. Len(q) : Append(q, m)[i] = q[i]
  BY QueueAppended
<1>2. /\ Len(r) \in Nat /\ Len(q \o r) = Len(q) + Len(r)
      /\ \A i \in 1 .. Len(q) : (q \o r)[i] = q[i]
  BY QueueJoined
<1>3. \A i \in 1 .. Len(q) : i \in 1 .. Len(q) + 1 /\ i \in 1 .. Len(q) + Len(r)
  BY <1>1, <1>2
<1> QED BY <1>1, <1>2, <1>3 DEF Brings

LEMMA BringsEmitted ==
    ASSUME InboxInv, NEW C, NEW m, in' = Emitted(in, C, m) PROVE BringsKept
<1>1. \A p \in Phones : Queue(in[p]) /\ in'[p] \in {in[p], Append(in[p], m)}
  BY DEF InboxInv, Inbox, Queue, Emitted
<1> QED BY <1>1, BringsBefore DEF BringsKept

LEMMA BringsAfter ==
    ASSUME NEW q, Queue(q), q # <<>>, NEW id, Brings(q, id)
    PROVE  Brings(Tail(q), id) \/ (Head(q).t = "chat" /\ Head(q).m.id = id)
<1> DEFINE a == Tail(q)
<1>1. /\ Len(q) \in Nat \ {0} /\ Len(a) = Len(q) - 1 /\ Head(q) = q[1]
      /\ \A i \in 1 .. Len(q) - 1 : a[i] = q[i + 1]
  BY QueueTail
<1> HIDE DEF a
<1>2. PICK j \in 1 .. Len(q) : q[j].t = "chat" /\ q[j].m.id = id
  BY DEF Brings
<1>3. CASE j = 1
  BY <1>1, <1>2, <1>3
<1>4. CASE j # 1
  <2> DEFINE k == j - 1
  <2>1. k \in 1 .. Len(a) /\ k \in 1 .. Len(q) - 1 /\ k + 1 = j
    BY <1>1, <1>4
  <2> HIDE DEF k
  <2>2. a[k] = q[j]
    BY <1>1, <2>1
  <2> QED BY <1>2, <2>1, <2>2 DEF Brings, a
<1> QED BY <1>3, <1>4

LEMMA BringsTaken ==
    ASSUME InboxInv, NEW p \in Phones, NEW t, Got(p, t), t # "chat"
    PROVE  BringsKept
<1>1. /\ DOMAIN in = Phones /\ Queue(in[p]) /\ in[p] # <<>> /\ Head(in[p]).t = t
      /\ in' = [in EXCEPT ![p] = Tail(in[p])]
  BY DEF InboxInv, Inbox, Queue, Got
<1>2. \A id : Brings(in[p], id) => Brings(Tail(in[p]), id)
  BY <1>1, BringsAfter
<1> QED BY <1>1, <1>2 DEF BringsKept

(* sendMedia goes on: the file is announced and shown.                     *)
LEMMA FileSent ==
    ASSUME TalkInv, ViewsInv, NEW p \in Phones, SendMedia(p) PROVE TalkInv'
<1> DEFINE u == ui[p]
           o == out[p]
<1>1. PICK x \in Task(p, "file") :
        /\ Become(p, AddChat(TaskEnd(u, x), x.id))
        /\ Emit(p, <<[t |-> "chat", id |-> x.id, to |-> x.to]>>)
        /\ UNCHANGED <<users, devices, rooms, log, session, on, in, shown, budget>>
  BY DEF SendMedia
<1> DEFINE w == TaskEnd(u, x)
           v == AddChat(w, x.id)
           m == [t |-> "chat", id |-> x.id, to |-> x.to]
<1>2. m.t = "chat" /\ m.id = x.id /\ Emit(p, <<m>>) /\ Become(p, v)
  BY <1>1
<1> HIDE DEF m
<1>3. DOMAIN out = Phones /\ Queue(o) /\ out' = [out EXCEPT ![p] = Append(o, m)]
  BY <1>2, OutOne DEF ViewsInv, OutOK
<1>4. /\ DOMAIN ui = Phones /\ DOMAIN u = Fields /\ ListOK(u.msgs) /\ x \in Files(u)
      /\ ui' = [ui EXCEPT ![p] = v]
  BY <1>2 DEF ViewsInv, ViewOK, TalkInv, ListsInv, Task, Files, Become
<1>5. DOMAIN w = Fields /\ w.msgs = u.msgs /\ w.fetch = u.fetch /\ Files(w) = Files(u) \ {x}
  BY <1>4 DEF TaskEnd, Fields, Files
<1> HIDE DEF w
<1>6. GoesOn(u.msgs, v.msgs) /\ v.fetch = u.fetch /\ Files(v) = Files(u) \ {x}
  BY <1>4, <1>5, ChatAdded
<1> HIDE DEF v
<1>7. IdsInv /\ Mine(o, u)
  BY DEF TalkInv, IdsInv
<1>8. Ids(Append(o, m)) = Ids(o) \cup {x.id} /\ (Said(o) /\ x.id \notin Ids(o) => Said(Append(o, m)))
  BY <1>2, <1>3, ChatSaid
<1>9. x.id \in FileIds(u) /\ x.id \notin FileIds(v) /\ FileIds(v) \subseteq FileIds(u)
  BY <1>4, <1>6, <1>7 DEF FileIds, Mine
<1>10. Mine(Append(o, m), v)
  BY <1>6, <1>7, <1>8, <1>9 DEF Mine
<1>11. Mine(out'[p], ui'[p]) /\ Own(p)' \subseteq Own(p)
  BY <1>3, <1>4, <1>8, <1>9, <1>10 DEF Own
<1>12. \A q \in Phones : q # p => Own(q)' = Own(q) /\ Mine(out'[q], ui'[q])
  BY <1>3, <1>4, <1>7 DEF Own, IdsInv
<1>13. BudgetKept
  BY <1>1, BudgetRests
<1>14. IdsInv'
  <2> DEFINE I == {}
  <2>1. Own(p)' \subseteq Own(p) \cup I /\ \A id \in I : ~Used(id) /\ Used(id)'
    BY <1>11
  <2> HIDE DEF I
  <2> QED BY <1>1, <1>7, <1>11, <1>12, <1>13, <2>1, IdsMoved
<1>15. UIGoes /\ BringsKept
  BY <1>1, <1>2, <1>6, UIBecomes, InRests DEF TalkInv
<1> QED BY <1>1, <1>14, <1>15, ListsKept, LostKept DEF TalkInv

(* The answer with the history comes.                                      *)
LEMMA HistoryComes ==
    ASSUME TalkInv, ViewsInv, NEW p \in Phones, ShowHistory(p) PROVE TalkInv'
<1> DEFINE u == ui[p]
<1>1. PICK i \in DOMAIN u.fetch : \E n \in u.fetch[i] .. Len(log) :
        /\ Become(p, [MergeHistory(u, HistoryAnswer(n)) EXCEPT !.fetch = RemoveAt(@, i)])
        /\ OnlyUI /\ UNCHANGED budget
  BY DEF ShowHistory
<1>2. PICK n \in u.fetch[i] .. Len(log) :
        Become(p, [MergeHistory(u, HistoryAnswer(n)) EXCEPT !.fetch = RemoveAt(@, i)])
  BY <1>1
<1>3. UNCHANGED <<log, session, on>> /\ UNCHANGED in /\ UNCHANGED out /\ UNCHANGED budget
  BY <1>1 DEF OnlyUI, serverSide
<1>4. /\ DOMAIN ui = Phones /\ DOMAIN u = Fields /\ ListOK(u.msgs) /\ FetchOK(u.fetch)
      /\ RowsOK(log)
  BY DEF ViewsInv, ViewOK, TalkInv, ListsInv, IdsInv
<1>5. i \in 1 .. Len(u.fetch) /\ u.fetch[i] \in Nat /\ Len(log) \in Nat
  BY <1>4 DEF FetchOK, Queue, RowsOK
<1>6. n \in 0 .. Len(log) /\ u.fetch[i] <= n
  BY <1>5
<1> DEFINE rows == HistoryAnswer(n)
<1>7. RowsOK(rows)
  BY <1>4, <1>6, HistoryRead
<1> HIDE DEF rows
<1>8. PICK ns : MergeHistory(u, rows) = [u EXCEPT !.msgs = ns] /\ GoesOn(u.msgs, ns)
  <2>1. "msgs" \in DOMAIN u
    BY <1>4 DEF Fields
  <2> QED BY <1>4, <1>7, <2>1, HistoryMerged
<1> DEFINE v == [MergeHistory(u, rows) EXCEPT !.fetch = RemoveAt(@, i)]
<1>9. v.msgs = ns /\ v.fetch = RemoveAt(u.fetch, i) /\ Files(v) = Files(u)
  BY <1>4, <1>8 DEF Fields, Files
<1>10. ui' = [ui EXCEPT ![p] = v]
  BY <1>2 DEF rows, Become
<1> HIDE DEF v
<1>11. /\ Queue(v.fetch)
       /\ \A k \in 1 .. Len(v.fetch) : \E j \in 1 .. Len(u.fetch) : v.fetch[k] = u.fetch[j]
  <2> DEFINE g == u.fetch
             r == RemoveAt(g, i)
  <2>1. Queue(g) /\ i \in 1 .. Len(g)
    BY <1>4, <1>5 DEF FetchOK
  <2> HIDE DEF g
  <2>2. /\ Queue(r)
        /\ \A k \in 1 .. Len(r) : \E j \in 1 .. Len(g) : r[k] = g[j]
    BY <2>1, QueueWithout
  <2>3. v.fetch = r
    BY <1>9 DEF g
  <2> HIDE DEF r
  <2> QED BY <2>2, <2>3 DEF g
<1>12. FetchOK(v.fetch)
  BY <1>4, <1>11 DEF FetchOK
<1>13. UIGoes /\ FilesKept
  <2>1. \A q \in Phones : GoesOn(ui[q].msgs, ui[q].msgs) /\ FetchOK(ui[q].fetch)
    BY GoesOnAsItIs DEF TalkInv, ListsInv
  <2>2. UIGoes
    BY <1>4, <1>8, <1>9, <1>10, <1>12, <2>1 DEF UIGoes
  <2> QED BY <1>4, <1>9, <1>10, <2>2 DEF FilesKept
<1> QED BY <1>3, <1>13, OutRests, InRests, BudgetRests, TalkKept

LEMMA TasksTalk ==
    ASSUME TalkInv, ViewsInv, InboxInv, NEW p \in Phones, TaskGoesOn(p) PROVE TalkInv'
<1> DEFINE u == ui[p]
<1>1. DOMAIN u = Fields /\ ListsInv /\ ListOK(u.msgs)
  BY DEF ViewsInv, ViewOK, TalkInv, ListsInv
<1>2. ASSUME UNCHANGED <<log, session, on>>, UNCHANGED budget, OutPlain, BringsKept,
             NEW v, Become(p, v), SameTalk(u, v)
      PROVE  TalkInv'
  BY <1>2, BudgetRests, TalkElsewhere
<1>3. ASSUME OnlyUI, UNCHANGED budget, NEW v, Become(p, v), SameTalk(u, v) PROVE TalkInv'
  <2>1. UNCHANGED <<log, session, on>> /\ UNCHANGED in /\ UNCHANGED out
    BY <1>3 DEF OnlyUI, serverSide
  <2> QED BY <1>2, <1>3, <2>1, OutRests, InRests
<1>4. \A x : SameTalk(u, TaskEnd(u, x)) /\ DOMAIN TaskEnd(u, x) = Fields
  BY <1>1, SameTalkWithout
<1>5. CASE SendMedia(p)
  BY <1>5, FileSent
<1>6. CASE UploadVoice(p)
  <2>1. PICK x \in Task(p, "voice") :
          /\ DeliverVoiceMessage(x.id, x.to)
          /\ Become(p, Advance(u, x, "stored"))
          /\ UNCHANGED <<users, devices, rooms, log, session, on, out, shown, budget>>
    BY <1>6 DEF UploadVoice
  <2>2. BringsKept
    <3> DEFINE m == [t |-> "voice", id |-> x.id]
    <3>1. \E C : in' = Emitted(in, C, m)
      BY <2>1 DEF DeliverVoiceMessage
    <3> HIDE DEF m
    <3> QED BY <3>1, BringsEmitted
  <2>3. SameTalk(u, Advance(u, x, "stored"))
    <3>1. x.k = "voice"
      BY DEF Task
    <3> QED BY <1>1, <3>1, SameTalkAdvanced
  <2> QED BY <1>2, <2>1, <2>2, <2>3, OutRests
<1>7. CASE SendVoiceMessage(p)
  <2>1. PICK x \in Task(p, "voice") : /\ Become(p, AddVoice(TaskEnd(u, x), x.id))
                                      /\ OnlyUI /\ UNCHANGED budget
    BY <1>7 DEF SendVoiceMessage
  <2> DEFINE w == TaskEnd(u, x)
             v == AddVoice(w, x.id)
  <2>2. SameTalk(u, w) /\ DOMAIN w = Fields
    BY <1>4
  <2> HIDE DEF w
  <2>3. GoesOn(w.msgs, v.msgs) /\ v.fetch = w.fetch /\ Files(v) = Files(w)
    BY <1>1, <2>2, VoiceAdded DEF SameTalk
  <2>4. Become(p, v)
    BY <2>1 DEF w
  <2> HIDE DEF v
  <2>5. GoesOn(u.msgs, v.msgs) /\ v.fetch = u.fetch /\ Files(v) \subseteq Files(u)
    BY <2>2, <2>3 DEF SameTalk
  <2>6. UIGoes /\ FilesKept
    BY <1>1, <2>4, <2>5, UIBecomes
  <2>7. UNCHANGED <<log, session, on>> /\ UNCHANGED in /\ UNCHANGED out
    BY <2>1 DEF OnlyUI, serverSide
  <2> QED BY <2>1, <2>6, <2>7, OutRests, InRests, BudgetRests, TalkKept
<1>8. CASE UploadFails(p) \/ GroupMediaRefused(p)
  <2>1. PICK x : Become(p, TaskEnd(u, x)) /\ OnlyUI /\ UNCHANGED budget
    BY <1>8 DEF UploadFails, GroupMediaRefused
  <2> QED BY <1>3, <1>4, <2>1
<1>9. \A step : \A x \in CallTasks(p, step) : x.k # "file"
  BY DEF CallTasks, Task
<1>10. CASE GotMedia(p)
  <2>1. PICK x \in CallTasks(p, "media") :
          Become(p, [Advance(u, x, "ice") EXCEPT !.mic = TRUE]) /\ OnlyUI /\ UNCHANGED budget
    BY <1>10 DEF GotMedia
  <2>2. SameTalk(u, Advance(u, x, "ice")) /\ DOMAIN Advance(u, x, "ice") = Fields
    BY <1>1, <1>9, SameTalkAdvanced
  <2>3. SameTalk(u, [Advance(u, x, "ice") EXCEPT !.mic = TRUE])
    BY <2>2, SameTalkFields, SameTalkOver
  <2> QED BY <1>3, <2>1, <2>3
<1>11. CASE MediaRefused(p)
  <2>1. PICK x \in CallTasks(p, "media") :
          /\ \/ /\ Become(p, [TaskEnd(u, x) EXCEPT !.st = "idle", !.peer = None])
                /\ UNCHANGED out
             \/ /\ Become(p, Cleanup(TaskEnd(u, x)))
                /\ UNCHANGED out \/ EmitSignal(p, u.peer, "hangup")
          /\ UNCHANGED <<users, devices, rooms, log, session, on, in, shown, budget>>
    BY <1>11 DEF MediaRefused
  <2>2. /\ SameTalk(u, [TaskEnd(u, x) EXCEPT !.st = "idle", !.peer = None])
        /\ SameTalk(u, Cleanup(TaskEnd(u, x)))
    BY <1>4, SameTalkFields, SameTalkCleaned, SameTalkOver
  <2>3. OutPlain /\ BringsKept
    BY <2>1, OutRests, OutPlainSignal, InRests
  <2> QED BY <1>2, <2>1, <2>2, <2>3
<1>12. CASE GotIceServers(p)
  <2>1. PICK x \in CallTasks(p, "ice") : \E c, z :
          /\ Become(p, [Advance(u, x, "sdp") EXCEPT !.pc = c, !.replaced = z])
          /\ OnlyUI /\ UNCHANGED budget
    BY <1>12 DEF GotIceServers
  <2>2. PICK c, z : /\ Become(p, [Advance(u, x, "sdp") EXCEPT !.pc = c, !.replaced = z])
                    /\ OnlyUI /\ UNCHANGED budget
    BY <2>1
  <2>3. SameTalk(u, Advance(u, x, "sdp")) /\ DOMAIN Advance(u, x, "sdp") = Fields
    BY <1>1, <1>9, SameTalkAdvanced
  <2>4. SameTalk(u, [Advance(u, x, "sdp") EXCEPT !.pc = c, !.replaced = z])
    BY <2>3, SameTalkFields, SameTalkOver
  <2> QED BY <1>3, <2>2, <2>4
<1>13. CASE SendOffer(p)
  <2>1. PICK x \in CallTasks(p, "sdp") :
          /\ Become(p, TaskEnd(u, x)) /\ EmitSignal(p, x.to, "offer")
          /\ UNCHANGED <<users, devices, rooms, log, session, on, in, shown, budget>>
    BY <1>13 DEF SendOffer
  <2>2. OutPlain /\ BringsKept
    BY <2>1, OutPlainSignal, InRests
  <2> QED BY <1>2, <1>4, <2>1, <2>2
<1>14. CASE SendAnswer(p)
  <2>1. PICK x \in CallTasks(p, "sdp") :
          /\ \/ Become(p, TaskEnd(u, x)) /\ UNCHANGED out
             \/ /\ Become(p, [TaskEnd(u, x) EXCEPT !.st = "connected"])
                /\ EmitSignal(p, u.peer, "answer")
          /\ UNCHANGED <<users, devices, rooms, log, session, on, in, shown, budget>>
    BY <1>14 DEF SendAnswer
  <2>2. SameTalk(u, [TaskEnd(u, x) EXCEPT !.st = "connected"])
    BY <1>4, SameTalkFields, SameTalkOver
  <2>3. OutPlain /\ BringsKept
    BY <2>1, OutRests, OutPlainSignal, InRests
  <2> QED BY <1>2, <1>4, <2>1, <2>2, <2>3
<1>15. CASE JoinGroup(p)
  <2>1. PICK x \in Task(p, "group") : \E s :
          /\ Become(p, [TaskEnd(u, x) EXCEPT !.room = x.room, !.camera = TRUE, !.strayed = s])
          /\ Emit(p, <<[t |-> "join", room |-> x.room]>>)
          /\ UNCHANGED <<users, devices, rooms, log, session, on, in, shown, budget>>
    <3>1. PICK x \in Task(p, "group") :
            /\ Become(p, [TaskEnd(u, x) EXCEPT !.room = x.room, !.camera = TRUE,
                             !.strayed = @ \/ u.room \notin {None, x.room}])
            /\ Emit(p, <<[t |-> "join", room |-> x.room]>>)
            /\ UNCHANGED <<users, devices, rooms, log, session, on, in, shown, budget>>
      BY <1>15 DEF JoinGroup
    <3> QED BY <3>1
  <2>2. PICK s : Become(p, [TaskEnd(u, x) EXCEPT !.room = x.room, !.camera = TRUE, !.strayed = s])
    BY <2>1
  <2>3. SameTalk(u, [TaskEnd(u, x) EXCEPT !.room = x.room, !.camera = TRUE, !.strayed = s])
    BY <1>4, SameTalkFields, SameTalkOver
  <2> DEFINE m == [t |-> "join", room |-> x.room]
  <2>4. m.t # "chat" /\ Emit(p, <<m>>)
    BY <2>1
  <2> HIDE DEF m
  <2>5. OutPlain /\ BringsKept
    BY <2>1, <2>4, OutPlainOne, InRests
  <2> QED BY <1>2, <2>1, <2>2, <2>3, <2>5
<1>16. CASE OfferPeer(p)
  <2>1. PICK x \in Task(p, "peers") :
          /\ LET rest == Tail(x.todo)
             IN  Become(p, [TaskEnd(u, x) EXCEPT !.peers = @ \cup Tile(rest), !.tasks =
                     @ \cup (IF rest = <<>> THEN {} ELSE {[x EXCEPT !.todo = rest]})])
          /\ EmitSignal(p, Head(x.todo), "groupoffer")
          /\ UNCHANGED <<users, devices, rooms, log, session, on, in, shown, budget>>
    BY <1>16 DEF OfferPeer
  <2> DEFINE rest == Tail(x.todo)
             y == [x EXCEPT !.todo = rest]
             Y == IF rest = <<>> THEN {} ELSE {y}
             w == TaskEnd(u, x)
             T == w.tasks \cup Y
             P == w.peers \cup Tile(rest)
             v == [w EXCEPT !.peers = P, !.tasks = T]
  <2>2. x.k = "peers" /\ y.k = x.k
    BY DEF Task
  <2>3. SameTalk(u, w) /\ DOMAIN w = Fields
    BY <1>4
  <2>4. Become(p, v)
    BY <2>1
  <2> HIDE DEF y
  <2>5. \A z \in T : z.k = "file" => z \in w.tasks
    BY <2>2
  <2> HIDE DEF w, T, P
  <2>6. SameTalk(u, v)
    BY <2>3, <2>5, SameTalkCalling, SameTalkOver
  <2> HIDE DEF v
  <2>7. OutPlain /\ BringsKept
    BY <2>1, OutPlainSignal, InRests
  <2> QED BY <1>2, <2>1, <2>4, <2>6, <2>7
<1>17. CASE ShowHistory(p)
  BY <1>17, HistoryComes
<1>18. CASE AnswerTaken(p)
  <2>1. PICK x : /\ Become(p, [TaskEnd(u, x) EXCEPT !.st = "connected"])
                 /\ OnlyUI /\ UNCHANGED budget
    BY <1>18 DEF AnswerTaken
  <2>2. SameTalk(u, [TaskEnd(u, x) EXCEPT !.st = "connected"])
    BY <1>4, SameTalkFields, SameTalkOver
  <2> QED BY <1>3, <2>1, <2>2
<1> QED
  BY <1>5, <1>6, <1>7, <1>8, <1>10, <1>11, <1>12, <1>13, <1>14, <1>15, <1>16, <1>17, <1>18
     DEF TaskGoesOn

-----------------------------------------------------------------------------
(* What a phone receives.                                                  *)

(* The welcome: the history is asked for.                                  *)
LEMMA WelcomeTalk ==
    ASSUME TalkInv, ViewsInv, InboxInv, NEW p \in Phones, OnWelcome(p) PROVE TalkInv'
<1> DEFINE u == ui[p]
           f == Append(u.fetch, Len(log))
           z == Says(p).id
           v == [u EXCEPT !.self = z, !.fetch = f]
<1>1. /\ DOMAIN ui = Phones /\ DOMAIN u = Fields /\ ListOK(u.msgs) /\ FetchOK(u.fetch)
      /\ RowsOK(log) /\ Len(log) \in Nat /\ IdsInv /\ ListsInv
  BY DEF ViewsInv, ViewOK, TalkInv, ListsInv, IdsInv, RowsOK, Queue
<1>2. Got(p, "welcome") /\ Become(p, v)
  BY DEF OnWelcome
<1>3. UNCHANGED <<log, session, on>> /\ UNCHANGED budget
  BY <1>2 DEF Got
<1>4. /\ DOMAIN in = Phones /\ Queue(in[p]) /\ in[p] # <<>>
      /\ in' = [in EXCEPT ![p] = Tail(in[p])]
  BY <1>2 DEF InboxInv, Inbox, Queue, Got
<1>5. ui' = [ui EXCEPT ![p] = v]
  BY <1>2 DEF Become
<1>6. v.msgs = u.msgs /\ v.fetch = f /\ Files(v) = Files(u)
  BY <1>1 DEF Fields, Files
<1> HIDE DEF v
<1>7. FetchOK(f)
  <2> DEFINE g == u.fetch
             n == Len(log)
             a == Append(g, n)
  <2>1. n \in Nat /\ Queue(g) /\ \A i \in 1 .. Len(g) : g[i] \in Nat
    BY <1>1 DEF FetchOK
  <2> HIDE DEF g, n
  <2>2. /\ Queue(a) /\ Len(g) \in Nat /\ Len(a) = Len(g) + 1
        /\ \A i \in 1 .. Len(g) : a[i] = g[i]
        /\ a[Len(g) + 1] = n
    BY <2>1, QueueAppended
  <2> HIDE DEF a
  <2>3. \A i \in 1 .. Len(a) : i \in 1 .. Len(g) \/ i = Len(g) + 1
    BY <2>2
  <2>4. FetchOK(a)
    BY <2>1, <2>2, <2>3 DEF FetchOK
  <2> QED BY <2>4 DEF a, g, n
<1> HIDE DEF f
<1>8. UIGoes /\ FilesKept
  <2>1. \A q \in Phones : GoesOn(ui[q].msgs, ui[q].msgs) /\ FetchOK(ui[q].fetch)
    BY <1>1, GoesOnAsItIs DEF ListsInv
  <2>2. UIGoes
    BY <1>1, <1>5, <1>6, <1>7, <2>1 DEF UIGoes
  <2> QED BY <1>1, <1>5, <1>6, <2>2 DEF FilesKept
<1>9. OutPlain
  <2> DEFINE a == <<[t |-> "register"]>>
             b == IF u.push THEN <<[t |-> "push"]>> ELSE <<>>
  <2>2. Emit(p, a \o b)
    BY DEF OnWelcome
  <2>3. a \in Seq({[t |-> "register"]}) /\ b \in Seq({[t |-> "push"]})
    <3>1. /\ <<[t |-> "register"]>> \in Seq({[t |-> "register"]})
          /\ <<[t |-> "push"]>> \in Seq({[t |-> "push"]})
      OBVIOUS
    <3>2. <<>> \in Seq({[t |-> "push"]})
      BY EmptySeq
    <3>3. b \in Seq({[t |-> "push"]})
      BY <3>1, <3>2, Zenon
    <3> QED BY <3>1, <3>3
  <2> DEFINE S == {[t |-> "register"], [t |-> "push"]}
  <2>4. a \in Seq(S) /\ b \in Seq(S)
    BY <2>3
  <2>5. \A x \in S : x.t # "chat"
    OBVIOUS
  <2> HIDE DEF a, b, S
  <2> DEFINE c == a \o b
  <2>6. c \in Seq(S)
    BY <2>4, ConcatProperties
  <2> HIDE DEF c
  <2>7. Queue(c) /\ \A j \in 1 .. Len(c) : c[j].t # "chat"
    BY <2>5, <2>6, QueueOf, ElementOfSeq
  <2> QED BY <2>2, <2>7, OutPlainSaid DEF c
<1>10. BringsKept
  BY <1>2, BringsTaken
<1> QED BY <1>3, <1>8, <1>9, <1>10, BudgetRests, TalkKept

(* A chat message: it is shown, and may be acknowledged.                   *)
LEMMA ChatReceived ==
    ASSUME TalkInv, ViewsInv, InboxInv, NEW p \in Phones, OnChatMessage(p) PROVE TalkInv'
<1> DEFINE u == ui[p]
           id == Says(p).m.id
           v == AddChat(u, id)
<1>1. /\ DOMAIN ui = Phones /\ DOMAIN u = Fields /\ ListOK(u.msgs) /\ IdsInv /\ ListsInv
  BY DEF ViewsInv, ViewOK, TalkInv, ListsInv
<1>2. Got(p, "chat") /\ Become(p, v)
  BY DEF OnChatMessage
<1>3. UNCHANGED <<log, session, on>> /\ UNCHANGED budget
  BY <1>2 DEF Got
<1>4. /\ DOMAIN in = Phones /\ Queue(in[p]) /\ in[p] # <<>> /\ Head(in[p]).t = "chat"
      /\ Head(in[p]).m.id = id /\ in' = [in EXCEPT ![p] = Tail(in[p])]
  BY <1>2 DEF InboxInv, Inbox, Queue, Got, Says
<1> HIDE DEF id
<1>5. ui' = [ui EXCEPT ![p] = v]
  BY <1>2 DEF Become
<1>6. /\ GoesOn(u.msgs, v.msgs) /\ (NotFull(v.msgs) => Has(v.msgs, id))
      /\ v.fetch = u.fetch /\ Files(v) = Files(u)
  BY <1>1, ChatAdded
<1> HIDE DEF v
<1>7. UIGoes /\ FilesKept
  BY <1>1, <1>2, <1>6, UIBecomes
<1>8. OutPlain
  <2> DEFINE r == [t |-> "receipt", id |-> Says(p).m.id, reader |-> u.self]
  <2>1. Emit(p, <<r>>) \/ UNCHANGED out
    BY DEF OnChatMessage
  <2>2. r.t # "chat"
    OBVIOUS
  <2> HIDE DEF r
  <2> QED BY <2>1, <2>2, OutRests, OutPlainOne
<1>9. RelaysInv' /\ LostInv'
  <2>1. RelaysInv /\ LostInv /\ \A q \in Phones : Cur(q)' = Cur(q)
    BY <1>3 DEF TalkInv, Cur
  <2> SUFFICES ASSUME NEW q \in Phones, on[q], NotFull(ui'[q].msgs), NEW j \in 1 .. Len(log),
                      Cur(q) \in log[j].heard
               PROVE  HeardOf(ui'[q], in'[q], log[j].id)
    BY <1>3, <2>1 DEF RelaysInv, LostInv
  <2>2. HeardOf(ui[q], in[q], log[j].id)
    BY <1>7, <2>1 DEF LostInv, UIGoes, GoesOn
  <2>3. CASE q # p
    BY <1>1, <1>4, <1>5, <2>2, <2>3
  <2>4. CASE q = p
    <3>1. ui'[q] = v /\ in'[q] = Tail(in[p]) /\ NotFull(v.msgs)
      BY <1>1, <1>4, <1>5, <2>4
    <3>2. CASE Has(u.msgs, log[j].id)
      BY <1>6, <3>1, <3>2 DEF GoesOn, HeardOf
    <3>3. CASE Brings(in[p], log[j].id)
      <4>1. Brings(Tail(in[p]), log[j].id) \/ log[j].id = id
        BY <1>4, <3>3, BringsAfter
      <4> QED BY <1>6, <3>1, <4>1 DEF HeardOf
    <3> QED BY <2>2, <2>4, <3>2, <3>3 DEF HeardOf
  <2> QED BY <2>3, <2>4
<1>10. IdsInv' /\ ListsInv'
  BY <1>1, <1>3, <1>7, <1>8, BudgetRests, IdsKept, ListsKept
<1> QED BY <1>9, <1>10 DEF TalkInv

(* The messages that were read are marked.                                 *)
LEMMA ListMarked ==
    ASSUME NEW ms, ListOK(ms), NEW ns, ns = [i \in DOMAIN ms |-> ns[i]],
           \A i \in DOMAIN ms : /\ DOMAIN ns[i] = {"kind", "id", "read"}
                                /\ ns[i].kind = ms[i].kind /\ ns[i].id = ms[i].id
    PROVE  GoesOn(ms, ns)
<1>1. Len(ms) \in Nat /\ DOMAIN ms = 1 .. Len(ms)
  BY DEF ListOK, Queue
<1>2. Queue(ns) /\ Len(ns) = Len(ms)
  <2> DEFINE n == Len(ms)
             M == {ns[k] : k \in 1 .. n}
  <2> HIDE DEF n
  <2>1. n \in Nat /\ ns = [i \in 1 .. n |-> ns[i]]
    BY <1>1 DEF n
  <2>2. ns \in [1 .. n -> M]
    BY <2>1
  <2> HIDE DEF M
  <2>3. ns \in Seq(M) /\ DOMAIN ns = 1 .. n
    BY <2>1, <2>2
  <2>4. Queue(ns) /\ Len(ns) = n
    BY <2>1, <2>3, QueueOf, LenProperties
  <2> QED BY <2>4 DEF n
<1>3. ListOK(ns)
  BY <1>1, <1>2 DEF ListOK
<1>4. Once(ms) => Once(ns)
  BY <1>1, <1>2 DEF Once
<1>5. NotFull(ns) => NotFull(ms)
  BY <1>2 DEF NotFull
<1>6. \A id : Has(ms, id) => Has(ns, id)
  BY <1>1, <1>2 DEF Has
<1> QED BY <1>3, <1>4, <1>5, <1>6 DEF GoesOn

LEMMA ReceivingTalk ==
    ASSUME TalkInv, ViewsInv, InboxInv, NEW p \in Phones, PhoneReceives(p) PROVE TalkInv'
<1> DEFINE u == ui[p]
           m == Says(p)
<1>1. DOMAIN u = Fields /\ ListsInv /\ ListOK(u.msgs)
  BY DEF ViewsInv, ViewOK, TalkInv, ListsInv
<1>2. ASSUME NEW t, Got(p, t), t # "chat", OutPlain, UIGoes, FilesKept
      PROVE  TalkInv'
  <2>1. BringsKept
    BY <1>2, BringsTaken
  <2>2. UNCHANGED <<log, session, on>> /\ UNCHANGED budget
    BY <1>2 DEF Got
  <2> QED BY <1>2, <2>1, <2>2, BudgetRests, TalkKept
<1>3. ASSUME NEW t, Got(p, t), t # "chat", OutPlain,
             NEW v, Become(p, v), SameTalk(u, v)
      PROVE  TalkInv'
  BY <1>1, <1>2, <1>3, UIFollows
<1>4. ASSUME NEW t, Got(p, t), t # "chat", OutPlain, UNCHANGED ui PROVE TalkInv'
  BY <1>1, <1>2, <1>4, UIRests
<1>5. CASE OnVoiceMessage(p)
  <2>1. PICK id : Got(p, "voice") /\ Become(p, AddVoice(u, id)) /\ UNCHANGED out
    BY <1>5 DEF OnVoiceMessage
  <2> DEFINE v == AddVoice(u, id)
  <2>2. GoesOn(u.msgs, v.msgs) /\ v.fetch = u.fetch /\ Files(v) = Files(u)
    BY <1>1, VoiceAdded
  <2>3. Become(p, v)
    BY <2>1
  <2> HIDE DEF v
  <2> QED BY <1>1, <1>2, <2>1, <2>2, <2>3, OutRests, UIBecomes
<1>6. CASE OnReadReceipt(p)
  <2> DEFINE ms == u.msgs
             ns == MarkRead(ms, m.id, m.reader)
             v == [u EXCEPT !.msgs = ns]
  <2>1. Got(p, "receipt") /\ Become(p, v) /\ UNCHANGED out
    BY <1>6 DEF OnReadReceipt
  <2>2. v.msgs = ns /\ v.fetch = u.fetch /\ Files(v) = Files(u)
    BY <1>1 DEF Fields, Files
  <2> HIDE DEF v
  <2>3. ListOK(ms) /\ DOMAIN ms = 1 .. Len(ms)
    BY <1>1 DEF ListOK, Queue
  <2> HIDE DEF ms
  <2>4. ns = [i \in DOMAIN ms |-> ns[i]]
    BY DEF MarkRead
  <2>5. \A i \in DOMAIN ms : /\ DOMAIN ns[i] = {"kind", "id", "read"}
                             /\ ns[i].kind = ms[i].kind /\ ns[i].id = ms[i].id
    BY <2>3 DEF ListOK, MarkRead
  <2> HIDE DEF ns
  <2>6. GoesOn(ms, ns)
    BY <2>3, <2>4, <2>5, ListMarked
  <2>7. GoesOn(u.msgs, v.msgs)
    BY <2>2, <2>6 DEF ms
  <2> QED BY <1>1, <1>2, <2>1, <2>2, <2>7, OutRests, UIBecomes
<1>7. CASE OnGroupPeers(p)
  <2>1. /\ Got(p, "peers") /\ UNCHANGED out
        /\ UNCHANGED ui \/ \E P, todo : Become(p, [u EXCEPT !.peers = P,
                !.tasks = @ \cup {[k |-> "peers", todo |-> todo]}])
    BY <1>7 DEF OnGroupPeers
  <2>2. ASSUME NEW P, NEW todo, Become(p, [u EXCEPT !.peers = P,
                    !.tasks = @ \cup {[k |-> "peers", todo |-> todo]}])
        PROVE  TalkInv'
    <3> DEFINE y == [k |-> "peers", todo |-> todo]
               T == u.tasks \cup {y}
               v == [u EXCEPT !.peers = P, !.tasks = T]
    <3>1. Become(p, v) /\ y.k # "file"
      BY <2>2
    <3> HIDE DEF y
    <3>2. \A x \in T : x.k = "file" => x \in u.tasks
      BY <3>1
    <3> HIDE DEF T
    <3>3. SameTalk(u, v)
      BY <1>1, <3>2, SameTalkCalling
    <3> HIDE DEF v
    <3> QED BY <1>3, <2>1, <3>1, <3>3, OutRests
  <2> QED BY <1>4, <2>1, <2>2, OutRests
<1>8. CASE OnGroupJoin(p) \/ OnGroupLeave(p)
  <2>1. PICK t \in {"join", "left"} : /\ Got(p, t) /\ UNCHANGED out
                                      /\ \E P : Become(p, [u EXCEPT !.peers = P])
    BY <1>8 DEF OnGroupJoin, OnGroupLeave
  <2>2. PICK P : Become(p, [u EXCEPT !.peers = P])
    BY <2>1
  <2>3. SameTalk(u, [u EXCEPT !.peers = P])
    BY <1>1, SameTalkFields
  <2> QED BY <1>3, <2>1, <2>2, <2>3, OutRests
<1>9. CASE OnGroupSignal(p)
  <2>1. /\ Got(p, "signal")
        /\ \/ /\ Become(p, [u EXCEPT !.peers = u.peers \cup {m.from}])
              /\ EmitSignal(p, m.from, "groupanswer")
           \/ UNCHANGED ui /\ UNCHANGED out
    BY <1>9 DEF OnGroupSignal
  <2>2. SameTalk(u, [u EXCEPT !.peers = u.peers \cup {m.from}])
    BY <1>1, SameTalkFields
  <2>3. OutPlain
    BY <2>1, OutRests, OutPlainSignal
  <2> QED BY <1>3, <1>4, <2>1, <2>2, <2>3
<1>10. CASE OnOffer(p)
  <2>1. /\ Got(p, "signal") /\ UNCHANGED out
        /\ \E w, y, z : Become(p, [u EXCEPT !.offer = w, !.peer = y, !.st = z])
    BY <1>10 DEF OnOffer
  <2>2. PICK w, y, z : Become(p, [u EXCEPT !.offer = w, !.peer = y, !.st = z])
    BY <2>1
  <2>3. SameTalk(u, [u EXCEPT !.offer = w, !.peer = y, !.st = z])
    BY <1>1, SameTalkFields
  <2> QED BY <1>3, <2>1, <2>2, <2>3, OutRests
<1>11. CASE OnAnswer(p)
  <2>1. /\ Got(p, "signal") /\ UNCHANGED out
        /\ UNCHANGED ui \/ Become(p, [u EXCEPT !.tasks = @ \cup
                {[k |-> "answer", to |-> None, step |-> "sdp", n |-> u.pc.n]}])
    BY <1>11 DEF OnAnswer
  <2>2. SameTalk(u, [u EXCEPT !.tasks = @ \cup
                {[k |-> "answer", to |-> None, step |-> "sdp", n |-> u.pc.n]}])
    <3> DEFINE y == [k |-> "answer", to |-> None, step |-> "sdp", n |-> u.pc.n]
    <3>1. y.k # "file"
      OBVIOUS
    <3> HIDE DEF y
    <3>2. \A x \in u.tasks \cup {y} : x.k = "file" => x \in u.tasks
      BY <3>1
    <3>3. SameTalk(u, [u EXCEPT !.tasks = u.tasks \cup {y}])
      BY <1>1, <3>2, SameTalkTasks
    <3> QED BY <3>3 DEF y
  <2> QED BY <1>3, <1>4, <2>1, <2>2, OutRests
<1>12. CASE OnHangup(p)
  <2>1. Got(p, "signal") /\ UNCHANGED out /\ Become(p, Cleanup(u))
    BY <1>12 DEF OnHangup
  <2> QED BY <1>1, <1>3, <2>1, OutRests, SameTalkCleaned
<1> QED
  BY <1>5, <1>6, <1>7, <1>8, <1>9, <1>10, <1>11, <1>12, WelcomeTalk, ChatReceived
     DEF PhoneReceives

-----------------------------------------------------------------------------
(* What the server receives.  A chat message is saved, or not, and reaches *)
(* everyone it is for.                                                     *)
LEMMA HeadGone ==
    ASSUME NEW o, Queue(o), o # <<>>, Head(o).t = "chat", Said(o)
    PROVE  Head(o).id \in Ids(o) /\ Head(o).id \notin Ids(Tail(o))
<1> DEFINE a == Tail(o)
           h == Head(o)
<1>1. /\ Len(o) \in Nat \ {0} /\ Len(a) = Len(o) - 1 /\ h = o[1]
      /\ \A i \in 1 .. Len(o) - 1 : a[i] = o[i + 1]
  BY QueueTail
<1>2. h.t = "chat"
  OBVIOUS
<1> HIDE DEF a, h
<1>3. 1 \in 1 .. Len(o)
  BY <1>1
<1>4. h.id \in Ids(o)
  BY <1>1, <1>2, <1>3 DEF Ids
<1>5. ASSUME NEW i \in 1 .. Len(a), a[i].t = "chat", a[i].id = h.id PROVE FALSE
  <2>1. i + 1 \in 1 .. Len(o) /\ a[i] = o[i + 1] /\ i \in Nat
    BY <1>1
  <2>2. i + 1 = 1
    BY <1>1, <1>2, <1>3, <1>5, <2>1 DEF Said
  <2> QED BY <2>1, <2>2
<1>6. h.id \notin Ids(a)
  BY <1>5 DEF Ids
<1> QED BY <1>4, <1>6 DEF a, h

LEMMA RowAppended ==
    ASSUME NEW rows, RowsOK(rows), NEW m, \A i \in 1 .. Len(rows) : rows[i].id # m.id
    PROVE  /\ RowsOK(Append(rows, m)) /\ Len(rows) \in Nat /\ Len(Append(rows, m)) = Len(rows) + 1
           /\ \A i \in 1 .. Len(rows) : Append(rows, m)[i] = rows[i]
           /\ Append(rows, m)[Len(rows) + 1] = m
           /\ \A i \in 1 .. Len(Append(rows, m)) : i \in 1 .. Len(rows) \/ i = Len(rows) + 1
<1> DEFINE a == Append(rows, m)
<1>1. /\ Queue(a) /\ Len(rows) \in Nat /\ Len(a) = Len(rows) + 1
      /\ \A i \in 1 .. Len(rows) : a[i] = rows[i]
      /\ a[Len(rows) + 1] = m
  BY QueueAppended DEF RowsOK
<1> HIDE DEF a
<1>2. \A i \in 1 .. Len(a) : i \in 1 .. Len(rows) \/ i = Len(rows) + 1
  BY <1>1
<1>3. RowsOK(a)
  BY <1>1, <1>2 DEF RowsOK
<1> QED BY <1>1, <1>2, <1>3 DEF a

LEMMA ChatTalk ==
    ASSUME TalkInv, ViewsInv, InboxInv, ServerInv, NEW p \in Phones, ChatMessage(p),
           UNCHANGED <<ui, budget>>
    PROVE  TalkInv'
<1> DEFINE h == Head(out[p])
           w == [id |-> h.id, from |-> Cur(p), to |-> h.to]
           m == [t |-> "chat", m |-> w]
           H == IF h.to = None THEN {} ELSE {Cur(p)}
           row == [id |-> h.id, to |-> h.to,
                   heard |-> Hears(IF h.to = None THEN Clients ELSE {h.to}) \cup H]
           echo == [in EXCEPT ![p] = Append(@, m)]
<1>1. /\ Received(p, "chat") /\ UNCHANGED on
      /\ log' \in {log, Append(log, row)} /\ UNCHANGED session
      /\ \E C : /\ in' = IF h.to = None THEN Emitted(in, C, m) ELSE Emitted(echo, C, m)
                /\ row.heard = Hears(C) \cup H
  BY DEF ChatMessage
<1>2. m.t = "chat" /\ m.m.id = h.id /\ row.id = h.id
  OBVIOUS
<1>a. PICK C : /\ in' = IF h.to = None THEN Emitted(in, C, m) ELSE Emitted(echo, C, m)
               /\ row.heard = Hears(C) \cup H
  BY <1>1
<1>3. /\ IdsInv /\ ListsInv /\ RowsOK(log) /\ DOMAIN in = Phones
      /\ \A q \in Phones : Queue(in[q]) /\ Queue(out[q]) /\ Mine(out[q], ui[q])
  BY DEF TalkInv, IdsInv, InboxInv, Inbox, Queue, ViewsInv, OutOK
<1>4. /\ DOMAIN out = Phones /\ out[p] # <<>> /\ h.t = "chat"
      /\ out' = [out EXCEPT ![p] = Tail(out[p])]
  BY <1>1 DEF ViewsInv, Received
<1>5. h.id \in Ids(out[p]) /\ h.id \notin Ids(Tail(out[p]))
  BY <1>3, <1>4, HeadGone DEF Mine
<1> HIDE DEF m, w, h, row
<1>6. BringsKept
  <2>2. \A q \in Phones : in'[q] \in {in[q], Append(in[q], m), Append(Append(in[q], m), m)}
    BY <1>3, <1>a DEF Emitted
  <2>3. ASSUME NEW q \in Phones, NEW id, Brings(in[q], id) PROVE Brings(in'[q], id)
    <3>1. Queue(Append(in[q], m)) /\ Brings(Append(in[q], m), id)
      BY <1>3, <2>3, QueueAppended, BringsBefore
    <3>2. Brings(Append(Append(in[q], m), m), id)
      BY <3>1, BringsBefore
    <3> QED BY <2>2, <2>3, <3>1, <3>2
  <2> QED BY <2>3 DEF BringsKept
<1>7. OutPlain /\ BudgetKept /\ UIGoes /\ FilesKept
  BY <1>1, <1>3, OutPlainHeard, BudgetRests, UIRests
<1>8. h.id \in Own(p) /\ Used(h.id) /\ h.id \notin LogIds
  BY <1>3, <1>5 DEF IdsInv, Own
<1>9. \A i \in 1 .. Len(log) : log[i].id # row.id
  BY <1>2, <1>8 DEF LogIds
<1>10. /\ RowsOK(log') /\ Len(log) \in Nat /\ Len(log') \in {Len(log), Len(log) + 1}
       /\ \A i \in 1 .. Len(log) : log'[i] = log[i]
       /\ \A i \in 1 .. Len(log') : i \in 1 .. Len(log) \/ (i = Len(log) + 1 /\ log'[i] = row)
  <2>1. CASE log' = log
    BY <1>3, <2>1 DEF RowsOK, Queue
  <2>2. CASE log' = Append(log, row)
    BY <1>3, <1>9, <2>2, RowAppended
  <2> QED BY <1>1, <2>1, <2>2
<1>11. LogIds' \subseteq LogIds \cup {h.id}
  BY <1>2, <1>10 DEF LogIds
<1>12. \A q \in Phones : Mine(out'[q], ui'[q]) /\ Own(q)' \subseteq Own(q) /\ h.id \notin Own(q)'
  <2>1. \A q \in Phones : Mine(out'[q], ui'[q]) /\ Own(q)' \subseteq Own(q)
    BY <1>3, <1>7 DEF Mine, OutPlain, NoChat, FilesKept, Own, FileIds
  <2>2. h.id \notin Own(p)'
    BY <1>3, <1>4, <1>5 DEF Own, Mine
  <2>3. \A q \in Phones : q # p => h.id \notin Own(q)
    BY <1>3, <1>8 DEF IdsInv
  <2> QED BY <2>1, <2>2, <2>3
<1>13. IdsInv'
  <2>1. \A id \in LogIds' : Used(id)'
    BY <1>3, <1>7, <1>8, <1>11 DEF IdsInv, BudgetKept
  <2>2. \A q \in Phones : \A id \in Own(q)' : Used(id)' /\ id \notin LogIds'
    BY <1>3, <1>7, <1>11, <1>12 DEF IdsInv, BudgetKept
  <2>3. \A q, r \in Phones : q # r => Own(q)' \cap Own(r)' = {}
    BY <1>3, <1>12 DEF IdsInv
  <2> QED BY <1>10, <1>12, <2>1, <2>2, <2>3 DEF IdsInv
<1>14. RelaysInv'
  <2> SUFFICES ASSUME NEW i \in 1 .. Len(log'), NEW c \in log'[i].heard
               PROVE  c[1] \in Phones /\ c[2] \in Nat /\ c[2] <= session[c[1]]
    BY <1>1 DEF RelaysInv
  <2>1. CASE i \in 1 .. Len(log)
    BY <1>10, <2>1 DEF TalkInv, RelaysInv
  <2>2. CASE i \notin 1 .. Len(log)
    <3>1. c \in Hears(C) \/ c = Cur(p)
      BY <1>10, <1>a, <2>2
    <3>2. c \in DOMAIN users
      BY <1>1, <3>1 DEF Hears, Received, ServerInv, SessionsAreKnown
    <3>3. c \in Clients /\ c[2] <= session[c[1]]
      BY <3>2 DEF ServerInv, SessionsAreKnown
    <3> QED BY <3>3 DEF Clients
  <2> QED BY <2>1, <2>2
<1>15. \A X : Queue(X) => Brings(Append(X, m), row.id)
  <2> SUFFICES ASSUME NEW X, Queue(X) PROVE Brings(Append(X, m), row.id)
    OBVIOUS
  <2>1. /\ Len(X) \in Nat /\ Len(Append(X, m)) = Len(X) + 1
        /\ Append(X, m)[Len(X) + 1] = m
    BY QueueAppended
  <2>2. Len(X) + 1 \in 1 .. Len(Append(X, m))
    BY <2>1
  <2> QED BY <1>2, <2>1, <2>2 DEF Brings
<1>16. ASSUME NEW q \in Phones, Cur(q) \in row.heard PROVE Brings(in'[q], row.id)
  <2>1. Queue(Append(in[q], m))
    BY <1>3, QueueAppended
  <2>2. in'[q] \in {Append(in[q], m), Append(Append(in[q], m), m)}
    <3>1. CASE Cur(q) \in Hears(C)
      <4>1. Here(Cur(q)) /\ Cur(q) \in C \cap DOMAIN users
        BY <3>1 DEF Hears
      <4> QED BY <1>3, <1>a, <4>1 DEF Emitted
    <3>2. CASE Cur(q) \notin Hears(C)
      <4>1. h.to # None /\ q = p
        BY <1>16, <1>a, <3>2 DEF Cur
      <4> QED BY <1>3, <1>a, <4>1 DEF Emitted
    <3> QED BY <3>1, <3>2
  <2> QED BY <1>3, <1>15, <2>1, <2>2
<1>17. LostInv'
  <2>1. \A q \in Phones : Cur(q)' = Cur(q)
    BY <1>1 DEF Cur
  <2> SUFFICES ASSUME NEW q \in Phones, on[q], NotFull(ui[q].msgs), NEW i \in 1 .. Len(log'),
                      Cur(q) \in log'[i].heard
               PROVE  HeardOf(ui[q], in'[q], log'[i].id)
    BY <1>1, <2>1 DEF LostInv
  <2>2. CASE i \in 1 .. Len(log)
    <3>1. HeardOf(ui[q], in[q], log[i].id)
      BY <1>10, <2>2 DEF TalkInv, LostInv
    <3> QED BY <1>6, <1>10, <2>2, <3>1 DEF HeardOf, BringsKept
  <2>3. CASE i \notin 1 .. Len(log)
    BY <1>10, <1>16, <2>3 DEF HeardOf
  <2> QED BY <2>2, <2>3
<1> QED BY <1>3, <1>7, <1>13, <1>14, <1>17, ListsKept DEF TalkInv

LEMMA ServerTalk ==
    ASSUME TalkInv, ViewsInv, InboxInv, ServerInv, NEW p \in Phones, ServerReceives(p)
    PROVE  TalkInv'
<1>1. UNCHANGED <<ui, budget>> /\ UNCHANGED ui /\ UNCHANGED budget /\ ListsInv
  BY DEF ServerReceives, TalkInv
<1>2. ASSUME NEW t, Received(p, t), UNCHANGED <<log, session, on>>, BringsKept PROVE TalkInv'
  BY <1>1, <1>2, OutPlainHeard, BudgetRests, UIRests, TalkKept
<1>3. CASE Register(p) \/ RegisterPush(p)
  <2>1. UNCHANGED in /\ UNCHANGED <<log, session, on>> /\ \E t : Received(p, t)
    BY <1>3 DEF Register, RegisterPush
  <2> QED BY <1>2, <2>1, InRests
<1>4. CASE ReadReceipt(p)
  <2> DEFINE m == [t |-> "receipt", id |-> Head(out[p]).id, reader |-> Head(out[p]).reader]
  <2>1. UNCHANGED <<log, session, on>> /\ Received(p, "receipt") /\ \E C : in' = Emitted(in, C, m)
    BY <1>4 DEF ReadReceipt, Broadcast
  <2> HIDE DEF m
  <2> QED BY <1>2, <2>1, BringsEmitted
<1>5. CASE Signal(p)
  <2> DEFINE m == [t |-> "signal", type |-> Head(out[p]).type, from |-> Cur(p)]
  <2>1. UNCHANGED <<log, session, on>> /\ Received(p, "signal") /\ \E C : in' = Emitted(in, C, m)
    BY <1>5 DEF Signal
  <2> HIDE DEF m
  <2> QED BY <1>2, <2>1, BringsEmitted
<1>6. DOMAIN in = Phones /\ \A q \in Phones : Queue(in[q])
  BY DEF InboxInv, Inbox, Queue
<1>7. CASE JoinGroupCall(p)
  <2> DEFINE r == Head(out[p]).room
             a == [t |-> "peers", room |-> r, who |-> rooms[r] \cap DOMAIN users]
             b == [t |-> "join", room |-> r, who |-> Cur(p)]
             told == [in EXCEPT ![p] = Append(@, a)]
  <2>1. /\ UNCHANGED <<log, session, on>> /\ Received(p, "join")
        /\ in' = Emitted(told, rooms[r] \ {Cur(p)}, b)
    BY <1>7 DEF JoinGroupCall
  <2> HIDE DEF a, b
  <2>2. \A q \in Phones : in'[q] \in {in[q], Append(in[q], a), Append(in[q], b),
                                      Append(Append(in[q], a), b)}
    BY <1>6, <2>1 DEF Emitted
  <2>3. ASSUME NEW q \in Phones, NEW id, Brings(in[q], id) PROVE Brings(in'[q], id)
    <3>1. /\ Queue(Append(in[q], a)) /\ Brings(Append(in[q], a), id)
          /\ Brings(Append(in[q], b), id)
      BY <1>6, <2>3, QueueAppended, BringsBefore
    <3>2. Brings(Append(Append(in[q], a), b), id)
      BY <3>1, BringsBefore
    <3> QED BY <2>2, <2>3, <3>1, <3>2
  <2>4. BringsKept
    BY <2>3 DEF BringsKept
  <2> QED BY <1>2, <2>1, <2>4
<1>8. CASE LeaveGroupCall(p)
  <2> DEFINE r == Head(out[p]).room
             m == [t |-> "left", room |-> r, who |-> Cur(p)]
  <2>1. /\ UNCHANGED <<log, session, on>> /\ Received(p, "leave")
        /\ UNCHANGED in \/ \E C : in' = Emitted(in, C, m)
    BY <1>8 DEF LeaveGroupCall, LeftRoom
  <2> HIDE DEF m
  <2> QED BY <1>2, <2>1, BringsEmitted, InRests
<1>9. CASE ChatMessage(p)
  BY <1>1, <1>9, ChatTalk
<1> QED BY <1>3, <1>4, <1>5, <1>7, <1>8, <1>9 DEF ServerReceives

-----------------------------------------------------------------------------
(* Connections: what was on its way is lost, and a welcome is sent.        *)
LEMMA SaidNothing == Ids(<<>>) = {} /\ Said(<<>>)
<1> DEFINE q == <<>>
<1>1. Len(q) = 0
  BY QueueEmpty
<1> HIDE DEF q
<1>2. Ids(q) = {} /\ Said(q)
  BY <1>1 DEF Ids, Said
<1> QED BY <1>2 DEF q

LEMMA ConnectionsTalk ==
    ASSUME TalkInv, ViewsInv, InboxInv, ServerInv, PhonesInv, NEW p \in Phones, Connections(p)
    PROVE  TalkInv'
<1>1. UNCHANGED ui /\ IdsInv /\ ListsInv /\ UIGoes /\ FilesKept
  BY UIRests DEF Connections, TalkInv
<1>2. DOMAIN in = Phones /\ \A q \in Phones : Queue(in[q])
  BY DEF InboxInv, Inbox, Queue
<1>3. CASE HandleConnection(p) /\ Spend("connect")
  <2> DEFINE m == [t |-> "welcome", id |-> <<p, session[p] + 1>>]
             q == <<m>>
  <2>1. /\ UNCHANGED log /\ UNCHANGED out /\ on' = [on EXCEPT ![p] = TRUE]
        /\ in' = [in EXCEPT ![p] = q] /\ session' = [session EXCEPT ![p] = @ + 1]
    BY <1>3 DEF HandleConnection
  <2> HIDE DEF q
  <2>3. OutPlain /\ BudgetKept
    BY <1>3, <2>1, OutRests, BudgetSpent DEF Chores
  <2>4. /\ session \in [Phones -> 0 .. MaxSessions] /\ session[p] \in Nat
        /\ session'[p] = session[p] + 1
        /\ \A x \in Phones : x # p => session'[x] = session[x]
    BY <2>1, Numbers DEF ServerInv, SessionsAreKnown
  <2>5. RelaysInv /\ LostInv
    BY DEF TalkInv
  <2>6. RelaysInv'
    <3> SUFFICES ASSUME NEW i \in 1 .. Len(log), NEW c \in log[i].heard
                 PROVE  c[1] \in Phones /\ c[2] \in Nat /\ c[2] <= session'[c[1]]
      BY <2>1 DEF RelaysInv
    <3>1. c[2] <= session[c[1]] /\ c[1] \in Phones /\ c[2] \in Nat
      BY <2>5 DEF RelaysInv
    <3> QED BY <2>1, <2>4, <3>1
  <2>7. LostInv'
    <3> SUFFICES ASSUME NEW x \in Phones, on'[x], NotFull(ui[x].msgs), NEW i \in 1 .. Len(log),
                        Cur(x)' \in log[i].heard
                 PROVE  HeardOf(ui[x], in'[x], log[i].id)
      BY <1>1, <2>1 DEF LostInv
    <3>1. CASE x = p
      <4>1. session[p] + 1 <= session[p]
        BY <2>4, <2>5, <3>1 DEF Cur, RelaysInv
      <4> QED BY <2>4, <4>1
    <3>2. CASE x # p
      <4>1. on[x] /\ in'[x] = in[x] /\ Cur(x)' = Cur(x)
        BY <1>2, <2>1, <2>4, <3>2 DEF ServerInv, SessionsAreKnown, Cur
      <4> QED BY <2>5, <4>1 DEF LostInv
    <3> QED BY <3>1, <3>2
  <2> QED BY <1>1, <2>1, <2>3, <2>6, <2>7, IdsKept, ListsKept DEF TalkInv
<1>4. CASE Lose(p) /\ Spend("drop")
  <2>1. /\ UNCHANGED <<log, session>> /\ out' = [out EXCEPT ![p] = <<>>]
        /\ on' = [on EXCEPT ![p] = FALSE]
        /\ in' = [in EXCEPT ![p] = <<>>]
    BY <1>4 DEF Lose
  <2>2. OutPlain
    BY <2>1, SaidNothing DEF OutPlain, NoChat, ViewsInv
  <2>3. BudgetKept
    BY <1>4, BudgetSpent DEF Chores
  <2>4. RelaysInv /\ LostInv /\ \A x \in Phones : Cur(x)' = Cur(x)
    BY <2>1 DEF TalkInv, Cur
  <2>5. RelaysInv'
    BY <2>1, <2>4 DEF RelaysInv
  <2>6. LostInv'
    <3> SUFFICES ASSUME NEW x \in Phones, on'[x], NotFull(ui[x].msgs), NEW i \in 1 .. Len(log),
                        Cur(x) \in log[i].heard
                 PROVE  HeardOf(ui[x], in'[x], log[i].id)
      BY <1>1, <2>1, <2>4 DEF LostInv
    <3>1. on[x] /\ in'[x] = in[x]
      BY <1>2, <2>1 DEF ServerInv, SessionsAreKnown
    <3> QED BY <2>4, <3>1 DEF LostInv
  <2> QED BY <1>1, <2>1, <2>2, <2>3, <2>5, <2>6, IdsKept, ListsKept DEF TalkInv
<1>5. ASSUME NEW c \in Clients, HandleDisconnect(c), UNCHANGED budget PROVE TalkInv'
  <2>1. /\ UNCHANGED <<log, session, on>> /\ UNCHANGED out
        /\ in' = [q \in Phones |-> in[q] \o LeftRooms(q, c)]
    BY <1>5 DEF HandleDisconnect
  <2>2. \A q \in Phones : Queue(LeftRooms(q, c))
    BY InboxLeft DEF Inbox, Queue
  <2>3. BringsKept
    BY <1>2, <2>1, <2>2, BringsBefore DEF BringsKept
  <2> QED BY <1>1, <1>5, <2>1, <2>3, OutRests, BudgetRests, TalkKept
<1> QED BY <1>3, <1>4, <1>5 DEF Connections

-----------------------------------------------------------------------------
LEMMA TalkInitially == CommInit => TalkInv
<1> SUFFICES ASSUME CommInit PROVE TalkInv
    OBVIOUS
<1> DEFINE q == <<>>
<1>1. Queue(q) /\ Len(q) = 0 /\ Ids(q) = {} /\ Said(q)
  BY QueueEmpty, SaidNothing
<1>2. /\ log = q /\ \A p \in Phones : on[p] = FALSE /\ out[p] = q
      /\ \A p \in Phones : ui[p].msgs = q /\ ui[p].fetch = q /\ ui[p].tasks = {}
  BY DEF CommInit, Initially
<1> HIDE DEF q
<1>3. RowsOK(q) /\ ListOK(q) /\ Once(q) /\ FetchOK(q)
  BY <1>1 DEF RowsOK, ListOK, Once, FetchOK
<1>4. LogIds = {} /\ \A p \in Phones : Mine(out[p], ui[p]) /\ Own(p) = {}
  BY <1>1, <1>2 DEF LogIds, Mine, Own, FileIds, Files
<1>5. IdsInv
  BY <1>2, <1>3, <1>4 DEF IdsInv
<1>6. ListsInv
  BY <1>2, <1>3 DEF ListsInv
<1>7. RelaysInv /\ LostInv
  BY <1>1, <1>2 DEF RelaysInv, LostInv
<1> QED BY <1>5, <1>6, <1>7 DEF TalkInv

LEMMA TalkStep == CommInv /\ RoomsInv /\ TalkInv /\ [CommNext]_commVars => TalkInv'
<1> SUFFICES ASSUME CommInv, RoomsInv, TalkInv, [CommNext]_commVars PROVE TalkInv'
    OBVIOUS
<1>1. ServerInv /\ InboxInv /\ PhonesInv /\ ViewsInv /\ ListsInv
  BY DEF CommInv, RoomsInv, TalkInv
<1>2. CASE UNCHANGED commVars
  <2>1. /\ UNCHANGED <<log, session, on>> /\ UNCHANGED in /\ UNCHANGED out /\ UNCHANGED ui
        /\ UNCHANGED budget
    BY <1>2 DEF commVars
  <2> QED BY <1>1, <2>1, OutRests, InRests, UIRests, BudgetRests, TalkKept
<1>3. ASSUME NEW p \in Phones, UserActs(p) PROVE TalkInv'
  BY <1>1, <1>3, UserActsTalk
<1>4. ASSUME NEW p \in Phones, TaskGoesOn(p) PROVE TalkInv'
  BY <1>1, <1>4, TasksTalk
<1>5. ASSUME NEW p \in Phones, PhoneReceives(p) PROVE TalkInv'
  BY <1>1, <1>5, ReceivingTalk
<1>6. ASSUME NEW p \in Phones, ServerReceives(p) PROVE TalkInv'
  BY <1>1, <1>6, ServerTalk
<1>7. ASSUME NEW p \in Phones, Connections(p) PROVE TalkInv'
  BY <1>1, <1>7, ConnectionsTalk
<1> QED BY <1>2, <1>3, <1>4, <1>5, <1>6, <1>7 DEF CommNext

LEMMA TalkInvariant == CommSpec => []TalkInv
<1>1. CommInit => CommInv /\ RoomsInv /\ TalkInv
  BY CommInitially, RoomsInitially, TalkInitially
<1>2. CommInv /\ RoomsInv /\ TalkInv /\ [CommNext]_commVars => (CommInv /\ RoomsInv /\ TalkInv)'
  BY CommStep, RoomsStep, TalkStep
<1> QED BY <1>1, <1>2, PTL DEF CommSpec

LEMMA ListsShowOnce == TalkInv => NothingTwice
<1>1. TalkInv => \A p \in Phones : /\ DOMAIN ui[p].msgs = 1 .. Len(ui[p].msgs)
                                   /\ Once(ui[p].msgs)
  BY DEF TalkInv, ListsInv, ListOK, Queue
<1> QED BY <1>1 DEF Once, NothingTwice

LEMMA ListsShowAll == TalkInv => NothingUnheard
<1> SUFFICES ASSUME TalkInv, NEW p \in Phones, on[p], in[p] = <<>>, NotFull(ui[p].msgs),
                    NEW i \in DOMAIN log, Cur(p) \in log[i].heard
             PROVE  Lists(ui[p], log[i].id)
  BY DEF NothingUnheard, NotFull
<1>1. i \in 1 .. Len(log) /\ ListOK(ui[p].msgs)
  BY DEF TalkInv, IdsInv, RowsOK, Queue, ListsInv
<1>2. HeardOf(ui[p], in[p], log[i].id)
  BY <1>1 DEF TalkInv, LostInv
<1>3. Len(<<>>) = 0 /\ \A j \in 1 .. 0 : FALSE
  BY QueueEmpty
<1>4. ~Brings(in[p], log[i].id)
  BY <1>3 DEF Brings
<1> QED BY <1>1, <1>2, <1>4, ShowsHas DEF HeardOf

(* No chat message comes twice to a list, for any number of phones and     *)
(* messages, whether the server has the route of the history or not: what  *)
(* a phone sends is named anew, so its id is with one phone, on its way or *)
(* saved (IdsInv), and whoever puts it in a list looks there first         *)
(* (ListsInv; addChatMessage and the merge of the history in               *)
(* CommContext.tsx).                                                       *)
THEOREM MessagesComeOnce == CommSpec => []NothingTwice
BY TalkInvariant, ListsShowOnce, PTL

(* Every message is shown once, and by every phone that was connected when *)
(* it was said and still is, once nothing is on its way to the phone:      *)
(* relayed to a connection, it is in the list or on its way (LostInv), and *)
(* no connection is taken for an older one of the phone (RelaysInv).       *)
THEOREM MessagesAreKept == CommSpec => []EachMessageOnce
<1>1. TalkInv => EachMessageOnce
  BY ListsShowOnce, ListsShowAll DEF EachMessageOnce
<1> QED BY <1>1, TalkInvariant, PTL
=============================================================================

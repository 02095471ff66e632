-------------------------- MODULE HaContextProofs --------------------------
(* Proofs about HaGateway, whatever its clients do, and about HaContext,   *)
(* over what they show of the gateway.                                     *)
EXTENDS HaContext, SequenceTheorems, TLAPS

-----------------------------------------------------------------------------
(* Sequences without one of their elements; the listeners of a socket      *)
(* when one is taken off, or put (event-bus.service.ts, listen()).         *)
LEMMA WithoutElement ==
    ASSUME NEW S, NEW s \in Seq(S), NEW k \in DOMAIN s
    PROVE  /\ RemoveAt(s, k) \in Seq(S) /\ Len(RemoveAt(s, k)) = Len(s) - 1
           /\ \A i \in 1 .. Len(s) - 1 : RemoveAt(s, k)[i] = IF i < k THEN s[i] ELSE s[i + 1]
<1>. DEFINE a == SubSeq(s, 1, k - 1)
            b == SubSeq(s, k + 1, Len(s))
<1>1. k \in 1 .. Len(s) /\ Len(s) \in Nat
  OBVIOUS
<1>2. a \in Seq(S) /\ Len(a) = k - 1 /\ \A i \in 1 .. k - 1 : a[i] = s[i]
  BY <1>1
<1>3. b \in Seq(S) /\ Len(b) = Len(s) - k /\ \A i \in 1 .. Len(s) - k : b[i] = s[k + i]
  BY <1>1
<1>4. RemoveAt(s, k) = a \o b
  BY DEF RemoveAt
<1>. HIDE DEF a, b
<1>5. /\ (a \o b) \in Seq(S) /\ Len(a \o b) = Len(s) - 1
      /\ \A i \in 1 .. Len(s) - 1 :
            (a \o b)[i] = IF i <= k - 1 THEN a[i] ELSE b[i - (k - 1)]
  <2>1. Len(a) = k - 1 /\ Len(b) = Len(s) - k /\ Len(a) + Len(b) = Len(s) - 1
    BY <1>1, <1>2, <1>3
  <2>2. /\ (a \o b) \in Seq(S)
        /\ Len(a \o b) = Len(a) + Len(b)
        /\ \A i \in 1 .. Len(a) + Len(b) :
              (a \o b)[i] = IF i <= Len(a) THEN a[i] ELSE b[i - Len(a)]
    BY <1>2, <1>3, ConcatProperties, Zenon
  <2>. QED
    BY <2>1, <2>2
<1>6. ASSUME NEW i \in 1 .. Len(s) - 1
      PROVE  (a \o b)[i] = IF i < k THEN s[i] ELSE s[i + 1]
  <2>1. CASE i < k
    BY <1>1, <1>2, <1>5, <2>1
  <2>2. CASE ~(i < k)
    <3>1. (a \o b)[i] = b[i - (k - 1)]
      BY <1>1, <1>5, <2>2
    <3>2. i - (k - 1) \in 1 .. Len(s) - k /\ k + (i - (k - 1)) = i + 1
      BY <1>1, <2>2
    <3>. QED
      BY <1>3, <2>2, <3>1, <3>2
  <2>. QED
    BY <2>1, <2>2
<1>. QED
  BY <1>4, <1>5, <1>6

(* What is left of a queue was in it, and its last comes last.             *)
Comes(r, q) ==
    \A j \in DOMAIN r : \E k \in DOMAIN q : r[j] = q[k] /\ (k = Len(q) => j = Len(r))

LEMMA TailComes ==
    ASSUME NEW S, NEW q \in Seq(S), q # <<>>
    PROVE  Comes(Tail(q), q)
<1>. DEFINE n == Len(q)
<1>1. n \in Nat \ {0} /\ DOMAIN q = 1 .. n
  OBVIOUS
<1>2. Len(Tail(q)) = n - 1 /\ DOMAIN Tail(q) = 1 .. n - 1
      /\ \A j \in 1 .. n - 1 : Tail(q)[j] = q[j + 1]
  OBVIOUS
<1>. HIDE DEF n
<1>3. ASSUME NEW j \in 1 .. n - 1
      PROVE  j + 1 \in 1 .. n /\ (j + 1 = n => j = n - 1)
  BY <1>1
<1>4. \A j \in 1 .. n - 1 : \E k \in 1 .. n : Tail(q)[j] = q[k] /\ (k = n => j = n - 1)
  BY <1>1, <1>2, <1>3
<1>. DEFINE r == Tail(q)
<1>5. /\ DOMAIN q = 1 .. n /\ n = Len(q) /\ DOMAIN r = 1 .. n - 1 /\ Len(r) = n - 1
      /\ \A j \in 1 .. n - 1 : \E k \in 1 .. n : r[j] = q[k] /\ (k = n => j = n - 1)
  BY <1>1, <1>2, <1>4 DEF n
<1>. HIDE DEF r
<1>6. Comes(r, q)
  <2>. SUFFICES ASSUME NEW j \in DOMAIN r
                PROVE  \E k \in DOMAIN q : r[j] = q[k] /\ (k = Len(q) => j = Len(r))
    BY DEF Comes
  <2>1. PICK k \in 1 .. n : r[j] = q[k] /\ (k = n => j = n - 1)
    BY <1>5
  <2>. QED
    BY <1>5, <2>1
<1>. QED
  BY <1>6 DEF r

LEMMA OthersCome ==
    ASSUME NEW S, NEW q \in Seq(S), NEW i \in DOMAIN q
    PROVE  Comes(RemoveAt(q, i), q)
<1>. DEFINE n == Len(q)
            r == RemoveAt(q, i)
<1>1. n \in Nat /\ DOMAIN q = 1 .. n /\ i \in 1 .. n
  OBVIOUS
<1>2. r \in Seq(S) /\ Len(r) = n - 1
      /\ \A j \in 1 .. n - 1 : r[j] = IF j < i THEN q[j] ELSE q[j + 1]
  BY WithoutElement
<1>3. DOMAIN r = 1 .. n - 1
  BY <1>2
<1>. HIDE DEF n, r
<1>4. ASSUME NEW j \in 1 .. n - 1
      PROVE  \E k \in 1 .. n : r[j] = q[k] /\ (k = n => j = n - 1)
  <2>1. CASE j < i
    <3>1. j \in 1 .. n /\ r[j] = q[j] /\ j # n
      BY <1>1, <1>2, <2>1
    <3>. QED
      BY <3>1
  <2>2. CASE ~(j < i)
    <3>1. j + 1 \in 1 .. n /\ r[j] = q[j + 1] /\ (j + 1 = n => j = n - 1)
      BY <1>1, <1>2, <2>2
    <3>. QED
      BY <3>1
  <2>. QED
    BY <2>1, <2>2
<1>5. DOMAIN q = 1 .. n /\ n = Len(q) /\ DOMAIN r = 1 .. n - 1 /\ Len(r) = n - 1
  BY <1>1, <1>2, <1>3 DEF n
<1>6. Comes(r, q)
  <2>. SUFFICES ASSUME NEW j \in DOMAIN r
                PROVE  \E k \in DOMAIN q : r[j] = q[k] /\ (k = Len(q) => j = Len(r))
    BY DEF Comes
  <2>1. PICK k \in 1 .. n : r[j] = q[k] /\ (k = n => j = n - 1)
    BY <1>4, <1>5
  <2>. QED
    BY <1>5, <2>1
<1>. QED
  BY <1>6 DEF r

LEMMA ListenerTakenOff ==
    ASSUME NEW S, NEW q \in Seq(S), NEW id \in S, IsInjective(q)
    PROVE  /\ Without(q, id) \in Seq(S) /\ IsInjective(Without(q, id))
           /\ ToSet(Without(q, id)) = ToSet(q) \ {id}
<1>1. CASE id \notin ToSet(q)
  BY <1>1 DEF Without
<1>2. CASE id \in ToSet(q)
  <2>. DEFINE k == CHOOSE i \in DOMAIN q : q[i] = id
              n == Len(q)
              r == RemoveAt(q, k)
  <2>1. k \in DOMAIN q /\ q[k] = id
    BY <1>2 DEF ToSet
  <2>2. Without(q, id) = r
    BY <1>2 DEF Without
  <2>3. n \in Nat /\ DOMAIN q = 1 .. n
    OBVIOUS
  <2>. HIDE DEF k, n
  <2>4. /\ r \in Seq(S) /\ Len(r) = n - 1
        /\ \A i \in 1 .. n - 1 : r[i] = IF i < k THEN q[i] ELSE q[i + 1]
    BY <2>1, WithoutElement DEF n
  <2>5. DOMAIN r = 1 .. n - 1
    BY <2>4
  <2>. HIDE DEF r
  <2>6. \A i, j \in DOMAIN q : q[i] = q[j] => i = j
    BY DEF IsInjective
  <2>7. IsInjective(r)
    <3>. SUFFICES ASSUME NEW i \in 1 .. n - 1, NEW j \in 1 .. n - 1, r[i] = r[j]
                  PROVE  i = j
      BY <2>5 DEF IsInjective
    <3>. DEFINE a == IF i < k THEN i ELSE i + 1
                b == IF j < k THEN j ELSE j + 1
    <3>1. k \in Nat /\ a \in 1 .. n /\ b \in 1 .. n /\ r[i] = q[a] /\ r[j] = q[b]
      BY <2>1, <2>3, <2>4
    <3>2. a = b
      BY <2>3, <2>6, <3>1
    <3>. QED
      BY <2>3, <3>1, <3>2
  <2>8. ASSUME NEW x \in ToSet(r)
        PROVE  x \in ToSet(q) /\ x # id
    <3>1. PICK i \in 1 .. n - 1 : x = r[i]
      BY <2>5, <2>8 DEF ToSet
    <3>2. PICK j \in 1 .. n : j # k /\ x = q[j]
      BY <2>1, <2>3, <2>4, <3>1
    <3>. QED
      BY <2>1, <2>3, <2>6, <3>2 DEF ToSet
  <2>9. ASSUME NEW x \in ToSet(q), x # id
        PROVE  x \in ToSet(r)
    <3>1. PICK i \in 1 .. n : x = q[i]
      BY <2>3, <2>9 DEF ToSet
    <3>2. i # k
      BY <2>1, <2>9, <3>1
    <3>3. CASE i < k
      <4>1. i \in 1 .. n - 1 /\ r[i] = x
        BY <2>1, <2>3, <2>4, <3>1, <3>3
      <4>. QED
        BY <2>5, <4>1 DEF ToSet
    <3>4. CASE i > k
      <4>1. i - 1 \in 1 .. n - 1 /\ (i - 1) + 1 = i /\ ~(i - 1 < k)
        BY <2>1, <2>3, <3>1, <3>4
      <4>2. r[i - 1] = x
        BY <2>4, <3>1, <4>1
      <4>. QED
        BY <2>5, <4>1, <4>2 DEF ToSet
    <3>. QED
      BY <2>1, <2>3, <3>2, <3>3, <3>4
  <2>. QED
    BY <2>2, <2>4, <2>7, <2>8, <2>9
<1>. QED
  BY <1>1, <1>2

LEMMA ListenerPut ==
    ASSUME NEW S, NEW q \in Seq(S), NEW id \in S, IsInjective(q)
    PROVE  /\ WithListener(q, id) \in Seq(S) /\ IsInjective(WithListener(q, id))
           /\ ToSet(WithListener(q, id)) = ToSet(q) \cup {id}
<1>. DEFINE r == Without(q, id)
            n == Len(r)
            w == Append(r, id)
<1>1. r \in Seq(S) /\ IsInjective(r) /\ ToSet(r) = ToSet(q) \ {id}
  BY ListenerTakenOff
<1>. HIDE DEF r
<1>2. /\ n \in Nat /\ DOMAIN r = 1 .. n /\ DOMAIN w = 1 .. n + 1 /\ w \in Seq(S)
      /\ \A i \in 1 .. n : w[i] = r[i]
      /\ w[n + 1] = id
  BY <1>1
<1>3. WithListener(q, id) = w
  BY DEF WithListener, r
<1>. HIDE DEF w, n
<1>4. \A i \in 1 .. n : r[i] # id
  BY <1>1, <1>2 DEF ToSet
<1>5. IsInjective(w)
  BY <1>1, <1>2, <1>4 DEF IsInjective
<1>6. ToSet(w) = ToSet(r) \cup {id}
  BY <1>2 DEF ToSet
<1>7. ToSet(r) \cup {id} = ToSet(q) \cup {id}
  BY <1>1
<1>. QED
  BY <1>2, <1>3, <1>5, <1>6, <1>7
-----------------------------------------------------------------------------
(* The gateway: types.                                                     *)
LEMMA SentType ==
    ASSUME TypeOK, NEW s \in Sockets, NEW m \in Reply
    PROVE  Sent(s, m) \in [Sockets -> Seq(Reply)]
<1>1. down \in [Sockets -> Seq(Reply)] /\ Append(down[s], m) \in Seq(Reply)
  BY DEF TypeOK
<1>. HIDE DEF Reply
<1>. QED
  BY <1>1 DEF Sent

LEMMA TakenType ==
    ASSUME TypeOK, NEW s \in Sockets, up[s] # <<>>
    PROVE  /\ Head(up[s]) \in Request
           /\ [up EXCEPT ![s] = Tail(@)] \in [Sockets -> Seq(Request)]
<1>1. up \in [Sockets -> Seq(Request)] /\ Tail(up[s]) \in Seq(Request)
  BY DEF TypeOK
<1>. HIDE DEF Request
<1>. QED
  BY <1>1

LEMMA DestroyedType ==
    ASSUME TypeOK, NEW s \in Sockets, Destroyed(s)
    PROVE  /\ sessions' \in [Sockets -> Session]
           /\ listeners' \in [Sockets -> Seq(Ids)]
           /\ up' \in [Sockets -> Seq(Request)]
<1>1. NoSession \in Session /\ <<>> \in Seq(Ids) /\ <<>> \in Seq(Request)
  BY DEF NoSession, Session
<1>. QED
  BY <1>1 DEF TypeOK, Destroyed, OtherListeners

LEMMA ClosedType ==
    ASSUME TypeOK, NEW s \in Sockets, Closed(s)
    PROVE  peers' \subseteq Sockets /\ down' \in [Sockets -> Seq(Reply)]
<1>1. <<>> \in Seq(Reply)
  OBVIOUS
<1>. QED
  BY <1>1 DEF TypeOK, Closed

LEMMA ConnectType ==
    ASSUME TypeOK, NEW first \in Seq(Request), Connect(first)
    PROVE  TypeOK'
<1>. DEFINE s == opened + 1
<1>1. s \in Sockets
  BY DEF Connect
<1>2. [type |-> "auth_required"] \in Reply
  BY DEF Reply
<1>3. <<[type |-> "auth_required"]>> \in Seq(Reply)
  BY <1>2
<1>4. sessions' \in [Sockets -> Session]
  BY <1>1 DEF Connect, TypeOK, Session
<1>5. down' \in [Sockets -> Seq(Reply)]
  BY <1>1, <1>3 DEF Connect, TypeOK
<1>. QED
  BY <1>1, <1>4, <1>5 DEF Connect, TypeOK

LEMMA HandleType ==
    ASSUME TypeOK, ListenersMatchSubscriptions, NEW s \in Sockets, Handle(s)
    PROVE  TypeOK'
<1>. USE DEF serverVars, netVars
<1>1. Head(up[s]) \in Request /\ [up EXCEPT ![s] = Tail(@)] \in [Sockets -> Seq(Request)]
  BY TakenType DEF Handle, Handling, RefuseUnauthenticated, Authenticate, AuthenticateAgain,
                   GetStates, Subscribe, Unsubscribe, CallService
<1>2. CASE RefuseUnauthenticated(s)
  <2>1. Sent(s, [type |-> "auth_invalid"]) \in [Sockets -> Seq(Reply)]
    BY SentType DEF Reply
  <2>. QED
    BY <1>2, <2>1, DestroyedType DEF RefuseUnauthenticated, TypeOK
<1>3. CASE Authenticate(s)
  <2>1. Head(up[s]).token \in Tokens
    BY <1>1, <1>3 DEF Authenticate, Handling, Request
  <2>2. Append(validating[s], Head(up[s]).token) \in Seq(Tokens)
    BY <2>1 DEF TypeOK
  <2>3. validating' \in [Sockets -> Seq(Tokens)]
    BY <1>3, <2>2 DEF Authenticate, TypeOK
  <2>. QED
    BY <1>1, <1>3, <2>3 DEF Authenticate, Taken, TypeOK
<1>4. CASE AuthenticateAgain(s)
  BY <1>1, <1>4 DEF AuthenticateAgain, Taken, TypeOK
<1>5. CASE GetStates(s)
  <2>1. Head(up[s]).id \in Ids /\ states \in States
    BY <1>1, <1>5 DEF GetStates, Handling, Request, TypeOK
  <2>2. [type |-> "states", id |-> Head(up[s]).id, states |-> states] \in Reply
    BY <2>1 DEF Reply
  <2>3. Sent(s, [type |-> "states", id |-> Head(up[s]).id, states |-> states])
            \in [Sockets -> Seq(Reply)]
    BY <2>2, SentType
  <2>. QED
    BY <1>1, <1>5, <2>3 DEF GetStates, Taken, TypeOK
<1>6. CASE Subscribe(s)
  <2>. DEFINE id == Head(up[s]).id
  <2>1. id \in Ids
    BY <1>1, <1>6 DEF Subscribe, Handling, Request
  <2>2. Sent(s, [type |-> "result", id |-> id, success |-> TRUE]) \in [Sockets -> Seq(Reply)]
    BY <2>1, SentType DEF Reply
  <2>3. listeners \in [Sockets -> Seq(Ids)] /\ IsInjective(listeners[s])
    BY DEF TypeOK, ListenersMatchSubscriptions
  <2>. HIDE DEF id
  <2>4. WithListener(listeners[s], id) \in Seq(Ids)
    BY <2>1, <2>3, ListenerPut
  <2>5. /\ listeners' = [listeners EXCEPT ![s] = WithListener(@, id)]
        /\ sessions' = [sessions EXCEPT ![s].subscriptions = @ \cup {id}]
        /\ down' = Sent(s, [type |-> "result", id |-> id, success |-> TRUE])
    BY <1>6 DEF Subscribe, id
  <2>6. listeners' \in [Sockets -> Seq(Ids)]
    BY <2>3, <2>4, <2>5
  <2>7. sessions' \in [Sockets -> Session]
    BY <2>1, <2>5 DEF TypeOK, Session
  <2>. QED
    BY <1>1, <1>6, <2>2, <2>5, <2>6, <2>7 DEF Subscribe, Taken, TypeOK
<1>7. CASE Unsubscribe(s)
  <2>. DEFINE id == Head(up[s]).subscription
  <2>1. id \in Ids /\ Head(up[s]).id \in Ids
    BY <1>1, <1>7 DEF Unsubscribe, Handling, Request
  <2>2. Sent(s, [type |-> "result", id |-> Head(up[s]).id, success |-> TRUE])
            \in [Sockets -> Seq(Reply)]
    BY <2>1, SentType DEF Reply
  <2>3. listeners \in [Sockets -> Seq(Ids)] /\ IsInjective(listeners[s])
    BY DEF TypeOK, ListenersMatchSubscriptions
  <2>. HIDE DEF id
  <2>4. Without(listeners[s], id) \in Seq(Ids)
    BY <2>1, <2>3, ListenerTakenOff
  <2>5. \/ /\ listeners' = [listeners EXCEPT ![s] = Without(@, id)]
           /\ sessions' = [sessions EXCEPT ![s].subscriptions = @ \ {id}]
        \/ UNCHANGED <<listeners, sessions>>
    BY <1>7 DEF Unsubscribe, id
  <2>6. listeners' \in [Sockets -> Seq(Ids)]
    BY <2>3, <2>4, <2>5
  <2>7. sessions' \in [Sockets -> Session]
    <3>1. sessions \in [Sockets -> Session] /\ sessions[s].subscriptions \ {id} \in SUBSET Ids
      BY DEF TypeOK, Session
    <3>2. CASE sessions' = [sessions EXCEPT ![s].subscriptions = @ \ {id}]
      <4>1. [sessions[s] EXCEPT !.subscriptions = @ \ {id}] \in Session
        BY <3>1 DEF Session
      <4>. QED
        BY <3>1, <3>2, <4>1
    <3>. QED
      BY <2>5, <3>1, <3>2
  <2>. QED
    BY <1>1, <1>7, <2>2, <2>6, <2>7 DEF Unsubscribe, Taken, TypeOK
<1>8. CASE CallService(s)
  <2>1. Head(up[s]).id \in Ids
    BY <1>1, <1>8 DEF CallService, Handling, Request
  <2>. QED
    BY <1>1, <1>8, <2>1 DEF CallService, Taken, TypeOK
<1>. QED
  BY <1>2, <1>3, <1>4, <1>5, <1>6, <1>7, <1>8 DEF Handle

LEMMA ValidatedType ==
    ASSUME TypeOK, NEW s \in Sockets, NEW i, Validated(s, i) \/ ValidationFails(s, i)
    PROVE  TypeOK'
<1>. USE DEF serverVars, netVars
<1>1. /\ i \in DOMAIN validating[s] /\ validating[s] \in Seq(Tokens)
      /\ validating' = [validating EXCEPT ![s] = RemoveAt(@, i)]
  BY DEF Validated, ValidationFails, TypeOK
<1>2. RemoveAt(validating[s], i) \in Seq(Tokens)
  BY <1>1, WithoutElement
<1>3. validating' \in [Sockets -> Seq(Tokens)]
  BY <1>1, <1>2 DEF TypeOK
<1>4. CASE ValidationFails(s, i)
  BY <1>3, <1>4 DEF ValidationFails, TypeOK
<1>5. CASE Validated(s, i)
  <2>1. /\ Sent(s, [type |-> "auth_ok"]) \in [Sockets -> Seq(Reply)]
        /\ Sent(s, [type |-> "auth_invalid"]) \in [Sockets -> Seq(Reply)]
    BY SentType DEF Reply
  <2>2. down' \in [Sockets -> Seq(Reply)] /\ proven' \subseteq Sockets
    BY <1>5, <2>1 DEF Validated, TypeOK
  <2>3. CASE Accepts(validating[s][i])
    <3>1. sessions' \in [Sockets -> Session] /\ UNCHANGED <<listeners, up>>
      <4>1. /\ sessions' = IF Live(s) THEN [sessions EXCEPT ![s].phase = "command"] ELSE sessions
            /\ UNCHANGED <<listeners, up>>
        BY <1>5, <2>3 DEF Validated
      <4>2. sessions[s] \in Session /\ [sessions[s] EXCEPT !.phase = "command"] \in Session
        BY DEF TypeOK, Session
      <4>. QED
        BY <4>1, <4>2 DEF TypeOK
    <3>. QED
      BY <1>3, <1>5, <2>2, <3>1 DEF Validated, TypeOK
  <2>4. CASE ~Accepts(validating[s][i])
    <3>1. Destroyed(s)
      BY <1>5, <2>4 DEF Validated
    <3>. QED
      BY <1>3, <1>5, <2>2, <3>1, DestroyedType DEF Validated, TypeOK
  <2>. QED
    BY <2>3, <2>4
<1>. QED
  BY <1>4, <1>5

LEMMA EventsType ==
    ASSUME TypeOK, NEW s \in Sockets, NEW e \in Entities, NEW c \in 0 .. MaxChanges
    PROVE  /\ EventsOf(s, e, c) \in Seq(Reply)
           /\ Len(EventsOf(s, e, c)) = Len(listeners[s])
           /\ \A j \in 1 .. Len(listeners[s]) :
                 /\ EventsOf(s, e, c)[j] = [type |-> "event", id |-> listeners[s][j],
                                          entity |-> e, new |-> c]
                 /\ EventsOf(s, e, c)[j].type = "event"
<1>. DEFINE n == Len(listeners[s])
            ev(j) == [type |-> "event", id |-> listeners[s][j], entity |-> e, new |-> c]
<1>1. listeners[s] \in Seq(Ids)
  BY DEF TypeOK
<1>2. n \in Nat /\ DOMAIN listeners[s] = 1 .. n
  BY <1>1
<1>3. \A j \in 1 .. n : ev(j) \in Reply
  BY <1>1, <1>2 DEF Reply
<1>4. EventsOf(s, e, c) = [j \in 1 .. n |-> ev(j)]
  BY <1>2 DEF EventsOf
<1>. HIDE DEF n, ev
<1>5. [j \in 1 .. n |-> ev(j)] \in Seq(Reply) /\ Len([j \in 1 .. n |-> ev(j)]) = n
  BY <1>2, <1>3
<1>6. \A j \in 1 .. n : EventsOf(s, e, c)[j] = ev(j)
  BY <1>4
<1>7. \A j : ev(j).type = "event"
  BY DEF ev
<1>. QED
  BY <1>4, <1>5, <1>6, <1>7 DEF n, ev

LEMMA ChangeType ==
    ASSUME TypeOK, NEW e \in Entities, Change(e)
    PROVE  /\ TypeOK'
           /\ states' \in States /\ changes' = changes + 1
           /\ states'[e] \in {0, changes + 1} /\ \A d \in Entities : d # e => states'[d] = states[d]
<1>1. /\ changes' = changes + 1 /\ changes' \in 0 .. MaxChanges
      /\ states' \in [Entities -> 0 .. MaxChanges]
      /\ states'[e] \in {0, changes + 1} /\ \A d \in Entities : d # e => states'[d] = states[d]
  <2>1. /\ changes' = changes + 1 /\ changes \in Nat /\ changes' \in 0 .. MaxChanges
        /\ MaxChanges \in Nat
    BY HaGatewayAssumption DEF Change, TypeOK
  <2>2. PICK c \in {0, changes + 1} : states' = [states EXCEPT ![e] = c]
    BY <2>1 DEF Change
  <2>3. c \in 0 .. MaxChanges
    BY <2>1
  <2>. QED
    BY <2>1, <2>2, <2>3 DEF TypeOK, States
<1>2. \A s \in Sockets : EventsOf(s, e, states'[e]) \in Seq(Reply)
  BY <1>1, EventsType
<1>3. \A s \in Sockets : down[s] \o EventsOf(s, e, states'[e]) \in Seq(Reply)
  BY <1>2 DEF TypeOK
<1>4. down' \in [Sockets -> Seq(Reply)]
  BY <1>3 DEF Change, TypeOK
<1>. QED
  BY <1>1, <1>4 DEF Change, TypeOK, States

LEMMA CallSettlesType ==
    ASSUME TypeOK, NEW s \in Sockets, NEW id \in Ids, NEW success \in BOOLEAN,
           CallSettles(s, id, success)
    PROVE  TypeOK'
<1>1. Sent(s, [type |-> "result", id |-> id, success |-> success]) \in [Sockets -> Seq(Reply)]
  BY SentType DEF Reply
<1>. QED
  BY <1>1 DEF CallSettles, TypeOK
-----------------------------------------------------------------------------
(* The gateway: what a socket may hear.                                    *)
LEMMA SentAdds ==
    ASSUME TypeOK, NEW s \in Sockets, NEW m \in Reply, NEW t \in Sockets
    PROVE  \/ Sent(s, m)[t] = down[t]
           \/ t = s /\ Sent(s, m)[t] = Append(down[t], m)
BY DEF Sent, TypeOK

(* A message for a socket with a session joins those on the way.           *)
LEMMA Emitted ==
    ASSUME TypeOK, GatewayInv, NEW s \in Sockets, NEW m \in Reply, Live(s),
           down' = Sent(s, m), proven \subseteq proven',
           m.type \in {"states", "event"} => s \in proven'
    PROVE  /\ NothingToStrangers'
           /\ \A t \in Sockets : \A i \in DOMAIN down'[t] :
                 down'[t][i].type = "auth_invalid" => ~Live(t) \/ (t = s /\ m.type = "auth_invalid")
<1>. SUFFICES ASSUME NEW t \in Sockets, NEW i \in DOMAIN down'[t]
              PROVE  /\ down'[t][i].type \in {"states", "event"} => t \in proven'
                     /\ down'[t][i].type = "auth_invalid" =>
                           /\ i = Len(down'[t])
                           /\ ~Live(t) \/ (t = s /\ m.type = "auth_invalid")
  BY DEF NothingToStrangers, OnlyProvenReceive, InvalidIsLast
<1>1. CASE down'[t] = down[t]
  BY <1>1 DEF GatewayInv, NothingToStrangers, OnlyProvenReceive, InvalidIsLast, RefusedAreOut
<1>2. CASE t = s /\ down'[t] = Append(down[t], m)
  <2>. DEFINE n == Len(down[s])
  <2>1. n \in Nat /\ DOMAIN down[s] = 1 .. n /\ DOMAIN down'[s] = 1 .. n + 1 /\ Len(down'[s]) = n + 1
        /\ down'[s][n + 1] = m /\ \A j \in 1 .. n : down'[s][j] = down[s][j]
    BY <1>2 DEF TypeOK
  <2>. HIDE DEF n
  <2>2. CASE i \in 1 .. n
    BY <1>2, <2>1, <2>2 DEF GatewayInv, NothingToStrangers, OnlyProvenReceive, RefusedAreOut
  <2>3. CASE i = n + 1
    BY <1>2, <2>1, <2>3
  <2>. QED
    BY <1>2, <2>1, <2>2, <2>3
<1>. QED
  BY <1>1, <1>2, SentAdds

(* A socket whose session is destroyed, told so or not.                    *)
LEMMA DestroyedInv ==
    ASSUME TypeOK, GatewayInv, NEW s \in Sockets, Destroyed(s), proven \subseteq proven'
    PROVE  /\ ListenersMatchSubscriptions' /\ CommandsAreProven'
           /\ \A t \in Sockets : Live(t)' => t # s /\ Live(t)
<1>1. /\ sessions' = [sessions EXCEPT ![s] = NoSession]
      /\ listeners' = [listeners EXCEPT ![s] = <<>>]
  BY DEF Destroyed, OtherListeners
<1>2. ASSUME NEW t \in Sockets
      PROVE  /\ t = s => sessions'[t] = NoSession /\ listeners'[t] = <<>>
             /\ t # s => sessions'[t] = sessions[t] /\ listeners'[t] = listeners[t]
  BY <1>1 DEF TypeOK
<1>3. IsInjective(<<>>) /\ ToSet(<<>>) = {}
  BY DEF IsInjective, ToSet
<1>4. ListenersMatchSubscriptions'
  <2>. SUFFICES ASSUME NEW t \in Sockets
                PROVE  IsInjective(listeners'[t]) /\ ToSet(listeners'[t]) = sessions'[t].subscriptions
    BY DEF ListenersMatchSubscriptions
  <2>1. CASE t = s
    <3>1. sessions'[t].subscriptions = {}
      BY <1>2, <2>1 DEF NoSession
    <3>. QED
      BY <1>2, <1>3, <2>1, <3>1
  <2>2. CASE t # s
    BY <1>2, <2>2 DEF GatewayInv, ListenersMatchSubscriptions
  <2>. QED
    BY <2>1, <2>2
<1>5. CommandsAreProven'
  BY <1>2 DEF GatewayInv, CommandsAreProven, NoSession
<1>. QED
  BY <1>2, <1>4, <1>5 DEF Live, NoSession

LEMMA HandleInv ==
    ASSUME TypeOK, GatewayInv, NEW s \in Sockets, Handle(s)
    PROVE  GatewayInv'
<1>. USE DEF serverVars, netVars
<1>1. Head(up[s]) \in Request /\ Live(s)
  BY TakenType DEF Handle, Handling, RefuseUnauthenticated, Authenticate, AuthenticateAgain,
                   GetStates, Subscribe, Unsubscribe, CallService, Live
<1>2. CASE RefuseUnauthenticated(s)
  <2>. DEFINE m == [type |-> "auth_invalid"]
  <2>1. m \in Reply /\ m.type = "auth_invalid" /\ down' = Sent(s, m) /\ proven' = proven /\ Destroyed(s)
    BY <1>2 DEF RefuseUnauthenticated, Reply
  <2>. HIDE DEF m
  <2>2. /\ NothingToStrangers'
        /\ \A t \in Sockets : \A i \in DOMAIN down'[t] :
               down'[t][i].type = "auth_invalid" => ~Live(t) \/ t = s
    BY <1>1, <2>1, Emitted
  <2>3. /\ ListenersMatchSubscriptions' /\ CommandsAreProven'
        /\ \A t \in Sockets : Live(t)' => t # s /\ Live(t)
    BY <2>1, DestroyedInv
  <2>. QED
    BY <2>2, <2>3 DEF GatewayInv, RefusedAreOut
<1>3. CASE Authenticate(s) \/ AuthenticateAgain(s) \/ CallService(s)
  <2>1. UNCHANGED <<down, sessions, listeners, proven>>
    BY <1>3 DEF Authenticate, AuthenticateAgain, CallService
  <2>. QED
    BY <2>1 DEF GatewayInv, ListenersMatchSubscriptions, NothingToStrangers, OnlyProvenReceive,
                InvalidIsLast, CommandsAreProven, RefusedAreOut, Live
<1>4. CASE GetStates(s)
  <2>. DEFINE m == [type |-> "states", id |-> Head(up[s]).id, states |-> states]
  <2>1. m \in Reply /\ m.type = "states" /\ down' = Sent(s, m)
    BY <1>1, <1>4 DEF GetStates, Handling, Reply, Request, TypeOK
  <2>2. UNCHANGED <<sessions, listeners, proven>> /\ s \in proven
    BY <1>4 DEF GetStates, Handling, GatewayInv, CommandsAreProven
  <2>. HIDE DEF m
  <2>3. /\ NothingToStrangers'
        /\ \A t \in Sockets : \A i \in DOMAIN down'[t] :
               down'[t][i].type = "auth_invalid" => ~Live(t)
    BY <1>1, <2>1, <2>2, Emitted
  <2>. QED
    BY <2>2, <2>3 DEF GatewayInv, ListenersMatchSubscriptions, CommandsAreProven, RefusedAreOut,
                      Live
<1>5. CASE Subscribe(s)
  <2>. DEFINE id == Head(up[s]).id
              m == [type |-> "result", id |-> id, success |-> TRUE]
  <2>1. id \in Ids /\ m \in Reply /\ m.type = "result"
    BY <1>1, <1>5 DEF Subscribe, Handling, Request, Reply
  <2>2. /\ listeners' = [listeners EXCEPT ![s] = WithListener(@, id)]
        /\ sessions' = [sessions EXCEPT ![s].subscriptions = @ \cup {id}]
        /\ down' = Sent(s, m) /\ proven' = proven
        /\ sessions[s].phase = "command"
    BY <1>5 DEF Subscribe, Handling
  <2>. HIDE DEF id, m
  <2>3. /\ IsInjective(WithListener(listeners[s], id))
        /\ ToSet(WithListener(listeners[s], id)) = sessions[s].subscriptions \cup {id}
    <3>1. listeners[s] \in Seq(Ids) /\ IsInjective(listeners[s])
          /\ ToSet(listeners[s]) = sessions[s].subscriptions
      BY DEF TypeOK, GatewayInv, ListenersMatchSubscriptions
    <3>. QED
      BY <2>1, <3>1, ListenerPut
  <2>4. ASSUME NEW t \in Sockets
        PROVE  /\ sessions'[t].phase = sessions[t].phase
               /\ t # s => sessions'[t] = sessions[t] /\ listeners'[t] = listeners[t]
               /\ listeners'[s] = WithListener(listeners[s], id)
               /\ sessions'[s].subscriptions = sessions[s].subscriptions \cup {id}
    BY <2>2 DEF TypeOK, Session
  <2>5. ListenersMatchSubscriptions'
    BY <2>3, <2>4 DEF GatewayInv, ListenersMatchSubscriptions
  <2>6. CommandsAreProven'
    BY <2>2, <2>4 DEF GatewayInv, CommandsAreProven
  <2>7. /\ NothingToStrangers'
        /\ \A t \in Sockets : \A i \in DOMAIN down'[t] :
               down'[t][i].type = "auth_invalid" => ~Live(t)
    BY <1>1, <2>1, <2>2, Emitted
  <2>. QED
    BY <2>4, <2>5, <2>6, <2>7 DEF GatewayInv, RefusedAreOut, Live
<1>6. CASE Unsubscribe(s)
  <2>. DEFINE id == Head(up[s]).subscription
              m == [type |-> "result", id |-> Head(up[s]).id, success |-> TRUE]
  <2>1. id \in Ids /\ m \in Reply /\ m.type = "result"
    BY <1>1, <1>6 DEF Unsubscribe, Handling, Request, Reply
  <2>2. /\ \/ /\ listeners' = [listeners EXCEPT ![s] = Without(@, id)]
              /\ sessions' = [sessions EXCEPT ![s].subscriptions = @ \ {id}]
           \/ UNCHANGED <<listeners, sessions>>
        /\ down' = Sent(s, m) /\ proven' = proven
        /\ sessions[s].phase = "command"
    BY <1>6 DEF Unsubscribe, Handling
  <2>. HIDE DEF id, m
  <2>3. /\ IsInjective(Without(listeners[s], id))
        /\ ToSet(Without(listeners[s], id)) = sessions[s].subscriptions \ {id}
    <3>1. listeners[s] \in Seq(Ids) /\ IsInjective(listeners[s])
          /\ ToSet(listeners[s]) = sessions[s].subscriptions
      BY DEF TypeOK, GatewayInv, ListenersMatchSubscriptions
    <3>. QED
      BY <2>1, <3>1, ListenerTakenOff
  <2>4. ASSUME NEW t \in Sockets
        PROVE  /\ sessions'[t].phase = sessions[t].phase
               /\ t # s => sessions'[t] = sessions[t] /\ listeners'[t] = listeners[t]
               /\ \/ /\ listeners'[s] = Without(listeners[s], id)
                     /\ sessions'[s].subscriptions = sessions[s].subscriptions \ {id}
                  \/ listeners'[s] = listeners[s] /\ sessions'[s] = sessions[s]
    BY <2>2 DEF TypeOK, Session
  <2>5. ListenersMatchSubscriptions'
    BY <2>3, <2>4 DEF GatewayInv, ListenersMatchSubscriptions
  <2>6. CommandsAreProven'
    BY <2>2, <2>4 DEF GatewayInv, CommandsAreProven
  <2>7. /\ NothingToStrangers'
        /\ \A t \in Sockets : \A i \in DOMAIN down'[t] :
               down'[t][i].type = "auth_invalid" => ~Live(t)
    BY <1>1, <2>1, <2>2, Emitted
  <2>. QED
    BY <2>4, <2>5, <2>6, <2>7 DEF GatewayInv, RefusedAreOut, Live
<1>. QED
  BY <1>2, <1>3, <1>4, <1>5, <1>6 DEF Handle

(* The answer of a validation: also when the session has gone meanwhile.   *)
LEMMA ValidatedInv ==
    ASSUME TypeOK, GatewayInv, NEW s \in Sockets, NEW i, Validated(s, i) \/ ValidationFails(s, i)
    PROVE  GatewayInv'
<1>. USE DEF serverVars, netVars
<1>1. CASE ValidationFails(s, i)
  BY <1>1 DEF ValidationFails, GatewayInv, ListenersMatchSubscriptions, NothingToStrangers,
              OnlyProvenReceive, InvalidIsLast, CommandsAreProven, RefusedAreOut, Live
<1>2. CASE Validated(s, i) /\ Accepts(validating[s][i])
  <2>1. /\ proven' = proven \cup {s}
        /\ sessions' = IF Live(s) THEN [sessions EXCEPT ![s].phase = "command"] ELSE sessions
        /\ down' = IF Live(s) THEN Sent(s, [type |-> "auth_ok"]) ELSE down
        /\ UNCHANGED listeners
    BY <1>2 DEF Validated, Accepts
  <2>2. CASE ~Live(s)
    BY <2>1, <2>2 DEF GatewayInv, ListenersMatchSubscriptions, NothingToStrangers,
                      OnlyProvenReceive, InvalidIsLast, CommandsAreProven, RefusedAreOut, Live
  <2>3. CASE Live(s)
    <3>. DEFINE m == [type |-> "auth_ok"]
    <3>1. m \in Reply /\ m.type = "auth_ok" /\ down' = Sent(s, m)
      BY <2>1, <2>3 DEF Reply
    <3>. HIDE DEF m
    <3>2. ASSUME NEW t \in Sockets
          PROVE  /\ sessions'[t].subscriptions = sessions[t].subscriptions
                 /\ t # s => sessions'[t] = sessions[t]
                 /\ sessions'[s].phase = "command"
      BY <2>1, <2>3 DEF TypeOK, Session
    <3>3. /\ NothingToStrangers'
          /\ \A t \in Sockets : \A j \in DOMAIN down'[t] :
                 down'[t][j].type = "auth_invalid" => ~Live(t)
      BY <2>1, <2>3, <3>1, Emitted
    <3>4. ListenersMatchSubscriptions'
      BY <2>1, <3>2 DEF GatewayInv, ListenersMatchSubscriptions
    <3>5. CommandsAreProven'
      BY <2>1, <3>2 DEF GatewayInv, CommandsAreProven
    <3>6. \A t \in Sockets : Live(t)' => Live(t)
      BY <2>3, <3>2 DEF Live
    <3>. QED
      BY <3>3, <3>4, <3>5, <3>6 DEF GatewayInv, RefusedAreOut
  <2>. QED
    BY <2>2, <2>3
<1>3. CASE Validated(s, i) /\ ~Accepts(validating[s][i])
  <2>1. /\ proven' = proven
        /\ down' = IF Live(s) THEN Sent(s, [type |-> "auth_invalid"]) ELSE down
        /\ Destroyed(s)
    BY <1>3 DEF Validated, Accepts
  <2>2. /\ ListenersMatchSubscriptions' /\ CommandsAreProven'
        /\ \A t \in Sockets : Live(t)' => t # s /\ Live(t)
    BY <2>1, DestroyedInv
  <2>3. CASE ~Live(s)
    BY <2>1, <2>2, <2>3 DEF GatewayInv, NothingToStrangers, OnlyProvenReceive, InvalidIsLast,
                            RefusedAreOut
  <2>4. CASE Live(s)
    <3>. DEFINE m == [type |-> "auth_invalid"]
    <3>1. m \in Reply /\ m.type = "auth_invalid" /\ down' = Sent(s, m)
      BY <2>1, <2>4 DEF Reply
    <3>. HIDE DEF m
    <3>2. /\ NothingToStrangers'
          /\ \A t \in Sockets : \A j \in DOMAIN down'[t] :
                 down'[t][j].type = "auth_invalid" => ~Live(t) \/ t = s
      BY <2>1, <2>4, <3>1, Emitted
    <3>. QED
      BY <2>2, <3>2 DEF GatewayInv, RefusedAreOut
  <2>. QED
    BY <2>3, <2>4
<1>. QED
  BY <1>1, <1>2, <1>3

(* Steps that leave sessions and listeners as they are, and take from what *)
(* is on the way, if anything.                                             *)
LEMMA TakesAway ==
    ASSUME TypeOK, GatewayInv, UNCHANGED <<sessions, listeners, proven>>,
           \A t \in Sockets : Comes(down'[t], down[t])
    PROVE  GatewayInv'
<1>1. NothingToStrangers' /\ RefusedAreOut'
  BY DEF Comes, GatewayInv, NothingToStrangers, OnlyProvenReceive, InvalidIsLast, RefusedAreOut,
         Live
<1>. QED
  BY <1>1 DEF GatewayInv, ListenersMatchSubscriptions, CommandsAreProven

LEMMA CallSettlesInv ==
    ASSUME TypeOK, GatewayInv, NEW s \in Sockets, NEW id \in Ids, NEW success \in BOOLEAN,
           CallSettles(s, id, success)
    PROVE  GatewayInv'
<1>. DEFINE m == [type |-> "result", id |-> id, success |-> success]
<1>1. /\ m \in Reply /\ m.type = "result"
      /\ down' = IF Live(s) THEN Sent(s, m) ELSE down
      /\ UNCHANGED <<sessions, listeners, proven>>
  BY DEF CallSettles, Reply
<1>. HIDE DEF m
<1>2. CASE Live(s)
  <2>1. /\ NothingToStrangers'
        /\ \A t \in Sockets : \A j \in DOMAIN down'[t] :
               down'[t][j].type = "auth_invalid" => ~Live(t)
    BY <1>1, <1>2, Emitted
  <2>. QED
    BY <1>1, <2>1 DEF GatewayInv, ListenersMatchSubscriptions, CommandsAreProven, RefusedAreOut,
                      Live
<1>3. CASE ~Live(s)
  <2>1. \A t \in Sockets : Comes(down'[t], down[t])
    BY <1>1, <1>3 DEF Comes
  <2>. QED
    BY <1>1, <2>1, TakesAway
<1>. QED
  BY <1>2, <1>3

(* What a change adds to the messages on the way to t: one event for each  *)
(* listener of t.                                                          *)
LEMMA ChangeAdds ==
    ASSUME TypeOK, NEW e \in Entities, Change(e), NEW t \in Sockets
    PROVE  /\ t \notin peers \/ listeners[t] = <<>> => down'[t] = down[t]
           /\ t \in peers =>
                 /\ DOMAIN down'[t] = 1 .. Len(down[t]) + Len(listeners[t])
                 /\ \A i \in 1 .. Len(down[t]) : down'[t][i] = down[t][i]
                 /\ \A i \in Len(down[t]) + 1 .. Len(down[t]) + Len(listeners[t]) :
                       /\ down'[t][i].type = "event" /\ down'[t][i].entity = e
                       /\ down'[t][i].new = states'[e]
<1>. DEFINE ev == EventsOf(t, e, states'[e])
            n == Len(down[t])
            k == Len(listeners[t])
<1>1. states'[e] \in 0 .. MaxChanges
  BY ChangeType DEF States
<1>. HIDE DEF ev
<1>2. /\ ev \in Seq(Reply) /\ Len(ev) = k /\ k \in Nat
      /\ \A j \in 1 .. k : ev[j].type = "event" /\ ev[j].entity = e /\ ev[j].new = states'[e]
  <2>1. listeners[t] \in Seq(Ids) /\ k \in Nat
    BY DEF TypeOK
  <2>2. /\ EventsOf(t, e, states'[e]) \in Seq(Reply)
        /\ Len(EventsOf(t, e, states'[e])) = Len(listeners[t])
        /\ \A j \in 1 .. Len(listeners[t]) :
              EventsOf(t, e, states'[e])[j] = [type |-> "event", id |-> listeners[t][j],
                                             entity |-> e, new |-> states'[e]]
    BY <1>1, EventsType, Zenon
  <2>3. /\ ev \in Seq(Reply) /\ Len(ev) = k
        /\ \A j \in 1 .. k : ev[j] = [type |-> "event", id |-> listeners[t][j],
                                     entity |-> e, new |-> states'[e]]
    BY <2>2 DEF ev
  <2>4. ASSUME NEW j \in 1 .. k
        PROVE  ev[j].type = "event" /\ ev[j].entity = e /\ ev[j].new = states'[e]
    <3>1. ev[j] = [type |-> "event", id |-> listeners[t][j], entity |-> e, new |-> states'[e]]
      BY <2>3
    <3>. QED
      BY <3>1
  <2>. QED
    BY <2>1, <2>3, <2>4
<1>3. down[t] \in Seq(Reply) /\ n \in Nat /\ DOMAIN down[t] = 1 .. n
  BY DEF TypeOK
<1>4. t \in peers => down'[t] = down[t] \o ev
  BY DEF Change, ev
<1>5. t \notin peers => down'[t] = down[t]
  BY DEF Change
<1>6. listeners[t] = <<>> => ev = <<>>
  BY <1>2
<1>7. listeners[t] = <<>> => down[t] \o ev = down[t]
  BY <1>3, <1>6
<1>. HIDE DEF n, k
<1>8. /\ (down[t] \o ev) \in Seq(Reply) /\ Len(down[t] \o ev) = n + k
      /\ \A j \in 1 .. n + k :
            (down[t] \o ev)[j] = IF j <= n THEN down[t][j] ELSE ev[j - n]
  <2>1. /\ (down[t] \o ev) \in Seq(Reply) /\ Len(down[t] \o ev) = Len(down[t]) + Len(ev)
        /\ \A j \in 1 .. Len(down[t]) + Len(ev) :
              (down[t] \o ev)[j] = IF j <= Len(down[t]) THEN down[t][j]
                                   ELSE ev[j - Len(down[t])]
    BY <1>2, <1>3, ConcatProperties, Zenon
  <2>. QED
    BY <1>2, <2>1 DEF n
<1>9. DOMAIN (down[t] \o ev) = 1 .. n + k
  BY <1>8
<1>10. \A i \in 1 .. n : (down[t] \o ev)[i] = down[t][i]
  BY <1>2, <1>3, <1>8
<1>11. ASSUME NEW i \in n + 1 .. n + k
       PROVE  /\ (down[t] \o ev)[i].type = "event" /\ (down[t] \o ev)[i].entity = e
              /\ (down[t] \o ev)[i].new = states'[e]
  <2>1. i - n \in 1 .. k /\ (down[t] \o ev)[i] = ev[i - n]
    BY <1>2, <1>3, <1>8
  <2>. QED
    BY <1>2, <2>1
<1>. QED
  BY <1>4, <1>5, <1>7, <1>9, <1>10, <1>11 DEF n, k

LEMMA ChangeInv ==
    ASSUME TypeOK, GatewayInv, NEW e \in Entities, Change(e)
    PROVE  GatewayInv'
<1>1. UNCHANGED <<sessions, listeners, proven>>
  BY DEF Change
<1>2. ASSUME NEW t \in Sockets, NEW i \in DOMAIN down'[t]
      PROVE  \/ i \in DOMAIN down[t] /\ down'[t][i] = down[t][i] /\ down'[t] = down[t]
             \/ /\ listeners[t] # <<>>
                /\ \/ i \in DOMAIN down[t] /\ down'[t][i] = down[t][i]
                   \/ down'[t][i].type = "event"
  <2>1. /\ Len(down[t]) \in Nat /\ DOMAIN down[t] = 1 .. Len(down[t])
        /\ Len(listeners[t]) \in Nat
    BY DEF TypeOK
  <2>2. CASE t \notin peers \/ listeners[t] = <<>>
    BY <2>2, ChangeAdds
  <2>3. CASE t \in peers /\ listeners[t] # <<>>
    <3>1. i \in 1 .. Len(down[t]) + Len(listeners[t])
      BY <2>3, ChangeAdds
    <3>2. \/ i \in 1 .. Len(down[t])
          \/ i \in Len(down[t]) + 1 .. Len(down[t]) + Len(listeners[t])
      <4>1. ASSUME NEW n \in Nat, NEW k \in Nat, i \in 1 .. n + k
            PROVE  i \in 1 .. n \/ i \in n + 1 .. n + k
        BY <4>1
      <4>. QED
        BY <2>1, <3>1, <4>1
    <3>3. CASE i \in 1 .. Len(down[t])
      <4>1. down'[t][i] = down[t][i]
        BY <2>3, <3>3, ChangeAdds
      <4>. QED
        BY <2>1, <2>3, <3>3, <4>1
    <3>4. CASE i \in Len(down[t]) + 1 .. Len(down[t]) + Len(listeners[t])
      <4>1. down'[t][i].type = "event"
        BY <2>3, <3>4, ChangeAdds
      <4>. QED
        BY <2>3, <4>1
    <3>. QED
      BY <3>2, <3>3, <3>4
  <2>. QED
    BY <2>2, <2>3
<1>3. \A t \in Sockets : listeners[t] # <<>> => t \in proven /\ Live(t)
  <2>. SUFFICES ASSUME NEW t \in Sockets, listeners[t] # <<>>
                PROVE  t \in proven /\ Live(t)
    OBVIOUS
  <2>1. ToSet(listeners[t]) # {}
    <3>1. listeners[t] \in Seq(Ids)
      BY DEF TypeOK
    <3>2. 1 \in DOMAIN listeners[t]
      BY <3>1
    <3>. QED
      BY <3>2 DEF ToSet
  <2>. QED
    BY <2>1 DEF GatewayInv, ListenersMatchSubscriptions, CommandsAreProven, Live
<1>4. OnlyProvenReceive'
  BY <1>1, <1>2, <1>3 DEF GatewayInv, NothingToStrangers, OnlyProvenReceive
<1>5. InvalidIsLast' /\ RefusedAreOut'
  BY <1>1, <1>2, <1>3 DEF GatewayInv, NothingToStrangers, InvalidIsLast, RefusedAreOut, Live
<1>. QED
  BY <1>1, <1>4, <1>5 DEF GatewayInv, NothingToStrangers, ListenersMatchSubscriptions,
                          CommandsAreProven

LEMMA DisconnectInv ==
    ASSUME TypeOK, GatewayInv, NEW s \in Sockets, Disconnect(s)
    PROVE  TypeOK' /\ GatewayInv'
<1>. USE DEF netVars, serverVars
<1>1. Destroyed(s) /\ UNCHANGED <<opened, peers, down, validating, calls, tokens, states, changes,
                                  proven>>
  BY DEF Disconnect
<1>2. TypeOK'
  BY <1>1, DestroyedType DEF TypeOK
<1>3. /\ ListenersMatchSubscriptions' /\ CommandsAreProven'
      /\ \A t \in Sockets : Live(t)' => t # s /\ Live(t)
  BY <1>1, DestroyedInv
<1>. QED
  BY <1>1, <1>2, <1>3 DEF GatewayInv, NothingToStrangers, OnlyProvenReceive, InvalidIsLast,
                          RefusedAreOut

LEMMA ConnectInv ==
    ASSUME TypeOK, GatewayInv, LiveAreOpened, NEW first, Connect(first)
    PROVE  GatewayInv'
<1>. DEFINE s == opened + 1
            m == [type |-> "auth_required"]
<1>1. /\ s \in Sockets
      /\ sessions' = [sessions EXCEPT ![s].phase = "auth"]
      /\ down' = [down EXCEPT ![s] = <<m>>]
      /\ UNCHANGED <<listeners, proven>> /\ m.type = "auth_required"
  BY DEF Connect
<1>. HIDE DEF s, m
<1>2. ASSUME NEW t \in Sockets
      PROVE  /\ sessions'[t].subscriptions = sessions[t].subscriptions
             /\ t # s => sessions'[t] = sessions[t] /\ down'[t] = down[t]
             /\ sessions'[s].phase = "auth" /\ down'[s] = <<m>>
  BY <1>1 DEF TypeOK, Session
<1>3. ASSUME NEW t \in Sockets, t # s
      PROVE  sessions'[t] = sessions[t] /\ down'[t] = down[t] /\ (Live(t)' <=> Live(t))
  BY <1>2, <1>3 DEF Live
<1>4. ListenersMatchSubscriptions'
  BY <1>1, <1>2 DEF GatewayInv, ListenersMatchSubscriptions
<1>5. CommandsAreProven'
  <2>1. ~Live(s)
    BY <1>1 DEF LiveAreOpened, TypeOK, s, Sockets
  <2>. QED
    BY <1>1, <1>2, <2>1 DEF GatewayInv, CommandsAreProven, Live
<1>6. DOMAIN down'[s] = {1} /\ down'[s][1] = m /\ Len(down'[s]) = 1
  BY <1>1, <1>2
<1>7. NothingToStrangers'
  BY <1>1, <1>3, <1>6 DEF GatewayInv, NothingToStrangers, OnlyProvenReceive, InvalidIsLast
<1>8. RefusedAreOut'
  BY <1>1, <1>3, <1>6 DEF GatewayInv, RefusedAreOut
<1>. QED
  BY <1>4, <1>5, <1>7, <1>8 DEF GatewayInv

(* A socket that closes, messages that are sent or received.               *)
LEMMA ClosedInv ==
    ASSUME TypeOK, GatewayInv, NEW s \in Sockets, Closed(s),
           UNCHANGED <<sessions, listeners, proven>>
    PROVE  GatewayInv'
<1>1. \A t \in Sockets : down'[t] = <<>> \/ down'[t] = down[t]
  BY DEF Closed, TypeOK
<1>2. \A q : Comes(<<>>, q) /\ Comes(q, q)
  BY DEF Comes
<1>. QED
  BY <1>1, <1>2, TakesAway

LEMMA ReceivedInv ==
    ASSUME TypeOK, GatewayInv, NEW s \in Sockets,
           UNCHANGED <<sessions, listeners, proven>>,
           \/ down' = down
           \/ down[s] # <<>> /\ down' = [down EXCEPT ![s] = Tail(@)]
           \/ \E i \in DOMAIN down[s] : down' = [down EXCEPT ![s] = RemoveAt(@, i)]
    PROVE  GatewayInv' /\ down' \in [Sockets -> Seq(Reply)]
<1>1. down \in [Sockets -> Seq(Reply)] /\ \A q : Comes(q, q)
  BY DEF TypeOK, Comes
<1>2. CASE down' = down
  BY <1>1, <1>2, TakesAway
<1>3. CASE down[s] # <<>> /\ down' = [down EXCEPT ![s] = Tail(@)]
  <2>1. Comes(Tail(down[s]), down[s]) /\ Tail(down[s]) \in Seq(Reply)
    BY <1>1, <1>3, TailComes
  <2>2. \A t \in Sockets : Comes(down'[t], down[t])
    BY <1>1, <1>3, <2>1
  <2>. QED
    BY <1>1, <1>3, <2>1, <2>2, TakesAway
<1>4. ASSUME NEW i \in DOMAIN down[s], down' = [down EXCEPT ![s] = RemoveAt(@, i)]
      PROVE  GatewayInv' /\ down' \in [Sockets -> Seq(Reply)]
  <2>1. Comes(RemoveAt(down[s], i), down[s]) /\ RemoveAt(down[s], i) \in Seq(Reply)
    BY <1>1, OthersCome, WithoutElement
  <2>2. \A t \in Sockets : Comes(down'[t], down[t])
    BY <1>1, <1>4, <2>1
  <2>. QED
    BY <1>1, <1>4, <2>1, <2>2, TakesAway
<1>. QED
  BY <1>2, <1>3, <1>4

(* All the gateway does.                                                   *)
Sound == TypeOK /\ GatewayInv /\ LiveAreOpened

LEMMA SoundAtFirst == GatewayInit => Sound
<1>. SUFFICES ASSUME GatewayInit
              PROVE  Sound
  OBVIOUS
<1>1. NoSession \in Session /\ <<>> \in Seq(Ids) /\ <<>> \in Seq(Tokens)
      /\ <<>> \in Seq(Request) /\ <<>> \in Seq(Reply)
  BY DEF NoSession, Session
<1>2. TypeOK
  BY <1>1, HaGatewayAssumption DEF GatewayInit, TypeOK, States
<1>3. IsInjective(<<>>) /\ ToSet(<<>>) = {}
  BY DEF IsInjective, ToSet
<1>4. ListenersMatchSubscriptions /\ CommandsAreProven
  BY <1>3 DEF GatewayInit, ListenersMatchSubscriptions, CommandsAreProven, NoSession
<1>5. NothingToStrangers /\ RefusedAreOut /\ LiveAreOpened
  BY DEF GatewayInit, NothingToStrangers, OnlyProvenReceive, InvalidIsLast, RefusedAreOut,
         LiveAreOpened, Live, NoSession
<1>. QED
  BY <1>2, <1>4, <1>5 DEF Sound, GatewayInv

(* What the hub does on account of socket s, but for settling its calls.   *)
HubStep(s) ==
    Disconnect(s) \/ Handle(s) \/ \E i \in 1 .. MaxUp : Validated(s, i) \/ ValidationFails(s, i)

(* A session that is gone does not come back.                              *)
LEMMA NoneRevives ==
    ASSUME TypeOK, GatewayInv, NEW s \in Sockets, HubStep(s)
    PROVE  \A t \in Sockets : Live(t)' => Live(t)
<1>1. CASE Disconnect(s)
  BY <1>1, DestroyedInv DEF Disconnect
<1>2. CASE RefuseUnauthenticated(s)
  BY <1>2, DestroyedInv DEF RefuseUnauthenticated
<1>3. CASE Authenticate(s) \/ AuthenticateAgain(s) \/ GetStates(s) \/ CallService(s)
  <2>1. sessions' = sessions
    BY <1>3 DEF Authenticate, AuthenticateAgain, GetStates, CallService, serverVars
  <2>. QED
    BY <2>1 DEF Live
<1>4. CASE Subscribe(s) \/ Unsubscribe(s)
  <2>1. \A t \in Sockets : sessions'[t].phase = sessions[t].phase
    BY <1>4 DEF Subscribe, Unsubscribe, TypeOK, Session
  <2>. QED
    BY <2>1 DEF Live
<1>5. ASSUME NEW i \in 1 .. MaxUp, Validated(s, i) \/ ValidationFails(s, i)
      PROVE  \A t \in Sockets : Live(t)' => Live(t)
  <2>1. CASE Destroyed(s) /\ proven' = proven
    BY <2>1, DestroyedInv
  <2>2. CASE ValidationFails(s, i) \/ Accepts(validating[s][i])
    BY <1>5, <2>2 DEF Validated, ValidationFails, TypeOK, Session, Live
  <2>3. (Destroyed(s) /\ proven' = proven) \/ ValidationFails(s, i) \/ Accepts(validating[s][i])
    BY <1>5 DEF Validated, Accepts
  <2>. QED
    BY <2>1, <2>2, <2>3
<1>. QED
  BY <1>1, <1>2, <1>3, <1>4, <1>5 DEF HubStep, Handle

LEMMA GatewayKeeps == Sound /\ GatewayNext => Sound'
<1>. USE DEF serverVars, netVars
<1>. SUFFICES ASSUME TypeOK, GatewayInv, LiveAreOpened, GatewayNext
              PROVE  Sound'
  BY DEF Sound
<1>1. opened' = opened
  BY DEF GatewayNext, Disconnect, Handle, RefuseUnauthenticated, Authenticate, AuthenticateAgain,
         GetStates, Subscribe, Unsubscribe, CallService, Validated, ValidationFails, CallSettles,
         Change, Expire
<1>2. ASSUME NEW s \in Sockets, HubStep(s)
      PROVE  Sound'
  <2>1. TypeOK' /\ GatewayInv'
    BY <1>2, DisconnectInv, HandleType, HandleInv, ValidatedType, ValidatedInv
       DEF HubStep, GatewayInv
  <2>2. \A t \in Sockets : Live(t)' => Live(t)
    BY <1>2, NoneRevives
  <2>. QED
    BY <1>1, <2>1, <2>2 DEF Sound, LiveAreOpened
<1>3. ASSUME NEW s \in Sockets, NEW id \in Ids, NEW success \in BOOLEAN,
             CallSettles(s, id, success)
      PROVE  Sound'
  <2>1. sessions' = sessions
    BY <1>3 DEF CallSettles
  <2>. QED
    BY <1>1, <1>3, <2>1, CallSettlesType, CallSettlesInv DEF Sound, LiveAreOpened, Live
<1>4. ASSUME NEW e \in Entities, Change(e)
      PROVE  Sound'
  <2>1. sessions' = sessions
    BY <1>4 DEF Change
  <2>. QED
    BY <1>1, <1>4, <2>1, ChangeType, ChangeInv DEF Sound, LiveAreOpened, Live
<1>5. ASSUME NEW t \in Tokens, Expire(t)
      PROVE  Sound'
  BY <1>5 DEF Expire, Sound, TypeOK, GatewayInv, ListenersMatchSubscriptions, NothingToStrangers,
              OnlyProvenReceive, InvalidIsLast, CommandsAreProven, RefusedAreOut, LiveAreOpened, Live
<1>. QED
  BY <1>2, <1>3, <1>4, <1>5 DEF GatewayNext, HubStep

LEMMA ConnectKeeps ==
    ASSUME Sound, NEW first \in Seq(Request), Connect(first)
    PROVE  Sound'
<1>. USE DEF Sound
<1>1. TypeOK' /\ GatewayInv'
  BY ConnectType, ConnectInv
<1>2. ASSUME NEW t \in Sockets, Live(t)'
      PROVE  t <= opened'
  BY <1>2 DEF Connect, LiveAreOpened, Live, TypeOK, Session, Sockets
<1>. QED
  BY <1>1, <1>2 DEF LiveAreOpened

LEMMA ClientKeeps ==
    ASSUME Sound, NEW s \in Sockets, UNCHANGED <<opened, serverVars>>,
           up' \in [Sockets -> Seq(Request)],
           \/ Closed(s)
           \/ /\ peers' = peers
              /\ \/ down' = down
                 \/ down[s] # <<>> /\ down' = [down EXCEPT ![s] = Tail(@)]
                 \/ \E i \in DOMAIN down[s] : down' = [down EXCEPT ![s] = RemoveAt(@, i)]
    PROVE  Sound'
<1>. USE DEF Sound, serverVars
<1>1. CASE Closed(s)
  BY <1>1, ClosedInv, ClosedType DEF TypeOK, LiveAreOpened, Live
<1>2. CASE ~Closed(s)
  BY <1>2, ReceivedInv DEF TypeOK, LiveAreOpened, Live
<1>. QED
  BY <1>1, <1>2
-----------------------------------------------------------------------------
(* Whatever a client sends, in whatever order, and whenever it goes.       *)
LEMMA AnyClientKeeps == Sound /\ AnyClient => Sound'
<1>. SUFFICES ASSUME Sound, AnyClient
              PROVE  Sound'
  OBVIOUS
<1>. TypeOK
  BY DEF Sound
<1>1. CASE Connect(<<>>)
  <2>1. <<>> \in Seq(Request)
    OBVIOUS
  <2>. QED
    BY <1>1, <2>1, ConnectKeeps
<1>2. ASSUME NEW s \in peers, NEW m \in Request,
             up' = [up EXCEPT ![s] = Append(@, m)], UNCHANGED <<opened, peers, down, serverVars>>
      PROVE  Sound'
  <2>1. s \in Sockets /\ up[s] \in Seq(Request)
    BY DEF TypeOK
  <2>2. Append(up[s], m) \in Seq(Request)
    BY <2>1
  <2>3. up' \in [Sockets -> Seq(Request)]
    BY <1>2, <2>1, <2>2 DEF TypeOK
  <2>. QED
    BY <1>2, <2>1, <2>3, ClientKeeps DEF serverVars
<1>3. ASSUME NEW s \in peers, down[s] # <<>>, down' = [down EXCEPT ![s] = Tail(@)],
             UNCHANGED <<opened, peers, up, serverVars>>
      PROVE  Sound'
  BY <1>3, ClientKeeps DEF TypeOK, serverVars
<1>4. ASSUME NEW s \in peers, Closed(s), UNCHANGED <<opened, up, serverVars>>
      PROVE  Sound'
  BY <1>4, ClientKeeps DEF TypeOK, serverVars
<1>. QED
  BY <1>1, <1>2, <1>3, <1>4 DEF AnyClient

(* Every state of the gateway is sound, whatever its clients do.           *)
THEOREM GatewayIsSound == Spec => []Sound
<1>1. GatewayInit => Sound
  BY SoundAtFirst
<1>2. Sound /\ [GatewayNext \/ AnyClient]_gatewayVars => Sound'
  <2>1. ASSUME Sound, UNCHANGED gatewayVars
        PROVE  Sound'
    BY <2>1 DEF gatewayVars, serverVars, netVars, Sound, TypeOK, GatewayInv,
                ListenersMatchSubscriptions, NothingToStrangers, OnlyProvenReceive, InvalidIsLast,
                CommandsAreProven, RefusedAreOut, LiveAreOpened, Live
  <2>. QED
    BY <2>1, GatewayKeeps, AnyClientKeeps
<1>. QED
  BY <1>1, <1>2, PTL DEF Spec

(* The variables of the gateway keep their types.                          *)
THEOREM GatewayTypeCorrect == Spec => []TypeOK
<1>1. Sound => TypeOK
  BY DEF Sound
<1>. QED
  BY <1>1, GatewayIsSound, PTL

(* The listeners on the event bus are the subscriptions of the sessions    *)
(* (ws-session.service.ts), each once, for any number of sockets and ids.  *)
THEOREM ListenersAreSubscriptions == Spec => []ListenersMatchSubscriptions
<1>1. Sound => ListenersMatchSubscriptions
  BY DEF Sound, GatewayInv
<1>. QED
  BY <1>1, GatewayIsSound, PTL

(* Who never showed a valid token hears nothing of the house, and who was  *)
(* refused nothing at all (ws.gateway.ts), for any number of sockets.      *)
THEOREM StrangersHearNothing == Spec => []NothingToStrangers
<1>1. Sound => NothingToStrangers
  BY DEF Sound, GatewayInv
<1>. QED
  BY <1>1, GatewayIsSound, PTL


-----------------------------------------------------------------------------
(* What a step of the hub does to the messages on the way.                 *)
Waits(t, type) == \E k \in DOMAIN up[t] : up[t][k].type = type

(* Why the hub sends m on socket s.                                        *)
Reason(s, m) ==
    \/ m.type \in {"auth_ok", "auth_invalid"}
    \/ /\ m.type = "states" /\ m.states = states
       /\ \E k \in DOMAIN up[s] : up[s][k].type = "get_states" /\ up[s][k].id = m.id
    \/ /\ m.type = "result"
       /\ \E k \in DOMAIN up[s] : /\ up[s][k].type \in {"subscribe_events", "unsubscribe_events"}
                                  /\ up[s][k].id = m.id

LEMMA TailOf ==
    ASSUME NEW S, NEW q \in Seq(S), q # <<>>
    PROVE  /\ 1 \in DOMAIN q /\ q[1] = Head(q)
           /\ \A i \in DOMAIN Tail(q) : i + 1 \in DOMAIN q /\ Tail(q)[i] = q[i + 1]
           /\ \A k \in DOMAIN q : k # 1 => k - 1 \in DOMAIN Tail(q) /\ Tail(q)[k - 1] = q[k]
<1>1. Len(q) \in Nat \ {0} /\ DOMAIN q = 1 .. Len(q)
  OBVIOUS
<1>2. DOMAIN Tail(q) = 1 .. Len(q) - 1 /\ \A i \in 1 .. Len(q) - 1 : Tail(q)[i] = q[i + 1]
  BY <1>1
<1>3. ASSUME NEW k \in DOMAIN q, k # 1
      PROVE  k - 1 \in DOMAIN Tail(q) /\ Tail(q)[k - 1] = q[k]
  <2>1. k - 1 \in 1 .. Len(q) - 1 /\ k - 1 + 1 = k
    BY <1>1, <1>3
  <2>. QED
    BY <1>2, <2>1
<1>. QED
  BY <1>1, <1>2, <1>3

LEMMA HubSends ==
    ASSUME TypeOK, NEW s \in Sockets, HubStep(s)
    PROVE  /\ UNCHANGED <<opened, peers, states, changes>>
           /\ down' = down \/ \E m \in Reply : down' = Sent(s, m) /\ Reason(s, m)
<1>. USE DEF serverVars, netVars
<1>1. UNCHANGED <<opened, peers, states, changes>>
  BY DEF HubStep, Disconnect, Handle, RefuseUnauthenticated, Authenticate, AuthenticateAgain,
         GetStates, Subscribe, Unsubscribe, CallService, Validated, ValidationFails
<1>2. CASE GetStates(s)
  <2>1. Head(up[s]) \in Request /\ 1 \in DOMAIN up[s] /\ up[s][1] = Head(up[s])
        /\ Head(up[s]).type = "get_states" /\ up[s] # <<>>
    BY <1>2, TailOf, TakenType DEF GetStates, Handling, TypeOK
  <2>. DEFINE m == [type |-> "states", id |-> Head(up[s]).id, states |-> states]
  <2>2. m \in Reply /\ down' = Sent(s, m)
    BY <1>2, <2>1 DEF GetStates, Reply, Request, TypeOK
  <2>3. Reason(s, m)
    BY <2>1 DEF Reason
  <2>. QED
    BY <1>1, <2>2, <2>3
<1>3. CASE Subscribe(s) \/ Unsubscribe(s)
  <2>1. Head(up[s]) \in Request /\ 1 \in DOMAIN up[s] /\ up[s][1] = Head(up[s])
        /\ Head(up[s]).type \in {"subscribe_events", "unsubscribe_events"} /\ up[s] # <<>>
    BY <1>3, TailOf, TakenType DEF Subscribe, Unsubscribe, Handling, TypeOK
  <2>. DEFINE m == [type |-> "result", id |-> Head(up[s]).id, success |-> TRUE]
  <2>2. m \in Reply /\ down' = Sent(s, m)
    BY <1>3, <2>1 DEF Subscribe, Unsubscribe, Reply, Request
  <2>3. Reason(s, m)
    BY <2>1 DEF Reason
  <2>. QED
    BY <1>1, <2>2, <2>3
<1>4. CASE RefuseUnauthenticated(s) \/ \E i \in 1 .. MaxUp : Validated(s, i) \/ ValidationFails(s, i)
  <2>. DEFINE ok == [type |-> "auth_ok"]
              no == [type |-> "auth_invalid"]
  <2>1. ok \in Reply /\ no \in Reply
    BY DEF Reply
  <2>2. down' = down \/ down' = Sent(s, ok) \/ down' = Sent(s, no)
    BY <1>4 DEF RefuseUnauthenticated, Validated, ValidationFails
  <2>3. Reason(s, ok) /\ Reason(s, no)
    BY DEF Reason
  <2>. QED
    BY <1>1, <2>1, <2>2, <2>3
<1>5. CASE Authenticate(s) \/ AuthenticateAgain(s) \/ CallService(s) \/ Disconnect(s)
  BY <1>1, <1>5 DEF Authenticate, AuthenticateAgain, CallService, Disconnect
<1>. QED
  BY <1>2, <1>3, <1>4, <1>5 DEF HubStep, Handle

LEMMA HubTakes ==
    ASSUME TypeOK, NEW s \in Sockets, HubStep(s)
    PROVE  /\ \A t \in Sockets : t # s => up'[t] = up[t]
           /\ up'[s] \in {up[s], <<>>} \/ (up[s] # <<>> /\ up'[s] = Tail(up[s]))
           /\ \A c \in calls' : \/ c \in calls
                                \/ \E k \in DOMAIN up[s] : /\ up[s][k].type = "call_service"
                                                           /\ up[s][k].id = c[2]
<1>. USE DEF serverVars, netVars
<1>1. \/ up' = up
      \/ up' = [up EXCEPT ![s] = <<>>]
      \/ up' = [up EXCEPT ![s] = Tail(@)] /\ up[s] # <<>>
  BY DEF HubStep, Disconnect, Handle, RefuseUnauthenticated, Authenticate, AuthenticateAgain,
         GetStates, Subscribe, Unsubscribe, CallService, Validated, ValidationFails, Destroyed,
         Taken, Handling
<1>2. CASE CallService(s)
  <2>1. Head(up[s]).type = "call_service" /\ calls' = calls \cup {<<s, Head(up[s]).id>>}
        /\ 1 \in DOMAIN up[s] /\ up[s][1] = Head(up[s])
    BY <1>2, TailOf DEF CallService, Handling, TypeOK
  <2>. QED
    BY <1>1, <2>1 DEF TypeOK
<1>3. CASE ~CallService(s)
  <2>1. calls' = calls
    BY <1>3 DEF HubStep, Disconnect, Handle, RefuseUnauthenticated, Authenticate,
                AuthenticateAgain, GetStates, Subscribe, Unsubscribe, Validated, ValidationFails
  <2>. QED
    BY <1>1, <2>1 DEF TypeOK
<1>. QED
  BY <1>2, <1>3

LEMMA TailWaits ==
    ASSUME TypeOK, NEW t \in Sockets, NEW type, up[t] # <<>>, up'[t] = Tail(up[t]),
           Head(up[t]).type # type, Waits(t, type)
    PROVE  Waits(t, type)'
<1>1. PICK k \in DOMAIN up[t] : up[t][k].type = type
  BY DEF Waits
<1>2. k # 1 => k - 1 \in DOMAIN Tail(up[t]) /\ Tail(up[t])[k - 1] = up[t][k]
  BY TailOf DEF TypeOK
<1>3. up[t][1] = Head(up[t])
  BY TailOf DEF TypeOK
<1>. QED
  BY <1>1, <1>2, <1>3 DEF Waits

(* A session that stays keeps its subscription and gets its states.        *)
LEMMA HubServes ==
    ASSUME TypeOK, GatewayInv, NEW s \in Sockets, HubStep(s), NEW t \in Sockets, Live(t)',
           ~Waits(t, "unsubscribe_events")
    PROVE  /\ Live(t)
           /\ Waits(t, "subscribe_events") \/ listeners[t] # <<>>
              => Waits(t, "subscribe_events")' \/ listeners'[t] # <<>>
           /\ Waits(t, "get_states")
              => \/ Waits(t, "get_states")'
                 \/ \E m \in Reply : m.type = "states" /\ m.states = states /\ down' = Sent(t, m)
<1>. USE DEF serverVars, netVars
<1>1. Live(t)
  BY NoneRevives
<1>2. CASE t # s
  <2>1. up'[t] = up[t]
    BY <1>2, HubTakes
  <2>2. listeners'[t] = listeners[t]
    BY <1>2 DEF HubStep, Disconnect, Handle, RefuseUnauthenticated, Authenticate,
                AuthenticateAgain, GetStates, Subscribe, Unsubscribe, CallService, Validated,
                ValidationFails, Destroyed, OtherListeners, TypeOK
  <2>. QED
    BY <1>1, <2>1, <2>2 DEF Waits
<1>3. CASE t = s /\ (Disconnect(s) \/ RefuseUnauthenticated(s))
  <2>1. Destroyed(s) /\ proven' = proven
    BY <1>3 DEF Disconnect, RefuseUnauthenticated
  <2>. QED
    BY <1>3, <2>1, DestroyedInv
<1>4. ASSUME t = s, NEW i \in 1 .. MaxUp, Validated(s, i) \/ ValidationFails(s, i)
      PROVE  UNCHANGED <<listeners, up>>
  <2>1. (Destroyed(s) /\ proven' = proven) \/ UNCHANGED <<listeners, up>>
    BY <1>4 DEF Validated, ValidationFails, Accepts
  <2>. QED
    BY <1>4, <2>1, DestroyedInv
<1>5. CASE t = s /\ \E i \in 1 .. MaxUp : Validated(s, i) \/ ValidationFails(s, i)
  BY <1>1, <1>4, <1>5 DEF Waits
<1>6. ASSUME t = s, \/ Authenticate(s) \/ AuthenticateAgain(s) \/ GetStates(s)
                    \/ Subscribe(s) \/ Unsubscribe(s) \/ CallService(s)
      PROVE  up[t] # <<>> /\ up'[t] = Tail(up[t])
  BY <1>6 DEF Authenticate, AuthenticateAgain, GetStates, Subscribe, Unsubscribe, CallService,
              Handling, Taken, TypeOK
<1>7. CASE t = s /\ (Authenticate(s) \/ AuthenticateAgain(s) \/ CallService(s))
  <2>1. Head(up[t]).type \in {"auth", "call_service"} /\ listeners' = listeners
    BY <1>7 DEF Authenticate, AuthenticateAgain, CallService, Handling
  <2>2. Waits(t, "subscribe_events") => Waits(t, "subscribe_events")'
    BY <1>6, <1>7, <2>1, TailWaits
  <2>3. Waits(t, "get_states") => Waits(t, "get_states")'
    BY <1>6, <1>7, <2>1, TailWaits
  <2>. QED
    BY <1>1, <2>1, <2>2, <2>3
<1>8. CASE t = s /\ GetStates(s)
  <2>1. Head(up[t]).type = "get_states" /\ listeners' = listeners /\ Head(up[t]) \in Request
    BY <1>6, <1>8, TakenType DEF GetStates, Handling
  <2>. DEFINE m == [type |-> "states", id |-> Head(up[s]).id, states |-> states]
  <2>2. m \in Reply /\ m.type = "states" /\ m.states = states /\ down' = Sent(t, m)
    BY <1>8, <2>1 DEF GetStates, Reply, Request, TypeOK
  <2>. HIDE DEF m
  <2>3. Waits(t, "subscribe_events") => Waits(t, "subscribe_events")'
    BY <1>6, <1>8, <2>1, TailWaits
  <2>. QED
    BY <1>1, <2>1, <2>2, <2>3
<1>9. CASE t = s /\ Subscribe(s)
  <2>. DEFINE id == Head(up[s]).id
  <2>1. Head(up[t]).type = "subscribe_events" /\ Head(up[t]) \in Request /\ id \in Ids
        /\ listeners'[t] = WithListener(listeners[t], id)
    BY <1>6, <1>9, TakenType DEF Subscribe, Handling, Request, TypeOK
  <2>. HIDE DEF id
  <2>2. listeners'[t] # <<>>
    <3>1. listeners[t] \in Seq(Ids) /\ IsInjective(listeners[t])
      BY DEF TypeOK, GatewayInv, ListenersMatchSubscriptions
    <3>2. ToSet(WithListener(listeners[t], id)) = ToSet(listeners[t]) \cup {id}
      BY <2>1, <3>1, ListenerPut
    <3>3. ToSet(<<>>) = {}
      BY DEF ToSet
    <3>. QED
      BY <2>1, <3>2, <3>3
  <2>3. Waits(t, "get_states") => Waits(t, "get_states")'
    BY <1>6, <1>9, <2>1, TailWaits
  <2>. QED
    BY <1>1, <2>2, <2>3
<1>10. CASE t = s /\ Unsubscribe(s)
  <2>1. Head(up[t]).type = "unsubscribe_events" /\ 1 \in DOMAIN up[t] /\ up[t][1] = Head(up[t])
    BY <1>6, <1>10, TailOf DEF Unsubscribe, Handling, TypeOK
  <2>. QED
    BY <2>1 DEF Waits
<1>. QED
  BY <1>2, <1>3, <1>5, <1>7, <1>8, <1>9, <1>10 DEF HubStep, Handle
-----------------------------------------------------------------------------
(* The client: ids, and what they say of a message.                        *)
LEMMA MessageIds ==
    /\ Ids \subseteq Nat /\ MaxId \in Nat /\ Ids = 1 .. MaxId
    /\ \A m \in Request : m.type # "auth" => m.id \in Ids
    /\ \A m \in Reply : m.type \in {"states", "result", "event"} => m.id \in Ids
BY HaContextAssumption DEF Request, Reply

(* What a step may put on the way for the ids to remain the client's own.  *)
NewRequest(m) ==
    \/ m.type = "auth"
    \/ m.type = "call_service" /\ m.id < cmdId'
    \/ m.type \in {"get_states", "subscribe_events"} /\ m.id < cmdId' /\ m.id \notin pending'

NewReply(m) ==
    \/ m.type \in {"auth_required", "auth_ok", "auth_invalid", "event"}
    \/ m.type = "states" /\ m.id < cmdId' /\ m.id \notin pending'
    \/ /\ m.type = "result" /\ m.id < cmdId'
       /\ m.id \in pending' /\ m.success => m.id \in succeeded'

LEMMA IdsStay ==
    ASSUME TypeOK, ClientTypeOK, IdsAreOwn, cmdId' \in Nat, cmdId <= cmdId',
           pending' \subseteq Ids,
           \A id \in pending' : id < cmdId' /\ (id \in pending \/ cmdId <= id),
           succeeded \subseteq succeeded',
           \A i \in DOMAIN buffer' :
              (\E k \in DOMAIN buffer : buffer'[i] = buffer[k]) \/ NewRequest(buffer'[i]),
           \A c \in calls' : c \in calls \/ c[2] < cmdId',
           \A t \in Sockets : \A i \in DOMAIN up'[t] :
              \/ \E k \in DOMAIN up[t] : up'[t][i] = up[t][k]
              \/ \E k \in DOMAIN buffer : up'[t][i] = buffer[k]
              \/ NewRequest(up'[t][i]),
           \A t \in Sockets : \A i \in DOMAIN down'[t] :
              (\E k \in DOMAIN down[t] : down'[t][i] = down[t][k]) \/ NewReply(down'[t][i])
    PROVE  IdsAreOwn'
<1>1. cmdId \in Nat /\ pending \subseteq Nat /\ pending' \subseteq Nat
  BY MessageIds DEF ClientTypeOK
<1>2. ASSUME NEW m \in Request, Asked(m)
      PROVE  NewRequest(m)
  <2>1. m.type # "auth" => m.id \in Nat
    BY MessageIds
  <2>. QED
    BY <1>1, <1>2, <2>1 DEF Asked, NewRequest
<1>3. ASSUME NEW m \in Reply, Answered(m)
      PROVE  NewReply(m)
  <2>1. m.type \in {"states", "result", "event"} => m.id \in Nat
    BY MessageIds
  <2>2. m.type \in {"auth_required", "auth_ok", "auth_invalid", "states", "result", "event"}
    BY DEF Reply
  <2>. QED
    BY <1>1, <1>3, <2>1, <2>2 DEF Answered, NewReply
<1>4. ASSUME NEW i \in DOMAIN buffer'
      PROVE  NewRequest(buffer'[i])
  BY <1>2 DEF IdsAreOwn, ClientTypeOK
<1>5. ASSUME NEW t \in Sockets, NEW i \in DOMAIN up'[t]
      PROVE  NewRequest(up'[t][i])
  <2>1. \A k \in DOMAIN up[t] : NewRequest(up[t][k])
    BY <1>2 DEF IdsAreOwn, TypeOK
  <2>2. \A k \in DOMAIN buffer : NewRequest(buffer[k])
    BY <1>2 DEF IdsAreOwn, ClientTypeOK
  <2>. QED
    BY <2>1, <2>2
<1>6. ASSUME NEW t \in Sockets, NEW i \in DOMAIN down'[t]
      PROVE  NewReply(down'[t][i])
  <2>1. \A k \in DOMAIN down[t] : NewReply(down[t][k])
    BY <1>3 DEF IdsAreOwn, TypeOK
  <2>. QED
    BY <2>1
<1>7. \A c \in calls' : c[2] < cmdId'
  <2>1. ASSUME NEW c \in calls
        PROVE  c[2] < cmdId'
    BY <1>1, MessageIds DEF IdsAreOwn, TypeOK
  <2>. QED
    BY <2>1
<1>8. \A i \in DOMAIN buffer' : Asked(buffer[i])'
  BY <1>4 DEF Asked, NewRequest
<1>9. \A t \in Sockets : \A i \in DOMAIN up'[t] : Asked(up[t][i])'
  BY <1>5 DEF Asked, NewRequest
<1>10. \A t \in Sockets : \A i \in DOMAIN down'[t] : Answered(down[t][i])'
  BY <1>6 DEF Answered, NewReply
<1>. QED
  BY <1>7, <1>8, <1>9, <1>10 DEF IdsAreOwn

(* The client's own invariant, with its types.                             *)
UIInv == Sound /\ ClientTypeOK /\ ClientInv

LEMMA UIInvAtFirst == Init => UIInv
<1>. SUFFICES ASSUME Init
              PROVE  UIInv
  OBVIOUS
<1>1. Sound
  BY SoundAtFirst DEF Init
<1>2. ClientTypeOK
  <2>1. view \in States
    BY HaGatewayAssumption DEF Init, NoStates, States
  <2>2. <<>> \in Seq(Request) /\ 1 \in 1 .. MaxId + 1
    BY MessageIds
  <2>. QED
    BY <2>1, <2>2 DEF Init, ClientTypeOK
<1>3. ClientInv
  BY DEF Init, GatewayInit, ClientInv, OneConnection, IdsAreOwn, ReportedWasExecuted
<1>. QED
  BY <1>1, <1>2, <1>3 DEF UIInv

LEMMA SoundStays == Sound /\ UNCHANGED gatewayVars => Sound'
BY DEF gatewayVars, serverVars, netVars, Sound, TypeOK, GatewayInv, ListenersMatchSubscriptions,
       NothingToStrangers, OnlyProvenReceive, InvalidIsLast, CommandsAreProven, RefusedAreOut,
       LiveAreOpened, Live

(* The actions.                                                            *)
LEMMA IdleStep ==
    ASSUME UIInv, UNCHANGED <<gatewayVars, ws, ready, cmdId, buffer, succeeded, reported>>,
           token' \in Tokens \cup {0}, token # 0 => token' # 0, view' \in States,
           pending' \subseteq pending
    PROVE  UIInv'
<1>. USE DEF UIInv, gatewayVars, serverVars, netVars
<1>1. Sound'
  BY SoundStays
<1>2. ClientTypeOK' /\ OneConnection' /\ ReportedWasExecuted'
  BY DEF ClientTypeOK, ClientInv, OneConnection, ReportedWasExecuted
<1>3. IdsAreOwn'
  BY IdsStay, MessageIds DEF Sound, ClientTypeOK, ClientInv, IdsAreOwn
<1>. QED
  BY <1>1, <1>2, <1>3 DEF ClientInv

LEMMA OpenStep == UIInv /\ Open => UIInv'
<1>. SUFFICES ASSUME UIInv, Open
              PROVE  UIInv'
  OBVIOUS
<1>. USE DEF UIInv
<1>1. Sound'
  BY ConnectKeeps DEF Open, ClientTypeOK
<1>2. /\ opened + 1 \in Sockets /\ opened' = opened + 1 /\ ws' = opened + 1 /\ ws = 0 /\ token # 0
      /\ peers' = peers \cup {opened + 1} /\ calls' = calls
      /\ up' = [up EXCEPT ![opened + 1] = buffer]
      /\ down' = [down EXCEPT ![opened + 1] = <<[type |-> "auth_required"]>>]
      /\ buffer' = <<>> /\ cmdId' = cmdId
      /\ UNCHANGED <<token, ready, view, pending, succeeded, reported>>
  BY DEF Open, Connect, ContinuedIds
<1>3. ClientTypeOK'
  BY <1>2 DEF ClientTypeOK
<1>4. OneConnection' /\ ReportedWasExecuted'
  BY <1>2, HaGatewayAssumption DEF ClientInv, OneConnection, ReportedWasExecuted, Sockets
<1>5. IdsAreOwn'
  <2>. DEFINE s == opened + 1
  <2>1. \A t \in Sockets : up'[t] = IF t = s THEN buffer ELSE up[t]
    BY <1>2 DEF Sound, TypeOK
  <2>2. \A t \in Sockets :
           down'[t] = IF t = s THEN <<[type |-> "auth_required"]>> ELSE down[t]
    BY <1>2 DEF Sound, TypeOK
  <2>. HIDE DEF s
  <2>3. NewReply([type |-> "auth_required"])
    BY DEF NewReply
  <2>4. \A t \in Sockets : \A i \in DOMAIN down'[t] :
           (\E k \in DOMAIN down[t] : down'[t][i] = down[t][k]) \/ NewReply(down'[t][i])
    BY <2>2, <2>3
  <2>5. \A t \in Sockets : \A i \in DOMAIN up'[t] :
              \/ \E k \in DOMAIN up[t] : up'[t][i] = up[t][k]
              \/ \E k \in DOMAIN buffer : up'[t][i] = buffer[k]
              \/ NewRequest(up'[t][i])
    BY <2>1
  <2>. QED
    BY <1>2, <2>4, <2>5, IdsStay, MessageIds DEF Sound, ClientTypeOK, ClientInv, IdsAreOwn
<1>. QED
  BY <1>1, <1>3, <1>4, <1>5 DEF ClientInv

LEMMA ClosedComes ==
    ASSUME TypeOK, NEW s \in Sockets, Closed(s), NEW t \in Sockets
    PROVE  down'[t] = <<>> \/ down'[t] = down[t]
BY DEF Closed, TypeOK

LEMMA DropStep == UIInv /\ Drop => UIInv'
<1>. SUFFICES ASSUME UIInv, Drop
              PROVE  UIInv'
  OBVIOUS
<1>. USE DEF UIInv, serverVars
<1>1. ws \in Sockets /\ Closed(ws) /\ ws' = 0 /\ ready' = FALSE
      /\ UNCHANGED <<opened, up, serverVars, token, view, cmdId, pending, buffer, succeeded,
                     reported>>
  BY DEF Drop, ClientTypeOK
<1>2. Sound'
  BY <1>1, ClientKeeps DEF Sound, TypeOK
<1>3. ClientTypeOK' /\ OneConnection' /\ ReportedWasExecuted'
  BY <1>1 DEF ClientTypeOK, ClientInv, OneConnection, ReportedWasExecuted, Closed
<1>4. IdsAreOwn'
  <2>1. \A t \in Sockets : down'[t] = <<>> \/ down'[t] = down[t]
    BY <1>1, ClosedComes DEF Sound
  <2>. QED
    BY <1>1, <2>1, IdsStay, MessageIds DEF Sound, ClientTypeOK, ClientInv, IdsAreOwn
<1>. QED
  BY <1>2, <1>3, <1>4 DEF ClientInv

LEMMA LoggedOutStep == UIInv /\ LoggedOut => UIInv'
<1>. SUFFICES ASSUME UIInv, LoggedOut
              PROVE  UIInv'
  OBVIOUS
<1>. USE DEF UIInv, serverVars
<1>1. /\ token' = 0 /\ ws' = 0 /\ ready' = FALSE
      /\ view' = NoStates /\ pending' = {} /\ buffer' = <<>>
      /\ IF ws # 0 THEN ws \in Sockets /\ Closed(ws) ELSE UNCHANGED <<peers, down>>
      /\ UNCHANGED <<opened, up, serverVars, cmdId, succeeded, reported>>
  BY DEF LoggedOut, ClientTypeOK
<1>2. Sound'
  <2>1. CASE ws = 0
    BY <1>1, <2>1, SoundStays DEF gatewayVars, netVars
  <2>2. CASE ws # 0
    BY <1>1, <2>2, ClientKeeps DEF Sound, TypeOK
  <2>. QED
    BY <2>1, <2>2
<1>3. ClientTypeOK'
  <2>1. NoStates \in States /\ <<>> \in Seq(Request)
    BY HaGatewayAssumption DEF NoStates, States
  <2>. QED
    BY <1>1, <2>1 DEF ClientTypeOK
<1>4. OneConnection' /\ ReportedWasExecuted'
  BY <1>1 DEF ClientInv, OneConnection, ReportedWasExecuted, Closed
<1>5. IdsAreOwn'
  <2>1. \A t \in Sockets : down'[t] = <<>> \/ down'[t] = down[t]
    BY <1>1, ClosedComes DEF Sound
  <2>2. DOMAIN buffer' = {} /\ cmdId' = cmdId /\ cmdId \in Nat /\ pending' = {}
    BY <1>1, MessageIds DEF ClientTypeOK
  <2>3. /\ \A t \in Sockets : \A i \in DOMAIN down'[t] :
              \E k \in DOMAIN down[t] : down'[t][i] = down[t][k]
        /\ up' = up /\ calls' = calls /\ succeeded' = succeeded
    BY <1>1, <2>1
  <2>. QED
    BY <2>2, <2>3, IdsStay DEF Sound, ClientInv
<1>. QED
  BY <1>2, <1>3, <1>4, <1>5 DEF ClientInv

(* r is the queue q with msgs behind it.                                   *)
Joins(r, q, msgs) ==
    /\ \A i \in DOMAIN r : \/ \E k \in DOMAIN q : r[i] = q[k]
                          \/ \E k \in DOMAIN msgs : r[i] = msgs[k]
    /\ \A k \in DOMAIN q : k \in DOMAIN r /\ r[k] = q[k]
    /\ \A k \in DOMAIN msgs : \E i \in DOMAIN r : r[i] = msgs[k]

LEMMA Joined ==
    ASSUME NEW S, NEW q \in Seq(S), NEW msgs \in Seq(S)
    PROVE  q \o msgs \in Seq(S) /\ Joins(q \o msgs, q, msgs)
<1>. DEFINE r == q \o msgs
<1>1. /\ r \in Seq(S) /\ Len(r) = Len(q) + Len(msgs)
      /\ \A i \in 1 .. Len(q) + Len(msgs) :
            r[i] = IF i <= Len(q) THEN q[i] ELSE msgs[i - Len(q)]
  BY ConcatProperties, Zenon
<1>2. Len(q) \in Nat /\ Len(msgs) \in Nat /\ DOMAIN q = 1 .. Len(q) /\ DOMAIN msgs = 1 .. Len(msgs)
  OBVIOUS
<1>. HIDE DEF r
<1>3. DOMAIN r = 1 .. Len(q) + Len(msgs)
  BY <1>1
<1>4. ASSUME NEW i \in DOMAIN r
      PROVE  (\E k \in DOMAIN q : r[i] = q[k]) \/ \E k \in DOMAIN msgs : r[i] = msgs[k]
  <2>1. CASE i <= Len(q)
    BY <1>1, <1>2, <1>3, <2>1
  <2>2. CASE ~(i <= Len(q))
    <3>1. i - Len(q) \in DOMAIN msgs /\ r[i] = msgs[i - Len(q)]
      BY <1>1, <1>2, <1>3, <2>2
    <3>. QED
      BY <3>1
  <2>. QED
    BY <2>1, <2>2
<1>5. ASSUME NEW k \in DOMAIN q
      PROVE  k \in DOMAIN r /\ r[k] = q[k]
  BY <1>1, <1>2, <1>3
<1>6. ASSUME NEW k \in DOMAIN msgs
      PROVE  \E i \in DOMAIN r : r[i] = msgs[k]
  <2>1. Len(q) + k \in DOMAIN r /\ ~(Len(q) + k <= Len(q)) /\ Len(q) + k - Len(q) = k
    BY <1>2, <1>3
  <2>2. r[Len(q) + k] = msgs[k]
    BY <1>1, <1>3, <2>1
  <2>. QED
    BY <2>1, <2>2
<1>. QED
  BY <1>1, <1>4, <1>5, <1>6 DEF r, Joins

(* What the client sends joins what is on its way to the hub.              *)
LEMMA SendAdds ==
    ASSUME TypeOK, ws \in Sockets, NEW msgs \in Seq(Request), Send(msgs)
    PROVE  /\ up' \in [Sockets -> Seq(Request)]
           /\ \A t \in Sockets : \A i \in DOMAIN up'[t] :
                 \/ \E k \in DOMAIN up[t] : up'[t][i] = up[t][k]
                 \/ \E k \in DOMAIN msgs : up'[t][i] = msgs[k]
           /\ \A t \in Sockets : \A k \in DOMAIN up[t] :
                 k \in DOMAIN up'[t] /\ up'[t][k] = up[t][k]
           /\ \A k \in DOMAIN msgs : \E i \in DOMAIN up'[ws] : up'[ws][i] = msgs[k]
<1>. DEFINE r == up[ws] \o msgs
<1>1. r \in Seq(Request) /\ Joins(r, up[ws], msgs)
  <2>1. up[ws] \in Seq(Request)
    BY DEF TypeOK
  <2>. QED
    BY <2>1, Joined, Zenon
<1>2. up' = [up EXCEPT ![ws] = r]
  BY DEF Send
<1>. HIDE DEF r
<1>3. \A t \in Sockets : up'[t] = IF t = ws THEN r ELSE up[t]
  BY <1>2 DEF TypeOK
<1>4. up' \in [Sockets -> Seq(Request)]
  BY <1>1, <1>2 DEF TypeOK
<1>5. ASSUME NEW t \in Sockets
      PROVE  /\ \A i \in DOMAIN up'[t] : \/ \E k \in DOMAIN up[t] : up'[t][i] = up[t][k]
                                        \/ \E k \in DOMAIN msgs : up'[t][i] = msgs[k]
             /\ \A k \in DOMAIN up[t] : k \in DOMAIN up'[t] /\ up'[t][k] = up[t][k]
  <2>1. CASE t = ws
    <3>1. up'[t] = r /\ up[t] = up[ws]
      BY <1>3, <2>1
    <3>. QED
      BY <1>1, <3>1 DEF Joins
  <2>2. CASE t # ws
    BY <1>3, <2>2
  <2>. QED
    BY <2>1, <2>2
<1>6. \A k \in DOMAIN msgs : \E i \in DOMAIN up'[ws] : up'[ws][i] = msgs[k]
  <2>1. up'[ws] = r
    BY <1>3
  <2>. QED
    BY <1>1, <2>1 DEF Joins
<1>. QED
  BY <1>4, <1>5, <1>6

(* A call is made with room for its id.                                    *)
LEMMA CallId ==
    ASSUME TypeOK, ClientTypeOK, Call
    PROVE  cmdId \in Ids /\ cmdId \in Nat /\ cmdId + 1 \in 1 .. MaxId + 1
<1>1. opened \in 0 .. MaxSockets /\ MaxSockets \in Nat
  BY HaGatewayAssumption DEF TypeOK, Sockets
<1>2. cmdId + 2 * (MaxSockets - opened) <= MaxId
  <2>1. cmdId + 2 * (MaxSockets - opened) + (IF ready THEN 0 ELSE 2) <= MaxId
    BY DEF Call, RoomForCall
  <2>. QED
    BY <1>1, <2>1, MessageIds DEF ClientTypeOK
<1>. QED
  BY <1>1, <1>2, MessageIds DEF ClientTypeOK

LEMMA CallStep == UIInv /\ Call => UIInv'
<1>. SUFFICES ASSUME UIInv, Call
              PROVE  UIInv'
  OBVIOUS
<1>. USE DEF UIInv, serverVars
<1>. DEFINE m == [type |-> "call_service", id |-> cmdId]
<1>1. /\ IF ws # 0 THEN Send(<<m>>) /\ UNCHANGED buffer
         ELSE buffer' = Append(buffer, m) /\ UNCHANGED up
      /\ cmdId' = cmdId + 1 /\ pending' = pending \cup {cmdId}
      /\ UNCHANGED <<opened, peers, down, serverVars, token, ws, ready, view, succeeded, reported>>
  BY DEF Call
<1>2. cmdId \in Ids /\ cmdId \in Nat /\ cmdId + 1 \in 1 .. MaxId + 1
  BY CallId DEF Sound
<1>3. m \in Request /\ m.type = "call_service" /\ m.id = cmdId
  BY <1>2 DEF Request
<1>4. NewRequest(m)
  BY <1>1, <1>2, <1>3 DEF NewRequest
<1>. HIDE DEF m
<1>5. /\ up' \in [Sockets -> Seq(Request)]
      /\ \A t \in Sockets : \A i \in DOMAIN up'[t] :
            (\E k \in DOMAIN up[t] : up'[t][i] = up[t][k]) \/ NewRequest(up'[t][i])
  <2>1. CASE ws = 0
    BY <1>1, <2>1 DEF Sound, TypeOK
  <2>2. CASE ws # 0
    <3>1. <<m>> \in Seq(Request) /\ ws \in Sockets /\ DOMAIN <<m>> = {1} /\ <<m>>[1] = m
      BY <1>3, <2>2 DEF ClientTypeOK
    <3>2. Send(<<m>>) /\ TypeOK
      BY <1>1, <2>2 DEF Sound
    <3>3. /\ up' \in [Sockets -> Seq(Request)]
          /\ \A t \in Sockets : \A i \in DOMAIN up'[t] :
                \/ \E k \in DOMAIN up[t] : up'[t][i] = up[t][k]
                \/ \E k \in DOMAIN <<m>> : up'[t][i] = <<m>>[k]
      BY <3>1, <3>2, SendAdds, Zenon
    <3>. QED
      BY <1>4, <3>1, <3>3
  <2>. QED
    BY <2>1, <2>2
<1>6. /\ buffer' \in Seq(Request)
      /\ \A i \in DOMAIN buffer' : (\E k \in DOMAIN buffer : buffer'[i] = buffer[k])
                                   \/ NewRequest(buffer'[i])
  <2>1. CASE ws # 0
    BY <1>1, <2>1 DEF ClientTypeOK
  <2>2. CASE ws = 0
    <3>1. buffer \in Seq(Request) /\ buffer' = Append(buffer, m)
      BY <1>1, <2>2 DEF ClientTypeOK
    <3>2. /\ buffer' \in Seq(Request) /\ DOMAIN buffer' = 1 .. Len(buffer) + 1
          /\ Len(buffer) \in Nat /\ DOMAIN buffer = 1 .. Len(buffer)
          /\ \A i \in 1 .. Len(buffer) : buffer'[i] = buffer[i]
          /\ buffer'[Len(buffer) + 1] = m
      BY <1>3, <3>1
    <3>3. ASSUME NEW i \in DOMAIN buffer'
          PROVE  i \in DOMAIN buffer \/ i = Len(buffer) + 1
      BY <3>2
    <3>. QED
      BY <1>4, <3>2, <3>3
  <2>. QED
    BY <2>1, <2>2
<1>7. Sound'
  <2>1. CASE ws = 0
    BY <1>1, <2>1, SoundStays DEF gatewayVars, netVars
  <2>2. CASE ws # 0
    BY <1>1, <1>5, <2>2, ClientKeeps DEF ClientTypeOK
  <2>. QED
    BY <2>1, <2>2
<1>8. ClientTypeOK' /\ OneConnection' /\ ReportedWasExecuted'
  BY <1>1, <1>2, <1>6 DEF ClientTypeOK, ClientInv, OneConnection, ReportedWasExecuted
<1>9. IdsAreOwn'
  <2>1. pending' \subseteq Ids /\ \A id \in pending' : id < cmdId' /\ (id \in pending \/ cmdId <= id)
    <3>1. \A id \in pending : id < cmdId /\ id \in Nat
      BY MessageIds DEF ClientTypeOK, ClientInv, IdsAreOwn
    <3>2. pending \subseteq Ids /\ pending' = pending \cup {cmdId} /\ cmdId' = cmdId + 1
      BY <1>1 DEF ClientTypeOK
    <3>3. ASSUME NEW id \in pending'
          PROVE  id < cmdId' /\ (id \in pending \/ cmdId <= id)
      <4>1. CASE id = cmdId
        BY <1>2, <3>2, <4>1
      <4>2. CASE id # cmdId
        <5>1. id \in pending /\ id < cmdId /\ id \in Nat
          BY <3>1, <3>2, <3>3, <4>2
        <5>. QED
          BY <1>2, <3>2, <5>1
      <4>. QED
        BY <4>1, <4>2
    <3>. QED
      BY <1>2, <3>2, <3>3
  <2>2. cmdId' \in Nat /\ cmdId <= cmdId' /\ calls' = calls /\ down' = down /\ succeeded' = succeeded
    BY <1>1, <1>2
  <2>. QED
    BY <1>5, <1>6, <2>1, <2>2, IdsStay DEF Sound, ClientInv
<1>. QED
  BY <1>7, <1>8, <1>9 DEF ClientInv

(* The client takes the oldest message.                                    *)
LEMMA MessageTaken ==
    ASSUME TypeOK, ClientTypeOK, NEW i, NEW types, Message(i, types)
    PROVE  /\ ws \in Sockets /\ i = 1 /\ 1 \in DOMAIN down[ws]
           /\ down[ws][1] \in Reply /\ down[ws][1].type \in types
           /\ down' = [down EXCEPT ![ws] = RemoveAt(@, 1)]
           /\ \A t \in Sockets : t # ws => down'[t] = down[t]
           /\ \A j \in DOMAIN down'[ws] : j + 1 \in DOMAIN down[ws] /\ down'[ws][j] = down[ws][j + 1]
           /\ \A k \in DOMAIN down[ws] : k # 1 => k - 1 \in DOMAIN down'[ws]
                                                  /\ down'[ws][k - 1] = down[ws][k]
<1>1. /\ ws \in Sockets /\ i = 1 /\ 1 \in DOMAIN down[ws]
      /\ down[ws][1] \in Reply /\ down[ws][1].type \in types
      /\ down' = [down EXCEPT ![ws] = RemoveAt(@, 1)]
  BY DEF Message, FirstMessage, ClientTypeOK, TypeOK
<1>2. down[ws] \in Seq(Reply) /\ \A t \in Sockets : t # ws => down'[t] = down[t]
  BY <1>1 DEF TypeOK
<1>3. down'[ws] = RemoveAt(down[ws], 1)
  BY <1>1 DEF TypeOK
<1>. DEFINE q == down[ws]
            n == Len(q)
            r == RemoveAt(q, 1)
<1>4. r \in Seq(Reply) /\ Len(r) = n - 1
      /\ \A j \in 1 .. n - 1 : r[j] = IF j < 1 THEN q[j] ELSE q[j + 1]
  BY <1>1, <1>2, WithoutElement
<1>5. n \in Nat /\ DOMAIN q = 1 .. n
  BY <1>2
<1>. HIDE DEF q, r, n
<1>6. DOMAIN r = 1 .. n - 1
  BY <1>4 DEF n
<1>7. ASSUME NEW j \in DOMAIN r
      PROVE  j + 1 \in DOMAIN q /\ r[j] = q[j + 1]
  BY <1>4, <1>5, <1>6
<1>8. ASSUME NEW k \in DOMAIN q, k # 1
      PROVE  k - 1 \in DOMAIN r /\ r[k - 1] = q[k]
  <2>1. k - 1 \in 1 .. n - 1 /\ k - 1 + 1 = k /\ ~(k - 1 < 1)
    BY <1>5, <1>8
  <2>. QED
    BY <1>4, <1>6, <2>1
<1>9. q = down[ws] /\ r = down'[ws]
  BY <1>3 DEF q, r
<1>. QED
  BY <1>1, <1>2, <1>7, <1>8, <1>9

LEMMA TakenComes ==
    ASSUME TypeOK, ClientTypeOK, NEW i, NEW types, Message(i, types), NEW t \in Sockets,
           NEW j \in DOMAIN down'[t]
    PROVE  \E k \in DOMAIN down[t] : down'[t][j] = down[t][k]
<1>1. CASE t = ws
  BY <1>1, MessageTaken
<1>2. CASE t # ws
  BY <1>2, MessageTaken
<1>. QED
  BY <1>1, <1>2

LEMMA OnAuthRequiredStep == UIInv /\ (\E i \in 1 .. MaxDown : OnAuthRequired(i)) => UIInv'
<1>. SUFFICES ASSUME UIInv, NEW i \in 1 .. MaxDown, OnAuthRequired(i)
              PROVE  UIInv'
  OBVIOUS
<1>. USE DEF UIInv, serverVars
<1>1. /\ Message(i, {"auth_required"}) /\ Send(Hello) /\ ws \in Sockets
      /\ UNCHANGED <<opened, peers, serverVars, clientVars, succeeded>>
  BY MessageTaken DEF OnAuthRequired, Sound
<1>2. Hello \in Seq(Request) /\ DOMAIN Hello = {1} /\ NewRequest(Hello[1])
  <2>. DEFINE m == [type |-> "auth", token |-> token]
  <2>1. token \in Tokens
    BY <1>1 DEF ClientTypeOK, ClientInv, OneConnection, Message
  <2>2. m \in Request /\ m.type = "auth"
    BY <2>1 DEF Request
  <2>3. NewRequest(m)
    BY <2>2 DEF NewRequest
  <2>4. Hello = <<m>>
    BY DEF Hello
  <2>. HIDE DEF m
  <2>. QED
    BY <2>2, <2>3, <2>4
<1>3. /\ up' \in [Sockets -> Seq(Request)]
      /\ \A t \in Sockets : \A j \in DOMAIN up'[t] :
            \/ \E k \in DOMAIN up[t] : up'[t][j] = up[t][k]
            \/ \E k \in DOMAIN Hello : up'[t][j] = Hello[k]
  BY <1>1, <1>2, SendAdds, Zenon DEF Sound
<1>4. Sound'
  BY <1>1, <1>3, ClientKeeps, MessageTaken DEF Sound
<1>5. ClientTypeOK' /\ OneConnection' /\ ReportedWasExecuted'
  BY <1>1 DEF clientVars, ClientTypeOK, ClientInv, OneConnection, ReportedWasExecuted
<1>6. IdsAreOwn'
  <2>1. \A t \in Sockets : \A j \in DOMAIN down'[t] : \E k \in DOMAIN down[t] : down'[t][j] = down[t][k]
    BY <1>1, TakenComes DEF Sound
  <2>2. \A t \in Sockets : \A j \in DOMAIN up'[t] :
           (\E k \in DOMAIN up[t] : up'[t][j] = up[t][k]) \/ NewRequest(up'[t][j])
    BY <1>2, <1>3
  <2>3. /\ cmdId' = cmdId /\ cmdId \in Nat /\ pending' = pending /\ pending \subseteq Ids
        /\ buffer' = buffer /\ calls' = calls /\ succeeded' = succeeded
        /\ \A id \in pending : id < cmdId
    BY <1>1, MessageIds DEF clientVars, ClientTypeOK, ClientInv, IdsAreOwn
  <2>. QED
    BY <2>1, <2>2, <2>3, IdsStay DEF Sound, ClientInv
<1>. QED
  BY <1>4, <1>5, <1>6 DEF ClientInv

LEMMA OnAuthOkStep == UIInv /\ (\E i \in 1 .. MaxDown : OnAuthOk(i)) => UIInv'
<1>. SUFFICES ASSUME UIInv, NEW i \in 1 .. MaxDown, OnAuthOk(i)
              PROVE  UIInv'
  OBVIOUS
<1>. USE DEF UIInv, serverVars
<1>. DEFINE g == [type |-> "get_states", id |-> cmdId]
            b == [type |-> "subscribe_events", id |-> cmdId + 1]
<1>1. /\ Message(i, {"auth_ok"}) /\ Send(<<g, b>>) /\ ws \in Sockets /\ ready' = TRUE
      /\ cmdId + 1 \in Ids /\ cmdId' = cmdId + 2
      /\ UNCHANGED <<opened, peers, serverVars, token, ws, view, pending, buffer, succeeded,
                     reported>>
  BY MessageTaken DEF OnAuthOk, Sound
<1>2. /\ cmdId \in Ids /\ cmdId \in Nat /\ cmdId + 2 \in 1 .. MaxId + 1
      /\ pending \subseteq Ids /\ \A id \in pending : id < cmdId /\ id \in Nat
  BY <1>1, MessageIds DEF ClientTypeOK, ClientInv, IdsAreOwn
<1>3. g \in Request /\ b \in Request /\ NewRequest(g) /\ NewRequest(b)
  <2>1. g \in Request /\ b \in Request
    BY <1>1, <1>2 DEF Request
  <2>2. cmdId \notin pending' /\ cmdId + 1 \notin pending' /\ cmdId < cmdId' /\ cmdId + 1 < cmdId'
    BY <1>1, <1>2
  <2>. QED
    BY <2>1, <2>2 DEF NewRequest
<1>. HIDE DEF g, b
<1>4. <<g, b>> \in Seq(Request) /\ \A k \in DOMAIN <<g, b>> : NewRequest(<<g, b>>[k])
  BY <1>3
<1>5. /\ up' \in [Sockets -> Seq(Request)]
      /\ \A t \in Sockets : \A j \in DOMAIN up'[t] :
            \/ \E k \in DOMAIN up[t] : up'[t][j] = up[t][k]
            \/ \E k \in DOMAIN <<g, b>> : up'[t][j] = <<g, b>>[k]
  BY <1>1, <1>4, SendAdds, Zenon DEF Sound
<1>6. Sound'
  BY <1>1, <1>5, ClientKeeps, MessageTaken DEF Sound
<1>7. ClientTypeOK' /\ OneConnection' /\ ReportedWasExecuted'
  BY <1>1, <1>2 DEF ClientTypeOK, ClientInv, OneConnection, ReportedWasExecuted, Message
<1>8. IdsAreOwn'
  <2>1. \A t \in Sockets : \A j \in DOMAIN down'[t] : \E k \in DOMAIN down[t] : down'[t][j] = down[t][k]
    BY <1>1, TakenComes DEF Sound
  <2>2. \A t \in Sockets : \A j \in DOMAIN up'[t] :
           (\E k \in DOMAIN up[t] : up'[t][j] = up[t][k]) \/ NewRequest(up'[t][j])
    BY <1>4, <1>5
  <2>3. \A id \in pending' : id < cmdId' /\ id \in pending
    BY <1>1, <1>2
  <2>. QED
    BY <1>1, <1>2, <2>1, <2>2, <2>3, IdsStay DEF Sound, ClientInv
<1>. QED
  BY <1>6, <1>7, <1>8 DEF ClientInv

LEMMA OnDataStep == UIInv /\ (\E i \in 1 .. MaxDown : OnData(i)) => UIInv'
<1>. SUFFICES ASSUME UIInv, NEW i \in 1 .. MaxDown, OnData(i)
              PROVE  UIInv'
  OBVIOUS
<1>. USE DEF UIInv, serverVars
<1>1. /\ Message(i, {"states", "result", "event"}) /\ ws \in Sockets
      /\ UNCHANGED <<opened, peers, up, serverVars, token, ws, ready, cmdId, buffer, succeeded>>
  BY MessageTaken DEF OnData, Sound
<1>2. PICK m : m = down[ws][1]
  OBVIOUS
<1>3. /\ m \in Reply /\ m.type \in {"states", "result", "event"}
      /\ IF m.type # "event" /\ m.id \in pending
         THEN /\ pending' = pending \ {m.id}
              /\ reported' = IF m.type = "states" \/ m.success THEN reported \cup {m.id}
                             ELSE reported
              /\ UNCHANGED view
         ELSE view' = View(m) /\ UNCHANGED <<pending, reported>>
  BY <1>1, <1>2, MessageTaken DEF OnData, Sound
<1>4. Answered(m)
  BY <1>1, <1>2, MessageTaken DEF Sound, ClientInv, IdsAreOwn
<1>5. view' \in States
  <2>1. m.type = "states" => m.states \in States
    BY <1>3 DEF Reply
  <2>2. m.type = "event" => m.entity \in Entities /\ m.new \in 0 .. MaxChanges
    BY <1>3 DEF Reply
  <2>3. View(m) \in States
    BY <1>3, <2>1, <2>2 DEF View, ClientTypeOK, States
  <2>. QED
    BY <1>3, <2>3 DEF ClientTypeOK
<1>6. pending' \subseteq pending /\ reported' \subseteq Ids
  BY <1>3 DEF ClientTypeOK
<1>7. Sound'
  BY <1>1, ClientKeeps, MessageTaken DEF Sound, TypeOK
<1>8. ClientTypeOK' /\ OneConnection'
  BY <1>1, <1>5, <1>6 DEF ClientTypeOK, ClientInv, OneConnection
<1>9. ReportedWasExecuted'
  BY <1>1, <1>3, <1>4 DEF ClientInv, ReportedWasExecuted, Answered
<1>10. IdsAreOwn'
  <2>1. \A t \in Sockets : \A j \in DOMAIN down'[t] : \E k \in DOMAIN down[t] : down'[t][j] = down[t][k]
    BY <1>1, TakenComes DEF Sound
  <2>2. /\ cmdId' = cmdId /\ cmdId \in Nat /\ pending' \subseteq Ids
        /\ buffer' = buffer /\ calls' = calls /\ succeeded' = succeeded /\ up' = up
    BY <1>1, <1>6, MessageIds DEF ClientTypeOK
  <2>3. \A id \in pending' : id < cmdId /\ id \in pending
    BY <1>6 DEF ClientInv, IdsAreOwn
  <2>. QED
    BY <2>1, <2>2, <2>3, IdsStay DEF Sound, ClientInv
<1>. QED
  BY <1>7, <1>8, <1>9, <1>10 DEF ClientInv

(* What a message sent adds to those on the way.                           *)
LEMMA SentGrows ==
    ASSUME TypeOK, NEW s \in Sockets, NEW m \in Reply, down' = Sent(s, m), NEW t \in Sockets
    PROVE  /\ \A k \in DOMAIN down[t] : k \in DOMAIN down'[t] /\ down'[t][k] = down[t][k]
           /\ \A i \in DOMAIN down'[t] : i \in DOMAIN down[t] \/ (t = s /\ down'[t][i] = m)
           /\ t = s /\ s \in peers => \E i \in DOMAIN down'[t] : /\ down'[t][i] = m
                                                               /\ i \notin DOMAIN down[t]
           /\ \A i \in DOMAIN down'[t] : \A k \in DOMAIN down[t] : i \notin DOMAIN down[t] => k < i
<1>1. down[t] \in Seq(Reply)
  BY DEF TypeOK
<1>2. CASE down'[t] = down[t]
  <2>1. ~(t = s /\ s \in peers)
    <3>. SUFFICES ASSUME t = s, s \in peers
                  PROVE  FALSE
      OBVIOUS
    <3>1. down'[s] = Append(down[s], m)
      BY DEF Sent, TypeOK
    <3>2. Len(Append(down[s], m)) = Len(down[s]) + 1 /\ Len(down[s]) \in Nat
      BY <1>1
    <3>3. Len(down'[s]) = Len(down[s])
      BY <1>2
    <3>. QED
      BY <3>1, <3>2, <3>3
  <2>. QED
    BY <1>2, <2>1
<1>3. CASE t = s /\ down'[t] = Append(down[t], m)
  <2>. DEFINE r == down'[t]
              n == Len(down[t])
  <2>1. /\ DOMAIN down[t] = 1 .. n /\ n \in Nat
        /\ DOMAIN r = 1 .. n + 1 /\ r[n + 1] = m
        /\ \A k \in 1 .. n : r[k] = down[t][k]
    BY <1>1, <1>3
  <2>2. \A i \in 1 .. n + 1 : i \in 1 .. n \/ i = n + 1
    BY <2>1
  <2>3. n + 1 \in DOMAIN r /\ n + 1 \notin DOMAIN down[t]
    BY <2>1
  <2>4. \A i \in DOMAIN r : \A k \in DOMAIN down[t] : i \notin DOMAIN down[t] => k < i
    <3>. SUFFICES ASSUME NEW i \in 1 .. n + 1, NEW k \in 1 .. n, i \notin 1 .. n
                  PROVE  k < i
      BY <2>1
    <3>. QED
      BY <2>1, <2>2
  <2>. HIDE DEF r, n
  <2>. QED
    BY <1>3, <2>1, <2>2, <2>3, <2>4 DEF r
<1>. QED
  BY <1>2, <1>3, SentAdds

LEMMA HubKeepsIds ==
    ASSUME UIInv, NEW s \in Sockets, HubStep(s), UNCHANGED <<clientVars, succeeded, missed>>
    PROVE  UIInv'
<1>. USE DEF UIInv, clientVars
<1>. TypeOK /\ ClientTypeOK /\ IdsAreOwn
  BY DEF Sound, ClientInv
<1>1. Sound'
  BY GatewayKeeps DEF GatewayNext, HubStep
<1>2. ClientTypeOK' /\ OneConnection' /\ ReportedWasExecuted'
  BY HubSends DEF ClientTypeOK, ClientInv, OneConnection, ReportedWasExecuted
<1>3. /\ cmdId' = cmdId /\ cmdId \in Nat /\ pending' = pending /\ pending \subseteq Ids
      /\ buffer' = buffer /\ succeeded' = succeeded /\ \A id \in pending : id < cmdId
  BY MessageIds DEF ClientTypeOK, IdsAreOwn
<1>4. \A t \in Sockets : \A i \in DOMAIN up'[t] : \E k \in DOMAIN up[t] : up'[t][i] = up[t][k]
  <2>. SUFFICES ASSUME NEW t \in Sockets, NEW i \in DOMAIN up'[t]
                PROVE  \E k \in DOMAIN up[t] : up'[t][i] = up[t][k]
    OBVIOUS
  <2>1. up[t] \in Seq(Request)
    BY DEF TypeOK
  <2>2. CASE up'[t] = up[t]
    BY <2>2
  <2>3. CASE up'[t] = <<>>
    BY <2>3
  <2>4. CASE up[t] # <<>> /\ up'[t] = Tail(up[t])
    BY <2>1, <2>4, TailOf
  <2>. QED
    BY <2>2, <2>3, <2>4, HubTakes
<1>5. \A c \in calls' : c \in calls \/ c[2] < cmdId
  <2>. SUFFICES ASSUME NEW c \in calls', c \notin calls
                PROVE  c[2] < cmdId
    OBVIOUS
  <2>1. PICK k \in DOMAIN up[s] : up[s][k].type = "call_service" /\ up[s][k].id = c[2]
    BY HubTakes
  <2>. QED
    BY <2>1 DEF IdsAreOwn, Asked
<1>6. \A t \in Sockets : \A i \in DOMAIN down'[t] :
         (\E k \in DOMAIN down[t] : down'[t][i] = down[t][k]) \/ NewReply(down'[t][i])
  <2>1. CASE down' = down
    BY <2>1
  <2>2. ASSUME NEW m \in Reply, down' = Sent(s, m), Reason(s, m)
        PROVE  NewReply(m)
    <3>1. CASE m.type \in {"auth_ok", "auth_invalid"}
      BY <3>1 DEF NewReply
    <3>2. CASE m.type = "states"
      BY <1>3, <2>2, <3>2 DEF Reason, NewReply, IdsAreOwn, Asked
    <3>3. CASE m.type = "result"
      BY <1>3, <2>2, <3>3 DEF Reason, NewReply, IdsAreOwn, Asked
    <3>. QED
      BY <2>2, <3>1, <3>2, <3>3 DEF Reason
  <2>3. ASSUME NEW m \in Reply, down' = Sent(s, m), Reason(s, m),
               NEW t \in Sockets, NEW i \in DOMAIN down'[t]
        PROVE  (\E k \in DOMAIN down[t] : down'[t][i] = down[t][k]) \/ NewReply(down'[t][i])
    BY <2>2, <2>3, SentGrows
  <2>. QED
    BY <2>1, <2>3, HubSends
<1>7. IdsAreOwn'
  BY <1>3, <1>4, <1>5, <1>6, IdsStay
<1>. QED
  BY <1>1, <1>2, <1>7 DEF ClientInv

LEMMA ExpireStep ==
    ASSUME UIInv, NEW t \in Tokens, Expire(t), UNCHANGED <<clientVars, succeeded, missed>>
    PROVE  UIInv'
<1>. USE DEF UIInv, clientVars
<1>1. Sound'
  BY GatewayKeeps DEF GatewayNext
<1>2. UNCHANGED <<opened, peers, up, down, calls>>
  BY DEF Expire, netVars
<1>3. ClientTypeOK' /\ OneConnection' /\ ReportedWasExecuted' /\ IdsAreOwn'
  BY <1>2 DEF ClientTypeOK, ClientInv, OneConnection, ReportedWasExecuted, IdsAreOwn, Asked, Answered
<1>. QED
  BY <1>1, <1>3 DEF ClientInv

LEMMA SettleStep ==
    UIInv /\ (\E s \in Sockets, id \in Ids, success \in BOOLEAN : Settle(s, id, success)) => UIInv'
<1>. SUFFICES ASSUME UIInv, NEW s \in Sockets, NEW id \in Ids, NEW success \in BOOLEAN,
                     Settle(s, id, success)
              PROVE  UIInv'
  OBVIOUS
<1>. USE DEF UIInv, clientVars
<1>. TypeOK /\ ClientTypeOK /\ IdsAreOwn
  BY DEF Sound, ClientInv
<1>. DEFINE m == [type |-> "result", id |-> id, success |-> success]
<1>1. /\ <<s, id>> \in calls /\ calls' \subseteq calls
      /\ down' = Sent(s, m) \/ down' = down
      /\ succeeded' = IF success THEN succeeded \cup {id} ELSE succeeded
      /\ UNCHANGED <<opened, peers, up, clientVars>>
  BY DEF Settle, CallSettles
<1>2. Sound'
  BY GatewayKeeps DEF GatewayNext, Settle
<1>3. ClientTypeOK' /\ OneConnection' /\ ReportedWasExecuted'
  BY <1>1 DEF ClientTypeOK, ClientInv, OneConnection, ReportedWasExecuted
<1>4. /\ cmdId' = cmdId /\ cmdId \in Nat /\ pending' = pending /\ pending \subseteq Ids
      /\ buffer' = buffer /\ succeeded \subseteq succeeded' /\ up' = up
  BY <1>1, MessageIds DEF ClientTypeOK
<1>5. (\A i \in pending : i < cmdId) /\ id < cmdId
  BY <1>1 DEF IdsAreOwn
<1>6. m \in Reply /\ NewReply(m)
  BY <1>1, <1>4, <1>5 DEF NewReply, Reply
<1>. HIDE DEF m
<1>7. \A t \in Sockets : \A i \in DOMAIN down'[t] :
         (\E k \in DOMAIN down[t] : down'[t][i] = down[t][k]) \/ NewReply(down'[t][i])
  BY <1>1, <1>6, SentGrows
<1>8. IdsAreOwn'
  BY <1>1, <1>4, <1>5, <1>7, IdsStay
<1>. QED
  BY <1>2, <1>3, <1>8 DEF ClientInv

LEMMA ChangeGrows ==
    ASSUME TypeOK, NEW e \in Entities, Change(e), NEW t \in Sockets
    PROVE  /\ \A k \in DOMAIN down[t] : k \in DOMAIN down'[t] /\ down'[t][k] = down[t][k]
           /\ \A i \in DOMAIN down'[t] :
                 \/ i \in DOMAIN down[t]
                 \/ /\ down'[t][i].type = "event" /\ down'[t][i].entity = e
                    /\ down'[t][i].new = states'[e]
           /\ t \in peers /\ listeners[t] # <<>> =>
                 \E i \in DOMAIN down'[t] : i \notin DOMAIN down[t]
           /\ \A i \in DOMAIN down'[t] : \A k \in DOMAIN down[t] : i \notin DOMAIN down[t] => k < i
<1>1. down[t] \in Seq(Reply) /\ listeners[t] \in Seq(Ids)
  BY DEF TypeOK
<1>2. CASE t \notin peers \/ listeners[t] = <<>>
  BY <1>2, ChangeAdds
<1>3. CASE t \in peers /\ listeners[t] # <<>>
  <2>. DEFINE r == down'[t]
              n == Len(down[t])
              k == Len(listeners[t])
  <2>1. /\ DOMAIN r = 1 .. n + k
        /\ \A i \in 1 .. n : r[i] = down[t][i]
        /\ \A i \in n + 1 .. n + k :
              r[i].type = "event" /\ r[i].entity = e /\ r[i].new = states'[e]
    BY <1>3, ChangeAdds, Zenon
  <2>2. n \in Nat /\ k \in Nat \ {0} /\ DOMAIN down[t] = 1 .. n
    BY <1>1, <1>3
  <2>. HIDE DEF r, n, k
  <2>3. \A i \in 1 .. n + k : i \in 1 .. n \/ i \in n + 1 .. n + k
    BY <2>2
  <2>4. \A j \in 1 .. n : j \in 1 .. n + k
    BY <2>2
  <2>5. \A i \in 1 .. n + k : \A j \in 1 .. n : i \notin 1 .. n => j < i
    BY <2>2
  <2>6. n + 1 \notin 1 .. n /\ n + 1 \in 1 .. n + k
    BY <2>2
  <2>7. \E i \in DOMAIN r : i \notin DOMAIN down[t]
    BY <2>1, <2>2, <2>6
  <2>8. \A i \in DOMAIN r : \/ i \in DOMAIN down[t]
                            \/ r[i].type = "event" /\ r[i].entity = e /\ r[i].new = states'[e]
    BY <2>1, <2>2, <2>3
  <2>9. \A j \in DOMAIN down[t] : j \in DOMAIN r /\ r[j] = down[t][j]
    BY <2>1, <2>2, <2>4
  <2>10. \A i \in DOMAIN r : \A j \in DOMAIN down[t] : i \notin DOMAIN down[t] => j < i
    BY <2>1, <2>2, <2>5
  <2>. QED
    BY <2>7, <2>8, <2>9, <2>10 DEF r
<1>. QED
  BY <1>2, <1>3

LEMMA ChangeStep == UIInv /\ (\E e \in Entities : HubChange(e)) => UIInv'
<1>. SUFFICES ASSUME UIInv, NEW e \in Entities, HubChange(e)
              PROVE  UIInv'
  OBVIOUS
<1>. USE DEF UIInv, clientVars
<1>. TypeOK /\ ClientTypeOK /\ IdsAreOwn
  BY DEF Sound, ClientInv
<1>1. Change(e) /\ UNCHANGED <<opened, peers, up, calls, clientVars, succeeded>>
  BY DEF HubChange, Change
<1>2. Sound'
  BY <1>1, GatewayKeeps DEF GatewayNext
<1>3. ClientTypeOK' /\ OneConnection' /\ ReportedWasExecuted'
  BY <1>1 DEF ClientTypeOK, ClientInv, OneConnection, ReportedWasExecuted
<1>4. /\ cmdId' = cmdId /\ cmdId \in Nat /\ pending' = pending /\ pending \subseteq Ids
      /\ buffer' = buffer /\ succeeded' = succeeded /\ up' = up /\ calls' = calls
  BY <1>1, MessageIds DEF ClientTypeOK
<1>5. \A id \in pending : id < cmdId
  BY DEF IdsAreOwn
<1>6. ASSUME NEW t \in Sockets, NEW i \in DOMAIN down'[t]
      PROVE  (\E k \in DOMAIN down[t] : down'[t][i] = down[t][k]) \/ NewReply(down'[t][i])
  BY <1>1, ChangeGrows DEF NewReply
<1>7. IdsAreOwn'
  BY <1>4, <1>5, <1>6, IdsStay
<1>. QED
  BY <1>2, <1>3, <1>7 DEF ClientInv

LEMMA UIInvKept == UIInv /\ [Next]_vars => UIInv'
<1>. SUFFICES ASSUME UIInv, [Next]_vars
              PROVE  UIInv'
  OBVIOUS
<1>. USE DEF UIInv
<1>1. CASE Login
  <2>1. token' \in Tokens /\ token = 0 /\ view' = view /\ pending' = pending
        /\ UNCHANGED <<gatewayVars, ws, ready, cmdId, buffer, succeeded, reported>>
    BY <1>1 DEF Login, Sound, TypeOK
  <2>. QED
    BY <2>1, IdleStep DEF ClientTypeOK
<1>2. CASE Logout \/ OnAuthInvalid
  BY <1>2, LoggedOutStep DEF Logout, OnAuthInvalid
<1>3. CASE Open \/ Drop \/ Call
  BY <1>3, OpenStep, DropStep, CallStep
<1>4. ASSUME NEW id \in Ids, Timeout(id)
      PROVE  UIInv'
  BY <1>4, IdleStep DEF Timeout, ClientTypeOK
<1>10. ASSUME NEW e \in Entities, PatchState(e)
       PROVE  UIInv'
  BY <1>10, IdleStep DEF PatchState, ClientTypeOK
<1>5. CASE \E i \in 1 .. MaxDown : OnAuthRequired(i) \/ OnAuthOk(i) \/ OnData(i)
  BY <1>5, OnAuthRequiredStep, OnAuthOkStep, OnDataStep
<1>6. CASE Hub /\ UNCHANGED <<clientVars, succeeded, missed>>
  BY <1>6, HubKeepsIds, ExpireStep DEF Hub, HubStep
<1>7. CASE \E s \in Sockets, id \in Ids, success \in BOOLEAN : Settle(s, id, success)
  BY <1>7, SettleStep
<1>8. CASE \E e \in Entities : HubChange(e)
  BY <1>8, ChangeStep
<1>9. CASE UNCHANGED vars
  BY <1>9, IdleStep DEF vars, clientVars, ClientTypeOK
<1>. QED
  BY <1>1, <1>2, <1>3, <1>4, <1>5, <1>6, <1>7, <1>8, <1>9, <1>10 DEF Next, Receive

(* Every step of the client, of the hub and of the network keeps all this. *)
THEOREM UIIsSound == UISpec => []UIInv
<1>. QED
  BY UIInvAtFirst, UIInvKept, PTL DEF UISpec

LEMMA ViewTypeKept == ViewTypeOK /\ [Next]_vars => ViewTypeOK'
<1>. SUFFICES ASSUME ViewTypeOK, [Next]_vars
              PROVE  ViewTypeOK'
  OBVIOUS
<1>1. CASE \E e \in Entities : PatchState(e) \/ HubChange(e)
  BY <1>1 DEF PatchState, HubChange, clientVars, ViewTypeOK
<1>2. CASE Login \/ Open \/ Drop \/ Logout \/ Call
  <2>1. patched' \in {patched, {}} /\ missed' \in {missed, {}}
    BY <1>2 DEF Login, Open, Drop, Logout, LoggedOut, Call
  <2>. QED
    BY <2>1 DEF ViewTypeOK
<1>4. CASE Receive
  <2>1. patched' \subseteq patched /\ missed' \in {missed, {}}
    <3>1. ASSUME NEW i, OnAuthRequired(i) \/ OnAuthOk(i)
          PROVE  patched' = patched /\ missed' = missed
      BY <3>1, Zenon DEF OnAuthRequired, OnAuthOk, clientVars
    <3>2. CASE OnAuthInvalid
      BY <3>2, Zenon DEF OnAuthInvalid, LoggedOut
    <3>3. ASSUME NEW i, OnData(i)
          PROVE  patched' \subseteq patched /\ missed' = missed
      BY <3>3 DEF OnData
    <3>. QED
      BY <1>4, <3>1, <3>2, <3>3 DEF Receive
  <2>. QED
    BY <2>1 DEF ViewTypeOK
<1>3. CASE \/ Hub /\ UNCHANGED <<clientVars, succeeded, missed>>
           \/ \E s \in Sockets, id \in Ids, success \in BOOLEAN : Settle(s, id, success)
           \/ \E id \in Ids : Timeout(id)
           \/ UNCHANGED vars
  BY <1>3 DEF Settle, Timeout, vars, clientVars, ViewTypeOK
<1>. QED
  BY <1>1, <1>2, <1>3, <1>4 DEF Next

(* The variables of the client and of the gateway under it keep their      *)
(* types.                                                                  *)
THEOREM UITypeCorrect == UISpec => [](TypeOK /\ ClientTypeOK /\ ViewTypeOK)
<1>1. UIInv => TypeOK /\ ClientTypeOK
  BY DEF UIInv, Sound
<1>2. Init => ViewTypeOK
  BY DEF Init, ViewTypeOK
<1>. QED
  BY <1>1, <1>2, ViewTypeKept, UIIsSound, PTL DEF UISpec

(* A call the UI reports as successful was executed by its service         *)
(* (HaContext.tsx, callService), whatever answers are late, lost or for    *)
(* another connection: no id is used twice.                                *)
THEOREM ReportsAreTrue == UISpec => []ReportedWasExecuted
<1>1. UIInv => ReportedWasExecuted
  BY DEF UIInv, ClientInv
<1>. QED
  BY <1>1, UIIsSound, PTL
-----------------------------------------------------------------------------
(* What the UI shows. *)

LEMMA ToldType ==
    ASSUME NEW m \in Reply, NEW e \in Entities, Tells(m, e)
    PROVE  Told(m, e) \in Nat /\ m.type \in {"states", "event"}
<1>1. MaxChanges \in Nat
  BY HaGatewayAssumption
<1>2. CASE m.type = "states"
  <2>1. m.states \in States
    BY <1>2 DEF Reply
  <2>. QED
    BY <1>1, <1>2, <2>1 DEF Told, States
<1>3. CASE m.type = "event"
  <2>1. m.new \in 0 .. MaxChanges
    BY <1>3 DEF Reply
  <2>. QED
    BY <1>1, <1>3, <2>1 DEF Told
<1>. QED
  BY <1>2, <1>3 DEF Tells

LEMMA ViewTypes ==
    ASSUME TypeOK, ClientTypeOK
    PROVE  /\ \A e \in Entities : view[e] \in Nat /\ states[e] \in Nat
           /\ changes \in Nat
BY HaGatewayAssumption DEF TypeOK, ClientTypeOK, States

(* The last of the messages that have come behind the others.              *)
LEMMA LastOf ==
    ASSUME NEW S, NEW q \in Seq(S), NEW r \in Seq(S), NEW i \in DOMAIN r, i \notin DOMAIN q
    PROVE  /\ Len(r) \in DOMAIN r /\ Len(r) \notin DOMAIN q
           /\ \A j \in DOMAIN r : ~(Len(r) < j)
<1>1. /\ Len(r) \in Nat /\ DOMAIN r = 1 .. Len(r)
      /\ Len(q) \in Nat /\ DOMAIN q = 1 .. Len(q)
  OBVIOUS
<1>. QED
  BY <1>1

(* What is up to date stays so when what comes does not tell of it.        *)
LEMMA StaysUpToDate ==
    ASSUME TypeOK', ws \in Sockets, NEW e \in Entities, UpToDate(e),
           UNCHANGED ws, view'[e] = view[e], states'[e] = states[e],
           \A k \in DOMAIN down[ws] : k \in DOMAIN down'[ws] /\ down'[ws][k] = down[ws][k],
           \A i \in DOMAIN down'[ws] : i \in DOMAIN down[ws] \/ ~Tells(down'[ws][i], e)
    PROVE  UpToDate(e)'
<1>1. CASE view[e] = states[e] /\ \A i \in DOMAIN down[ws] : ~Tells(down[ws][i], e)
  <2>1. \A i \in DOMAIN down'[ws] : ~Tells(down'[ws][i], e)
    BY <1>1
  <2>. QED
    BY <1>1, <2>1 DEF UpToDate, Tells
<1>2. ASSUME NEW i \in DOMAIN down[ws], Newest(i, e), Told(down[ws][i], e) = states[e]
      PROVE  UpToDate(e)'
  <2>1. /\ i \in DOMAIN down'[ws] /\ Tells(down'[ws][i], e)
        /\ Told(down'[ws][i], e) = states'[e]
    BY <1>2 DEF Newest
  <2>2. \A j \in DOMAIN down'[ws] : i < j => ~Tells(down'[ws][j], e)
    BY <1>2 DEF Newest
  <2>. QED
    BY <2>1, <2>2 DEF UpToDate, Newest, Tells, Told
<1>. QED
  BY <1>1, <1>2 DEF UpToDate

(* What comes last makes up to date what it tells of.                      *)
LEMMA ComesUpToDate ==
    ASSUME TypeOK, TypeOK', ws \in Sockets, UNCHANGED ws, NEW e \in Entities,
           NEW i \in DOMAIN down'[ws], i \notin DOMAIN down[ws],
           \A j \in DOMAIN down'[ws] :
              j \in DOMAIN down[ws] \/ (/\ Tells(down'[ws][j], e)
                                        /\ Told(down'[ws][j], e) = states'[e])
    PROVE  UpToDate(e)'
<1>. DEFINE n == Len(down'[ws])
<1>1. down[ws] \in Seq(Reply) /\ down'[ws] \in Seq(Reply)
  BY DEF TypeOK
<1>2. n \in DOMAIN down'[ws] /\ n \notin DOMAIN down[ws] /\ \A j \in DOMAIN down'[ws] : ~(n < j)
  BY <1>1, LastOf
<1>. HIDE DEF n
<1>. QED
  BY <1>2 DEF UpToDate, Newest, Tells, Told

(* A message behind the others that tells nothing, or all the states of    *)
(* now, keeps the news in order.                                           *)
LEMMA NewsJoin ==
    ASSUME TypeOK, ClientTypeOK, TypeOK', ClientTypeOK', NewsInOrder,
           UNCHANGED <<ws, view, states, changes>>,
           ws # 0 =>
              /\ \A k \in DOMAIN down[ws] : k \in DOMAIN down'[ws] /\ down'[ws][k] = down[ws][k]
              /\ \A i \in DOMAIN down'[ws] :
                    \/ i \in DOMAIN down[ws]
                    \/ down'[ws][i].type \notin {"states", "event"}
                    \/ down'[ws][i].type = "states" /\ down'[ws][i].states = states
              /\ \A i \in DOMAIN down'[ws] : \A k \in DOMAIN down[ws] : i \notin DOMAIN down[ws] => k < i
    PROVE  NewsInOrder'
<1>1. \A e \in Entities : /\ view'[e] <= changes' /\ states'[e] <= changes'
                          /\ NoNewer(view'[e], states'[e])
  BY DEF NewsInOrder
<1>2. ASSUME ws # 0, NEW i \in DOMAIN down'[ws], NEW e \in Entities, Tells(down'[ws][i], e)
      PROVE  /\ NoNewer(view[e], Told(down'[ws][i], e))
             /\ Told(down'[ws][i], e) <= changes /\ NoNewer(Told(down'[ws][i], e), states[e])
             /\ i \notin DOMAIN down[ws] => Told(down'[ws][i], e) = states[e]
  <2>1. CASE i \in DOMAIN down[ws]
    BY <1>2, <2>1 DEF NewsInOrder
  <2>2. CASE i \notin DOMAIN down[ws]
    <3>1. down'[ws][i].type = "states" /\ down'[ws][i].states = states
      BY <1>2, <2>2 DEF Tells
    <3>2. Told(down'[ws][i], e) = states[e]
      BY <3>1 DEF Told
    <3>. QED
      BY <3>1, <3>2, ViewTypes DEF NewsInOrder, NoNewer
  <2>. QED
    BY <2>1, <2>2
<1>3. ASSUME ws # 0, NEW i \in DOMAIN down'[ws], NEW e \in Entities, Tells(down'[ws][i], e),
             NEW j \in DOMAIN down'[ws], i < j, Tells(down'[ws][j], e)
      PROVE  NoNewer(Told(down'[ws][i], e), Told(down'[ws][j], e))
  <2>1. CASE j \in DOMAIN down[ws]
    <3>1. i \in DOMAIN down[ws]
      <4>1. down[ws] \in Seq(Reply) /\ down'[ws] \in Seq(Reply)
        BY <1>3 DEF TypeOK, ClientTypeOK
      <4>2. i \in Nat /\ j \in Nat
        BY <4>1
      <4>. QED
        BY <1>3, <2>1, <4>2
    <3>. QED
      BY <1>3, <2>1, <3>1 DEF NewsInOrder
  <2>2. CASE j \notin DOMAIN down[ws]
    BY <1>2, <1>3, <2>2
  <2>. QED
    BY <2>1, <2>2
<1>. QED
  BY <1>1, <1>2, <1>3 DEF NewsInOrder, Tells, Told, NoNewer

(* The oldest message is taken, and the view tells what it told.           *)
LEMMA NewsTake ==
    ASSUME TypeOK, ClientTypeOK, TypeOK', ClientTypeOK', NewsInOrder,
           UNCHANGED <<ws, states, changes>>,
           NEW i, NEW types, Message(i, types),
           \A e \in Entities : view'[e] = IF Tells(down[ws][1], e) THEN Told(down[ws][1], e)
                                          ELSE view[e]
    PROVE  /\ NewsInOrder' /\ \A e \in Entities : UpToDate(e) => UpToDate(e)'
           /\ \A e \in Entities : NoNewer(view[e], view'[e])
<1>1. /\ ws \in Sockets /\ ws # 0 /\ 1 \in DOMAIN down[ws] /\ down[ws][1] \in Reply
      /\ \A j \in DOMAIN down'[ws] : j + 1 \in DOMAIN down[ws] /\ down'[ws][j] = down[ws][j + 1]
      /\ \A k \in DOMAIN down[ws] : k # 1 => k - 1 \in DOMAIN down'[ws]
                                             /\ down'[ws][k - 1] = down[ws][k]
  <2>1. ws # 0
    BY DEF Message
  <2>. QED
    BY <2>1, MessageTaken
<1>2. DOMAIN down[ws] \subseteq Nat \ {0} /\ DOMAIN down'[ws] \subseteq Nat \ {0}
  <2>1. down[ws] \in Seq(Reply) /\ down'[ws] \in Seq(Reply)
    BY <1>1 DEF TypeOK
  <2>. QED
    BY <2>1
<1>3. ASSUME NEW e \in Entities
      PROVE  /\ NoNewer(view[e], view'[e]) /\ view'[e] <= changes
             /\ NoNewer(view'[e], states[e])
  BY <1>1, ViewTypes DEF NewsInOrder, NoNewer
<1>4. ASSUME NEW j \in DOMAIN down'[ws], NEW e \in Entities, Tells(down'[ws][j], e)
      PROVE  /\ NoNewer(view'[e], Told(down'[ws][j], e))
             /\ Told(down'[ws][j], e) <= changes /\ NoNewer(Told(down'[ws][j], e), states[e])
             /\ \A k \in DOMAIN down'[ws] : j < k /\ Tells(down'[ws][k], e)
                                => NoNewer(Told(down'[ws][j], e), Told(down'[ws][k], e))
  <2>1. /\ j + 1 \in DOMAIN down[ws] /\ down'[ws][j] = down[ws][j + 1] /\ 1 < j + 1
        /\ Tells(down[ws][j + 1], e)
    BY <1>1, <1>2, <1>4
  <2>2. /\ NoNewer(view[e], Told(down[ws][j + 1], e)) /\ Told(down[ws][j + 1], e) <= changes
        /\ NoNewer(Told(down[ws][j + 1], e), states[e])
        /\ \A k \in DOMAIN down[ws] : j + 1 < k /\ Tells(down[ws][k], e)
                                => NoNewer(Told(down[ws][j + 1], e), Told(down[ws][k], e))
    BY <1>1, <2>1 DEF NewsInOrder
  <2>3. NoNewer(view'[e], Told(down[ws][j + 1], e))
    BY <1>1, <2>1, <2>2 DEF NewsInOrder
  <2>4. ASSUME NEW k \in DOMAIN down'[ws], j < k, Tells(down'[ws][k], e)
        PROVE  NoNewer(Told(down'[ws][j], e), Told(down'[ws][k], e))
    <3>1. k + 1 \in DOMAIN down[ws] /\ down'[ws][k] = down[ws][k + 1]
      BY <1>1
    <3>2. j + 1 < k + 1
      <4>1. j \in Nat /\ k \in Nat
        BY <1>2
      <4>. QED
        BY <2>4, <4>1
    <3>. QED
      BY <2>1, <2>2, <2>4, <3>1, <3>2
  <2>. QED
    BY <2>1, <2>2, <2>3, <2>4
<1>5. \A e \in Entities : /\ view'[e] <= changes' /\ states'[e] <= changes'
                          /\ NoNewer(view'[e], states'[e])
  BY <1>3 DEF NewsInOrder
<1>6. NewsInOrder'
  BY <1>4, <1>5 DEF NewsInOrder, Tells, Told, NoNewer
<1>7. ASSUME NEW e \in Entities, UpToDate(e)
      PROVE  UpToDate(e)'
  <2>1. CASE \A k \in DOMAIN down'[ws] : ~Tells(down'[ws][k], e)
    <3>1. view'[e] = states[e]
      <4>1. CASE \A k \in DOMAIN down[ws] : ~Tells(down[ws][k], e)
        BY <1>1, <1>7, <4>1 DEF UpToDate, Newest
      <4>2. ASSUME NEW k \in DOMAIN down[ws], Tells(down[ws][k], e)
            PROVE  view'[e] = states[e]
        <5>1. \A n \in DOMAIN down[ws] : n # 1 => ~Tells(down[ws][n], e)
          BY <1>1, <2>1
        <5>. QED
          BY <1>1, <1>7, <4>2, <5>1 DEF UpToDate, Newest
      <4>. QED
        BY <4>1, <4>2
    <3>. QED
      BY <2>1, <3>1 DEF UpToDate, Tells
  <2>2. ASSUME NEW k \in DOMAIN down'[ws], Tells(down'[ws][k], e)
        PROVE  UpToDate(e)'
    <3>1. k + 1 \in DOMAIN down[ws] /\ Tells(down[ws][k + 1], e)
      BY <1>1, <2>2
    <3>2. PICK n \in DOMAIN down[ws] : Newest(n, e) /\ Told(down[ws][n], e) = states[e]
      BY <1>7, <3>1 DEF UpToDate
    <3>3. k \in Nat \ {0} /\ n \in Nat \ {0} /\ ~(n < k + 1)
      BY <1>2, <3>1, <3>2 DEF Newest
    <3>4. n # 1 /\ n - 1 \in DOMAIN down'[ws] /\ down'[ws][n - 1] = down[ws][n]
      BY <1>1, <3>2, <3>3
    <3>5. ASSUME NEW j \in DOMAIN down'[ws], n - 1 < j
          PROVE  ~Tells(down'[ws][j], e)
      <4>1. j + 1 \in DOMAIN down[ws] /\ down'[ws][j] = down[ws][j + 1] /\ j \in Nat
        BY <1>1, <1>2
      <4>2. n < j + 1
        BY <3>3, <3>5, <4>1
      <4>. QED
        BY <3>2, <4>1, <4>2 DEF Newest
    <3>. QED
      BY <3>2, <3>4, <3>5 DEF UpToDate, Newest, Tells, Told
  <2>. QED
    BY <2>1, <2>2
<1>. QED
  BY <1>3, <1>6, <1>7

(* The two invariants, action by action.                                   *)
LEMMA ViewIdle ==
    ASSUME UIInv, UIInv', ViewInv,
           UNCHANGED <<ws, ready, view, missed, states, changes, sessions, listeners, down>>,
           \A t \in Sockets : \A k \in DOMAIN up[t] : k \in DOMAIN up'[t] /\ up'[t][k] = up[t][k]
    PROVE  ViewInv'
<1>. USE DEF UIInv, Sound, ViewInv
<1>1. NewsInOrder'
  BY DEF NewsInOrder, Tells, Told, NoNewer
<1>2. ready /\ Live(ws) => ws \in Sockets
  BY DEF ClientInv, OneConnection, ClientTypeOK
<1>3. NewsArrive'
  BY <1>2 DEF NewsArrive, UpToDate, Newest, Tells, Told, Live, OnItsWay
<1>. QED
  BY <1>1, <1>3

LEMMA ViewReceive ==
    ASSUME UIInv, UIInv', ViewInv, UNCHANGED <<ws, missed, states, changes, sessions, listeners>>,
           NEW i, NEW types, Message(i, types),
           \A e \in Entities : view'[e] = IF Tells(down[ws][1], e) THEN Told(down[ws][1], e)
                                          ELSE view[e],
           \/ ready' = ready /\ \A k \in DOMAIN up[ws] : k \in DOMAIN up'[ws]
                                                         /\ up'[ws][k] = up[ws][k]
           \/ Waits(ws, "get_states")' /\ Waits(ws, "subscribe_events")'
    PROVE  ViewInv' /\ \A e \in Entities : NoNewer(view[e], view'[e])
<1>. USE DEF UIInv, Sound, ViewInv
<1>1. /\ NewsInOrder' /\ \A e \in Entities : UpToDate(e) => UpToDate(e)'
      /\ \A e \in Entities : NoNewer(view[e], view'[e])
  BY NewsTake
<1>2. NewsArrive'
  <2>1. CASE ready' = ready /\ \A k \in DOMAIN up[ws] : k \in DOMAIN up'[ws]
                                                        /\ up'[ws][k] = up[ws][k]
    BY <1>1, <2>1 DEF NewsArrive, OnItsWay, Live
  <2>2. CASE Waits(ws, "get_states")' /\ Waits(ws, "subscribe_events")'
    BY <2>2 DEF NewsArrive, OnItsWay, Waits
  <2>. QED
    BY <2>1, <2>2
<1>. QED
  BY <1>1, <1>2

LEMMA ViewOnAuthRequired ==
    ASSUME UIInv, UIInv', ViewInv, NEW i, OnAuthRequired(i)
    PROVE  ViewInv' /\ \A e \in Entities : NoNewer(view[e], view'[e])
<1>. USE DEF UIInv, Sound
<1>1. /\ Message(i, {"auth_required"}) /\ Send(Hello) /\ ws \in Sockets
      /\ down[ws][1].type = "auth_required"
      /\ UNCHANGED <<ws, ready, view, missed, states, changes, sessions, listeners>>
  BY MessageTaken DEF OnAuthRequired, serverVars, clientVars
<1>2. \A e \in Entities : view'[e] = IF Tells(down[ws][1], e) THEN Told(down[ws][1], e) ELSE view[e]
  BY <1>1 DEF Tells
<1>3. \A k \in DOMAIN up[ws] : k \in DOMAIN up'[ws] /\ up'[ws][k] = up[ws][k]
  <2>1. Hello \in Seq(Request)
    <3>1. token \in Tokens
      BY <1>1 DEF ClientTypeOK, ClientInv, OneConnection, Message
    <3>2. [type |-> "auth", token |-> token] \in Request
      BY <3>1 DEF Request
    <3>. QED
      BY <3>2 DEF Hello
  <2>. QED
    BY <1>1, <2>1, SendAdds
<1>. QED
  BY <1>1, <1>2, <1>3, ViewReceive

LEMMA ViewOnAuthOk ==
    ASSUME UIInv, UIInv', ViewInv, NEW i, OnAuthOk(i)
    PROVE  ViewInv' /\ \A e \in Entities : NoNewer(view[e], view'[e])
<1>. USE DEF UIInv, Sound
<1>. DEFINE g == [type |-> "get_states", id |-> cmdId]
            b == [type |-> "subscribe_events", id |-> cmdId + 1]
<1>1. /\ Message(i, {"auth_ok"}) /\ Send(<<g, b>>) /\ ws \in Sockets
      /\ down[ws][1].type = "auth_ok" /\ cmdId + 1 \in Ids
      /\ UNCHANGED <<ws, view, missed, states, changes, sessions, listeners>>
  BY MessageTaken DEF OnAuthOk, serverVars, clientVars
<1>2. \A e \in Entities : view'[e] = IF Tells(down[ws][1], e) THEN Told(down[ws][1], e) ELSE view[e]
  BY <1>1 DEF Tells
<1>3. <<g, b>> \in Seq(Request) /\ g.type = "get_states" /\ b.type = "subscribe_events"
  <2>1. cmdId \in Ids
    BY <1>1, MessageIds DEF ClientTypeOK
  <2>. QED
    BY <1>1, <2>1 DEF Request
<1>. HIDE DEF g, b
<1>4. \A k \in DOMAIN <<g, b>> : \E j \in DOMAIN up'[ws] : up'[ws][j] = <<g, b>>[k]
  BY <1>1, <1>3, SendAdds, Zenon
<1>5. (\E j \in DOMAIN up'[ws] : up'[ws][j] = g) /\ (\E j \in DOMAIN up'[ws] : up'[ws][j] = b)
  <2>1. 1 \in DOMAIN <<g, b>> /\ 2 \in DOMAIN <<g, b>> /\ <<g, b>>[1] = g /\ <<g, b>>[2] = b
    OBVIOUS
  <2>. QED
    BY <1>4, <2>1
<1>6. Waits(ws, "get_states")' /\ Waits(ws, "subscribe_events")'
  BY <1>1, <1>3, <1>5 DEF Waits
<1>. QED
  BY <1>1, <1>2, <1>6, ViewReceive

LEMMA ViewOnData ==
    ASSUME UIInv, UIInv', ViewInv, NEW i, OnData(i)
    PROVE  ViewInv' /\ \A e \in Entities : NoNewer(view[e], view'[e])
<1>. USE DEF UIInv, Sound
<1>1. /\ Message(i, {"states", "result", "event"}) /\ ws \in Sockets /\ ws # 0
      /\ UNCHANGED <<up, ws, ready, missed, states, changes, sessions, listeners>>
  BY MessageTaken DEF OnData, serverVars, Message
<1>2. PICK m : m = down[ws][1]
  OBVIOUS
<1>3. /\ m \in Reply /\ m.type \in {"states", "result", "event"}
      /\ \/ m.type # "event" /\ m.id \in pending /\ view' = view
         \/ view' = View(m)
  BY <1>1, <1>2, MessageTaken DEF OnData
<1>4. m.type = "states" => m.id \notin pending
  BY <1>1, <1>2, MessageTaken DEF ClientInv, IdsAreOwn, Answered
<1>6. ASSUME NEW e \in Entities
      PROVE  view'[e] = IF Tells(m, e) THEN Told(m, e) ELSE view[e]
  <2>1. CASE m.type = "states"
    BY <1>3, <1>4, <2>1 DEF View, Tells, Told
  <2>2. CASE m.type = "result"
    BY <1>3, <2>2 DEF View, Tells
  <2>3. CASE m.type = "event"
    <3>1. m.entity \in Entities
      BY <1>3, <2>3 DEF Reply
    <3>2. CASE m.new = 0
      BY <1>3, <2>3, <3>2 DEF View, Tells
    <3>3. CASE m.new # 0
      <4>1. view' = [view EXCEPT ![m.entity] = m.new]
        BY <1>3, <2>3, <3>3 DEF View
      <4>. QED
        BY <2>3, <3>1, <3>3, <4>1 DEF Tells, Told, ClientTypeOK, States
    <3>. QED
      BY <3>2, <3>3
  <2>. QED
    BY <1>3, <2>1, <2>2, <2>3
<1>. QED
  BY <1>1, <1>2, <1>6, ViewReceive

LEMMA ViewApart ==
    ASSUME UIInv, ViewInv, ready' = FALSE, UNCHANGED <<states, changes>>,
           view' = view \/ view' = NoStates,
           ws' = 0 \/ down'[ws'] = <<[type |-> "auth_required"]>>
    PROVE  ViewInv'
<1>. USE DEF UIInv, Sound, ViewInv
<1>1. \A e \in Entities : /\ view'[e] <= changes' /\ states'[e] <= changes'
                          /\ NoNewer(view'[e], states'[e])
  BY ViewTypes DEF NewsInOrder, NoStates, NoNewer
<1>2. NewsInOrder'
  BY <1>1 DEF NewsInOrder, Tells, NoNewer
<1>. QED
  BY <1>2 DEF NewsArrive

LEMMA ViewOpen == UIInv /\ ViewInv /\ Open => ViewInv'
<1>. SUFFICES ASSUME UIInv, ViewInv, Open
              PROVE  ViewInv'
  OBVIOUS
<1>1. ready' = FALSE /\ view' = view /\ UNCHANGED <<states, changes>>
  BY DEF Open, Connect, UIInv, ClientInv, OneConnection
<1>2. down'[ws'] = <<[type |-> "auth_required"]>>
  BY DEF Open, Connect, UIInv, Sound, TypeOK
<1>. QED
  BY <1>1, <1>2, ViewApart

LEMMA ViewHub ==
    ASSUME UIInv, UIInv', ViewInv, NEW s \in Sockets, HubStep(s),
           UNCHANGED <<clientVars, succeeded, missed>>
    PROVE  ViewInv'
<1>. USE DEF UIInv, Sound, ViewInv, clientVars
<1>1. UNCHANGED <<peers, states, changes>>
      /\ (down' = down \/ \E m \in Reply : down' = Sent(s, m) /\ Reason(s, m))
  BY HubSends
<1>2. ASSUME ws # 0
      PROVE  /\ \A k \in DOMAIN down[ws] : k \in DOMAIN down'[ws] /\ down'[ws][k] = down[ws][k]
             /\ \A i \in DOMAIN down'[ws] :
                   \/ i \in DOMAIN down[ws]
                   \/ down'[ws][i].type \notin {"states", "event"}
                   \/ down'[ws][i].type = "states" /\ down'[ws][i].states = states
             /\ \A i \in DOMAIN down'[ws] : \A k \in DOMAIN down[ws] : i \notin DOMAIN down[ws] => k < i
  <2>1. ws \in Sockets
    BY <1>2 DEF ClientTypeOK
  <2>2. CASE down' = down
    BY <2>2
  <2>3. ASSUME NEW m \in Reply, down' = Sent(s, m), Reason(s, m)
        PROVE  /\ \A k \in DOMAIN down[ws] : k \in DOMAIN down'[ws] /\ down'[ws][k] = down[ws][k]
               /\ \A i \in DOMAIN down'[ws] : i \in DOMAIN down[ws] \/ down'[ws][i] = m
               /\ \A i \in DOMAIN down'[ws] : \A k \in DOMAIN down[ws] : i \notin DOMAIN down[ws] => k < i
               /\ m.type \notin {"states", "event"} \/ (m.type = "states" /\ m.states = states)
    BY <2>1, <2>3, SentGrows DEF Reason
  <2>. QED
    BY <1>1, <2>2, <2>3
<1>3. NewsInOrder'
  BY <1>1, <1>2, NewsJoin
<1>4. ASSUME ready, Live(ws)', ws # 0
      PROVE  /\ Waits(ws, "subscribe_events")' \/ listeners'[ws] # <<>>
             /\ Waits(ws, "get_states")' \/ \A e \in Entities \ missed : UpToDate(e)'
  <2>1. ws \in Sockets /\ ws \in peers
    BY <1>4 DEF ClientTypeOK, ClientInv, OneConnection
  <2>2. ~Waits(ws, "unsubscribe_events")
    BY <2>1 DEF Waits, ClientInv, IdsAreOwn, Asked
  <2>3. /\ Live(ws)
        /\ Waits(ws, "subscribe_events") \/ listeners[ws] # <<>>
           => Waits(ws, "subscribe_events")' \/ listeners'[ws] # <<>>
        /\ Waits(ws, "get_states")
           => \/ Waits(ws, "get_states")'
              \/ \E m \in Reply : m.type = "states" /\ m.states = states /\ down' = Sent(ws, m)
    <3>1. PICK t : t = ws
      OBVIOUS
    <3>2. Live(t)'
      BY <1>4, <3>1 DEF Live
    <3>3. /\ Live(t)
          /\ Waits(t, "subscribe_events") \/ listeners[t] # <<>>
             => Waits(t, "subscribe_events")' \/ listeners'[t] # <<>>
          /\ Waits(t, "get_states")
             => \/ Waits(t, "get_states")'
                \/ \E m \in Reply : m.type = "states" /\ m.states = states /\ down' = Sent(t, m)
      BY <2>1, <2>2, <3>1, <3>2, HubServes
    <3>. QED
      BY <3>1, <3>3 DEF Waits
  <2>4. /\ Waits(ws, "subscribe_events") \/ listeners[ws] # <<>>
        /\ Waits(ws, "get_states") \/ \A e \in Entities \ missed : UpToDate(e)
    BY <1>4, <2>3 DEF NewsArrive, OnItsWay, Waits
  <2>5. ASSUME NEW m \in Reply, m.type = "states", m.states = states, down' = Sent(ws, m),
               NEW e \in Entities
        PROVE  UpToDate(e)'
    <3>1. /\ \A j \in DOMAIN down'[ws] : j \in DOMAIN down[ws] \/ down'[ws][j] = m
          /\ \E i \in DOMAIN down'[ws] : i \notin DOMAIN down[ws]
      BY <2>1, <2>5, SentGrows
    <3>2. Tells(m, e) /\ Told(m, e) = states'[e]
      BY <1>1, <2>5 DEF Tells, Told
    <3>. QED
      BY <2>1, <3>1, <3>2, ComesUpToDate
  <2>6. ASSUME NEW e \in Entities, UpToDate(e), ~UpToDate(e)'
        PROVE  \E m \in Reply : m.type = "states" /\ m.states = states /\ down' = Sent(ws, m)
    <3>1. PICK m \in Reply : down' = Sent(s, m) /\ Reason(s, m)
      BY <1>1, <1>2, <1>4, <2>1, <2>6, StaysUpToDate
    <3>2. /\ \A k \in DOMAIN down[ws] : k \in DOMAIN down'[ws] /\ down'[ws][k] = down[ws][k]
          /\ \A j \in DOMAIN down'[ws] : j \in DOMAIN down[ws] \/ (ws = s /\ down'[ws][j] = m)
      BY <2>1, <3>1, SentGrows
    <3>3. ws = s /\ Tells(m, e)
      BY <1>1, <2>1, <2>6, <3>2, StaysUpToDate
    <3>. QED
      BY <3>1, <3>3 DEF Reason, Tells
  <2>. QED
    BY <1>4, <2>3, <2>4, <2>5, <2>6
<1>5. NewsArrive'
  <2>1. ready /\ Live(ws)' => ws # 0
    BY DEF ClientInv, OneConnection
  <2>. QED
    BY <1>4, <2>1 DEF NewsArrive, OnItsWay, Waits, Live
<1>. QED
  BY <1>3, <1>5

LEMMA ViewSettle ==
    ASSUME UIInv, UIInv', ViewInv, NEW s \in Sockets, NEW id \in Ids, NEW success \in BOOLEAN,
           Settle(s, id, success)
    PROVE  ViewInv'
<1>. USE DEF UIInv, Sound, ViewInv, clientVars
<1>. DEFINE m == [type |-> "result", id |-> id, success |-> success]
<1>1. /\ down' = Sent(s, m) \/ down' = down
      /\ UNCHANGED <<up, states, changes, sessions, listeners, clientVars, missed>>
  BY DEF Settle, CallSettles
<1>2. m \in Reply /\ m.type = "result"
  BY DEF Reply
<1>. HIDE DEF m
<1>3. ASSUME ws # 0
      PROVE  /\ \A k \in DOMAIN down[ws] : k \in DOMAIN down'[ws] /\ down'[ws][k] = down[ws][k]
             /\ \A i \in DOMAIN down'[ws] :
                   i \in DOMAIN down[ws] \/ down'[ws][i].type \notin {"states", "event"}
             /\ \A i \in DOMAIN down'[ws] : \A k \in DOMAIN down[ws] : i \notin DOMAIN down[ws] => k < i
  <2>1. ws \in Sockets
    BY <1>3 DEF ClientTypeOK
  <2>. QED
    BY <1>1, <1>2, <2>1, SentGrows
<1>4. NewsInOrder'
  BY <1>1, <1>3, NewsJoin
<1>5. NewsArrive'
  <2>1. ready /\ Live(ws) => ws # 0 /\ ws \in Sockets
    BY DEF ClientInv, OneConnection, ClientTypeOK
  <2>2. ASSUME ws # 0, ws \in Sockets, NEW e \in Entities, UpToDate(e)
        PROVE  UpToDate(e)'
    BY <1>1, <1>3, <2>2, StaysUpToDate DEF Tells
  <2>. QED
    BY <1>1, <2>1, <2>2 DEF NewsArrive, OnItsWay, Live
<1>. QED
  BY <1>4, <1>5

(* A state changes: its event is the newest news, and it is on its way to  *)
(* a client whose subscription stands.                                     *)
LEMMA ViewChange ==
    ASSUME UIInv, UIInv', ViewInv, NEW e \in Entities, HubChange(e)
    PROVE  ViewInv'
<1>. USE DEF UIInv, Sound, ViewInv, clientVars
<1>1. Change(e) /\ UNCHANGED <<up, sessions, listeners, clientVars>>
  BY DEF HubChange, Change
<1>2. /\ changes' = changes + 1 /\ states'[e] \in {changes + 1, 0}
      /\ \A d \in Entities : d # e => states'[d] = states[d]
  BY <1>1 DEF Change, TypeOK, States
<1>3. \A d \in Entities : /\ view[d] \in Nat /\ states[d] \in Nat /\ states'[d] \in Nat
                          /\ view[d] <= changes /\ states[d] <= changes
                          /\ states'[d] <= changes' /\ NoNewer(view[d], states'[d])
                          /\ \A c \in Nat : c <= changes /\ NoNewer(c, states[d])
                                             => NoNewer(c, states'[d])
  BY <1>2, ViewTypes DEF NewsInOrder, NoNewer
<1>4. ASSUME ws # 0
      PROVE  /\ ws \in Sockets /\ ws \in peers
             /\ \A k \in DOMAIN down[ws] : k \in DOMAIN down'[ws] /\ down'[ws][k] = down[ws][k]
             /\ \A i \in DOMAIN down'[ws] :
                   \/ i \in DOMAIN down[ws]
                   \/ /\ down'[ws][i].type = "event" /\ down'[ws][i].entity = e
                      /\ down'[ws][i].new = states'[e]
             /\ listeners[ws] # <<>> => \E i \in DOMAIN down'[ws] : i \notin DOMAIN down[ws]
             /\ \A i \in DOMAIN down'[ws] : \A k \in DOMAIN down[ws] : i \notin DOMAIN down[ws] => k < i
  <2>1. ws \in Sockets /\ ws \in peers
    BY <1>4 DEF ClientTypeOK, ClientInv, OneConnection
  <2>. QED
    BY <1>1, <2>1, ChangeGrows
<1>5. ASSUME ws # 0, NEW i \in DOMAIN down'[ws], NEW d \in Entities, Tells(down'[ws][i], d)
      PROVE  /\ NoNewer(view[d], Told(down'[ws][i], d)) /\ Told(down'[ws][i], d) <= changes'
             /\ NoNewer(Told(down'[ws][i], d), states'[d])
             /\ i \in DOMAIN down[ws] => Told(down'[ws][i], d) <= changes
             /\ i \notin DOMAIN down[ws] => d = e /\ Told(down'[ws][i], d) = changes + 1
  <2>1. CASE i \in DOMAIN down[ws]
    <3>1. /\ down'[ws][i] = down[ws][i] /\ down[ws][i] \in Reply
      BY <1>4, <1>5, <2>1 DEF TypeOK
    <3>2. /\ NoNewer(view[d], Told(down[ws][i], d)) /\ Told(down[ws][i], d) <= changes
          /\ NoNewer(Told(down[ws][i], d), states[d])
      BY <1>5, <2>1, <3>1 DEF NewsInOrder
    <3>3. Told(down[ws][i], d) \in Nat
      BY <1>5, <3>1, ToldType
    <3>. QED
      BY <1>2, <1>3, <2>1, <3>1, <3>2, <3>3, ViewTypes
  <2>2. CASE i \notin DOMAIN down[ws]
    <3>1. /\ down'[ws][i].type = "event" /\ down'[ws][i].entity = e
          /\ down'[ws][i].new = states'[e]
      BY <1>4, <1>5, <2>2
    <3>2. d = e /\ Told(down'[ws][i], d) = states'[d] /\ states'[d] # 0
      BY <1>5, <3>1 DEF Tells, Told
    <3>. QED
      BY <1>2, <1>3, <2>2, <3>2, ViewTypes DEF NoNewer
  <2>. QED
    BY <2>1, <2>2
<1>6. ASSUME ws # 0, NEW i \in DOMAIN down'[ws], NEW d \in Entities, Tells(down'[ws][i], d),
             NEW j \in DOMAIN down'[ws], i < j, Tells(down'[ws][j], d)
      PROVE  NoNewer(Told(down'[ws][i], d), Told(down'[ws][j], d))
  <2>1. CASE j \in DOMAIN down[ws]
    <3>1. i \in DOMAIN down[ws]
      <4>1. ws \in Sockets
        BY <1>4, <1>6
      <4>2. down'[ws] \in Seq(Reply) /\ down[ws] \in Seq(Reply)
        BY <4>1 DEF TypeOK
      <4>3. i \in Nat /\ j \in Nat
        BY <4>2
      <4>. QED
        BY <1>4, <1>6, <2>1, <4>3
    <3>. QED
      BY <1>4, <1>6, <2>1, <3>1 DEF NewsInOrder
  <2>2. CASE j \notin DOMAIN down[ws]
    BY <1>2, <1>5, <1>6, <2>2 DEF NoNewer
  <2>. QED
    BY <2>1, <2>2
<1>7. NewsInOrder'
  <2>1. \A d \in Entities : /\ view'[d] <= changes' /\ states'[d] <= changes'
                            /\ NoNewer(view'[d], states'[d])
    BY <1>1, <1>2, <1>3, ViewTypes
  <2>. QED
    BY <1>1, <1>5, <1>6, <2>1 DEF NewsInOrder, Tells, Told, NoNewer
<1>8. ASSUME ws # 0, NEW d \in Entities, d # e, UpToDate(d)
      PROVE  UpToDate(d)'
  <2>1. \A i \in DOMAIN down'[ws] : i \in DOMAIN down[ws] \/ ~Tells(down'[ws][i], d)
    BY <1>4, <1>8 DEF Tells
  <2>. QED
    BY <1>1, <1>2, <1>4, <1>8, <2>1, StaysUpToDate
<1>9. ASSUME ws # 0, Heard(e)
      PROVE  UpToDate(e)'
  <2>1. listeners[ws] # <<>> /\ states'[e] # 0
    BY <1>9 DEF Heard
  <2>2. PICK i \in DOMAIN down'[ws] : i \notin DOMAIN down[ws]
    BY <1>4, <1>9, <2>1
  <2>3. \A j \in DOMAIN down'[ws] :
           j \in DOMAIN down[ws] \/ (/\ Tells(down'[ws][j], e)
                                     /\ Told(down'[ws][j], e) = states'[e])
    BY <1>4, <1>9, <2>1 DEF Tells, Told
  <2>. QED
    BY <1>1, <1>4, <1>9, <2>2, <2>3, ComesUpToDate
<1>10. ASSUME ready, Live(ws)
       PROVE  /\ OnItsWay("subscribe_events") \/ listeners[ws] # <<>>
              /\ OnItsWay("get_states") \/ \A d \in Entities \ missed' : UpToDate(d)'
  <2>1. ws # 0
    BY <1>10 DEF ClientInv, OneConnection
  <2>2. /\ OnItsWay("subscribe_events") \/ listeners[ws] # <<>>
        /\ OnItsWay("get_states") \/ \A d \in Entities \ missed : UpToDate(d)
    BY <1>10 DEF NewsArrive
  <2>3. ~OnItsWay("get_states") =>
           missed' = IF Heard(e) THEN missed \ {e} ELSE missed \cup {e}
    BY <1>10 DEF HubChange, StatesSent
  <2>. QED
    BY <1>8, <1>9, <2>1, <2>2, <2>3
<1>11. NewsArrive'
  BY <1>1, <1>10 DEF NewsArrive, OnItsWay, Live
<1>. QED
  BY <1>7, <1>11

LEMMA ViewAtFirst == Init => ViewInv
BY HaGatewayAssumption DEF Init, GatewayInit, NoStates, ViewInv, NewsInOrder, NewsArrive, NoNewer

(* Every step keeps the two, and no entity the view shows goes back.       *)
LEMMA ViewKept ==
    ASSUME UIInv, ViewInv, [Next]_vars
    PROVE  ViewInv' /\ Forwards
<1>. UIInv'
  BY UIInvKept
<1>. UIInv /\ TypeOK /\ ClientTypeOK
  BY DEF UIInv, Sound
<1>1. ASSUME \A e \in Entities : NoNewer(view[e], view'[e])
      PROVE  Forwards
  BY <1>1 DEF Forwards, NoNewer, UIInv, ClientTypeOK, States
<1>2. ASSUME view' = view
      PROVE  Forwards
  BY <1>2, <1>1, ViewTypes DEF NoNewer
<1>3. CASE \/ Login \/ Call \/ (\E id \in Ids : Timeout(id)) \/ (\E e \in Entities : PatchState(e))
           \/ UNCHANGED vars
  <2>1. UNCHANGED <<ws, ready, view, missed, states, changes, sessions, listeners, down>>
    BY <1>3 DEF Login, Call, Timeout, PatchState, vars, gatewayVars, serverVars, netVars, clientVars
  <2>2. \A t \in Sockets : \A k \in DOMAIN up[t] : k \in DOMAIN up'[t] /\ up'[t][k] = up[t][k]
    <3>1. CASE up' = up
      BY <3>1
    <3>2. CASE Call /\ ws # 0
      <4>. DEFINE m == [type |-> "call_service", id |-> cmdId]
      <4>1. Send(<<m>>) /\ ws \in Sockets
        BY <3>2 DEF Call, ClientTypeOK
      <4>2. m \in Request
        BY <3>2, CallId DEF Request
      <4>. HIDE DEF m
      <4>3. <<m>> \in Seq(Request)
        BY <4>2
      <4>. QED
        BY <4>1, <4>3, SendAdds
    <3>. QED
      BY <1>3, <3>1, <3>2 DEF Login, Call, Timeout, PatchState, vars, gatewayVars, netVars
  <2>. QED
    BY <1>2, <2>1, <2>2, ViewIdle
<1>4. CASE Logout \/ OnAuthInvalid \/ Drop
  <2>1. /\ ready' = FALSE /\ ws' = 0 /\ UNCHANGED <<states, changes>>
        /\ view' = view \/ view' = NoStates
    BY <1>4 DEF Logout, OnAuthInvalid, Drop, LoggedOut, serverVars
  <2>2. \A e \in Entities : NoNewer(view[e], view'[e])
    BY <2>1, ViewTypes DEF NoStates, NoNewer
  <2>. QED
    BY <1>1, <2>1, <2>2, ViewApart
<1>5. CASE Open
  <2>1. view' = view
    BY <1>5 DEF Open
  <2>. QED
    BY <1>2, <1>5, <2>1, ViewOpen
<1>6. CASE \E i \in 1 .. MaxDown : OnAuthRequired(i) \/ OnAuthOk(i) \/ OnData(i)
  BY <1>1, <1>6, ViewOnAuthRequired, ViewOnAuthOk, ViewOnData
<1>7. CASE Hub /\ UNCHANGED <<clientVars, succeeded, missed>>
  <2>1. ASSUME NEW t \in Tokens, Expire(t)
        PROVE  ViewInv'
    BY <1>7, <2>1, ViewIdle DEF Expire, netVars, clientVars
  <2>2. view' = view
    BY <1>7 DEF clientVars
  <2>. QED
    BY <1>2, <1>7, <2>1, <2>2, ViewHub DEF Hub, HubStep
<1>8. CASE \E s \in Sockets, id \in Ids, success \in BOOLEAN : Settle(s, id, success)
  <2>1. view' = view
    BY <1>8 DEF Settle, clientVars
  <2>. QED
    BY <1>2, <1>8, <2>1, ViewSettle
<1>9. CASE \E e \in Entities : HubChange(e)
  <2>1. view' = view
    BY <1>9 DEF HubChange, clientVars
  <2>. QED
    BY <1>2, <1>9, <2>1, ViewChange
<1>. QED
  BY <1>3, <1>4, <1>5, <1>6, <1>7, <1>8, <1>9 DEF Next, Receive

(* With nothing on its way a connected client shows what it was told of.   *)
LEMMA FreshView == UIInv /\ ViewInv => ViewFresh
<1>. SUFFICES ASSUME UIInv, ViewInv, ready, ws # 0, up[ws] = <<>>, down[ws] = <<>>, Live(ws),
                     NEW e \in Entities, Followed(e)
              PROVE  Shows(e)
  BY DEF ViewFresh
<1>1. UpToDate(e)
  BY DEF ViewInv, NewsArrive, OnItsWay, Followed
<1>. QED
  BY <1>1 DEF UpToDate, Shows

(* What the UI shows follows the hub (HaContext.tsx, the map of states):   *)
(* it catches up whenever nothing is on its way, over any number of        *)
(* reconnections, and never goes back to an older state of an entity.      *)
(* Only what the UI was not told of - a change between the answer to       *)
(* get_states and the subscription, or a removal - stays behind, until     *)
(* the next change the UI is told of.                                      *)
THEOREM ViewIsFollowed == UISpec => ViewFollows
<1>. DEFINE I == UIInv /\ ViewInv
            A == ViewFresh' /\ Forwards
<1>1. Init => I
  BY UIInvAtFirst, ViewAtFirst
<1>2. I /\ [Next]_vars => I' /\ A
  <2>1. I /\ [Next]_vars => I' /\ Forwards
    BY UIInvKept, ViewKept
  <2>2. I' => ViewFresh'
    BY FreshView, PTL
  <2>. QED
    BY <2>1, <2>2
<1>. QED
  BY <1>1, <1>2, PTL DEF UISpec, ViewFollows
=============================================================================

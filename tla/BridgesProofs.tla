--------------------------- MODULE BridgesProofs ----------------------------
(* Proofs about the device integrations (Bridges): one link to a hub, and  *)
(* entities that agree with the devices when nothing is on its way.        *)
EXTENDS Bridges, SequenceTheorems, FiniteSetTheorems, TLAPS

-----------------------------------------------------------------------------
(* The shape of the state.                                                 *)
Heards == [device : Devices, value : OnOff \cup {"toggle", "config", "removed"}]
Wishes == [device : Devices, value : OnOff \cup {"toggle"}]
States == [device : Devices, value : OnOff]
Orders == [device : Devices, value : Commands]
Calling(x) ==
    /\ DOMAIN x = {"what", "device", "value", "nr", "step", "answer"}
    /\ x.device \in Devices /\ x.step \in {"asked", "answered", "failed"}
    /\ x.answer \in [Devices -> OnOff]
    /\ integration # "rti" => x.value \in OnOff
    /\ x.value \in OnOff \cup {"toggle"}

Bounds(l) == l \in [flips : Nat, calls : Nat, faults : Nat] /\ l.faults <= MaxFaults

BridgeShape ==
    /\ integration \in Integrations
    /\ actual \in [Devices -> OnOff] /\ shown \in [Devices -> Values]
    /\ link \in {"down", "opening", "up"} /\ torn \in BOOLEAN /\ ready \in BOOLEAN
    /\ retry \in 0 .. 1
    /\ inbox \in Seq(Heards) /\ outbox \in Seq(Orders) /\ asking \in Seq(Devices)
    /\ topics \subseteq Devices /\ announced \subseteq Devices
    /\ Bounds(left)
    /\ \A x \in http : Calling(x)

(* Who has what.                                                           *)
Belongings ==
    /\ ~(IsLutron \/ IsIsy \/ IsEvl) => retry = 0
    /\ IsLutron \/ IsMqtt \/ IsEvl \/ IsYamaha => http = {}
    /\ ~IsMqtt => topics = Devices
    /\ IsEvl \/ IsMqtt => asking = << >>
    /\ ~(IsMqtt \/ IsRti) => inbox \in Seq(States)
    /\ IsRti => inbox \in Seq(Wishes) /\ outbox \in Seq(States)
    /\ IsMqtt \/ IsEvl \/ IsRti => ready

(* The session and its timer.                                              *)
LinkInv ==
    /\ torn /\ ~IsEvl => retry = 0
    /\ torn /\ IsLutron => link = "down"
    /\ IsIsy \/ IsEvl => /\ link # "down" => retry = 0
                         /\ link = "down" /\ ~torn => retry = 1
    /\ IsLutron /\ ~torn =>
          /\ opener \in {"setup", "timer", "nobody"}
          /\ link = "opening" => retry = 0 /\ opener # "nobody"
          /\ link = "up" => opener = "nobody"
          /\ opener = "setup" => retry = 0 /\ ~ready /\ link # "up"
          /\ ready /\ link = "up" => retry = 0
          /\ ready /\ link = "down" => (retry = 1) = (opener = "nobody")

(* What is on its way about d.  A message tells its state if its value is  *)
(* one; the last of them has the last word.                                *)
Tells(m, d) == m.device = d /\ m.value \in OnOff
LastWord(q, d, v) ==
    \E i \in 1 .. Len(q) : /\ Tells(q[i], d) /\ q[i].value = v
                           /\ \A j \in 1 .. Len(q) : Tells(q[j], d) => j <= i
Silent(q, d) == \A i \in 1 .. Len(q) : ~Tells(q[i], d)
About(q, d) == \E i \in 1 .. Len(q) : q[i].device = d
StillAsked(q, d) == \E i \in 1 .. Len(q) : i # 1 /\ q[i] = d

(* While the session stands the entity of d is, or will be, told right.    *)
Follows(d) ==
    \/ StillAsked(asking, d) \/ About(outbox, d)
    \/ LastWord(inbox, d, actual[d])
    \/ Silent(inbox, d) /\ (shown[d] = actual[d] \/ (IsMqtt /\ shown[d] = "absent"))

SessionAgrees ==
    (IsLutron \/ IsMqtt \/ IsEvl) /\ link = "up" /\ ready /\ ~torn
        => \A d \in topics : Follows(d)
RtiAgrees ==
    IsRti /\ left.faults = MaxFaults /\ ~torn => \A d \in Devices :
        \/ LastWord(outbox, d, actual[d])
        \/ Silent(outbox, d) /\ shown[d] \in {actual[d], "absent"}
YamahaAgrees ==
    IsYamaha /\ ~torn => \A d \in Devices :
        (\E i \in 1 .. Len(asking) : asking[i] = d) \/ shown[d] = actual[d]

BridgeInv == /\ BridgeShape /\ Belongings /\ LinkInv
             /\ SessionAgrees /\ RtiAgrees /\ YamahaAgrees

-----------------------------------------------------------------------------
(* Queues of messages.                                                     *)
LEMMA Longer ==
    ASSUME NEW S, NEW q \in Seq(S), NEW m \in S
    PROVE  /\ Append(q, m) \in Seq(S) /\ Len(Append(q, m)) = Len(q) + 1
           /\ Len(q) \in Nat
           /\ \A i \in 1 .. Len(q) : Append(q, m)[i] = q[i]
           /\ Append(q, m)[Len(q) + 1] = m
OBVIOUS

LEMMA Appended ==
    ASSUME NEW S, NEW q \in Seq(S), NEW m \in S, NEW d
    PROVE  /\ Tells(m, d) => LastWord(Append(q, m), d, m.value)
           /\ ~Tells(m, d) => /\ \A v : LastWord(q, d, v) => LastWord(Append(q, m), d, v)
                              /\ Silent(q, d) => Silent(Append(q, m), d)
           /\ About(q, d) \/ m.device = d => About(Append(q, m), d)
<1> DEFINE r == Append(q, m)
<1>1. /\ r \in Seq(S) /\ Len(r) = Len(q) + 1 /\ Len(q) \in Nat
      /\ \A i \in 1 .. Len(q) : r[i] = q[i]
      /\ r[Len(q) + 1] = m
  OBVIOUS
<1> HIDE DEF r
<1>2. Tells(m, d) => LastWord(r, d, m.value)
  BY <1>1 DEF LastWord
<1>3. ~Tells(m, d) => /\ \A v : LastWord(q, d, v) => LastWord(r, d, v)
                      /\ Silent(q, d) => Silent(r, d)
  BY <1>1 DEF LastWord, Silent
<1>4. About(q, d) \/ m.device = d => About(r, d)
  BY <1>1 DEF About
<1> QED BY <1>1, <1>2, <1>3, <1>4 DEF r

LEMMA Taken ==
    ASSUME NEW S, NEW q \in Seq(S), q # << >>, NEW d
    PROVE  /\ Tail(q) \in Seq(S) /\ Head(q) \in S /\ Len(Tail(q)) = Len(q) - 1
           /\ \A i \in 1 .. Len(q) - 1 : Tail(q)[i] = q[i + 1]
           /\ Len(q) \in Nat \ {0} /\ Head(q) = q[1]
           /\ Silent(q, d) => Silent(Tail(q), d) /\ ~Tells(Head(q), d)
           /\ \A v : LastWord(q, d, v) =>
                 \/ LastWord(Tail(q), d, v)
                 \/ Silent(Tail(q), d) /\ Tells(Head(q), d) /\ Head(q).value = v
           /\ About(q, d) => About(Tail(q), d) \/ Head(q).device = d
<1> DEFINE r == Tail(q)
           h == Head(q)
<1>1. /\ r \in Seq(S) /\ Len(r) = Len(q) - 1 /\ Len(q) \in Nat \ {0}
      /\ \A i \in 1 .. Len(q) - 1 : r[i] = q[i + 1]
      /\ h = q[1] /\ h \in S
  OBVIOUS
<1> HIDE DEF r, h
<1>2. \A i \in 1 .. Len(q) : i = 1 \/ (i - 1 \in 1 .. Len(r) /\ r[i - 1] = q[i])
  BY <1>1
<1>3. Silent(q, d) => Silent(r, d) /\ ~Tells(h, d)
  BY <1>1 DEF Silent
<1>4. ASSUME NEW v, LastWord(q, d, v)
      PROVE  LastWord(r, d, v) \/ (Silent(r, d) /\ Tells(h, d) /\ h.value = v)
  <2>1. PICK i \in 1 .. Len(q) : /\ Tells(q[i], d) /\ q[i].value = v
                                 /\ \A j \in 1 .. Len(q) : Tells(q[j], d) => j <= i
    BY <1>4 DEF LastWord
  <2>2. \A j \in 1 .. Len(r) : j + 1 \in 1 .. Len(q) /\ r[j] = q[j + 1]
    BY <1>1
  <2>3. CASE i = 1
    BY <1>1, <2>1, <2>2, <2>3 DEF Silent
  <2>4. CASE i # 1
    <3>1. i - 1 \in 1 .. Len(r) /\ r[i - 1] = q[i]
      BY <1>2, <2>4
    <3>2. \A j \in 1 .. Len(r) : Tells(r[j], d) => j <= i - 1
      BY <2>1, <2>2
    <3> QED BY <2>1, <3>1, <3>2 DEF LastWord
  <2> QED BY <2>3, <2>4
<1>5. About(q, d) => About(r, d) \/ h.device = d
  BY <1>1, <1>2 DEF About
<1> QED BY <1>1, <1>3, <1>4, <1>5 DEF r, h

LEMMA Quiet == ASSUME NEW d PROVE Silent(<< >>, d) /\ ~About(<< >>, d)
BY DEF Silent, About

LEMMA QueueOf ==
    ASSUME NEW n \in Nat, NEW S, NEW q \in [1 .. n -> S]
    PROVE  q \in Seq(S) /\ Len(q) = n
OBVIOUS

(* The devices one after the other, each once.                             *)
Listing(D) == CHOOSE s \in [1 .. Cardinality(D) -> D] : {s[i] : i \in 1 .. Cardinality(D)} = D

LEMMA ListedOnce ==
    ASSUME NEW D, IsFiniteSet(D)
    PROVE  /\ Cardinality(D) \in Nat /\ Listing(D) \in [1 .. Cardinality(D) -> D]
           /\ \A d \in D : \E i \in 1 .. Cardinality(D) : Listing(D)[i] = d
           /\ \A i, j \in 1 .. Cardinality(D) : Listing(D)[i] = Listing(D)[j] => i = j
<1> DEFINE n == Cardinality(D)
           s == Listing(D)
<1>1. n \in Nat /\ ExistsBijection(1 .. n, D)
  BY FS_CardinalityType
<1>2. PICK f : f \in Bijection(1 .. n, D)
  BY <1>1 DEF ExistsBijection
<1>3. f \in [1 .. n -> D] /\ \A d \in D : \E i \in 1 .. n : f[i] = d
  BY <1>2 DEF Bijection, Injection, Surjection, IsInjective
<1>4. {f[i] : i \in 1 .. n} = D
  BY <1>3
<1>11. \E t \in [1 .. n -> D] : {t[i] : i \in 1 .. n} = D
  BY <1>3, <1>4
<1>5. s \in [1 .. n -> D] /\ {s[i] : i \in 1 .. n} = D
  BY <1>11, Zenon DEF Listing
<1> HIDE DEF s, n
<1>6. \A d \in D : \E i \in 1 .. n : s[i] = d
  BY <1>5
<1>7. s \in Surjection(1 .. n, D)
  BY <1>5, <1>6 DEF Surjection
<1>8. IsFiniteSet(1 .. n) /\ Cardinality(1 .. n) = n
  BY <1>1, FS_Interval DEF n
<1>9. s \in Injection(1 .. n, D)
  BY <1>7, <1>8, FS_SurjSameCardinalityImpliesInj DEF n
<1> QED BY <1>1, <1>5, <1>6, <1>9 DEF Injection, IsInjective, n, s

LEMMA DevicesListed ==
    /\ Order \in Seq(Devices) /\ Order # << >>
    /\ \A d \in Devices : d = Head(Order) \/ StillAsked(Order, d)
<1> DEFINE n == Cardinality(Devices)
<1>1. Order = Listing(Devices) /\ IsFiniteSet(Devices) /\ Devices # {}
  BY BridgeAssumption DEF Order, Listing, BridgeAssumption
<1>2. /\ n \in Nat /\ Order \in [1 .. n -> Devices]
      /\ \A d \in Devices : \E i \in 1 .. n : Order[i] = d
  BY <1>1, ListedOnce
<1> HIDE DEF n
<1>3. Order \in Seq(Devices) /\ Len(Order) = n
  BY <1>2, QueueOf
<1>4. n # 0
  BY <1>1, <1>2
<1>5. Order # << >> /\ Head(Order) = Order[1]
  BY <1>2, <1>3, <1>4
<1>6. \A d \in Devices : d = Head(Order) \/ StillAsked(Order, d)
  BY <1>2, <1>3, <1>5 DEF StillAsked
<1> QED BY <1>3, <1>5, <1>6

LEMMA QueriesForAll ==
    StatusQueries \in Seq(Orders) /\ \A d \in Devices : About(StatusQueries, d)
<1> DEFINE n == Cardinality(Devices)
           s == Listing(Devices)
           q == [i \in DOMAIN s |-> Message(s[i], "query")]
<1>1. IsFiniteSet(Devices)
  BY BridgeAssumption DEF BridgeAssumption
<1>2. n \in Nat /\ s \in [1 .. n -> Devices] /\ \A d \in Devices : \E i \in 1 .. n : s[i] = d
  BY <1>1, ListedOnce
<1>3. StatusQueries = q
  BY DEF StatusQueries, Listing
<1> HIDE DEF n, s
<1>4. q \in [1 .. n -> Orders] /\ \A i \in 1 .. n : q[i].device = s[i]
  BY <1>2 DEF Message, Orders, Commands
<1> HIDE DEF q
<1>5. q \in Seq(Orders) /\ Len(q) = n
  BY <1>2, <1>4, QueueOf
<1> QED BY <1>2, <1>3, <1>4, <1>5 DEF About

(* The retained states of the devices of D: one word about each.           *)
LEMMA RetainedStates ==
    ASSUME NEW D \in SUBSET Devices, NEW c \in [Devices -> {"config"} \cup OnOff]
    PROVE  /\ Retained(D, c) \in Seq(Heards)
           /\ \A i \in 1 .. Len(Retained(D, c)) :
                  Retained(D, c)[i].value = c[Retained(D, c)[i].device]
           /\ \A d \in D : c[d] \in OnOff => LastWord(Retained(D, c), d, c[d])
<1> DEFINE n == Cardinality(D)
           s == Listing(D)
           q == [i \in 1 .. n |-> Message(s[i], c[s[i]])]
<1>1. IsFiniteSet(D)
  BY BridgeAssumption, FS_Subset DEF BridgeAssumption
<1>2. /\ n \in Nat /\ s \in [1 .. n -> D] /\ \A d \in D : \E i \in 1 .. n : s[i] = d
      /\ \A i, j \in 1 .. n : s[i] = s[j] => i = j
  BY <1>1, ListedOnce
<1>3. Retained(D, c) = q
  BY DEF Retained, Listing
<1> HIDE DEF n, s
<1>4. /\ q \in [1 .. n -> Heards]
      /\ \A i \in 1 .. n : q[i].device = s[i] /\ q[i].value = c[s[i]]
  BY <1>2 DEF Message, Heards
<1> HIDE DEF q
<1>5. q \in Seq(Heards) /\ Len(q) = n
  BY <1>2, <1>4, QueueOf
<1>6. ASSUME NEW d \in D, c[d] \in OnOff PROVE LastWord(q, d, c[d])
  <2>1. PICK i \in 1 .. n : s[i] = d
    BY <1>2
  <2>2. \A j \in 1 .. n : Tells(q[j], d) => j = i
    BY <1>2, <1>4, <2>1 DEF Tells
  <2> QED BY <1>2, <1>4, <1>5, <1>6, <2>1, <2>2 DEF LastWord, Tells
<1> QED BY <1>3, <1>4, <1>5, <1>6

-----------------------------------------------------------------------------
(* The beginning, and the house.                                           *)
LEMMA Kinds ==
    /\ IsFiniteSet(Devices) /\ Devices # {}
    /\ MaxFlips \in Nat /\ MaxCalls \in Nat /\ MaxFaults \in Nat
BY BridgeAssumption DEF BridgeAssumption

LEMMA Spent ==
    ASSUME NEW l, Bounds(l), NEW what \in {"flips", "calls", "faults"}, l[what] > 0
    PROVE  /\ Bounds([l EXCEPT ![what] = @ - 1])
           /\ what = "faults" => [l EXCEPT ![what] = @ - 1].faults # MaxFaults
           /\ what # "faults" => [l EXCEPT ![what] = @ - 1].faults = l.faults
<1> USE Kinds DEF Bounds
<1>1. CASE what = "flips"
  BY <1>1
<1>2. CASE what = "calls"
  BY <1>2
<1>3. CASE what = "faults"
  BY <1>3
<1> QED BY <1>1, <1>2, <1>3

LEMMA BridgeInitially == Init => BridgeInv
<1> SUFFICES ASSUME Init PROVE BridgeInv
    OBVIOUS
<1> DEFINE Silence == inbox = << >> /\ outbox = << >> /\ asking = << >>
           l == [flips |-> MaxFlips, calls |-> MaxCalls, faults |-> MaxFaults]
           k == [flips |-> 0, calls |-> MaxCalls, faults |-> 0]
<1> USE DEF Init, Initially, LutronSetup, IsySetup, MqttSetup, RtiSetup, EvlSetup,
        ThermostatSetup, WeatherSetup, YamahaSetup, Unlinked
<1>1. integration \in Integrations /\ actual \in [Devices -> OnOff]
  OBVIOUS
<1>2. Silence /\ http = {} /\ retry = 0 /\ torn = FALSE /\ announced = {}
  OBVIOUS
<1>3. topics \subseteq Devices /\ ready \in BOOLEAN /\ link \in {"down", "opening", "up"}
  OBVIOUS
<1>4. shown \in [Devices -> Values]
  <2>1. OnOff \subseteq Values
    BY DEF Values
  <2>2. \A v \in Values : [d \in Devices |-> v] \in [Devices -> Values]
    OBVIOUS
  <2>3. {"unavailable", "absent", "off"} \subseteq Values
    BY DEF Values, OnOff
  <2>4. \/ shown = actual
        \/ shown = [d \in Devices |-> "unavailable"]
        \/ shown = [d \in Devices |-> "absent"]
        \/ shown = [d \in Devices |-> "off"]
    OBVIOUS
  <2> QED BY <1>1, <2>1, <2>2, <2>3, <2>4
<1>5. Bounds(left)
  <2>1. left = l \/ left = k
    OBVIOUS
  <2>2. Bounds(l) /\ Bounds(k)
    BY Kinds DEF Bounds
  <2> QED BY <2>1, <2>2
<1>6. /\ IsLutron => link = "opening" /\ opener = "setup" /\ ~ready /\ topics = Devices
      /\ IsIsy \/ IsEvl => link = "opening" /\ ready /\ topics = Devices
      /\ IsMqtt => link = "down" /\ ready
      /\ IsRti => ready /\ topics = Devices /\ shown = [d \in Devices |-> "absent"]
      /\ IsYamaha => shown = actual
      /\ ~IsMqtt => topics = Devices
  BY DEF IsLutron, IsIsy, IsEvl, IsMqtt, IsRti, IsYamaha
<1> HIDE DEF Init
<1>7. BridgeShape
  <2>1. inbox \in Seq(Heards) /\ outbox \in Seq(Orders) /\ asking \in Seq(Devices)
    BY <1>2
  <2>2. torn \in BOOLEAN
    BY <1>2, Zenon
  <2>4. retry \in 0 .. 1 /\ announced \subseteq Devices
    BY <1>2
  <2>3. \A x \in http : Calling(x)
    BY <1>2
  <2> QED BY <1>1, <1>3, <1>4, <1>5, <2>1, <2>2, <2>3, <2>4 DEF BridgeShape
<1>8. Belongings /\ LinkInv
  <2>1. inbox \in Seq(States) /\ inbox \in Seq(Wishes) /\ outbox \in Seq(States)
    BY <1>2
  <2> QED BY <1>2, <1>6, <2>1 DEF Belongings, LinkInv, IsLutron, IsIsy, IsEvl
<1>9. SessionAgrees /\ YamahaAgrees
  BY <1>2, <1>6 DEF SessionAgrees, YamahaAgrees, IsLutron, IsMqtt, IsEvl
<1>10. RtiAgrees
  BY <1>2, <1>6, Quiet DEF RtiAgrees
<1> QED BY <1>7, <1>8, <1>9, <1>10 DEF BridgeInv

(* What the hub tells of a device keeps its entity, and the others, on the *)
(* way to agreement.                                                       *)
LEMMA Reported ==
    ASSUME BridgeInv, NEW c \in Devices, NEW v \in OnOff, actual' = [actual EXCEPT ![c] = v],
           Report(c, v), UNCHANGED <<integration, ready, asking, torn, topics, shown, link>>,
           \A d \in Devices : d # c /\ About(outbox, d) => About(outbox', d)
    PROVE  /\ actual' \in [Devices -> OnOff] /\ inbox' \in Seq(Heards)
           /\ ~(IsMqtt \/ IsRti) => inbox' \in Seq(States)
           /\ SessionAgrees'
<1> USE DEF BridgeInv, BridgeShape
<1> DEFINE m == Message(c, v)
<1>1. m \in Heards /\ m.device = c /\ m.value = v
  BY DEF Message, Heards
<1> HIDE DEF m
<1>2. inbox' = inbox \/ inbox' = Append(inbox, m)
  BY DEF Report, m
<1>3. inbox' \in Seq(Heards)
  <2>1. Append(inbox, m) \in Seq(Heards)
    BY <1>1, Longer
  <2> QED BY <1>2, <2>1
<1>4. ~(IsMqtt \/ IsRti) => inbox' \in Seq(States)
  <2>1. m \in States
    BY DEF Message, States, m
  <2>2. ASSUME inbox \in Seq(States) PROVE Append(inbox, m) \in Seq(States)
    BY <2>1, <2>2, Longer
  <2> QED BY <1>2, <2>2 DEF Belongings
<1>5. actual' \in [Devices -> OnOff] /\ actual'[c] = v
      /\ \A d \in Devices : d # c => actual'[d] = actual[d]
  OBVIOUS
<1>6. ASSUME (IsLutron \/ IsMqtt \/ IsEvl) /\ link = "up" /\ ready /\ ~torn, NEW d \in topics
      PROVE  Follows(d)'
  <2>1. Follows(d) /\ d \in Devices
    BY <1>6 DEF SessionAgrees
  <2>2. IsMqtt' = IsMqtt
    BY DEF IsMqtt
  <2>3. CASE d = c
    <3>1. inbox' = Append(inbox, m)
      BY <1>6, <2>3 DEF Report, Heard, IsLutron, IsMqtt, IsEvl, m
    <3>2. Tells(m, d)
      BY <1>1, <2>3 DEF Tells
    <3>3. LastWord(inbox', d, m.value)
      BY <1>1, <3>1, <3>2, Appended
    <3> QED BY <1>1, <1>5, <2>3, <3>3 DEF Follows
  <2>4. CASE d # c
    <3>1. ~Tells(m, d)
      BY <1>1, <2>4 DEF Tells
    <3>2. /\ \A w : LastWord(inbox, d, w) => LastWord(inbox', d, w)
          /\ Silent(inbox, d) => Silent(inbox', d)
      <4>1. CASE inbox' = inbox
        BY <4>1
      <4>2. CASE inbox' = Append(inbox, m)
        <5> DEFINE r == Append(inbox, m)
        <5>1. /\ \A w : LastWord(inbox, d, w) => LastWord(r, d, w)
              /\ Silent(inbox, d) => Silent(r, d)
          BY <1>1, <3>1, Appended
        <5> HIDE DEF r
        <5>2. inbox' = r
          BY <4>2 DEF r
        <5> QED BY <5>1, <5>2
      <4> QED BY <1>2, <4>1, <4>2
    <3> QED BY <1>5, <2>1, <2>2, <2>4, <3>2 DEF Follows
  <2> QED BY <2>3, <2>4
<1>7. SessionAgrees'
  BY <1>6 DEF SessionAgrees, IsLutron, IsMqtt, IsEvl
<1> QED BY <1>3, <1>4, <1>5, <1>7

LEMMA HouseKeeps == ASSUME BridgeInv, House PROVE BridgeInv'
<1> USE DEF BridgeInv, quietVars
<1>1. ASSUME NEW d \in Devices, Flip(d) PROVE BridgeInv'
  <2>1. /\ integration \notin {"rti", "yamaha_avr"} /\ Spend("flips")
        /\ actual' = [actual EXCEPT ![d] = Opposite(@)] /\ Report(d, actual'[d])
        /\ UNCHANGED <<quietVars, shown, link, outbox, retry, http>>
    BY <1>1 DEF Flip
  <2>2. Opposite(actual[d]) \in OnOff /\ actual'[d] = Opposite(actual[d])
    BY <2>1 DEF Opposite, OnOff, BridgeShape
  <2>3. Bounds(left')
    BY <2>1, Spent DEF Spend, BridgeShape
  <2>4. /\ actual' \in [Devices -> OnOff] /\ inbox' \in Seq(Heards)
        /\ ~(IsMqtt \/ IsRti) => inbox' \in Seq(States)
        /\ SessionAgrees'
    BY <2>1, <2>2, Reported
  <2>5. BridgeShape'
    BY <2>1, <2>3, <2>4 DEF BridgeShape, Calling
  <2>6. Belongings' /\ LinkInv'
    BY <2>1, <2>4 DEF Belongings, LinkInv, IsLutron, IsIsy, IsEvl, IsMqtt, IsRti, IsYamaha
  <2> QED BY <2>1, <2>4, <2>5, <2>6 DEF RtiAgrees, YamahaAgrees, IsRti, IsYamaha
<1>2. CASE HubExecutes
  <2> DEFINE c == Head(outbox)
             v == CASE c.value = "toggle" -> Opposite(actual[c.device])
                    [] c.value = "query"  -> actual[c.device]
                    [] OTHER              -> c.value
  <2>1. /\ link = "up" /\ outbox # << >> /\ integration \notin {"rti", "yamaha_avr"}
        /\ outbox' = Tail(outbox) /\ actual' = [actual EXCEPT ![c.device] = v]
        /\ Report(c.device, v)
        /\ UNCHANGED <<quietVars, shown, link, retry, http, left>>
    BY <1>2 DEF HubExecutes
  <2>2. c \in Orders /\ Tail(outbox) \in Seq(Orders)
    BY <2>1 DEF BridgeShape
  <2>3. c.device \in Devices /\ v \in OnOff
    BY <2>2 DEF Orders, Commands, Opposite, OnOff, BridgeShape
  <2> HIDE DEF v
  <2>4. \A d \in Devices : d # c.device /\ About(outbox, d) => About(outbox', d)
    BY <2>1, Taken DEF BridgeShape
  <2>5. /\ actual' \in [Devices -> OnOff] /\ inbox' \in Seq(Heards)
        /\ ~(IsMqtt \/ IsRti) => inbox' \in Seq(States)
        /\ SessionAgrees'
    BY <2>1, <2>3, <2>4, Reported
  <2>6. BridgeShape'
    BY <2>1, <2>2, <2>5 DEF BridgeShape, Calling
  <2>7. Belongings' /\ LinkInv'
    BY <2>1, <2>5 DEF Belongings, LinkInv, IsLutron, IsIsy, IsEvl, IsMqtt, IsRti, IsYamaha
  <2> QED BY <2>1, <2>5, <2>6, <2>7 DEF RtiAgrees, YamahaAgrees, IsRti, IsYamaha
<1>3. ASSUME NEW x \in http, HubAnswers(x) \/ HubFails(x) PROVE BridgeInv'
  <2>1. /\ integration # "rti" /\ x.step = "asked"
        /\ UNCHANGED <<quietVars, shown, link, outbox, retry>>
        /\ left' = left \/ Spend("faults")
        /\ \/ UNCHANGED <<actual, inbox>>
           \/ actual' = [actual EXCEPT ![x.device] = x.value] /\ Report(x.device, x.value)
    BY <1>3 DEF HubAnswers, HubFails
  <2>2. /\ ~(IsLutron \/ IsMqtt \/ IsEvl \/ IsYamaha \/ IsRti) /\ Calling(x)
        /\ x.device \in Devices /\ x.value \in OnOff
    BY <1>3, <2>1 DEF Belongings, IsRti, BridgeShape, Calling
  <2>3. Bounds(left')
    BY <2>1, Spent DEF Spend, BridgeShape
  <2>4. /\ actual' \in [Devices -> OnOff] /\ inbox' \in Seq(Heards)
        /\ inbox' \in Seq(States)
    <3>1. CASE UNCHANGED <<actual, inbox>>
      BY <2>2, <3>1 DEF BridgeShape, Belongings
    <3>2. CASE actual' = [actual EXCEPT ![x.device] = x.value] /\ Report(x.device, x.value)
      BY <2>1, <2>2, <3>2, Reported
    <3> QED BY <2>1, <3>1, <3>2
  <2>5. \A y \in http' : Calling(y)'
    <3>1. \A y \in http : Calling(y)' = Calling(y)
      BY <2>1 DEF Calling
    <3>2. PICK y : /\ http' = (http \ {x}) \cup {y}
                   /\ \/ y = [x EXCEPT !.step = "answered", !.answer = actual']
                      \/ y = [x EXCEPT !.step = "failed"]
      BY <1>3 DEF HubAnswers, HubFails
    <3>3. Calling(y)'
      BY <2>1, <2>2, <2>4, <3>2 DEF Calling
    <3> QED BY <3>1, <3>2, <3>3 DEF BridgeShape
  <2>6. BridgeShape'
    BY <2>1, <2>3, <2>4, <2>5 DEF BridgeShape
  <2>7. Belongings' /\ LinkInv'
    BY <2>1, <2>2, <2>4 DEF Belongings, LinkInv, IsLutron, IsIsy, IsEvl, IsMqtt, IsRti, IsYamaha
  <2> QED BY <2>1, <2>2, <2>6, <2>7 DEF SessionAgrees, RtiAgrees, YamahaAgrees, IsLutron,
          IsEvl, IsMqtt, IsRti, IsYamaha
<1> QED BY <1>1, <1>2, <1>3 DEF House

-----------------------------------------------------------------------------
(* One value of a function of the devices replaced.                        *)
LEMMA OneShown ==
    ASSUME NEW f \in [Devices -> Values], NEW c \in Devices, NEW v \in Values
    PROVE  /\ [f EXCEPT ![c] = v] \in [Devices -> Values]
           /\ [f EXCEPT ![c] = v][c] = v
           /\ \A d \in Devices : d # c => [f EXCEPT ![c] = v][d] = f[d]
OBVIOUS

LEMMA Shows == OnOff \subseteq Values /\ {"unavailable", "absent", "off"} \subseteq Values
BY DEF Values, OnOff

(* A message of the hub is taken from the queue and shown: the entities go *)
(* on following their devices.                                             *)
LEMMA Followed ==
    ASSUME BridgeShape, NEW d \in Devices, Follows(d), inbox # << >>, inbox \in Seq(States),
           inbox' = Tail(inbox), UNCHANGED <<actual, integration>>,
           shown' = [shown EXCEPT ![Head(inbox).device] = Head(inbox).value],
           About(outbox, d) => About(outbox', d),
           StillAsked(asking, d) => StillAsked(asking', d) \/ About(outbox', d)
    PROVE  Follows(d)'
<1> DEFINE m == Head(inbox)
<1>1. /\ m.device \in Devices /\ m.value \in OnOff
      /\ shown' = [shown EXCEPT ![m.device] = m.value]
  <2>1. m \in States
    BY Taken
  <2> QED BY <2>1 DEF States
<1>2. /\ Silent(inbox, d) => Silent(inbox', d) /\ ~Tells(m, d)
      /\ \A v : LastWord(inbox, d, v) =>
            LastWord(inbox', d, v) \/ (Silent(inbox', d) /\ Tells(m, d) /\ m.value = v)
  <2>1. /\ Silent(inbox, d) => Silent(Tail(inbox), d) /\ ~Tells(m, d)
        /\ \A v : LastWord(inbox, d, v) =>
              LastWord(Tail(inbox), d, v) \/ (Silent(Tail(inbox), d) /\ Tells(m, d) /\ m.value = v)
    BY Taken
  <2> QED BY <2>1
<1> HIDE DEF m
<1>3. m.device = d => shown'[d] = m.value
  BY <1>1 DEF BridgeShape
<1>4. m.device # d => shown'[d] = shown[d]
  BY <1>1 DEF BridgeShape
<1>5. IsMqtt' = IsMqtt
  BY DEF IsMqtt
<1>6. CASE StillAsked(asking, d) \/ About(outbox, d)
  BY <1>6 DEF Follows
<1>7. CASE LastWord(inbox, d, actual[d])
  BY <1>2, <1>3, <1>7 DEF Follows, Tells
<1>8. CASE Silent(inbox, d) /\ (shown[d] = actual[d] \/ (IsMqtt /\ shown[d] = "absent"))
  BY <1>1, <1>2, <1>4, <1>5, <1>8 DEF Follows, Tells
<1> QED BY <1>6, <1>7, <1>8 DEF Follows

-----------------------------------------------------------------------------
(* Lutron Caseta.                                                          *)

(* The next device of a fetch is asked for.                                *)
LEMMA Asked ==
    ASSUME NEW rest \in Seq(Devices), outbox \in Seq(Orders), GetLevel(rest)
    PROVE  /\ asking' = rest /\ outbox' \in Seq(Orders)
           /\ \A d : About(outbox, d) => About(outbox', d)
           /\ rest # << >> /\ link' = "up" => About(outbox', Head(rest))
<1>1. CASE rest # << >> /\ link' = "up"
  <2> DEFINE m == Message(Head(rest), "query")
             r == Append(outbox, m)
  <2>1. m \in Orders /\ m.device = Head(rest)
    BY <1>1 DEF Message, Orders, Commands
  <2>2. r \in Seq(Orders) /\ \A d : About(outbox, d) \/ m.device = d => About(r, d)
    <3> HIDE DEF m
    <3>1. \A d : About(outbox, d) \/ m.device = d => About(r, d)
      <4> TAKE d
      <4> QED BY <2>1, Appended
    <3> QED BY <2>1, <3>1, Longer
  <2> HIDE DEF m
  <2>3. outbox' = r /\ asking' = rest
    BY <1>1 DEF GetLevel, m
  <2> HIDE DEF r
  <2> QED BY <2>1, <2>2, <2>3
<1>2. CASE ~(rest # << >> /\ link' = "up")
  BY <1>2 DEF GetLevel
<1> QED BY <1>1, <1>2

LEMMA LutronKeeps == ASSUME BridgeInv, IsLutron, LutronNext PROVE BridgeInv'
<1> USE DEF BridgeInv, quietVars
<1> DEFINE Kept ==
               /\ UNCHANGED <<integration, actual, http, topics, announced>>
               /\ link' \in {"down", "opening", "up"} /\ torn' \in BOOLEAN
               /\ ready' \in BOOLEAN /\ retry' \in 0 .. 1
               /\ inbox' \in Seq(States) /\ inbox' \in Seq(Heards)
               /\ outbox' \in Seq(Orders) /\ asking' \in Seq(Devices)
               /\ shown' \in [Devices -> Values] /\ Bounds(left')
               /\ LinkInv'
               /\ link' = "up" /\ ready' /\ ~torn' => \A d \in Devices : Follows(d)'
<1>1. /\ ~IsIsy /\ ~IsMqtt /\ ~IsRti /\ ~IsEvl /\ ~IsYamaha /\ http = {} /\ topics = Devices
      /\ inbox \in Seq(States) /\ inbox \in Seq(Heards) /\ outbox \in Seq(Orders)
      /\ asking \in Seq(Devices) /\ shown \in [Devices -> Values]
      /\ Bounds(left)
  BY DEF IsLutron, IsIsy, IsMqtt, IsRti, IsEvl, IsYamaha, Belongings, BridgeShape
<1>2. SUFFICES Kept
  <2>1. IsLutron' /\ ~IsIsy' /\ ~IsMqtt' /\ ~IsRti' /\ ~IsEvl' /\ ~IsYamaha'
    BY <1>1, <1>2 DEF IsLutron, IsIsy, IsMqtt, IsRti, IsEvl, IsYamaha
  <2>2. BridgeShape'
    BY <1>1, <1>2 DEF BridgeShape
  <2>3. Belongings' /\ RtiAgrees' /\ YamahaAgrees'
    BY <1>1, <1>2, <2>1 DEF Belongings, RtiAgrees, YamahaAgrees
  <2>4. SessionAgrees'
    BY <1>1, <1>2, <2>1 DEF SessionAgrees
  <2> QED BY <1>2, <2>2, <2>3, <2>4
<1>3. IsLutron' = IsLutron /\ IsIsy' = IsIsy /\ IsEvl' = IsEvl
  BY DEF LutronNext, LoggedIn, OpeningFails, ClosedAtLogin, SessionLost, TimerReconnects,
     Output, QueryTimesOut, LutronCall, LutronTeardown, IsLutron, IsIsy, IsEvl
<1>4. << >> \in Seq(States) /\ << >> \in Seq(Heards) /\ << >> \in Seq(Orders)
  OBVIOUS
<1>5. CASE LoggedIn
  <2>1. /\ link = "opening" /\ link' = "up" /\ ready' = (ready \/ opener = "setup")
        /\ opener' = "nobody" /\ inbox' = << >> /\ GetLevel(Order)
        /\ UNCHANGED <<integration, actual, shown, retry, http, torn, left, topics, announced>>
    BY <1>5 DEF LoggedIn
  <2>2. asking' = Order /\ outbox' \in Seq(Orders) /\ About(outbox', Head(Order))
    BY <1>1, <2>1, DevicesListed, Asked
  <2>3. ready' \in BOOLEAN /\ torn' \in BOOLEAN /\ retry' \in 0 .. 1
    BY <2>1 DEF BridgeShape
  <2>4. LinkInv'
    BY <1>1, <1>3, <2>1 DEF LinkInv
  <2>5. \A d \in Devices : Follows(d)'
    BY <2>2, DevicesListed DEF Follows
  <2> QED BY <1>1, <1>4, <2>1, <2>2, <2>3, <2>4, <2>5, DevicesListed
<1>6. CASE OpeningFails
  <2>1. /\ link = "opening" /\ Spend("faults") /\ link' = "down"
        /\ shown' = [d \in Devices |-> "unavailable"] \/ shown' = shown
        /\ retry' = 1 /\ opener' = "nobody"
        /\ UNCHANGED <<integration, actual, inbox, outbox, ready, asking, http, torn, topics,
                       announced>>
    BY <1>6 DEF OpeningFails, MarkAllUnavailable, Schedule
  <2>2. Bounds(left')
    BY <1>1, <2>1, Spent DEF Spend
  <2>3. shown' \in [Devices -> Values] /\ ready' \in BOOLEAN /\ torn' \in BOOLEAN
    BY <1>1, <2>1, Shows DEF BridgeShape
  <2>4. LinkInv'
    BY <1>1, <1>3, <2>1 DEF LinkInv
  <2> QED BY <1>1, <2>1, <2>2, <2>3, <2>4
<1>7. CASE ClosedAtLogin
  <2>1. /\ link = "opening" /\ Spend("faults") /\ link' = "down"
        /\ UNCHANGED <<quietVars, actual, shown, inbox, outbox, retry, http>>
    BY <1>7 DEF ClosedAtLogin
  <2>2. Bounds(left')
    BY <1>1, <2>1, Spent DEF Spend
  <2>3. retry' \in 0 .. 1 /\ ready' \in BOOLEAN /\ torn' \in BOOLEAN
    BY <1>1, <2>1 DEF BridgeShape
  <2>4. LinkInv'
    BY <1>1, <1>3, <2>1 DEF LinkInv
  <2> QED BY <1>1, <2>1, <2>2, <2>3, <2>4
<1>8. CASE SessionLost
  <2>1. /\ link = "up" /\ Spend("faults") /\ link' = "down" /\ inbox' = << >>
        /\ outbox' = << >>
        /\ \/ ready /\ shown' = [d \in Devices |-> "unavailable"] /\ retry' = 1
           \/ ~ready /\ shown' = shown /\ retry' = retry
        /\ UNCHANGED <<quietVars, actual, http>>
    BY <1>8 DEF SessionLost, MarkAllUnavailable, Schedule
  <2>2. Bounds(left')
    BY <1>1, <2>1, Spent DEF Spend
  <2>3. /\ shown' \in [Devices -> Values] /\ ready' \in BOOLEAN /\ torn' \in BOOLEAN
        /\ retry' \in 0 .. 1
    BY <1>1, <2>1, Shows DEF BridgeShape
  <2>4. LinkInv'
    BY <1>1, <1>3, <2>1 DEF LinkInv
  <2> QED BY <1>1, <1>4, <2>1, <2>2, <2>3, <2>4
<1>9. CASE TimerReconnects
  <2>1. /\ retry > 0 /\ retry' = retry - 1 /\ link' = "opening" /\ opener' = "timer"
        /\ UNCHANGED <<integration, actual, shown, inbox, outbox, ready, asking, http, torn,
                       left, topics, announced>>
    BY <1>9 DEF TimerReconnects
  <2>2. retry = 1 /\ retry' = 0
    BY <2>1 DEF BridgeShape
  <2>3. /\ link' = "opening" /\ opener' = "timer"
        /\ UNCHANGED <<integration, actual, shown, inbox, outbox, ready, asking, http, torn,
                       left, topics, announced>>
    BY <2>1
  <2>4. retry' \in 0 .. 1 /\ ready' \in BOOLEAN /\ torn' \in BOOLEAN
    BY <2>2, <2>3 DEF BridgeShape
  <2>5. LinkInv'
    BY <1>1, <1>3, <2>2, <2>3 DEF LinkInv
  <2> QED BY <1>1, <2>3, <2>4, <2>5
<1>10. CASE Output
  <2> DEFINE m == Head(inbox)
             answers == asking # << >> /\ Head(asking) = m.device
  <2>1. /\ link = "up" /\ inbox # << >> /\ inbox' = Tail(inbox) /\ link' = link
        /\ shown' = IF ready \/ answers THEN [shown EXCEPT ![m.device] = m.value] ELSE shown
        /\ answers => GetLevel(Tail(asking))
        /\ ~answers => UNCHANGED <<asking, outbox>>
        /\ UNCHANGED <<integration, actual, retry, ready, opener, http, torn, left, topics,
                       announced>>
    BY <1>10 DEF Output
  <2>2. m \in States /\ Tail(inbox) \in Seq(States) /\ Tail(inbox) \in Seq(Heards)
    BY <1>1, <2>1, Taken
  <2>3. shown' \in [Devices -> Values]
    BY <1>1, <2>1, <2>2, Shows, OneShown DEF States
  <2>4. asking # << >> => Tail(asking) \in Seq(Devices)
    BY <1>1
  <2>5. /\ asking' \in Seq(Devices) /\ outbox' \in Seq(Orders)
        /\ \A d : About(outbox, d) => About(outbox', d)
        /\ answers /\ Tail(asking) # << >> => About(outbox', Head(Tail(asking)))
        /\ answers => asking' = Tail(asking)
    BY <1>1, <2>1, <2>4, Asked
  <2> HIDE DEF m
  <2>6. \A d : StillAsked(asking, d) => StillAsked(asking', d) \/ About(outbox', d)
    <3>1. CASE ~answers
      BY <2>1, <3>1
    <3>2. CASE answers
      <4> SUFFICES ASSUME NEW d, StillAsked(asking, d), ~StillAsked(asking', d)
                   PROVE  About(outbox', d)
          OBVIOUS
      <4> DEFINE r == Tail(asking)
      <4>1. Len(r) = Len(asking) - 1 /\ \A i \in 1 .. Len(asking) - 1 : r[i] = asking[i + 1]
        BY <1>1, <3>2
      <4>2. PICK i \in 1 .. Len(asking) : i # 1 /\ asking[i] = d
        BY DEF StillAsked
      <4>3. i - 1 \in 1 .. Len(r) /\ r[i - 1] = d /\ Len(asking) \in Nat
        BY <1>1, <4>1, <4>2
      <4>4. r \in Seq(Devices) /\ r # << >> /\ Head(r) = r[1] /\ asking' = r
        <5>1. r \in Seq(Devices) /\ asking' = r
          BY <2>4, <2>5, <3>2
        <5>2. Len(r) # 0
          BY <4>3
        <5> HIDE DEF r
        <5> QED BY <5>1, <5>2
      <4> HIDE DEF r
      <4>5. i - 1 = 1
        BY <4>3, <4>4 DEF StillAsked
      <4> QED BY <2>5, <3>2, <4>3, <4>4, <4>5 DEF r
    <3> QED BY <3>1, <3>2
  <2>7. ASSUME ready', ~torn', NEW d \in Devices PROVE Follows(d)'
    <3>1. Follows(d) /\ shown' = [shown EXCEPT ![Head(inbox).device] = Head(inbox).value]
      BY <1>1, <2>1, <2>7 DEF SessionAgrees, m
    <3> QED BY <1>1, <2>1, <2>5, <2>6, <3>1, Followed
  <2>8. retry' \in 0 .. 1 /\ ready' \in BOOLEAN /\ torn' \in BOOLEAN
    BY <2>1 DEF BridgeShape
  <2>9. LinkInv'
    BY <1>1, <1>3, <2>1 DEF LinkInv
  <2> QED BY <1>1, <2>1, <2>2, <2>3, <2>5, <2>7, <2>8, <2>9
<1>11. CASE QueryTimesOut
  <2>1. /\ asking # << >> /\ link # "up" /\ link' = link
        /\ shown' = [shown EXCEPT ![Head(asking)] = "off"] /\ GetLevel(Tail(asking))
        /\ UNCHANGED <<integration, actual, inbox, retry, ready, opener, http, torn, left,
                       topics, announced>>
    BY <1>11 DEF QueryTimesOut
  <2>2. Tail(asking) \in Seq(Devices) /\ Head(asking) \in Devices
    BY <1>1, <2>1
  <2>3. asking' \in Seq(Devices) /\ outbox' \in Seq(Orders)
    BY <1>1, <2>1, <2>2, Asked
  <2>4. shown' \in [Devices -> Values]
    BY <1>1, <2>1, <2>2, Shows, OneShown
  <2>5. /\ retry' \in 0 .. 1 /\ ready' \in BOOLEAN /\ torn' \in BOOLEAN
        /\ link' \in {"down", "opening", "up"}
    BY <2>1 DEF BridgeShape
  <2>6. LinkInv'
    BY <1>1, <1>3, <2>1 DEF LinkInv
  <2> QED BY <1>1, <2>1, <2>3, <2>4, <2>5, <2>6
<1>12. ASSUME NEW c \in Devices, NEW v \in OnOff, LutronCall(c, v)
       PROVE  Kept
  <2> DEFINE m == Message(c, v)
             r == Append(outbox, m)
  <2>1. /\ ready /\ Spend("calls") /\ outbox' = IF link = "up" THEN r ELSE outbox
        /\ shown' = [shown EXCEPT ![c] = v]
        /\ UNCHANGED <<quietVars, actual, link, inbox, retry, http>>
    BY <1>12 DEF LutronCall
  <2>2. m \in Orders /\ m.device = c
    BY DEF Message, Orders, Commands
  <2> HIDE DEF m
  <2>3. r \in Seq(Orders) /\ \A d : About(outbox, d) \/ m.device = d => About(r, d)
    <3>1. \A d : About(outbox, d) \/ m.device = d => About(r, d)
      <4> TAKE d
      <4> QED BY <1>1, <2>2, Appended
    <3> QED BY <1>1, <2>2, <3>1, Longer
  <2> HIDE DEF r
  <2>4. Bounds(left')
    BY <1>1, <2>1, Spent DEF Spend
  <2>5. /\ shown' \in [Devices -> Values]
        /\ \A d \in Devices : d # c => shown'[d] = shown[d]
    BY <1>1, <2>1, Shows, OneShown
  <2>6. LinkInv'
    BY <1>1, <1>3, <2>1 DEF LinkInv
  <2>7. ASSUME link' = "up", ready', ~torn', NEW d \in Devices PROVE Follows(d)'
    <3>1. Follows(d) /\ outbox' = r
      BY <1>1, <2>1, <2>7 DEF SessionAgrees
    <3>2. CASE d = c
      BY <2>2, <2>3, <3>1, <3>2 DEF Follows
    <3>3. CASE d # c
      BY <1>1, <2>1, <2>3, <2>5, <3>1, <3>3 DEF Follows
    <3> QED BY <3>2, <3>3
  <2>8. /\ retry' \in 0 .. 1 /\ ready' \in BOOLEAN /\ torn' \in BOOLEAN
        /\ link' \in {"down", "opening", "up"}
    BY <2>1 DEF BridgeShape
  <2> QED BY <1>1, <2>1, <2>3, <2>4, <2>5, <2>6, <2>7, <2>8
<1>13. CASE LutronTeardown
  <2>1. /\ torn' = TRUE /\ retry' = 0 /\ link' = "down" /\ inbox' = << >> /\ outbox' = << >>
        /\ opener' = "nobody"
        /\ UNCHANGED <<integration, actual, shown, ready, asking, http, left, topics,
                       announced>>
    BY <1>13 DEF LutronTeardown
  <2>2. ready' \in BOOLEAN /\ torn'
    BY <2>1 DEF BridgeShape
  <2>3. torn' \in BOOLEAN
    BY <2>1, Zenon
  <2>4. LinkInv'
    BY <1>1, <1>3, <2>1 DEF LinkInv
  <2> QED BY <1>1, <1>4, <2>1, <2>2, <2>3, <2>4
<1> QED BY <1>5, <1>6, <1>7, <1>8, <1>9, <1>10, <1>11, <1>12, <1>13 DEF LutronNext

-----------------------------------------------------------------------------
(* Envisalink.                                                             *)
LEMMA EvlKeeps == ASSUME BridgeInv, IsEvl, EvlNext PROVE BridgeInv'
<1> USE DEF BridgeInv, quietVars
<1> DEFINE Kept ==
               /\ UNCHANGED <<integration, actual, http, topics, announced, ready, asking>>
               /\ link' \in {"down", "opening", "up"} /\ torn' \in BOOLEAN
               /\ retry' \in 0 .. 1
               /\ inbox' \in Seq(States) /\ inbox' \in Seq(Heards)
               /\ outbox' \in Seq(Orders)
               /\ shown' \in [Devices -> Values] /\ Bounds(left')
               /\ LinkInv'
               /\ link' = "up" /\ ready' /\ ~torn' => \A d \in Devices : Follows(d)'
<1>1. /\ ~IsIsy /\ ~IsMqtt /\ ~IsRti /\ ~IsLutron /\ ~IsYamaha /\ http = {} /\ topics = Devices
      /\ inbox \in Seq(States) /\ inbox \in Seq(Heards) /\ outbox \in Seq(Orders)
      /\ asking = << >> /\ shown \in [Devices -> Values]
      /\ Bounds(left) /\ ready
  BY DEF IsLutron, IsIsy, IsMqtt, IsRti, IsEvl, IsYamaha, Belongings, BridgeShape
<1>2. SUFFICES Kept
  <2>1. IsEvl' /\ ~IsIsy' /\ ~IsMqtt' /\ ~IsRti' /\ ~IsLutron' /\ ~IsYamaha'
    BY <1>1, <1>2 DEF IsLutron, IsIsy, IsMqtt, IsRti, IsEvl, IsYamaha
  <2>2. BridgeShape'
    BY <1>1, <1>2 DEF BridgeShape
  <2>3. Belongings' /\ RtiAgrees' /\ YamahaAgrees'
    BY <1>1, <1>2, <2>1 DEF Belongings, RtiAgrees, YamahaAgrees
  <2>4. SessionAgrees'
    BY <1>1, <1>2, <2>1 DEF SessionAgrees
  <2> QED BY <1>2, <2>2, <2>3, <2>4
<1>3. IsLutron' = IsLutron /\ IsIsy' = IsIsy /\ IsEvl' = IsEvl
  BY DEF EvlNext, Authenticated, PollTimer, EvlClosed, EvlConnect, ParseMessage, EvlCall,
     EvlTeardown, IsLutron, IsIsy, IsEvl
<1>4. << >> \in Seq(States) /\ << >> \in Seq(Heards) /\ << >> \in Seq(Orders)
  OBVIOUS
<1>5. /\ link \in {"down", "opening", "up"} /\ retry \in 0 .. 1 /\ torn \in BOOLEAN
      /\ link # "down" => retry = 0
  BY DEF BridgeShape, LinkInv
<1>6. CASE Authenticated \/ PollTimer
  <2>1. /\ link # "down" /\ link' = "up"
        /\ inbox' = << >> /\ outbox' = StatusQueries
        /\ UNCHANGED <<quietVars, actual, shown, retry, http, left>>
    BY <1>6 DEF Authenticated, PollTimer, StartPolls
  <2>2. LinkInv'
    BY <1>1, <1>3, <1>5, <2>1 DEF LinkInv
  <2>3. \A d \in Devices : Follows(d)'
    BY <2>1, QueriesForAll DEF Follows
  <2> QED BY <1>1, <1>4, <1>5, <2>1, <2>2, <2>3, QueriesForAll
<1>7. CASE EvlClosed
  <2>1. /\ link # "down" /\ left.faults > 0 /\ left' = [left EXCEPT !["faults"] = @ - 1]
        /\ link' = "down" /\ inbox' = << >> /\ outbox' = << >> /\ retry' = retry + 1
        /\ UNCHANGED <<quietVars, actual, shown, http>>
    BY <1>7 DEF EvlClosed
  <2>2. Bounds(left')
    BY <1>1, <2>1, Spent
  <2>3. retry' = 1
    BY <1>5, <2>1
  <2>4. LinkInv'
    BY <1>1, <1>3, <2>1, <2>3 DEF LinkInv
  <2> QED BY <1>1, <1>4, <1>5, <2>1, <2>2, <2>3, <2>4
<1>8. CASE EvlConnect
  <2>1. /\ retry > 0 /\ retry' = IF link = "down" THEN retry - 1 ELSE retry
        /\ link' = "opening" /\ inbox' = << >> /\ outbox' = << >>
        /\ UNCHANGED <<quietVars, actual, shown, http, left>>
    BY <1>8 DEF EvlConnect
  <2>2. retry' = 0
    BY <1>5, <2>1
  <2>3. LinkInv'
    BY <1>1, <1>3, <2>1, <2>2 DEF LinkInv
  <2> QED BY <1>1, <1>4, <1>5, <2>1, <2>2, <2>3
<1>9. CASE ParseMessage
  <2>1. /\ link = "up" /\ ~torn /\ inbox # << >> /\ inbox' = Tail(inbox)
        /\ shown' = [shown EXCEPT ![Head(inbox).device] = Head(inbox).value]
        /\ UNCHANGED <<quietVars, actual, link, outbox, retry, http, left>>
    BY <1>9 DEF ParseMessage
  <2>2. /\ Head(inbox) \in States /\ Tail(inbox) \in Seq(States)
        /\ Tail(inbox) \in Seq(Heards)
    BY <1>1, <2>1, Taken
  <2>3. shown' \in [Devices -> Values]
    BY <1>1, <2>1, <2>2, Shows, OneShown DEF States
  <2>4. LinkInv'
    BY <1>1, <1>3, <1>5, <2>1 DEF LinkInv
  <2>5. ASSUME NEW d \in Devices PROVE Follows(d)'
    <3>1. Follows(d)
      BY <1>1, <2>1 DEF SessionAgrees
    <3> QED BY <1>1, <2>1, <3>1, Followed
  <2> QED BY <1>1, <1>5, <2>1, <2>2, <2>3, <2>4, <2>5
<1>10. ASSUME NEW c \in Devices, NEW v \in OnOff, EvlCall(c, v) PROVE Kept
  <2> DEFINE m == Message(c, v)
             r == Append(outbox, m)
  <2>1. /\ Spend("calls")
        /\ outbox' = r \/ outbox' = outbox
        /\ UNCHANGED <<quietVars, actual, shown, link, inbox, retry, http>>
    BY <1>10 DEF EvlCall
  <2>2. m \in Orders
    BY DEF Message, Orders, Commands
  <2> HIDE DEF m
  <2>3. r \in Seq(Orders) /\ \A d : About(outbox, d) => About(r, d)
    <3>1. \A d : About(outbox, d) => About(r, d)
      <4> TAKE d
      <4> QED BY <1>1, <2>2, Appended
    <3> QED BY <1>1, <2>2, <3>1, Longer
  <2> HIDE DEF r
  <2>4. Bounds(left')
    BY <1>1, <2>1, Spent DEF Spend
  <2>5. LinkInv'
    BY <1>1, <1>3, <1>5, <2>1 DEF LinkInv
  <2>6. ASSUME link' = "up", ~torn', NEW d \in Devices PROVE Follows(d)'
    <3>1. Follows(d)
      BY <1>1, <2>1, <2>6 DEF SessionAgrees
    <3> QED BY <1>1, <2>1, <2>3, <3>1 DEF Follows
  <2> QED BY <1>1, <1>5, <2>1, <2>3, <2>4, <2>5, <2>6
<1>11. CASE EvlTeardown
  <2>1. /\ torn' = TRUE /\ retry' = 0
        /\ UNCHANGED <<integration, actual, shown, link, inbox, outbox, ready, opener, asking,
                       http, topics, announced, left>>
    BY <1>11 DEF EvlTeardown
  <2>2. torn' \in BOOLEAN
    BY <2>1, Zenon
  <2>3. LinkInv'
    BY <1>1, <1>3, <1>5, <2>1 DEF LinkInv
  <2> QED BY <1>1, <1>5, <2>1, <2>2, <2>3
<1> QED BY <1>6, <1>7, <1>8, <1>9, <1>10, <1>11 DEF EvlNext

-----------------------------------------------------------------------------
(* ISY994.                                                                 *)
LEMMA Exchanged ==
    ASSUME actual \in [Devices -> OnOff], NEW what, NEW c \in Devices, NEW n,
           NEW v \in OnOff \cup {"toggle"}, integration # "rti" => v \in OnOff
    PROVE  Calling(Exchange(what, c, v)) /\ Calling([Exchange(what, c, v) EXCEPT !.nr = n])
BY DEF Calling, Exchange

LEMMA CallingStays ==
    ASSUME integration' = integration PROVE \A x : Calling(x)' = Calling(x)
BY DEF Calling

LEMMA IsyKeeps == ASSUME BridgeInv, IsIsy, IsyNext PROVE BridgeInv'
<1> USE DEF BridgeInv, quietVars, linkVars
<1> DEFINE Kept ==
               /\ UNCHANGED <<integration, actual, topics, announced, ready, asking>>
               /\ link' \in {"down", "opening", "up"} /\ torn' \in BOOLEAN
               /\ retry' \in 0 .. 1
               /\ inbox' \in Seq(States) /\ inbox' \in Seq(Heards)
               /\ outbox' \in Seq(Orders)
               /\ shown' \in [Devices -> Values] /\ Bounds(left')
               /\ LinkInv' /\ \A x \in http' : Calling(x)
<1>1. /\ ~IsEvl /\ ~IsMqtt /\ ~IsRti /\ ~IsLutron /\ ~IsYamaha /\ topics = Devices
      /\ inbox \in Seq(States) /\ inbox \in Seq(Heards) /\ outbox \in Seq(Orders)
      /\ shown \in [Devices -> Values] /\ Bounds(left) /\ integration # "rti"
      /\ (\A x \in http : Calling(x)) /\ actual \in [Devices -> OnOff]
      /\ asking \in Seq(Devices)
  BY DEF IsLutron, IsIsy, IsMqtt, IsRti, IsEvl, IsYamaha, Belongings, BridgeShape
<1>2. SUFFICES Kept
  <2>1. IsIsy' /\ ~IsEvl' /\ ~IsMqtt' /\ ~IsRti' /\ ~IsLutron' /\ ~IsYamaha'
    BY <1>1, <1>2 DEF IsLutron, IsIsy, IsMqtt, IsRti, IsEvl, IsYamaha
  <2>2. \A x \in http' : Calling(x)'
    BY <1>2, CallingStays
  <2>3. BridgeShape'
    BY <1>1, <1>2, <2>2 DEF BridgeShape
  <2>4. Belongings' /\ RtiAgrees' /\ YamahaAgrees' /\ SessionAgrees'
    BY <1>1, <1>2, <2>1 DEF Belongings, RtiAgrees, YamahaAgrees, SessionAgrees
  <2> QED BY <1>2, <2>3, <2>4
<1>3. IsLutron' = IsLutron /\ IsIsy' = IsIsy /\ IsEvl' = IsEvl
  BY DEF IsyNext, PollStatuses, WsOpened, WsClosed, WsReconnects, NodeEvent, PollAnswered,
     IsyCommandReturns, IsyCall, IsyTeardown, IsLutron, IsIsy, IsEvl
<1>4. << >> \in Seq(States) /\ << >> \in Seq(Heards)
  OBVIOUS
<1>5. /\ link \in {"down", "opening", "up"} /\ retry \in 0 .. 1 /\ torn \in BOOLEAN
      /\ link # "down" => retry = 0
      /\ torn => retry = 0
  BY <1>1 DEF BridgeShape, LinkInv
<1>6. ASSUME UNCHANGED <<link, torn, retry, opener, ready>> PROVE LinkInv'
  BY <1>1, <1>3, <1>5, <1>6 DEF LinkInv
<1>7. CASE PollStatuses
  <2> DEFINE c == CHOOSE d \in Devices : TRUE
  <2>1. c \in Devices
    BY Kinds
  <2> HIDE DEF c
  <2>2. /\ http' = http \cup {Exchange("poll", c, "on")}
        /\ UNCHANGED <<integration, actual, shown, linkVars, torn, left>>
    BY <1>7 DEF PollStatuses, c
  <2>3. Calling(Exchange("poll", c, "on"))
    BY <1>1, <2>1, Exchanged DEF OnOff
  <2> QED BY <1>1, <1>5, <1>6, <2>2, <2>3
<1>8. CASE WsOpened
  <2>1. /\ link = "opening" /\ link' = "up" /\ inbox' = << >>
        /\ UNCHANGED <<quietVars, actual, shown, outbox, retry, http, left>>
    BY <1>8 DEF WsOpened
  <2>2. LinkInv'
    BY <1>1, <1>3, <1>5, <2>1 DEF LinkInv
  <2> QED BY <1>1, <1>4, <1>5, <2>1, <2>2
<1>9. CASE WsClosed
  <2>1. /\ link # "down" /\ link' = "down" /\ inbox' = << >>
        /\ retry' = IF torn THEN retry ELSE 1
        /\ UNCHANGED <<quietVars, actual, shown, outbox, http>>
    BY <1>9 DEF WsClosed, ScheduleReconnect
  <2>2. CASE torn
    <3>1. left' = [left EXCEPT !.faults = @] /\ [left EXCEPT !.faults = @] = left
      BY <1>1, <1>9, <2>2 DEF WsClosed, Bounds
    <3>2. LinkInv'
      BY <1>1, <1>3, <1>5, <2>1, <2>2 DEF LinkInv
    <3> QED BY <1>1, <1>4, <1>5, <2>1, <2>2, <3>1, <3>2
  <2>3. CASE ~torn
    <3>1. left.faults > 0 /\ left' = [left EXCEPT !["faults"] = @ - 1]
      BY <1>9, <2>3 DEF WsClosed
    <3>2. Bounds(left')
      BY <1>1, <3>1, Spent
    <3>3. LinkInv'
      BY <1>1, <1>3, <1>5, <2>1, <2>3 DEF LinkInv
    <3> QED BY <1>1, <1>4, <1>5, <2>1, <2>3, <3>2, <3>3
  <2> QED BY <2>2, <2>3
<1>10. CASE WsReconnects
  <2>1. /\ retry > 0 /\ retry' = retry - 1 /\ link' = "opening"
        /\ UNCHANGED <<quietVars, actual, shown, inbox, outbox, http, left>>
    BY <1>10 DEF WsReconnects
  <2>2. retry' = 0 /\ ~torn
    BY <1>5, <2>1
  <2>3. LinkInv'
    BY <1>1, <1>3, <1>5, <2>1, <2>2 DEF LinkInv
  <2> QED BY <1>1, <1>5, <2>1, <2>2, <2>3
<1>11. CASE NodeEvent
  <2>1. /\ inbox # << >> /\ inbox' = Tail(inbox)
        /\ shown' = [shown EXCEPT ![Head(inbox).device] = Head(inbox).value]
        /\ UNCHANGED <<quietVars, actual, link, outbox, retry, http, left>>
    BY <1>11 DEF NodeEvent
  <2>2. /\ Head(inbox) \in States /\ Tail(inbox) \in Seq(States)
        /\ Tail(inbox) \in Seq(Heards)
    BY <1>1, <2>1, Taken
  <2>3. shown' \in [Devices -> Values]
    BY <1>1, <2>1, <2>2, Shows, OneShown DEF States
  <2> QED BY <1>1, <1>5, <1>6, <2>1, <2>2, <2>3
<1>12. ASSUME NEW x \in http, PollAnswered(x) \/ IsyCommandReturns(x) PROVE Kept
  <2>1. /\ http' = http \ {x}
        /\ \/ shown' = shown \/ shown' = x.answer
           \/ shown' = [shown EXCEPT ![x.device] = x.value]
        /\ UNCHANGED <<integration, actual, linkVars, torn, left>>
    BY <1>12 DEF PollAnswered, IsyCommandReturns
  <2>2. x.answer \in [Devices -> OnOff] /\ x.device \in Devices /\ x.value \in OnOff
    BY <1>1, <1>12 DEF Calling
  <2>3. shown' \in [Devices -> Values]
    <3>1. x.answer \in [Devices -> Values]
      BY <2>2, Shows
    <3>2. [shown EXCEPT ![x.device] = x.value] \in [Devices -> Values]
      BY <1>1, <2>2, Shows, OneShown
    <3> QED BY <1>1, <2>1, <3>1, <3>2
  <2> QED BY <1>1, <1>5, <1>6, <2>1, <2>3
<1>13. ASSUME NEW c \in Devices, NEW v \in OnOff, IsyCall(c, v) PROVE Kept
  <2>1. /\ Spend("calls") /\ http' = http \cup {Exchange("set", c, v)}
        /\ UNCHANGED <<integration, actual, shown, linkVars, torn>>
    BY <1>13 DEF IsyCall
  <2>2. Calling(Exchange("set", c, v))
    BY <1>1, Exchanged
  <2>3. Bounds(left')
    BY <1>1, <2>1, Spent DEF Spend
  <2> QED BY <1>1, <1>5, <1>6, <2>1, <2>2, <2>3
<1>14. CASE IsyTeardown
  <2>1. /\ torn' = TRUE /\ retry' = 0
        /\ UNCHANGED <<integration, actual, shown, link, inbox, outbox, ready, opener, asking,
                       http, left, topics, announced>>
    BY <1>14 DEF IsyTeardown
  <2>2. torn' \in BOOLEAN
    BY <2>1, Zenon
  <2>3. LinkInv'
    BY <1>1, <1>3, <1>5, <2>1 DEF LinkInv
  <2> QED BY <1>1, <1>5, <2>1, <2>2, <2>3
<1> QED BY <1>7, <1>8, <1>9, <1>10, <1>11, <1>12, <1>13, <1>14 DEF IsyNext

-----------------------------------------------------------------------------
(* MQTT.                                                                   *)

(* The entities follow their devices, whatever is published to them, and   *)
(* whatever the broker says that is no state.                              *)
LEMMA Unmoved ==
    ASSUME NEW d, Follows(d), UNCHANGED <<actual, integration, asking>>,
           shown'[d] = shown[d] \/ (IsMqtt /\ shown'[d] = "absent") \/ About(outbox', d),
           \A v : LastWord(inbox, d, v) => LastWord(inbox', d, v),
           Silent(inbox, d) => Silent(inbox', d),
           About(outbox, d) => About(outbox', d)
    PROVE  Follows(d)'
<1>1. IsMqtt' = IsMqtt
  BY DEF IsMqtt
<1> QED BY <1>1 DEF Follows

(* Two queues one after the other.                                         *)
LEMMA Joined ==
    ASSUME NEW S, NEW q \in Seq(S), NEW r \in Seq(S), NEW d
    PROVE  /\ q \o r \in Seq(S)
           /\ \A v : LastWord(q, d, v) /\ Silent(r, d) => LastWord(q \o r, d, v)
<1> DEFINE t == q \o r
<1>1. /\ t \in Seq(S) /\ Len(t) = Len(q) + Len(r) /\ Len(q) \in Nat /\ Len(r) \in Nat
      /\ \A i \in 1 .. Len(q) : t[i] = q[i]
      /\ \A i \in Len(q) + 1 .. Len(t) : t[i] = r[i - Len(q)]
  OBVIOUS
<1> HIDE DEF t
<1>2. ASSUME NEW v, LastWord(q, d, v), Silent(r, d) PROVE LastWord(t, d, v)
  <2>1. PICK i \in 1 .. Len(q) : /\ Tells(q[i], d) /\ q[i].value = v
                                 /\ \A j \in 1 .. Len(q) : Tells(q[j], d) => j <= i
    BY <1>2 DEF LastWord
  <2>2. \A j \in Len(q) + 1 .. Len(t) : j - Len(q) \in 1 .. Len(r)
    BY <1>1
  <2>3. \A j \in Len(q) + 1 .. Len(t) : ~Tells(t[j], d)
    BY <1>1, <1>2, <2>2 DEF Silent
  <2>4. i \in 1 .. Len(t) /\ t[i] = q[i]
    BY <1>1
  <2>5. \A j \in 1 .. Len(t) : Tells(t[j], d) => j <= i
    <3>1. \A j \in 1 .. Len(t) : j \in 1 .. Len(q) \/ j \in Len(q) + 1 .. Len(t)
      BY <1>1
    <3>2. \A j \in 1 .. Len(q) : Tells(t[j], d) => j <= i
      BY <1>1, <2>1
    <3> QED BY <2>3, <3>1, <3>2
  <2> QED BY <2>1, <2>4, <2>5 DEF LastWord
<1> QED BY <1>1, <1>2 DEF t

LEMMA Subscribed ==
    ASSUME BridgeShape, SubscribeAll
    PROVE  inbox' \in Seq(Heards) /\ \A d \in topics : LastWord(inbox', d, actual[d])
<1> DEFINE q == Retained(topics, actual)
           r == Retained(announced, DiscoveryConfigs)
<1>1. actual \in [Devices -> {"config"} \cup OnOff] /\ topics \in SUBSET Devices
      /\ announced \in SUBSET Devices /\ DiscoveryConfigs \in [Devices -> {"config"} \cup OnOff]
      /\ \A d \in Devices : actual[d] \in OnOff
  BY DEF BridgeShape, DiscoveryConfigs
<1>2. q \in Seq(Heards) /\ \A d \in topics : LastWord(q, d, actual[d])
  BY <1>1, RetainedStates
<1>3. r \in Seq(Heards)
  BY <1>1, RetainedStates
<1>4. \A i \in 1 .. Len(r) : r[i].value = DiscoveryConfigs[r[i].device]
  BY <1>1, RetainedStates
<1> HIDE DEF q, r
<1>5. \A i \in 1 .. Len(r) : r[i] \in Heards
  BY <1>3
<1>6. \A i \in 1 .. Len(r) : r[i].value = "config"
  BY <1>4, <1>5 DEF Heards, DiscoveryConfigs
<1>7. \A d : Silent(r, d)
  BY <1>6 DEF Silent, Tells, OnOff
<1>8. \A d \in topics : LastWord(q \o r, d, actual[d])
  <2> TAKE d \in topics
  <2> QED BY <1>2, <1>3, <1>7, Joined
<1>9. q \o r \in Seq(Heards)
  BY <1>2, <1>3
<1>10. inbox' = q \o r
  BY DEF SubscribeAll, q, r
<1> QED BY <1>8, <1>9, <1>10

LEMMA MqttKeeps ==
    ASSUME BridgeInv, IsMqtt,
           \/ MqttConnected \/ MqttLost \/ DiscoveryMessage \/ StateMessage \/ MqttTeardown
           \/ \E d \in Devices : Announce(d) \/ Withdraw(d)
           \/ \E d \in Devices, v \in OnOff \cup {"toggle"} : MqttCall(d, v)
    PROVE  BridgeInv'
<1> USE DEF BridgeInv, quietVars
<1> DEFINE Kept ==
               /\ UNCHANGED <<integration, actual, http, ready, asking, retry>>
               /\ topics' \subseteq Devices /\ announced' \subseteq Devices
               /\ link' \in {"down", "opening", "up"} /\ torn' \in BOOLEAN
               /\ inbox' \in Seq(Heards) /\ outbox' \in Seq(Orders)
               /\ shown' \in [Devices -> Values] /\ Bounds(left')
               /\ link' = "up" /\ ~torn' => \A d \in topics' : Follows(d)'
<1>1. /\ ~IsIsy /\ ~IsEvl /\ ~IsRti /\ ~IsLutron /\ ~IsYamaha /\ http = {}
      /\ inbox \in Seq(Heards) /\ outbox \in Seq(Orders)
      /\ asking = << >> /\ shown \in [Devices -> Values]
      /\ Bounds(left) /\ ready /\ retry = 0 /\ link \in {"down", "opening", "up"}
      /\ torn \in BOOLEAN /\ topics \subseteq Devices /\ announced \subseteq Devices
      /\ actual \in [Devices -> OnOff]
  BY DEF IsLutron, IsIsy, IsMqtt, IsRti, IsEvl, IsYamaha, Belongings, BridgeShape
<1>2. SUFFICES Kept
  <2>1. IsMqtt' /\ ~IsIsy' /\ ~IsEvl' /\ ~IsRti' /\ ~IsLutron' /\ ~IsYamaha'
    BY <1>1, <1>2 DEF IsLutron, IsIsy, IsMqtt, IsRti, IsEvl, IsYamaha
  <2>2. BridgeShape'
    BY <1>1, <1>2 DEF BridgeShape
  <2>3. Belongings' /\ RtiAgrees' /\ YamahaAgrees' /\ LinkInv'
    BY <1>1, <1>2, <2>1 DEF Belongings, RtiAgrees, YamahaAgrees, LinkInv
  <2>4. SessionAgrees'
    BY <1>1, <1>2, <2>1 DEF SessionAgrees
  <2> QED BY <1>2, <2>2, <2>3, <2>4
<1>3. << >> \in Seq(Heards) /\ << >> \in Seq(Orders)
  OBVIOUS
<1>4. ASSUME link = "up", ~torn, NEW d \in topics PROVE Follows(d)
  BY <1>1, <1>4 DEF SessionAgrees
<1>5. CASE MqttConnected
  <2>1. /\ link' = "up" /\ SubscribeAll
        /\ UNCHANGED <<quietVars, actual, shown, outbox, retry, http, left>>
    BY <1>5 DEF MqttConnected
  <2>2. inbox' \in Seq(Heards) /\ \A d \in topics : LastWord(inbox', d, actual[d])
    BY <2>1, Subscribed
  <2>3. \A d \in topics : Follows(d)'
    BY <2>1, <2>2 DEF Follows
  <2> QED BY <1>1, <2>1, <2>2, <2>3
<1>6. CASE MqttLost
  <2>1. /\ Spend("faults") /\ link' = "down" /\ inbox' = << >> /\ outbox' = << >>
        /\ shown' = [d \in Devices |-> IF d \in topics THEN "unavailable" ELSE shown[d]]
        /\ UNCHANGED <<quietVars, actual, retry, http>>
    BY <1>6 DEF MqttLost
  <2>2. Bounds(left') /\ shown' \in [Devices -> Values]
    BY <1>1, <2>1, Spent, Shows DEF Spend
  <2> QED BY <1>1, <1>3, <2>1, <2>2
<1>7. ASSUME NEW c \in Devices, Announce(c) \/ Withdraw(c) PROVE Kept
  <2>1. PICK m \in Heards : m.value \notin OnOff /\ inbox' \in {inbox, Append(inbox, m)}
    <3>1. /\ Message(c, "config") \in Heards /\ Message(c, "config").value \notin OnOff
          /\ Message(c, "removed") \in Heards /\ Message(c, "removed").value \notin OnOff
      BY DEF Message, Heards, OnOff
    <3> QED BY <1>7, <3>1 DEF Announce, Withdraw
  <2> DEFINE r == Append(inbox, m)
  <2>2. /\ r \in Seq(Heards)
        /\ \A d : /\ \A v : LastWord(inbox, d, v) => LastWord(r, d, v)
                  /\ Silent(inbox, d) => Silent(r, d)
    <3>1. \A d : ~Tells(m, d)
      BY <2>1 DEF Tells
    <3>2. \A d : /\ \A v : LastWord(inbox, d, v) => LastWord(r, d, v)
                 /\ Silent(inbox, d) => Silent(r, d)
      <4> TAKE d
      <4> QED BY <1>1, <3>1, Appended
    <3> QED BY <1>1, <3>2, Longer
  <2> HIDE DEF r
  <2>3. /\ announced' \subseteq Devices /\ inbox' \in {inbox, r}
        /\ Spend("flips") \/ Spend("faults")
        /\ UNCHANGED <<integration, actual, shown, link, outbox, retry, ready, opener, asking,
                       http, torn, topics>>
    BY <1>1, <1>7, <2>1 DEF Announce, Withdraw, r
  <2>4. Bounds(left')
    BY <1>1, <2>3, Spent DEF Spend
  <2>5. ASSUME link = "up", ~torn, NEW d \in topics PROVE Follows(d)'
    <3>1. /\ \A v : LastWord(inbox, d, v) => LastWord(inbox', d, v)
          /\ Silent(inbox, d) => Silent(inbox', d)
      BY <2>2, <2>3
    <3> QED BY <1>4, <2>3, <2>5, <3>1, Unmoved
  <2> QED BY <1>1, <2>2, <2>3, <2>4, <2>5
<1>8. CASE DiscoveryMessage
  <2> DEFINE m == Head(inbox)
             w == Message(m.device, actual[m.device])
             t == Tail(inbox)
             r == Append(t, w)
  <2>1. /\ link = "up" /\ inbox # << >> /\ m.value \in {"config", "removed"}
        /\ \/ topics' = topics \cup {m.device} /\ inbox' = r /\ shown' = shown
           \/ shown' = [shown EXCEPT ![m.device] = "absent"] /\ inbox' = t
              /\ topics' = topics
        /\ UNCHANGED <<integration, actual, link, outbox, retry, ready, opener, asking, http,
                       torn, announced, left>>
    BY <1>8 DEF DiscoveryMessage
  <2>2. m \in Heards /\ t \in Seq(Heards)
    BY <1>1, <2>1, Taken
  <2>3. m.device \in Devices /\ w \in Heards /\ w.device = m.device
        /\ w.value = actual[m.device] /\ w.value \in OnOff
    BY <1>1, <2>2 DEF Heards, Message
  <2>4. \A d : /\ \A v : LastWord(inbox, d, v) => LastWord(t, d, v)
               /\ Silent(inbox, d) => Silent(t, d)
    <3> TAKE d
    <3>1. ~Tells(m, d)
      BY <2>1 DEF Tells, OnOff
    <3> QED BY <1>1, <2>1, <3>1, Taken
  <2>5. r \in Seq(Heards) /\ LastWord(r, m.device, actual[m.device])
    <3>1. Tells(w, m.device)
      BY <2>3 DEF Tells
    <3> HIDE DEF m, w, t
    <3>2. LastWord(r, m.device, w.value)
      BY <2>2, <2>3, <3>1, Appended
    <3>3. r \in Seq(Heards)
      BY <2>2, <2>3, Longer
    <3> QED BY <2>3, <3>2, <3>3
  <2>6. ASSUME NEW d, d # m.device
        PROVE  /\ \A v : LastWord(t, d, v) => LastWord(r, d, v)
               /\ Silent(t, d) => Silent(r, d)
    <3>1. ~Tells(w, d)
      BY <2>3, <2>6 DEF Tells
    <3> HIDE DEF t, w
    <3> QED BY <2>2, <2>3, <3>1, Appended
  <2> HIDE DEF m, w, t, r
  <2>7. shown' \in [Devices -> Values] /\ topics' \subseteq Devices /\ inbox' \in Seq(Heards)
    <3>1. "absent" \in Values
      BY DEF Values
    <3>2. [shown EXCEPT ![m.device] = "absent"] \in [Devices -> Values]
      BY <1>1, <2>3, <3>1, OneShown
    <3> QED BY <1>1, <2>1, <2>2, <2>3, <2>5, <3>2
  <2>8. CASE topics' = topics \cup {m.device} /\ inbox' = r /\ shown' = shown
    <3>1. ASSUME ~torn, NEW d \in topics' PROVE Follows(d)'
      <4>1. CASE d = m.device
        BY <2>1, <2>5, <2>8, <4>1 DEF Follows
      <4>2. CASE d # m.device
        <5>1. Follows(d)
          BY <1>4, <2>1, <2>8, <3>1, <4>2
        <5>2. /\ \A v : LastWord(inbox, d, v) => LastWord(inbox', d, v)
              /\ Silent(inbox, d) => Silent(inbox', d)
          BY <2>4, <2>6, <2>8, <4>2
        <5> QED BY <2>1, <2>8, <5>1, <5>2, Unmoved
      <4> QED BY <4>1, <4>2
    <3> QED BY <1>1, <2>1, <2>7, <3>1
  <2>9. CASE shown' = [shown EXCEPT ![m.device] = "absent"] /\ inbox' = t /\ topics' = topics
    <3>1. ASSUME ~torn, NEW d \in topics PROVE Follows(d)'
      <4>1. shown'[d] = shown[d] \/ shown'[d] = "absent"
        BY <1>1, <2>3, <2>9
      <4>2. /\ \A v : LastWord(inbox, d, v) => LastWord(inbox', d, v)
            /\ Silent(inbox, d) => Silent(inbox', d)
        BY <2>4, <2>9
      <4> QED BY <1>4, <2>1, <3>1, <4>1, <4>2, Unmoved
    <3> QED BY <1>1, <2>1, <2>7, <2>9, <3>1
  <2> QED BY <2>1, <2>8, <2>9
<1>9. CASE StateMessage
  <2> DEFINE m == Head(inbox)
  <2>1. /\ link = "up" /\ inbox # << >> /\ m.value \in OnOff /\ inbox' = Tail(inbox)
        /\ shown' = IF m.device \in topics THEN [shown EXCEPT ![m.device] = m.value] ELSE shown
        /\ UNCHANGED <<quietVars, actual, link, outbox, retry, http, left>>
    BY <1>9 DEF StateMessage
  <2>2. m \in Heards /\ Tail(inbox) \in Seq(Heards)
    BY <1>1, <2>1, Taken
  <2>3. m.device \in Devices
    BY <2>2 DEF Heards
  <2>4. \A d : /\ Silent(inbox, d) => Silent(inbox', d) /\ ~Tells(m, d)
               /\ \A v : LastWord(inbox, d, v) =>
                     LastWord(inbox', d, v) \/ (Silent(inbox', d) /\ Tells(m, d) /\ m.value = v)
    <3> TAKE d
    <3>1. /\ Silent(inbox, d) => Silent(Tail(inbox), d) /\ ~Tells(m, d)
          /\ \A v : LastWord(inbox, d, v) =>
                LastWord(Tail(inbox), d, v)
                \/ (Silent(Tail(inbox), d) /\ Tells(m, d) /\ m.value = v)
      BY <1>1, <2>1, Taken
    <3> QED BY <2>1, <3>1
  <2> HIDE DEF m
  <2>5. shown' \in [Devices -> Values]
    BY <1>1, <2>1, <2>3, Shows, OneShown
  <2>6. ASSUME ~torn, NEW d \in topics PROVE Follows(d)'
    <3>1. Follows(d) /\ asking' = asking /\ outbox' = outbox /\ actual' = actual
      BY <1>4, <2>1, <2>6
    <3>2. IsMqtt'
      BY <2>1 DEF IsMqtt
    <3>3. CASE d = m.device
      <4>1. shown'[d] = m.value
        BY <1>1, <2>1, <2>3, <3>3
      <4> QED BY <2>1, <2>4, <3>1, <3>2, <3>3, <4>1 DEF Follows, Tells
    <3>4. CASE d # m.device
      <4>1. shown'[d] = shown[d]
        BY <1>1, <2>1, <2>3, <3>4
      <4> QED BY <2>4, <3>1, <3>2, <3>4, <4>1 DEF Follows, Tells
    <3> QED BY <3>3, <3>4
  <2> QED BY <1>1, <2>1, <2>2, <2>5, <2>6
<1>10. ASSUME NEW c \in Devices, NEW v \in OnOff \cup {"toggle"}, MqttCall(c, v) PROVE Kept
  <2> DEFINE m == Message(c, v)
             r == Append(outbox, m)
             w == IF v = "toggle" THEN Opposite(shown[c]) ELSE v
  <2>1. /\ Spend("calls") /\ outbox' = IF link = "up" THEN r ELSE outbox
        /\ shown' = [shown EXCEPT ![c] = w]
        /\ UNCHANGED <<quietVars, actual, link, inbox, retry, http>>
    BY <1>10 DEF MqttCall
  <2>2. m \in Orders /\ m.device = c /\ w \in Values
    BY Shows DEF Message, Orders, Commands, Opposite, OnOff
  <2> HIDE DEF m, w
  <2>3. r \in Seq(Orders) /\ \A d : About(outbox, d) \/ m.device = d => About(r, d)
    <3>1. \A d : About(outbox, d) \/ m.device = d => About(r, d)
      <4> TAKE d
      <4> QED BY <1>1, <2>2, Appended
    <3> QED BY <1>1, <2>2, <3>1, Longer
  <2> HIDE DEF r
  <2>4. Bounds(left')
    BY <1>1, <2>1, Spent DEF Spend
  <2>5. /\ shown' \in [Devices -> Values]
        /\ \A d \in Devices : d # c => shown'[d] = shown[d]
    BY <1>1, <2>1, <2>2, OneShown
  <2>6. ASSUME link = "up", ~torn, NEW d \in topics PROVE Follows(d)'
    <3>1. /\ UNCHANGED <<actual, integration, asking, inbox>>
          /\ shown'[d] = shown[d] \/ About(outbox', d)
          /\ About(outbox, d) => About(outbox', d)
      BY <1>1, <2>1, <2>2, <2>3, <2>5, <2>6
    <3>2. Follows(d)
      BY <1>4, <2>6
    <3>3. /\ \A u : LastWord(inbox, d, u) => LastWord(inbox', d, u)
          /\ Silent(inbox, d) => Silent(inbox', d)
      BY <3>1
    <3> QED BY <3>1, <3>2, <3>3, Unmoved
  <2> QED BY <1>1, <2>1, <2>3, <2>4, <2>5, <2>6
<1>11. CASE MqttTeardown
  <2>1. /\ torn' = TRUE /\ link' = "down" /\ inbox' = << >> /\ outbox' = << >>
        /\ UNCHANGED <<integration, actual, shown, retry, ready, opener, asking, http, topics,
                       announced, left>>
    BY <1>11 DEF MqttTeardown
  <2>2. torn' \in BOOLEAN
    BY <2>1, Zenon
  <2> QED BY <1>1, <1>3, <2>1, <2>2
<1> QED BY <1>5, <1>6, <1>7, <1>8, <1>9, <1>10, <1>11

-----------------------------------------------------------------------------
(* RTI: what the broker retains follows the entities.                      *)
RtiFollows(d) ==
    \/ LastWord(outbox, d, actual[d])
    \/ Silent(outbox, d) /\ shown[d] \in {actual[d], "absent"}

(* An entity gets a new value, and it is published.                        *)
LEMMA Published ==
    ASSUME NEW c \in Devices, NEW v \in OnOff, outbox \in Seq(States),
           actual \in [Devices -> OnOff], actual' = [actual EXCEPT ![c] = v],
           PublishStateToRti(c, v), UNCHANGED shown
    PROVE  /\ outbox' \in Seq(States) /\ actual' \in [Devices -> OnOff]
           /\ ~torn => \A d \in Devices : RtiFollows(d) => RtiFollows(d)'
<1> DEFINE m == Message(c, v)
           r == Append(outbox, m)
<1>1. m \in States /\ m.device = c /\ m.value = v
  BY DEF Message, States
<1>2. outbox' = (IF torn THEN outbox ELSE r)
  BY DEF PublishStateToRti
<1> HIDE DEF m
<1>3. r \in Seq(States)
  BY <1>1, Longer
<1>4. ASSUME ~torn, NEW d \in Devices, RtiFollows(d) PROVE RtiFollows(d)'
  <2>1. /\ Tells(m, d) => LastWord(r, d, m.value)
        /\ ~Tells(m, d) => /\ \A w : LastWord(outbox, d, w) => LastWord(r, d, w)
                           /\ Silent(outbox, d) => Silent(r, d)
    BY <1>1, Appended
  <2> HIDE DEF r
  <2>2. outbox' = r
    BY <1>2, <1>4
  <2>3. CASE d = c
    <3>1. Tells(m, d) /\ actual'[d] = m.value
      BY <1>1, <2>3 DEF Tells
    <3> QED BY <2>1, <2>2, <3>1 DEF RtiFollows
  <2>4. CASE d # c
    <3>1. ~Tells(m, d) /\ actual'[d] = actual[d]
      BY <1>1, <2>4 DEF Tells
    <3> QED BY <1>4, <2>1, <2>2, <3>1 DEF RtiFollows
  <2> QED BY <2>3, <2>4
<1> QED BY <1>2, <1>3, <1>4

LEMMA RtiKeeps ==
    ASSUME BridgeInv, IsRti,
           \/ MqttTeardown \/ RtiConnected \/ RtiLost \/ BrokerRetains \/ HandleCommand
           \/ \E d \in Devices : EntityChanges(d)
           \/ \E d \in Devices, v \in OnOff \cup {"toggle"} : PanelCommands(d, v)
           \/ \E x \in http : CallService(x)
    PROVE  BridgeInv'
<1> USE DEF BridgeInv, quietVars
<1> DEFINE Kept ==
               /\ UNCHANGED <<integration, topics, announced, ready, asking, retry>>
               /\ actual' \in [Devices -> OnOff]
               /\ link' \in {"down", "opening", "up"} /\ torn' \in BOOLEAN
               /\ inbox' \in Seq(Wishes) /\ outbox' \in Seq(States)
               /\ shown' \in [Devices -> Values] /\ Bounds(left')
               /\ \A x \in http' : Calling(x)
               /\ left'.faults = MaxFaults /\ ~torn' => \A d \in Devices : RtiFollows(d)'
<1>1. /\ ~IsIsy /\ ~IsEvl /\ ~IsMqtt /\ ~IsLutron /\ ~IsYamaha /\ topics = Devices
      /\ inbox \in Seq(Wishes) /\ outbox \in Seq(States) /\ shown \in [Devices -> Values]
      /\ Bounds(left) /\ ready /\ retry = 0 /\ link \in {"down", "opening", "up"}
      /\ torn \in BOOLEAN /\ actual \in [Devices -> OnOff]
      /\ (\A x \in http : Calling(x)) /\ integration = "rti"
  BY DEF IsLutron, IsIsy, IsMqtt, IsRti, IsEvl, IsYamaha, Belongings, BridgeShape
<1>2. SUFFICES Kept
  <2>1. IsRti' /\ ~IsIsy' /\ ~IsEvl' /\ ~IsMqtt' /\ ~IsLutron' /\ ~IsYamaha'
    BY <1>1, <1>2 DEF IsLutron, IsIsy, IsMqtt, IsRti, IsEvl, IsYamaha
  <2>2. \A x \in http' : Calling(x)'
    BY <1>2, CallingStays
  <2>3. inbox' \in Seq(Heards) /\ outbox' \in Seq(Orders)
    <3>1. Wishes \subseteq Heards /\ States \subseteq Orders
      BY DEF Wishes, Heards, States, Orders, Commands
    <3>2. Seq(Wishes) \subseteq Seq(Heards) /\ Seq(States) \subseteq Seq(Orders)
      BY <3>1
    <3> QED BY <1>2, <3>2
  <2>4. BridgeShape'
    BY <1>1, <1>2, <2>2, <2>3 DEF BridgeShape
  <2>5. Belongings' /\ SessionAgrees' /\ YamahaAgrees' /\ LinkInv'
    BY <1>1, <1>2, <2>1 DEF Belongings, SessionAgrees, YamahaAgrees, LinkInv
  <2>6. RtiAgrees'
    BY <1>2 DEF RtiAgrees, RtiFollows
  <2> QED BY <2>4, <2>5, <2>6
<1>3. << >> \in Seq(Wishes) /\ << >> \in Seq(States)
  OBVIOUS
<1>4. ASSUME left.faults = MaxFaults, ~torn, NEW d \in Devices PROVE RtiFollows(d)
  BY <1>4 DEF RtiAgrees, RtiFollows
<1>5. ASSUME UNCHANGED <<actual, outbox, shown>>, NEW d, RtiFollows(d) PROVE RtiFollows(d)'
  BY <1>5 DEF RtiFollows
<1>6. CASE MqttTeardown
  <2>1. /\ torn' = TRUE /\ link' = "down" /\ inbox' = << >> /\ outbox' = << >>
        /\ UNCHANGED <<integration, actual, shown, retry, ready, opener, asking, http, topics,
                       announced, left>>
    BY <1>6 DEF MqttTeardown
  <2>2. torn' \in BOOLEAN
    BY <2>1, Zenon
  <2> QED BY <1>1, <1>3, <2>1, <2>2
<1>7. CASE RtiConnected
  <2>1. link' = "up" /\ UNCHANGED <<quietVars, actual, shown, inbox, outbox, retry, http, left>>
    BY <1>7 DEF RtiConnected
  <2> QED BY <1>1, <1>4, <1>5, <2>1
<1>8. CASE RtiLost
  <2>1. /\ left["faults"] > 0 /\ left' = [left EXCEPT !["faults"] = @ - 1] /\ link' = "down"
        /\ inbox' = << >> /\ outbox' = << >>
        /\ UNCHANGED <<quietVars, actual, shown, retry, http>>
    BY <1>8 DEF RtiLost, Spend
  <2>2. Bounds(left') /\ left'.faults # MaxFaults
    BY <1>1, <2>1, Spent
  <2> QED BY <1>1, <1>3, <2>1, <2>2
<1>9. CASE BrokerRetains
  <2> DEFINE m == Head(outbox)
  <2>1. /\ outbox # << >> /\ shown' = [shown EXCEPT ![m.device] = m.value]
        /\ outbox' = Tail(outbox)
        /\ UNCHANGED <<quietVars, actual, link, inbox, retry, http, left>>
    BY <1>9 DEF BrokerRetains
  <2>2. m \in States /\ Tail(outbox) \in Seq(States)
    BY <1>1, <2>1, Taken
  <2>3. m.device \in Devices /\ m.value \in OnOff
    BY <2>2 DEF States
  <2>4. shown' \in [Devices -> Values]
    BY <1>1, <2>1, <2>3, Shows, OneShown
  <2>5. ASSUME left.faults = MaxFaults, ~torn, NEW d \in Devices PROVE RtiFollows(d)'
    <3>1. /\ Silent(outbox, d) => Silent(outbox', d) /\ ~Tells(m, d)
          /\ \A v : LastWord(outbox, d, v) =>
                LastWord(outbox', d, v) \/ (Silent(outbox', d) /\ Tells(m, d) /\ m.value = v)
      <4>1. /\ Silent(outbox, d) => Silent(Tail(outbox), d) /\ ~Tells(m, d)
            /\ \A v : LastWord(outbox, d, v) =>
                  LastWord(Tail(outbox), d, v)
                  \/ (Silent(Tail(outbox), d) /\ Tells(m, d) /\ m.value = v)
        BY <1>1, <2>1, Taken
      <4> QED BY <2>1, <4>1
    <3> HIDE DEF m
    <3>2. RtiFollows(d) /\ actual' = actual
      BY <1>4, <2>1, <2>5
    <3>3. CASE d = m.device
      <4>1. shown'[d] = m.value
        BY <1>1, <2>1, <2>3, <3>3
      <4> QED BY <2>3, <3>1, <3>2, <3>3, <4>1 DEF RtiFollows, Tells
    <3>4. CASE d # m.device
      <4>1. shown'[d] = shown[d]
        BY <1>1, <2>1, <2>3, <3>4
      <4> QED BY <3>1, <3>2, <3>4, <4>1 DEF RtiFollows, Tells
    <3> QED BY <3>3, <3>4
  <2> QED BY <1>1, <2>1, <2>2, <2>4, <2>5
<1>10. CASE HandleCommand
  <2> DEFINE m == Head(inbox)
             x == [Exchange("set", m.device, m.value) EXCEPT !.nr = Cardinality(http)]
  <2>1. /\ inbox # << >> /\ http' = http \cup {x} /\ inbox' = Tail(inbox)
        /\ UNCHANGED <<quietVars, actual, shown, link, outbox, retry, left>>
    BY <1>10 DEF HandleCommand
  <2>2. m \in Wishes /\ Tail(inbox) \in Seq(Wishes)
    BY <1>1, <2>1, Taken
  <2>3. m.device \in Devices /\ m.value \in OnOff \cup {"toggle"}
    BY <2>2 DEF Wishes
  <2> HIDE DEF m
  <2>4. Calling(x)
    BY <1>1, <2>3, Exchanged
  <2> HIDE DEF x
  <2> QED BY <1>1, <1>4, <1>5, <2>1, <2>2, <2>4 DEF m
<1>11. ASSUME NEW c \in Devices, EntityChanges(c) PROVE Kept
  <2>1. Opposite(actual[c]) \in OnOff
    BY DEF Opposite, OnOff
  <2>2. /\ left["flips"] > 0 /\ left' = [left EXCEPT !["flips"] = @ - 1]
        /\ actual' = [actual EXCEPT ![c] = Opposite(actual[c])]
        /\ UNCHANGED <<quietVars, shown, link, inbox, retry, http>>
        /\ PublishStateToRti(c, Opposite(actual[c]))
    BY <1>1, <1>11 DEF EntityChanges, Spend
  <2>3. Bounds(left') /\ left'.faults = left.faults
    BY <1>1, <2>2, Spent
  <2>4. /\ outbox' \in Seq(States) /\ actual' \in [Devices -> OnOff]
        /\ ~torn => \A d \in Devices : RtiFollows(d) => RtiFollows(d)'
    BY <1>1, <2>1, <2>2, Published
  <2> QED BY <1>1, <1>4, <2>2, <2>3, <2>4
<1>12. ASSUME NEW c \in Devices, NEW v \in OnOff \cup {"toggle"}, PanelCommands(c, v)
       PROVE  Kept
  <2> DEFINE m == Message(c, v)
             r == Append(inbox, m)
  <2>1. /\ left["calls"] > 0 /\ left' = [left EXCEPT !["calls"] = @ - 1] /\ inbox' = r
        /\ UNCHANGED <<quietVars, actual, shown, link, outbox, retry, http>>
    BY <1>12 DEF PanelCommands, Spend
  <2>2. m \in Wishes
    BY DEF Message, Wishes
  <2> HIDE DEF m
  <2>3. r \in Seq(Wishes)
    BY <1>1, <2>2, Longer
  <2>4. Bounds(left') /\ left'.faults = left.faults
    BY <1>1, <2>1, Spent
  <2> HIDE DEF r
  <2> QED BY <1>1, <1>4, <1>5, <2>1, <2>3, <2>4
<1>13. ASSUME NEW x \in http, CallService(x) PROVE Kept
  <2> DEFINE v == IF x.value = "toggle" THEN Opposite(actual[x.device]) ELSE x.value
  <2>1. /\ http' = http \ {x} /\ UNCHANGED <<quietVars, shown, link, inbox, retry, left>>
        /\ \/ UNCHANGED <<actual, outbox>>
           \/ /\ actual' = [actual EXCEPT ![x.device] = v]
              /\ IF v # actual[x.device] THEN PublishStateToRti(x.device, v)
                                         ELSE UNCHANGED outbox
    BY <1>13 DEF CallService
  <2>2. x.device \in Devices /\ v \in OnOff
    BY <1>1, <1>13 DEF Calling, Opposite, OnOff
  <2> HIDE DEF v
  <2>3. CASE UNCHANGED <<actual, outbox>>
    BY <1>1, <1>4, <1>5, <2>1, <2>3
  <2>4. CASE actual' = [actual EXCEPT ![x.device] = v] /\ v # actual[x.device]
             /\ PublishStateToRti(x.device, v)
    <3>1. /\ outbox' \in Seq(States) /\ actual' \in [Devices -> OnOff]
          /\ ~torn => \A d \in Devices : RtiFollows(d) => RtiFollows(d)'
      BY <1>1, <2>1, <2>2, <2>4, Published
    <3> QED BY <1>1, <1>4, <2>1, <3>1
  <2>5. CASE actual' = [actual EXCEPT ![x.device] = v] /\ v = actual[x.device]
             /\ UNCHANGED outbox
    <3>1. actual' = actual
      BY <1>1, <2>2, <2>5
    <3> QED BY <1>1, <1>4, <1>5, <2>1, <2>5, <3>1
  <2> QED BY <2>1, <2>3, <2>4, <2>5
<1> QED BY <1>6, <1>7, <1>8, <1>9, <1>10, <1>11, <1>12, <1>13

-----------------------------------------------------------------------------
(* The polled integrations.                                                *)
LEMMA PolledKeeps == ASSUME BridgeInv, PolledNext PROVE BridgeInv'
<1> USE DEF BridgeInv, linkVars
<1> DEFINE Kept ==
               /\ UNCHANGED <<integration, link, inbox, outbox, retry, ready, opener, topics,
                              announced>>
               /\ actual' \in [Devices -> OnOff] /\ asking' \in Seq(Devices)
               /\ shown' \in [Devices -> Values] /\ Bounds(left') /\ torn' \in BOOLEAN
               /\ \A x \in http' : Calling(x)
               /\ IsYamaha => http' = {}
               /\ YamahaAgrees'
<1>1. /\ IsThermostat \/ IsWeather \/ IsYamaha
      /\ ~IsIsy /\ ~IsEvl /\ ~IsMqtt /\ ~IsLutron /\ ~IsRti /\ integration # "rti"
      /\ topics = Devices /\ shown \in [Devices -> Values] /\ actual \in [Devices -> OnOff]
      /\ Bounds(left) /\ torn \in BOOLEAN /\ (\A x \in http : Calling(x))
      /\ asking \in Seq(Devices)
  BY DEF PolledNext, Poll, PollReturns, RefreshEntity, Refreshed, SetHvacMode, HandlePower,
     PushState, StopPolling, IsThermostat, IsWeather, IsLutron, IsIsy, IsMqtt, IsRti, IsEvl,
     IsYamaha, Belongings, BridgeShape
<1>2. SUFFICES Kept
  <2>1. /\ IsYamaha' = IsYamaha /\ ~IsRti' /\ ~IsIsy' /\ ~IsEvl' /\ ~IsMqtt' /\ ~IsLutron'
        /\ integration' = integration
    BY <1>1, <1>2 DEF IsLutron, IsIsy, IsMqtt, IsRti, IsEvl, IsYamaha
  <2>2. \A x \in http' : Calling(x)'
    BY <1>2, CallingStays
  <2>3. BridgeShape'
    BY <1>1, <1>2, <2>2 DEF BridgeShape
  <2>4. Belongings' /\ SessionAgrees' /\ RtiAgrees'
    BY <1>1, <1>2, <2>1 DEF Belongings, SessionAgrees, RtiAgrees
  <2>5. retry = 0
    BY <1>1 DEF Belongings
  <2>6. LinkInv'
    BY <1>2, <2>1, <2>5 DEF LinkInv
  <2> QED BY <1>2, <2>3, <2>4, <2>6
<1>3. IsYamaha /\ (IsThermostat \/ IsWeather) => FALSE
  BY DEF IsYamaha, IsThermostat, IsWeather
<1>4. ASSUME UNCHANGED integration, IsThermostat \/ IsWeather PROVE YamahaAgrees'
  BY <1>3, <1>4 DEF YamahaAgrees, IsYamaha
<1>5. ASSUME NEW what, NEW c \in Devices, NEW v \in OnOff, NEW n
      PROVE  Calling(Exchange(what, c, v)) /\ Calling([Exchange(what, c, v) EXCEPT !.nr = n])
  BY <1>1, Exchanged
<1>6. CASE Poll
  <2>1. Any \in Devices /\ "on" \in OnOff
    BY Kinds DEF Any, OnOff
  <2>2. /\ IsThermostat \/ IsWeather
        /\ UNCHANGED <<integration, actual, shown, linkVars, torn, left>>
    BY <1>6 DEF Poll
  <2>3. \A x \in http' : Calling(x)
    <3>1. PICK n \in {10, 11} :
              http' = http \cup {[Exchange("poll", Any, "on") EXCEPT !.nr = n]}
      BY <1>6 DEF Poll
    <3>2. Calling([Exchange("poll", Any, "on") EXCEPT !.nr = n])
      BY <1>5, <2>1
    <3> QED BY <1>1, <3>1, <3>2
  <2> QED BY <1>1, <1>3, <1>4, <2>2, <2>3
<1>7. ASSUME NEW x \in http, PollReturns(x) \/ Refreshed(x) PROVE Kept
  <2>1. /\ IsThermostat \/ IsWeather
        /\ http' = http \ {x}
        /\ \/ shown' = shown \/ shown' = x.answer
           \/ shown' = [shown EXCEPT ![x.device] = x.answer[x.device]]
        /\ UNCHANGED <<integration, actual, linkVars, torn, left>>
    BY <1>7 DEF PollReturns, Refreshed
  <2>2. x.answer \in [Devices -> OnOff] /\ x.device \in Devices
    BY <1>1, <1>7 DEF Calling
  <2>3. shown' \in [Devices -> Values]
    BY <1>1, <2>1, <2>2, Shows, OneShown
  <2> QED BY <1>1, <1>3, <1>4, <2>1, <2>3
<1>8. ASSUME NEW x \in http, RefreshEntity(x) PROVE Kept
  <2> DEFINE y == [x EXCEPT !.what = "read", !.step = "asked"]
  <2>1. /\ IsThermostat
        /\ http' = http \ {x} \/ http' = (http \ {x}) \cup {y}
        /\ UNCHANGED <<integration, actual, shown, linkVars, torn, left>>
    BY <1>8 DEF RefreshEntity
  <2>2. Calling(y)
    BY <1>1, <1>8 DEF Calling
  <2> HIDE DEF y
  <2> QED BY <1>1, <1>3, <1>4, <2>1, <2>2
<1>9. ASSUME NEW c \in Devices, NEW v \in OnOff, SetHvacMode(c, v) PROVE Kept
  <2>1. /\ IsThermostat /\ Spend("calls") /\ http' = http \cup {Exchange("set", c, v)}
        /\ UNCHANGED <<integration, actual, shown, linkVars, torn>>
    BY <1>9 DEF SetHvacMode
  <2>2. Bounds(left')
    BY <1>1, <2>1, Spent DEF Spend
  <2> QED BY <1>1, <1>3, <1>4, <1>5, <2>1, <2>2
<1>10. ASSUME NEW c \in Devices, NEW v \in OnOff, HandlePower(c, v) PROVE Kept
  <2> DEFINE r == Append(asking, c)
  <2>1. /\ IsYamaha /\ Spend("calls") /\ actual' = [actual EXCEPT ![c] = v] /\ asking' = r
        /\ UNCHANGED <<integration, shown, link, inbox, outbox, retry, ready, opener, http,
                       torn, topics, announced>>
    BY <1>10 DEF HandlePower
  <2>2. /\ r \in Seq(Devices) /\ Len(r) = Len(asking) + 1 /\ Len(asking) \in Nat
        /\ \A i \in 1 .. Len(asking) : r[i] = asking[i]
        /\ r[Len(asking) + 1] = c
    BY <1>1, Longer
  <2> HIDE DEF r
  <2>3. ASSUME ~torn, NEW d \in Devices
        PROVE  (\E i \in 1 .. Len(r) : r[i] = d) \/ shown[d] = actual'[d]
    <3>1. (\E i \in 1 .. Len(asking) : asking[i] = d) \/ shown[d] = actual[d]
      BY <2>1, <2>3 DEF YamahaAgrees
    <3>2. d # c => actual'[d] = actual[d]
      BY <1>1, <2>1
    <3> QED BY <2>2, <3>1, <3>2
  <2>4. YamahaAgrees'
    BY <2>1, <2>3 DEF YamahaAgrees
  <2>5. Bounds(left')
    BY <1>1, <2>1, Spent DEF Spend
  <2>6. http' = {}
    BY <2>1 DEF Belongings
  <2> QED BY <1>1, <2>1, <2>2, <2>4, <2>5, <2>6
<1>11. CASE PushState
  <2> DEFINE r == Tail(asking)
             h == Head(asking)
  <2>1. /\ IsYamaha /\ asking # << >> /\ shown' = [shown EXCEPT ![h] = actual[h]] /\ asking' = r
        /\ UNCHANGED <<integration, actual, link, inbox, outbox, retry, ready, opener, http,
                       torn, topics, announced, left>>
    BY <1>11 DEF PushState
  <2>2. /\ r \in Seq(Devices) /\ Len(r) = Len(asking) - 1 /\ Len(asking) \in Nat
        /\ \A i \in 1 .. Len(asking) - 1 : r[i] = asking[i + 1]
        /\ h = asking[1] /\ h \in Devices
    BY <1>1, <2>1
  <2> HIDE DEF r, h
  <2>3. shown' \in [Devices -> Values] /\ shown'[h] = actual[h]
        /\ \A d \in Devices : d # h => shown'[d] = shown[d]
    BY <1>1, <2>1, <2>2, Shows, OneShown
  <2>4. ASSUME ~torn, NEW d \in Devices
        PROVE  (\E i \in 1 .. Len(r) : r[i] = d) \/ shown'[d] = actual[d]
    <3>1. CASE d = h
      BY <2>3, <3>1
    <3>2. CASE d # h /\ \E i \in 1 .. Len(asking) : asking[i] = d
      <4>1. PICK i \in 1 .. Len(asking) : asking[i] = d
        BY <3>2
      <4>2. i - 1 \in 1 .. Len(r) /\ r[i - 1] = d
        BY <2>2, <3>2, <4>1
      <4> QED BY <4>2
    <3>3. CASE d # h /\ shown[d] = actual[d]
      BY <2>3, <3>3
    <3> QED BY <2>1, <2>4, <3>1, <3>2, <3>3 DEF YamahaAgrees
  <2>5. YamahaAgrees'
    BY <2>1, <2>4 DEF YamahaAgrees
  <2>6. http' = {}
    BY <2>1 DEF Belongings
  <2> QED BY <1>1, <2>1, <2>2, <2>3, <2>5, <2>6
<1>12. CASE StopPolling
  <2>1. torn' = TRUE /\ UNCHANGED <<integration, actual, shown, linkVars, http, left>>
    BY <1>12 DEF StopPolling
  <2>2. torn' \in BOOLEAN
    BY <2>1, Zenon
  <2>3. YamahaAgrees'
    BY <2>1 DEF YamahaAgrees
  <2>4. IsYamaha => http' = {}
    BY <2>1 DEF Belongings
  <2> QED BY <1>1, <2>1, <2>2, <2>3, <2>4
<1> QED BY <1>6, <1>7, <1>8, <1>9, <1>10, <1>11, <1>12 DEF PolledNext

-----------------------------------------------------------------------------
LEMMA BridgeStep == BridgeInv /\ [Next]_vars => BridgeInv'
<1> SUFFICES ASSUME BridgeInv, [Next]_vars PROVE BridgeInv'
    OBVIOUS
<1>1. CASE House
  BY <1>1, HouseKeeps
<1>2. CASE IsLutron /\ LutronNext
  BY <1>2, LutronKeeps
<1>3. CASE IsIsy /\ IsyNext
  BY <1>3, IsyKeeps
<1>4. CASE MqttNext
  <2>1. IsMqtt \/ IsRti
    BY <1>4 DEF MqttNext, MqttConnected, MqttLost, DiscoveryMessage, StateMessage, Announce,
       Withdraw, EntityChanges, MqttCall, PanelCommands, MqttTeardown, RtiConnected, RtiLost,
       BrokerRetains, HandleCommand, CallService
  <2>2. CASE IsMqtt
    <3>1. ~IsRti
      BY <2>2 DEF IsMqtt, IsRti
    <3> QED BY <1>4, <2>2, <3>1, MqttKeeps DEF MqttNext, EntityChanges, PanelCommands,
            RtiConnected, RtiLost, BrokerRetains, HandleCommand, CallService
  <2>3. CASE IsRti
    <3>1. ~IsMqtt
      BY <2>3 DEF IsMqtt, IsRti
    <3> QED BY <1>4, <2>3, <3>1, RtiKeeps DEF MqttNext, MqttConnected, MqttLost,
            DiscoveryMessage, StateMessage, Announce, Withdraw, MqttCall
  <2> QED BY <2>1, <2>2, <2>3
<1>5. CASE IsEvl /\ EvlNext
  BY <1>5, EvlKeeps
<1>6. CASE PolledNext
  BY <1>6, PolledKeeps
<1>7. CASE UNCHANGED vars
  <2>1. BridgeShape'
    BY <1>7 DEF BridgeInv, BridgeShape, Calling, vars
  <2>2. Belongings' /\ LinkInv'
    BY <1>7 DEF BridgeInv, Belongings, LinkInv, vars, IsLutron, IsIsy, IsEvl, IsMqtt, IsRti,
       IsYamaha
  <2>3. SessionAgrees' /\ RtiAgrees' /\ YamahaAgrees'
    BY <1>7 DEF BridgeInv, SessionAgrees, RtiAgrees, YamahaAgrees, Follows, vars, IsLutron,
       IsEvl, IsMqtt, IsRti, IsYamaha
  <2> QED BY <2>1, <2>2, <2>3 DEF BridgeInv
<1> QED BY <1>1, <1>2, <1>3, <1>4, <1>5, <1>6, <1>7 DEF Next

LEMMA BridgeAlways == Spec => []BridgeInv
<1>1. Init => BridgeInv
  BY BridgeInitially
<1>2. BridgeInv /\ [Next]_vars => BridgeInv'
  BY BridgeStep
<1> QED BY <1>1, <1>2, PTL DEF Spec

(* The state of the integrations has the shape the code gives it; in       *)
(* particular no two reconnection timers are ever armed.                   *)
THEOREM BridgesTypeCorrect == Spec => []BridgeTypeOK
<1>1. BridgeInv => BridgeTypeOK
  <2> SUFFICES ASSUME BridgeInv PROVE BridgeTypeOK
      OBVIOUS
  <2>1. \A i \in DOMAIN inbox : inbox[i].value \in OnOff \cup {"toggle", "config", "removed"}
    <3>1. \A i \in DOMAIN inbox : inbox[i] \in Heards
      BY DEF BridgeInv, BridgeShape
    <3> QED BY <3>1 DEF Heards
  <2>2. \A i \in DOMAIN outbox : outbox[i].value \in Commands
    <3>1. \A i \in DOMAIN outbox : outbox[i] \in Orders
      BY DEF BridgeInv, BridgeShape
    <3> QED BY <3>1 DEF Orders
  <2>3. \A i \in DOMAIN asking : asking[i] \in Devices
    BY DEF BridgeInv, BridgeShape
  <2> QED BY <2>1, <2>2, <2>3 DEF BridgeInv, BridgeShape, BridgeTypeOK, Calling
<1> QED BY <1>1, BridgeAlways, PTL

(* A hub always has a session or a timer that opens one, and never both;   *)
(* and once an integration has been torn down nothing opens its link again *)
(* (scheduleReconnect(), the close events and teardown() of lutron, isy994 *)
(* and envisalink; teardown() of the others).                              *)
THEOREM HubsHaveOneLink == Spec => OneLink
<1>1. BridgeInv => LinkOrTimer
  BY DEF BridgeInv, BridgeShape, LinkInv, LinkOrTimer, Deaf, Stranded
<1>2. BridgeInv' => LinkOrTimer'
  BY <1>1, PTL
<1>3. ASSUME BridgeInv, BridgeInv', Next PROVE StaysDown
  <2>1. SUFFICES /\ integration' = integration
                 /\ torn => torn'
                 /\ torn /\ ~IsEvl /\ link = "down" => link' = "down"
    BY <1>3, <2>1 DEF StaysDown, BridgeInv, LinkInv, IsEvl
  <2>2. torn /\ ~IsEvl => retry = 0 /\ retry \in 0 .. 1
    BY <1>3 DEF BridgeInv, BridgeShape, LinkInv
  <2>3. CASE House
    <3>1. UNCHANGED <<quietVars, link>>
      <4>1. CASE \E d \in Devices : Flip(d)
        BY <4>1, Zenon DEF Flip
      <4>2. CASE HubExecutes
        BY <4>2, Zenon DEF HubExecutes
      <4>3. CASE \E x \in http : HubAnswers(x) \/ HubFails(x)
        BY <4>3, Zenon DEF HubAnswers, HubFails
      <4> QED BY <2>3, <4>1, <4>2, <4>3 DEF House
    <3> QED BY <3>1 DEF quietVars
  <2>4. CASE IsLutron /\ LutronNext
    BY <2>2, <2>4 DEF LutronNext, LoggedIn, OpeningFails, ClosedAtLogin, SessionLost,
       TimerReconnects, Output, QueryTimesOut, LutronCall, LutronTeardown, IsLutron, IsEvl,
       quietVars
  <2>5. CASE IsIsy /\ IsyNext
    BY <2>2, <2>5 DEF IsyNext, PollStatuses, WsOpened, WsClosed, WsReconnects, NodeEvent,
       PollAnswered, IsyCommandReturns, IsyCall, IsyTeardown, IsIsy, IsEvl, quietVars, linkVars
  <2>6. CASE MqttNext
    BY <2>6 DEF MqttNext, MqttConnected, MqttLost, DiscoveryMessage, StateMessage, Announce,
       Withdraw, EntityChanges, MqttCall, PanelCommands, MqttTeardown, RtiConnected, RtiLost,
       BrokerRetains, HandleCommand, CallService, quietVars
  <2>7. CASE IsEvl /\ EvlNext
    BY <2>7 DEF EvlNext, Authenticated, PollTimer, EvlClosed, EvlConnect, ParseMessage,
       EvlCall, EvlTeardown, quietVars
  <2>8. CASE PolledNext
    <3>1. UNCHANGED <<integration, link>> /\ (torn' = TRUE \/ torn' = torn)
      <4>1. CASE Poll \/ StopPolling \/ PushState
        BY <4>1 DEF Poll, StopPolling, PushState, linkVars
      <4>2. CASE \E x \in http : PollReturns(x) \/ RefreshEntity(x) \/ Refreshed(x)
        BY <4>2 DEF PollReturns, RefreshEntity, Refreshed, linkVars
      <4>3. CASE \E d \in Devices, v \in OnOff : SetHvacMode(d, v) \/ HandlePower(d, v)
        BY <4>3 DEF SetHvacMode, HandlePower, linkVars
      <4> QED BY <2>8, <4>1, <4>2, <4>3 DEF PolledNext
    <3> QED BY <3>1
  <2> QED BY <1>3, <2>3, <2>4, <2>5, <2>6, <2>7, <2>8 DEF Next
<1>4. BridgeInv /\ BridgeInv' /\ [Next]_vars => [LinkOrTimer' /\ StaysDown]_vars
  BY <1>2, <1>3
<1> QED BY <1>4, BridgeAlways, PTL DEF Spec, OneLink

(* When nothing is on its way between a hub and its integration, every     *)
(* entity shows what its device is: after any calls, switches, losses of   *)
(* the link, optimistic states and reconnections, for any number of        *)
(* devices (lutron, envisalink, mqtt, rti and the mock of yamaha).         *)
THEOREM EntitiesAgree == Spec => []AgreesWhenQuiet
<1>1. BridgeInv => AgreesWhenQuiet
  <2> SUFFICES ASSUME BridgeInv, inbox = << >>, outbox = << >>, asking = << >>, ~torn
               PROVE  \/ link = "up" /\ (IsLutron \/ IsMqtt \/ IsEvl) /\ ~Deaf
                      \/ link = "up" /\ IsRti /\ left.faults = MaxFaults
                      \/ IsYamaha
                      => \A d \in topics : \/ shown[d] = actual[d]
                                           \/ (IsMqtt \/ IsRti) /\ shown[d] = "absent"
      BY DEF AgreesWhenQuiet
  <2> USE DEF BridgeInv
  <2>1. ~IsMqtt => topics = Devices
    BY DEF Belongings
  <2>2. \A d, v : ~LastWord(<< >>, d, v) /\ ~About(<< >>, d) /\ ~StillAsked(<< >>, d)
    BY DEF LastWord, About, StillAsked
  <2>3. ASSUME link = "up", (IsLutron \/ IsMqtt \/ IsEvl), ~Deaf, NEW d \in topics
        PROVE  shown[d] = actual[d] \/ (IsMqtt /\ shown[d] = "absent")
    <3>1. ready
      BY <2>3 DEF Deaf, Belongings
    <3>2. Follows(d)
      BY <2>3, <3>1 DEF SessionAgrees
    <3> QED BY <2>2, <3>2 DEF Follows
  <2>4. ASSUME IsRti, left.faults = MaxFaults, NEW d \in topics
        PROVE  shown[d] = actual[d] \/ shown[d] = "absent"
    <3>1. d \in Devices
      BY DEF BridgeShape
    <3> QED BY <2>2, <2>4, <3>1 DEF RtiAgrees
  <2>5. ASSUME IsYamaha, NEW d \in topics PROVE shown[d] = actual[d]
    <3>1. d \in Devices
      BY DEF BridgeShape
    <3> QED BY <2>5, <3>1 DEF YamahaAgrees
  <2> QED BY <2>3, <2>4, <2>5
<1> QED BY <1>1, BridgeAlways, PTL
=============================================================================

------------------------ MODULE StateMachineProofs ------------------------
(* Theorems about StateMachine, for every value of its constants.          *)
EXTENDS StateMachine, SequenceTheorems, WellFoundedInduction, TLAPS

(* Sequences without their last, or without some, element.                 *)
LEMMA WithoutLast ==
    ASSUME NEW S, NEW s \in Seq(S), s # <<>>
    PROVE  LET t == SubSeq(s, 1, Len(s) - 1)
           IN  t \in Seq(S) /\ Len(t) = Len(s) - 1
                  /\ \A k \in 1 .. Len(s) - 1 : t[k] = s[k]
<1>. DEFINE n == Len(s) - 1
<1>1. n \in Nat /\ \A i \in 1 .. n : s[i] \in S
  OBVIOUS
<1>. HIDE DEF n
<1>2. /\ SubSeq(s, 1, n) \in Seq(S)
      /\ Len(SubSeq(s, 1, n)) = n
      /\ \A i \in 1 .. n : SubSeq(s, 1, n)[i] = s[i]
  BY <1>1
<1>. QED
  BY <1>2 DEF n

LEMMA WithoutElement ==
    ASSUME NEW S, NEW s \in Seq(S), NEW k \in DOMAIN s
    PROVE  LET t == SubSeq(s, 1, k - 1) \o SubSeq(s, k + 1, Len(s))
           IN  t \in Seq(S) /\ Len(t) = Len(s) - 1
                  /\ \A i \in 1 .. Len(s) - 1 : t[i] = IF i < k THEN s[i] ELSE s[i + 1]
<1>. DEFINE a == SubSeq(s, 1, k - 1)
            b == SubSeq(s, k + 1, Len(s))
<1>1. k \in 1 .. Len(s) /\ Len(s) \in Nat
  OBVIOUS
<1>2. a \in Seq(S) /\ Len(a) = k - 1 /\ \A i \in 1 .. k - 1 : a[i] = s[i]
  BY <1>1
<1>3. b \in Seq(S) /\ Len(b) = Len(s) - k /\ \A i \in 1 .. Len(s) - k : b[i] = s[k + i]
  BY <1>1
<1>. HIDE DEF a, b
<1>4. /\ (a \o b) \in Seq(S) /\ Len(a \o b) = Len(s) - 1
      /\ \A i \in 1 .. Len(s) - 1 :
            (a \o b)[i] = IF i <= k - 1 THEN a[i] ELSE b[i - (k - 1)]
  <2>1. Len(a) = k - 1 /\ Len(b) = Len(s) - k /\ Len(a) + Len(b) = Len(s) - 1
    BY <1>1, <1>2, <1>3
  <2>2. /\ (a \o b) \in Seq(S)
        /\ Len(a \o b) = Len(a) + Len(b)
        /\ \A i \in 1 .. Len(a) + Len(b) :
              (a \o b)[i] = IF i <= Len(a) THEN a[i] ELSE b[i - Len(a)]
    BY <1>2, <1>3, ConcatProperties, Zenon
  <2>. QED
    BY <2>1, <2>2
<1>5. ASSUME NEW i \in 1 .. Len(s) - 1
      PROVE  (a \o b)[i] = IF i < k THEN s[i] ELSE s[i + 1]
  <2>1. CASE i < k
    BY <1>1, <1>2, <1>4, <2>1
  <2>2. CASE ~(i < k)
    <3>1. (a \o b)[i] = b[i - (k - 1)]
      BY <1>1, <1>4, <2>2
    <3>2. i - (k - 1) \in 1 .. Len(s) - k /\ k + (i - (k - 1)) = i + 1
      BY <1>1, <2>2
    <3>. QED
      BY <1>3, <2>2, <3>1, <3>2
  <2>. QED
    BY <2>1, <2>2
<1>. QED
  BY <1>4, <1>5 DEF a, b

LEMMA NewStateType ==
    ASSUME TypeOK, NEW e \in Entities, NEW s \in Values, NEW a \in Attrs
    PROVE  NewState(states[e], s, a) \in StateRec
BY StateMachineAssumption DEF TypeOK, NewState, StateRec, StateMap

LEMMA SetStateType ==
    ASSUME TypeOK, NEW e \in Entities, NEW s \in Values, NEW a \in Attrs,
           NEW base \in Seq(Frame), SetState(e, s, a, base)
    PROVE  states' \in StateMap /\ stack' \in Seq(Frame)
<1>1. NewState(states[e], s, a) \in StateRec
  BY NewStateType
<1>2. Emission(e, states[e], NewState(states[e], s, a)) \in Frame
  BY <1>1 DEF TypeOK, Emission, Frame, StateMap
<1>. QED
  BY <1>1, <1>2 DEF TypeOK, SetState, StateMap

LEMMA TopType ==
    ASSUME TypeOK, stack # <<>>
    PROVE  /\ Len(stack) \in Nat \ {0}
           /\ Top \in Frame
           /\ Called \in Seq(Frame)
           /\ SubSeq(stack, 1, Len(stack) - 1) \in Seq(Frame)
<1>1. Len(stack) \in Nat \ {0} /\ Top \in Frame
  BY DEF TypeOK, Top
<1>2. [Top EXCEPT !.next = @ + 1] \in Frame
  BY <1>1 DEF Frame
<1>3. Called \in Seq(Frame)
  BY <1>1, <1>2 DEF TypeOK, Called, Top
<1>4. SubSeq(stack, 1, Len(stack) - 1) \in Seq(Frame)
  BY <1>1 DEF TypeOK
<1>. QED
  BY <1>1, <1>3, <1>4

LEMMA LatestRowType ==
    ASSUME TypeOK, NEW e \in Entities
    PROVE  LatestRow(e) \in StateRec \cup {NoState}
<1>1. CASE \E r \in rows : IsLatest(r, e)
  <2>1. (CHOOSE r \in rows : IsLatest(r, e)) \in rows
    BY <1>1
  <2>. QED
    BY <1>1, <2>1 DEF TypeOK, LatestRow, Row
<1>2. CASE ~ \E r \in rows : IsLatest(r, e)
  BY <1>2 DEF LatestRow
<1>. QED
  BY <1>1, <1>2
-----------------------------------------------------------------------------
(* Type correctness: one step per action of Next.                          *)

LEMMA BusType ==
    ASSUME TypeOK,
           \/ \E l \in Listeners : Listen(l) \/ Unlisten(l)
           \/ Deliver
           \/ \E a \in Automations : RunSettles(a)
    PROVE  TypeOK'
<1>1. ASSUME NEW l \in Listeners, Listen(l)
      PROVE  TypeOK'
  BY <1>1 DEF TypeOK, Listen, StateMap, disk
<1>2. ASSUME NEW l \in Listeners, Unlisten(l)
      PROVE  TypeOK'
  <2>1. PICK i \in DOMAIN order :
            order' = SubSeq(order, 1, i - 1) \o SubSeq(order, i + 1, Len(order))
    BY <1>2 DEF Unlisten
  <2>2. order' \in Seq(Listeners)
    BY <2>1 DEF TypeOK
  <2>. QED
    BY <1>2, <2>2 DEF TypeOK, Unlisten, disk
<1>3. CASE DeliverToMirror
  <2>1. Called \in Seq(Frame) /\ Top \in Frame
    BY <1>3, TopType DEF DeliverToMirror
  <2>2. held' \in [Mirrors -> StateMap]
    BY <1>3, <2>1 DEF TypeOK, DeliverToMirror, StateMap, Frame
  <2>. QED
    BY <1>3, <2>1, <2>2 DEF TypeOK, DeliverToMirror, disk
<1>4. CASE DeliverIgnored
  <2>1. Called \in Seq(Frame)
    BY <1>4, TopType DEF DeliverIgnored
  <2>. QED
    BY <1>4, <2>1 DEF TypeOK, DeliverIgnored, bus, disk
<1>5. CASE DeliverReaction
  <2>1. Called \in Seq(Frame) /\ Top \in Frame
    BY <1>5, TopType DEF DeliverReaction
  <2>2. PICK r \in Reactions : SetState(r.set, r.val, r.attrs, Called)
    BY <1>5 DEF DeliverReaction
  <2>3. r.set \in Entities /\ r.val \in Values /\ r.attrs \in Attrs
    BY <2>2, StateMachineAssumption DEF Reaction
  <2>4. states' \in StateMap /\ stack' \in Seq(Frame)
    BY <2>1, <2>2, <2>3, SetStateType
  <2>5. running' \subseteq Automations
    BY <1>5 DEF TypeOK, DeliverReaction
  <2>. QED
    BY <1>5, <2>4, <2>5 DEF TypeOK, DeliverReaction, disk
<1>6. CASE Return
  <2>1. stack' \in Seq(Frame) /\ Top \in Frame
    BY <1>6, TopType DEF Return
  <2>2. dbq' \in Seq(Statement)
    <3>1. CASE Top.new = NoState \/ Unchanged(Top)
      BY <1>6, <3>1 DEF TypeOK, Return
    <3>2. CASE ~(Top.new = NoState \/ Unchanged(Top))
      <4>1. [kind |-> "insert", entity |-> Top.entity, rec |-> Top.new] \in Statement
        BY <2>1, <3>2 DEF Frame, Statement
      <4>. QED
        BY <1>6, <3>2, <4>1 DEF TypeOK, Return
    <3>. QED
      BY <3>1, <3>2
  <2>. QED
    BY <1>6, <2>1, <2>2 DEF TypeOK, Return, bus
<1>7. ASSUME NEW a \in Automations, RunSettles(a)
      PROVE  TypeOK'
  BY <1>7 DEF TypeOK, RunSettles, disk
<1>. QED
  BY <1>1, <1>2, <1>3, <1>4, <1>5, <1>6, <1>7 DEF Deliver

LEMMA StoreType ==
    ASSUME TypeOK,
           \/ \E e \in Entities, s \in Values, a \in Attrs : ExternalSet(e, s, a)
           \/ \E e \in Entities : RemoveEntity(e)
           \/ Database \/ Prune \/ SaveSnapshot
    PROVE  TypeOK'
<1>1. ASSUME NEW e \in Entities, NEW s \in Values, NEW a \in Attrs,
             ExternalSet(e, s, a)
      PROVE  TypeOK'
  <2>1. SetState(e, s, a, stack) /\ stack \in Seq(Frame)
    BY <1>1 DEF TypeOK, ExternalSet
  <2>2. states' \in StateMap /\ stack' \in Seq(Frame)
    BY <2>1, SetStateType
  <2>. QED
    BY <1>1, <2>2 DEF TypeOK, ExternalSet, bus, disk
<1>2. ASSUME NEW e \in Entities, RemoveEntity(e)
      PROVE  TypeOK'
  <2>1. Emission(e, states[e], NoState) \in Frame
    BY DEF TypeOK, Emission, Frame, StateMap
  <2>. QED
    BY <1>2, <2>1 DEF TypeOK, RemoveEntity, StateMap, bus, disk
<1>3. ASSUME dbq # <<>>
      PROVE  Tail(dbq) \in Seq(Statement) /\ Head(dbq) \in Statement
  BY <1>3 DEF TypeOK
<1>4. CASE Insert
  <2>1. [id |-> nextId, entity |-> Head(dbq).entity, rec |-> Head(dbq).rec] \in Row
    BY <1>3, <1>4 DEF TypeOK, Insert, Statement, Row
  <2>. QED
    BY <1>3, <1>4, <2>1 DEF TypeOK, Insert, bus
<1>5. CASE InsertFails
  BY <1>3, <1>5 DEF TypeOK, InsertFails, bus
<1>6. CASE RestoreQuery
  <2>1. latest' \in StateMap
    BY <1>6, LatestRowType DEF RestoreQuery, StateMap
  <2>. QED
    BY <1>3, <1>6, <2>1 DEF TypeOK, RestoreQuery, bus
<1>7. CASE RestoreFails
  BY <1>3, <1>7 DEF TypeOK, RestoreFails, bus
<1>8. CASE Prune
  BY <1>8 DEF TypeOK, Prune, bus
<1>9. CASE SaveSnapshot
  BY <1>9 DEF TypeOK, SaveSnapshot, bus
<1>. QED
  BY <1>1, <1>2, <1>4, <1>5, <1>6, <1>7, <1>8, <1>9 DEF Database

LEMMA LifecycleType ==
    ASSUME TypeOK, Boot \/ Start \/ Restore \/ Crash \/ Tick
    PROVE  TypeOK'
<1>1. CASE Boot
  BY <1>1 DEF TypeOK, Boot, bus, disk
<1>2. CASE Start
  <2>1. [kind |-> "restore"] \in Statement
    BY DEF Statement
  <2>. QED
    BY <1>2, <2>1 DEF TypeOK, Start, bus
<1>3. CASE Restore
  <2>1. \A e \in Entities : Restored(e, latest[e], states[e]) \in StateRec \cup {NoState}
    BY DEF TypeOK, Restored, StateMap
  <2>. QED
    BY <1>3, <2>1 DEF TypeOK, Restore, StateMap, bus, disk
<1>4. CASE Crash
  BY <1>4 DEF TypeOK, Crash, StateMap, NoStates
<1>5. CASE Tick
  BY <1>5, StateMachineAssumption DEF TypeOK, Tick, Time, bus, disk
<1>. QED
  BY <1>1, <1>2, <1>3, <1>4, <1>5

(* Type correctness of the state machine and the bus.                      *)
THEOREM TypeCorrect == Spec => []TypeOK
<1>1. Init => TypeOK
  BY StateMachineAssumption DEF Init, TypeOK, StateMap, NoStates, Time
<1>2. TypeOK /\ [Next]_vars => TypeOK'
  <2>1. CASE Next
    BY <2>1, BusType, StoreType, LifecycleType DEF Next
  <2>2. CASE UNCHANGED vars
    BY <2>2 DEF TypeOK, vars
  <2>. QED
    BY <2>1, <2>2
<1>. QED
  BY <1>1, <1>2, PTL DEF Spec
-----------------------------------------------------------------------------
(* Front mirrors never miss or reorder an event.                           *)

(* Between tasks nothing is undelivered.                                   *)
LEMMA FreshWhenIdle ==
    ASSUME TypeOK, FrontInv
    PROVE  FrontMirrorFresh
<1>. SUFFICES ASSUME Idle, NEW m \in front
              PROVE  held[m] = states
  BY DEF FrontMirrorFresh
<1>1. m \in Mirrors /\ held[m] \in StateMap /\ states \in StateMap
  BY DEF TypeOK
<1>2. \A e \in Entities : held[m][e] = states[e]
  BY DEF FrontInv, HeldUpToInnermost, Idle
<1>. QED
  BY <1>1, <1>2 DEF StateMap

(* A front mirror precedes the automation at any given place of `order'.   *)
LEMMA FrontBeforeAutomation ==
    ASSUME TypeOK, FrontLeads, NEW m \in front,
           NEW k \in DOMAIN order, order[k] \in Automations
    PROVE  \E i \in DOMAIN order : i < k /\ order[i] = m
<1>1. PICK i \in DOMAIN order :
          order[i] = m /\ \A j \in 1 .. i : order[j] \notin Automations
  BY DEF FrontLeads
<1>2. i \in Nat /\ k \in Nat /\ k >= 1
  BY DEF TypeOK
<1>3. i < k
  BY <1>1, <1>2
<1>. QED
  BY <1>1, <1>3

(* setState by a task: one emission, nothing delivered yet.                *)
LEMMA FreshEmission ==
    ASSUME TypeOK, FrontInv, Idle, NEW e \in Entities,
           NEW new \in StateRec \cup {NoState},
           states' = [states EXCEPT ![e] = new],
           stack' = Append(stack, Emission(e, states[e], new)),
           UNCHANGED <<phase, bus>>
    PROVE  FrontInv'
<1>1. stack' = <<Emission(e, states[e], new)>> /\ Len(stack') = 1
  BY DEF Idle, TypeOK
<1>2. Top' = Emission(e, states[e], new) /\ Top'.entity = e /\ Top'.new = new
        /\ Top'.next = 1
  BY <1>1 DEF Top, Emission
<1>3. (front # {} => phase = "up")' /\ FrontLeads' /\ RegisteredOnce'
  BY DEF FrontInv, FrontLeads, RegisteredOnce, bus
<1>4. SuspendedInAutomation'
  BY <1>1 DEF SuspendedInAutomation
<1>5. InnermostIsCurrent'
  BY <1>2 DEF InnermostIsCurrent, TypeOK, StateMap
<1>6. HeldUpToInnermost'
  <2>. SUFFICES ASSUME NEW m \in front, NEW d \in Entities, d # e
                PROVE  held[m][d] = states'[d]
    <3>1. \A m \in front : Undelivered(m)'
      BY <1>2 DEF Undelivered, TypeOK, bus
    <3>. QED
      BY <1>1, <1>2, <3>1 DEF HeldUpToInnermost, bus
  <2>1. held[m][d] = states[d]
    BY DEF FrontInv, HeldUpToInnermost, Idle
  <2>. QED
    BY <2>1 DEF TypeOK, StateMap
<1>. QED
  BY <1>3, <1>4, <1>5, <1>6 DEF FrontInv

(* The innermost emission moves on to its next listener.                   *)
LEMMA CalledProperties ==
    ASSUME TypeOK, stack # <<>>
    PROVE  /\ Len(Called) = Len(stack)
           /\ Called[Len(stack)] = [Top EXCEPT !.next = @ + 1]
           /\ \A k \in 1 .. Len(stack) - 1 : Called[k] = stack[k]
<1>1. Len(stack) \in Nat \ {0}
  BY TopType
<1>2. Len(Called) = Len(stack)
  BY DEF TypeOK, Called
<1>3. Called[Len(stack)] = [stack[Len(stack)] EXCEPT !.next = @ + 1]
  BY <1>1 DEF TypeOK, Called
<1>4. \A k \in 1 .. Len(stack) - 1 : Called[k] = stack[k]
  BY <1>1 DEF TypeOK, Called
<1>. QED
  BY <1>2, <1>3, <1>4 DEF Top

(* The innermost emission calls one more listener that sets nothing.       *)
LEMMA FrontInvCalled ==
    ASSUME TypeOK, FrontInv, stack # <<>>, Top.next \in DOMAIN order,
           stack' = Called,
           UNCHANGED <<phase, states, order, front>>,
           held' \in [Mirrors -> StateMap],
           \A m \in front :
              held'[m] = IF m = order[Top.next]
                         THEN [held[m] EXCEPT ![Top.entity] = Top.new] ELSE held[m]
    PROVE  FrontInv'
<1>1. /\ Len(stack) \in Nat \ {0} /\ Len(stack') = Len(stack)
      /\ Top \in Frame
      /\ Top' = [Top EXCEPT !.next = @ + 1]
      /\ \A k \in 1 .. Len(stack) - 1 : stack'[k] = stack[k]
  BY TopType, CalledProperties DEF Top
<1>2. /\ Top'.entity = Top.entity /\ Top'.new = Top.new
      /\ Top'.next = Top.next + 1 /\ Top.next \in Nat
  BY <1>1 DEF Frame
<1>3. (front # {} => phase = "up")' /\ FrontLeads' /\ RegisteredOnce'
  BY DEF FrontInv, FrontLeads, RegisteredOnce
<1>4. SuspendedInAutomation'
  BY <1>1 DEF FrontInv, SuspendedInAutomation
<1>5. NotYetOvertaken(Top)' => NotYetOvertaken(Top)
  BY <1>2 DEF NotYetOvertaken, TypeOK
<1>6. InnermostIsCurrent'
  BY <1>1, <1>2, <1>5 DEF FrontInv, InnermostIsCurrent
<1>7. HeldUpToInnermost'
  <2>. SUFFICES ASSUME NEW m \in front, NEW e \in Entities
                PROVE  \/ held'[m][e] = states[e]
                       \/ e = Top.entity /\ Undelivered(m)'
    BY <1>1, <1>2 DEF HeldUpToInnermost, TypeOK
  <2>1. m \in Mirrors /\ held[m] \in StateMap
    BY DEF TypeOK
  <2>2. CASE m = order[Top.next] /\ e = Top.entity
    <3>1. held'[m][e] = Top.new
      BY <2>1, <2>2 DEF StateMap
    <3>2. NotYetOvertaken(Top)
      <4>1. PICK i \in DOMAIN order :
                order[i] = m /\ \A j \in 1 .. i : order[j] \notin Automations
        BY DEF FrontInv, FrontLeads
      <4>2. i = Top.next
        BY <2>2, <4>1 DEF FrontInv, RegisteredOnce
      <4>. QED
        BY <1>2, <4>1, <4>2 DEF NotYetOvertaken, TypeOK
    <3>3. states[Top.entity] = Top.new
      BY <3>2 DEF FrontInv, InnermostIsCurrent
    <3>. QED
      BY <2>2, <3>1, <3>3
  <2>3. CASE m = order[Top.next] /\ e # Top.entity
    <3>1. held'[m][e] = held[m][e]
      BY <2>1, <2>3 DEF StateMap
    <3>2. held[m][e] = states[e]
      BY <2>3 DEF FrontInv, HeldUpToInnermost
    <3>. QED
      BY <3>1, <3>2
  <2>4. CASE m # order[Top.next]
    <3>1. held'[m][e] = held[m][e]
      BY <2>4
    <3>2. Undelivered(m) => Undelivered(m)'
      BY <1>2, <2>4 DEF Undelivered, TypeOK
    <3>. QED
      BY <3>1, <3>2 DEF FrontInv, HeldUpToInnermost
  <2>. QED
    BY <2>2, <2>3, <2>4
<1>. QED
  BY <1>3, <1>4, <1>6, <1>7 DEF FrontInv

(* An automation sets a state while it handles the innermost event: that   *)
(* emission is suspended and the new one becomes the innermost.            *)
LEMMA FrontInvReaction ==
    ASSUME TypeOK, FrontInv, DeliverReaction
    PROVE  FrontInv'
<1>1. PICK r \in Reactions : SetState(r.set, r.val, r.attrs, Called)
  BY DEF DeliverReaction
<1>2. r.set \in Entities /\ r.val \in Values /\ r.attrs \in Attrs
  BY <1>1, StateMachineAssumption DEF Reaction
<1>. DEFINE new == NewState(states[r.set], r.val, r.attrs)
            emission == Emission(r.set, states[r.set], new)
<1>3. new \in StateRec
  BY <1>2, NewStateType
<1>. HIDE DEF new
<1>4. states' = [states EXCEPT ![r.set] = new] /\ stack' = Append(Called, emission)
  BY <1>1 DEF SetState, new
<1>5. /\ Len(stack) \in Nat \ {0}
      /\ Top \in Frame /\ Called \in Seq(Frame)
      /\ Top.next \in DOMAIN order /\ order[Top.next] \in Automations
      /\ UNCHANGED <<phase, order, held, front>>
  <2>1. stack # <<>> /\ Top.next <= Len(order)
        /\ order[Top.next] \in Automations
        /\ UNCHANGED <<phase, order, held, front>>
    BY DEF DeliverReaction
  <2>2. Len(stack) \in Nat \ {0} /\ Top \in Frame /\ Called \in Seq(Frame)
    BY <2>1, TopType
  <2>3. Top.next \in DOMAIN order
    BY <2>1, <2>2 DEF Frame, TypeOK
  <2>. QED
    BY <2>1, <2>2, <2>3
<1>6. /\ Len(Called) = Len(stack)
      /\ Called[Len(stack)] = [Top EXCEPT !.next = @ + 1]
      /\ \A k \in 1 .. Len(stack) - 1 : Called[k] = stack[k]
  <2>. stack # <<>>
    BY DEF DeliverReaction
  <2>. QED
    BY CalledProperties
<1>7. /\ Len(stack') = Len(stack) + 1
      /\ stack'[Len(stack) + 1] = emission
      /\ \A k \in 1 .. Len(stack) : stack'[k] = Called[k]
  BY <1>4, <1>5, <1>6
<1>8. /\ Top' = emission
      /\ Top'.entity = r.set /\ Top'.new = new /\ Top'.next = 1
  BY <1>5, <1>7 DEF Top, Emission
<1>9. (front # {} => phase = "up")' /\ FrontLeads' /\ RegisteredOnce'
  BY <1>5 DEF FrontInv, FrontLeads, RegisteredOnce
<1>10. SuspendedInAutomation'
  <2>. SUFFICES ASSUME NEW k \in 1 .. Len(stack)
                PROVE  /\ stack'[k].next - 1 \in DOMAIN order
                       /\ order[stack'[k].next - 1] \in Automations
    BY <1>5, <1>7 DEF SuspendedInAutomation
  <2>1. CASE k = Len(stack)
    <3>1. stack'[k].next = Top.next + 1
      BY <1>5, <1>6, <1>7, <2>1 DEF Frame
    <3>. QED
      BY <1>5, <3>1 DEF Frame
  <2>2. CASE k # Len(stack)
    <3>1. k \in 1 .. Len(stack) - 1
      BY <1>5, <2>2
    <3>2. stack'[k] = stack[k]
      BY <1>6, <1>7, <3>1
    <3>. QED
      BY <3>1, <3>2 DEF FrontInv, SuspendedInAutomation
  <2>. QED
    BY <2>1, <2>2
<1>11. InnermostIsCurrent'
  BY <1>2, <1>4, <1>8 DEF InnermostIsCurrent, TypeOK, StateMap
<1>12. HeldUpToInnermost'
  <2>. SUFFICES ASSUME NEW m \in front, NEW e \in Entities, e # r.set
                PROVE  held[m][e] = states'[e]
    <3>1. \A m \in front : Undelivered(m)'
      BY <1>5, <1>8 DEF Undelivered, TypeOK
    <3>2. stack' # <<>>
      BY <1>4, <1>5
    <3>. QED
      BY <1>5, <1>8, <3>1, <3>2 DEF HeldUpToInnermost
  <2>1. ~Undelivered(m)
    BY <1>5, FrontBeforeAutomation DEF FrontInv, Undelivered
  <2>2. held[m][e] = states[e]
    BY <2>1 DEF FrontInv, HeldUpToInnermost
  <2>. QED
    BY <1>4, <2>2 DEF TypeOK, StateMap
<1>. QED
  BY <1>9, <1>10, <1>11, <1>12 DEF FrontInv

(* fire returns: the emission below, if any, has passed every front mirror.*)
LEMMA FrontInvReturn ==
    ASSUME TypeOK, FrontInv, Return
    PROVE  FrontInv'
<1>1. /\ stack # <<>> /\ Top.next > Len(order)
      /\ stack' = SubSeq(stack, 1, Len(stack) - 1)
      /\ UNCHANGED <<phase, states, order, held, front>>
  BY DEF Return, bus
<1>2. /\ Len(stack) \in Nat \ {0} /\ Top \in Frame /\ Top.next \in Nat
      /\ Len(stack') = Len(stack) - 1
      /\ \A k \in 1 .. Len(stack) - 1 : stack'[k] = stack[k]
  <2>1. Len(stack) \in Nat \ {0} /\ Top \in Frame
    BY <1>1, TopType
  <2>2. Len(stack') = Len(stack) - 1
        /\ \A k \in 1 .. Len(stack) - 1 : stack'[k] = stack[k]
    BY <1>1, WithoutLast DEF TypeOK
  <2>3. Top.next \in Nat
    BY <2>1 DEF Frame
  <2>. QED
    BY <2>1, <2>2, <2>3
<1>3. (front # {} => phase = "up")' /\ FrontLeads' /\ RegisteredOnce'
  BY <1>1 DEF FrontInv, FrontLeads, RegisteredOnce
<1>4. SuspendedInAutomation'
  BY <1>1, <1>2 DEF FrontInv, SuspendedInAutomation
<1>5. InnermostIsCurrent'
  <2>. SUFFICES ASSUME stack' # <<>>
                PROVE  ~NotYetOvertaken(Top)'
    BY DEF InnermostIsCurrent
  <2>. DEFINE k == Len(stack) - 1
  <2>1. k \in 1 .. Len(stack) - 1 /\ Top' = stack[k]
    <3>1. Len(stack') # 0
      BY <1>1, <1>2 DEF TypeOK
    <3>2. k \in 1 .. Len(stack) - 1
      BY <1>2, <3>1
    <3>. QED
      BY <1>2, <3>2 DEF Top
  <2>2. stack[k].next - 1 \in DOMAIN order /\ order[stack[k].next - 1] \in Automations
    BY <2>1 DEF FrontInv, SuspendedInAutomation
  <2>3. stack[k] \in Frame
    BY <1>2, <2>1 DEF TypeOK
  <2>4. stack[k].next \in Nat
    BY <2>3 DEF Frame
  <2>. QED
    BY <1>1, <2>1, <2>2, <2>4 DEF NotYetOvertaken
<1>6. HeldUpToInnermost'
  <2>. SUFFICES ASSUME NEW m \in front, NEW e \in Entities
                PROVE  held[m][e] = states[e]
    BY <1>1 DEF HeldUpToInnermost
  <2>1. PICK i \in DOMAIN order : order[i] = m
    BY DEF FrontInv, FrontLeads
  <2>2. ~Undelivered(m)
    BY <1>1, <1>2, <2>1 DEF Undelivered, TypeOK
  <2>. QED
    BY <2>2 DEF FrontInv, HeldUpToInnermost
<1>. QED
  BY <1>3, <1>4, <1>5, <1>6 DEF FrontInv

LEMMA FrontInvBus ==
    ASSUME TypeOK, FrontInv,
           \/ \E l \in Listeners : Listen(l) \/ Unlisten(l)
           \/ Deliver
           \/ \E a \in Automations : RunSettles(a)
    PROVE  FrontInv'
<1>1. ASSUME NEW l \in Listeners, Listen(l)
      PROVE  FrontInv'
  <2>1. /\ stack = <<>> /\ stack' = <<>> /\ UNCHANGED <<phase, states>>
        /\ l \notin Registered /\ order' = Append(order, l)
        /\ l \in Mirrors => phase = "up"
    BY <1>1 DEF Listen, Idle
  <2>2. /\ Len(order') = Len(order) + 1 /\ order'[Len(order) + 1] = l
        /\ \A i \in DOMAIN order : order'[i] = order[i]
        /\ DOMAIN order' = DOMAIN order \cup {Len(order) + 1}
        /\ Len(order) \in Nat /\ DOMAIN order = 1 .. Len(order)
    BY <2>1 DEF TypeOK
  <2>3. \A m \in front' : \/ m \in front
                          \/ m = l /\ l \in Mirrors /\ Registered \cap Automations = {}
    BY <1>1 DEF Listen
  <2>4. (front # {} => phase = "up")'
    BY <2>1, <2>3 DEF FrontInv
  <2>5. FrontLeads'
    <3>. SUFFICES ASSUME NEW m \in front'
                  PROVE  \E i \in DOMAIN order' :
                            order'[i] = m /\ \A j \in 1 .. i : order'[j] \notin Automations
      BY DEF FrontLeads
    <3>1. CASE m \in front
      <4>1. PICK i \in DOMAIN order :
                order[i] = m /\ \A j \in 1 .. i : order[j] \notin Automations
        BY <3>1 DEF FrontInv, FrontLeads
      <4>2. i \in DOMAIN order' /\ \A j \in 1 .. i : order'[j] = order[j]
        BY <2>2
      <4>. QED
        BY <2>2, <4>1, <4>2
    <3>2. CASE m = l /\ l \in Mirrors /\ Registered \cap Automations = {}
      <4>1. l \notin Automations
        BY <3>2, StateMachineAssumption
      <4>2. \A j \in DOMAIN order : order[j] \notin Automations
        BY <3>2 DEF Registered
      <4>3. \A j \in 1 .. Len(order) + 1 : order'[j] \notin Automations
        BY <2>2, <4>1, <4>2
      <4>. QED
        BY <2>2, <3>2, <4>3
    <3>. QED
      BY <2>3, <3>1, <3>2
  <2>6. RegisteredOnce'
    <3>1. \A i \in DOMAIN order : order[i] # l
      BY <2>1 DEF Registered
    <3>. QED
      BY <2>2, <3>1 DEF FrontInv, RegisteredOnce
  <2>7. SuspendedInAutomation' /\ InnermostIsCurrent'
    BY <2>1 DEF SuspendedInAutomation, InnermostIsCurrent
  <2>8. HeldUpToInnermost'
    <3>. SUFFICES ASSUME NEW m \in front', NEW e \in Entities
                  PROVE  held'[m][e] = states[e]
      BY <2>1 DEF HeldUpToInnermost
    <3>1. m \in Mirrors
      BY <2>3 DEF TypeOK
    <3>2. CASE m = l
      BY <1>1, <3>1, <3>2 DEF Listen, TypeOK
    <3>3. CASE m # l
      <4>1. held'[m] = held[m]
        BY <1>1, <3>1, <3>3 DEF Listen, TypeOK
      <4>. QED
        BY <2>1, <2>3, <3>3, <4>1 DEF FrontInv, HeldUpToInnermost
    <3>. QED
      BY <3>2, <3>3
  <2>. QED
    BY <2>4, <2>5, <2>6, <2>7, <2>8 DEF FrontInv
<1>2. ASSUME NEW l \in Listeners, Unlisten(l)
      PROVE  FrontInv'
  <2>1. /\ stack = <<>> /\ stack' = <<>> /\ UNCHANGED <<phase, states, held>>
        /\ front' = front \ {l}
    BY <1>2 DEF Unlisten, Idle
  <2>2. PICK k \in DOMAIN order :
            /\ order[k] = l
            /\ order' = SubSeq(order, 1, k - 1) \o SubSeq(order, k + 1, Len(order))
    BY <1>2 DEF Unlisten
  <2>3. k \in 1 .. Len(order) /\ Len(order) \in Nat /\ DOMAIN order = 1 .. Len(order)
    BY DEF TypeOK
  <2>4. /\ DOMAIN order' = 1 .. Len(order) - 1
        /\ \A i \in 1 .. Len(order) - 1 :
              order'[i] = IF i < k THEN order[i] ELSE order[i + 1]
    <3>1. order \in Seq(Listeners)
      BY DEF TypeOK
    <3>2. order' \in Seq(Listeners) /\ Len(order') = Len(order) - 1
          /\ \A i \in 1 .. Len(order) - 1 :
                order'[i] = IF i < k THEN order[i] ELSE order[i + 1]
      BY <2>2, <3>1, WithoutElement
    <3>. QED
      BY <3>2
  <2>5. (front # {} => phase = "up")'
    BY <2>1 DEF FrontInv
  <2>6. FrontLeads'
    <3>. SUFFICES ASSUME NEW m \in front, m # l
                  PROVE  \E i \in DOMAIN order' :
                            order'[i] = m /\ \A j \in 1 .. i : order'[j] \notin Automations
      BY <2>1 DEF FrontLeads
    <3>1. PICK i \in DOMAIN order :
              order[i] = m /\ \A j \in 1 .. i : order[j] \notin Automations
      BY DEF FrontInv, FrontLeads
    <3>2. i # k /\ i \in 1 .. Len(order)
      BY <2>2, <2>3, <3>1
    <3>3. CASE i < k
      <4>1. i \in 1 .. Len(order) - 1 /\ \A j \in 1 .. i : order'[j] = order[j]
        BY <2>3, <2>4, <3>2, <3>3
      <4>. QED
        BY <2>4, <3>1, <4>1
    <3>4. CASE k < i
      <4>1. i - 1 \in 1 .. Len(order) - 1 /\ order'[i - 1] = order[i]
        BY <2>3, <2>4, <3>2, <3>4
      <4>2. \A j \in 1 .. i - 1 : order'[j] \in {order[j], order[j + 1]}
        BY <2>3, <2>4, <3>2, <3>4
      <4>3. \A j \in 1 .. i - 1 : order'[j] \notin Automations
        BY <2>3, <3>1, <3>2, <4>2
      <4>. QED
        BY <2>4, <3>1, <4>1, <4>3
    <3>. QED
      BY <2>3, <3>2, <3>3, <3>4
  <2>7. RegisteredOnce'
    <3>. SUFFICES ASSUME NEW i \in 1 .. Len(order) - 1, NEW j \in 1 .. Len(order) - 1,
                         order'[i] = order'[j]
                  PROVE  i = j
      BY <2>4 DEF RegisteredOnce
    <3>. DEFINE p == IF i < k THEN i ELSE i + 1
                q == IF j < k THEN j ELSE j + 1
    <3>1. p \in DOMAIN order /\ q \in DOMAIN order /\ order[p] = order[q]
      BY <2>3, <2>4
    <3>2. p = q
      BY <3>1 DEF FrontInv, RegisteredOnce
    <3>. QED
      BY <2>3, <3>2
  <2>8. SuspendedInAutomation' /\ InnermostIsCurrent'
    BY <2>1 DEF SuspendedInAutomation, InnermostIsCurrent
  <2>9. HeldUpToInnermost'
    BY <2>1 DEF FrontInv, HeldUpToInnermost
  <2>. QED
    BY <2>5, <2>6, <2>7, <2>8, <2>9 DEF FrontInv
<1>3. CASE DeliverToMirror
  <2>1. /\ stack # <<>> /\ stack' = Called /\ UNCHANGED <<phase, states, order, front>>
        /\ Top.next <= Len(order)
        /\ held' = [held EXCEPT ![order[Top.next]][Top.entity] = Top.new]
        /\ order[Top.next] \in Mirrors
    BY <1>3 DEF DeliverToMirror
  <2>2. Top.next \in DOMAIN order
    BY <2>1, TopType DEF Frame, TypeOK
  <2>3. held' \in [Mirrors -> StateMap]
    BY <1>3, BusType DEF Deliver, TypeOK
  <2>4. \A m \in front :
            held'[m] = IF m = order[Top.next]
                       THEN [held[m] EXCEPT ![Top.entity] = Top.new] ELSE held[m]
    BY <2>1 DEF TypeOK
  <2>. QED
    BY <2>1, <2>2, <2>3, <2>4, FrontInvCalled
<1>4. CASE DeliverIgnored
  <2>1. /\ stack # <<>> /\ stack' = Called
        /\ UNCHANGED <<phase, states, order, front, held>>
        /\ Top.next <= Len(order) /\ order[Top.next] \in Automations
    BY <1>4 DEF DeliverIgnored, bus
  <2>2. Top.next \in DOMAIN order
    BY <2>1, TopType DEF Frame, TypeOK
  <2>3. \A m \in front : m # order[Top.next] /\ held'[m] = held[m]
    BY <2>1, StateMachineAssumption DEF TypeOK
  <2>4. held' \in [Mirrors -> StateMap]
    BY <2>1 DEF TypeOK
  <2>. QED
    BY <2>1, <2>2, <2>3, <2>4, FrontInvCalled
<1>5. CASE DeliverReaction
  BY <1>5, FrontInvReaction
<1>6. CASE Return
  BY <1>6, FrontInvReturn
<1>7. ASSUME NEW a \in Automations, RunSettles(a)
      PROVE  FrontInv'
  BY <1>7 DEF RunSettles, FrontInv, FrontLeads, RegisteredOnce, SuspendedInAutomation,
              InnermostIsCurrent, NotYetOvertaken, HeldUpToInnermost, Undelivered, Top
<1>. QED
  BY <1>1, <1>2, <1>3, <1>4, <1>5, <1>6, <1>7 DEF Deliver

LEMMA FrontInvStore ==
    ASSUME TypeOK, FrontInv,
           \/ \E e \in Entities, s \in Values, a \in Attrs : ExternalSet(e, s, a)
           \/ \E e \in Entities : RemoveEntity(e)
           \/ Database \/ Prune \/ SaveSnapshot
    PROVE  FrontInv'
<1>. USE DEF FrontInv, FrontLeads, RegisteredOnce, SuspendedInAutomation,
             InnermostIsCurrent, NotYetOvertaken, HeldUpToInnermost, Undelivered, Top
<1>1. ASSUME NEW e \in Entities, NEW s \in Values, NEW a \in Attrs,
             ExternalSet(e, s, a)
      PROVE  FrontInv'
  <2>. DEFINE new == NewState(states[e], s, a)
  <2>1. new \in StateRec
    BY NewStateType
  <2>2. Idle /\ UNCHANGED <<phase, bus>>
    BY <1>1 DEF ExternalSet, MayTouch
  <2>3. states' = [states EXCEPT ![e] = new]
        /\ stack' = Append(stack, Emission(e, states[e], new))
    BY <1>1 DEF ExternalSet, SetState
  <2>. QED
    BY <2>1, <2>2, <2>3, FreshEmission
<1>2. ASSUME NEW e \in Entities, RemoveEntity(e)
      PROVE  FrontInv'
  <2>1. /\ Idle /\ UNCHANGED <<phase, bus>>
        /\ states' = [states EXCEPT ![e] = NoState]
        /\ stack' = Append(stack, Emission(e, states[e], NoState))
    BY <1>2 DEF RemoveEntity, MayTouch
  <2>. QED
    BY <2>1, FreshEmission
<1>3. CASE Insert
  BY <1>3 DEF Insert, bus
<1>4. CASE InsertFails
  BY <1>4 DEF InsertFails, bus
<1>5. CASE RestoreQuery
  BY <1>5 DEF RestoreQuery, bus
<1>6. CASE RestoreFails
  BY <1>6 DEF RestoreFails, bus
<1>7. CASE Prune
  BY <1>7 DEF Prune, bus
<1>8. CASE SaveSnapshot
  BY <1>8 DEF SaveSnapshot, bus
<1>. QED
  BY <1>1, <1>2, <1>3, <1>4, <1>5, <1>6, <1>7, <1>8 DEF Database

LEMMA FrontInvLifecycle ==
    ASSUME TypeOK, FrontInv, Boot \/ Start \/ Restore \/ Crash \/ Tick
    PROVE  FrontInv'
<1>. USE DEF FrontInv, FrontLeads, RegisteredOnce, SuspendedInAutomation,
             InnermostIsCurrent, NotYetOvertaken, HeldUpToInnermost, Undelivered, Top
<1>1. CASE Boot
  BY <1>1 DEF Boot, bus
<1>2. CASE Start
  BY <1>2 DEF Start, bus
<1>3. CASE Restore
  BY <1>3 DEF Restore, Idle, bus
<1>4. CASE Crash
  BY <1>4 DEF Crash
<1>5. CASE Tick
  BY <1>5 DEF Tick, bus
<1>. QED
  BY <1>1, <1>2, <1>3, <1>4, <1>5

(* A mirror that registered ahead of the automations holds the current     *)
(* states whenever the process is between two tasks, whatever the          *)
(* automations do, for any number of entities, listeners and nestings.     *)
THEOREM FrontMirrorsAreFresh == Spec => []FrontMirrorFresh
<1>1. Init => FrontInv
  BY DEF Init, FrontInv, FrontLeads, RegisteredOnce, SuspendedInAutomation,
         InnermostIsCurrent, HeldUpToInnermost
<1>2. TypeOK /\ FrontInv /\ [Next]_vars => FrontInv'
  <2>1. CASE Next
    BY <2>1, FrontInvBus, FrontInvStore, FrontInvLifecycle DEF Next
  <2>2. CASE UNCHANGED vars
    BY <2>2 DEF vars, FrontInv, FrontLeads, RegisteredOnce, SuspendedInAutomation,
                InnermostIsCurrent, NotYetOvertaken, HeldUpToInnermost, Undelivered, Top
  <2>. QED
    BY <2>1, <2>2
<1>3. TypeOK /\ FrontInv => FrontMirrorFresh
  BY FreshWhenIdle
<1>. QED
  BY <1>1, <1>2, <1>3, TypeCorrect, PTL DEF Spec
-----------------------------------------------------------------------------
(* The history, the snapshot and the map agree: SinceLastChanged and       *)
(* RestoreIsNewest.                                                        *)

LEMMA TimeType == Time \subseteq Int
BY StateMachineAssumption DEF Time

LEMMA RecordType ==
    ASSUME NEW c \in StateRec
    PROVE  c # NoState /\ c.state \in Values /\ c.attrs \in Attrs
              /\ c.changed \in Int /\ c.updated \in Int
BY TimeType, StateMachineAssumption DEF StateRec

LEMMA RecordsOf ==
    ASSUME TypeOK, NEW e \in Entities
    PROVE  /\ WrittenFrames(e) \subseteq DOMAIN stack
           /\ \A k \in WrittenFrames(e) : stack[k].new \in StateRec
           /\ Inserts(e) \subseteq DOMAIN dbq
           /\ \A i \in Inserts(e) : dbq[i].rec \in StateRec
           /\ \A r \in rows : r.rec \in StateRec /\ r.id \in Nat /\ r.entity \in Entities
           /\ History(e) \subseteq StateRec
<1>1. ASSUME NEW k \in WrittenFrames(e)
      PROVE  k \in DOMAIN stack /\ stack[k].new \in StateRec
  <2>1. k \in DOMAIN stack /\ Writes(stack[k])
    BY DEF WrittenFrames
  <2>2. stack[k] \in Frame
    BY <2>1 DEF TypeOK
  <2>. QED
    BY <2>1, <2>2 DEF Writes, Frame
<1>2. ASSUME NEW i \in Inserts(e)
      PROVE  i \in DOMAIN dbq /\ dbq[i].rec \in StateRec
  <2>1. i \in DOMAIN dbq /\ dbq[i].kind = "insert"
    BY DEF Inserts
  <2>2. dbq[i] \in Statement
    BY <2>1 DEF TypeOK
  <2>. QED
    BY <2>1, <2>2 DEF Statement
<1>3. \A r \in rows : r.rec \in StateRec /\ r.id \in Nat /\ r.entity \in Entities
  BY DEF TypeOK, Row
<1>4. History(e) \subseteq StateRec
  BY <1>1, <1>2, <1>3 DEF History
<1>. QED
  BY <1>1, <1>2, <1>3, <1>4

(* A record made now agrees with every record the replaced one agreed with.*)
LEMMA NewAgrees ==
    ASSUME TypeOK, NEW e \in Entities, NEW s \in Values, NEW a \in Attrs,
           NEW h \in StateRec, h.updated <= now,
           states[e] # NoState => Agrees(states[e], h)
    PROVE  Agrees(NewState(states[e], s, a), h)
<1>1. NewState(states[e], s, a) \in StateRec /\ now \in Int
  BY NewStateType, TimeType DEF TypeOK
<1>2. CASE states[e] = NoState
  BY <1>1, <1>2, RecordType DEF Agrees, NewState
<1>3. CASE states[e] # NoState
  <2>1. states[e] \in StateRec
    BY <1>3 DEF TypeOK, StateMap
  <2>. QED
    BY <1>1, <1>3, <2>1, RecordType DEF Agrees, NewState
<1>. QED
  BY <1>2, <1>3

(* Steps that leave every record where it is.                              *)
LEMMA HistoryInvSame ==
    ASSUME TypeOK, NEW rank, HistoryInv(rank),
           DOMAIN stack' = DOMAIN stack,
           \A k \in DOMAIN stack : /\ stack'[k].entity = stack[k].entity
                                   /\ stack'[k].old = stack[k].old
                                   /\ stack'[k].new = stack[k].new,
           UNCHANGED <<states, dbq, rows, nextId, snap, latest>>,
           now' \in Int, now <= now',
           phase' = "loaded" => phase = "loaded", RestoreIsLast'
    PROVE  HistoryInv(rank)'
<1>1. \A k \in DOMAIN stack : Writes(stack'[k]) <=> Writes(stack[k])
  BY DEF Writes, Unchanged
<1>2. \A e \in Entities : WrittenFrames(e)' = WrittenFrames(e) /\ Inserts(e)' = Inserts(e)
  BY <1>1 DEF WrittenFrames, Inserts
<1>3. \A e \in Entities : \A k \in WrittenFrames(e) : stack'[k].new = stack[k].new
  BY DEF WrittenFrames
<1>4. \A e \in Entities : History(e)' = History(e)
  <2>. TAKE e \in Entities
  <2>1. {stack'[k].new : k \in WrittenFrames(e)'} = {stack[k].new : k \in WrittenFrames(e)}
    BY <1>2, <1>3
  <2>. QED
    BY <1>2, <2>1, ZenonT(40) DEF History
<1>5. NestedForward(rank)' /\ EmittedHolds'
  <2>1. NestedForward(rank)'
    BY <1>1, SMTT(40) DEF HistoryInv, NestedForward, TypeOK
  <2>2. EmittedHolds'
    BY DEF HistoryInv, EmittedHolds
  <2>. QED
    BY <2>1, <2>2
<1>6. now \in Int /\ \A c \in StateRec : c.updated <= now => c.updated <= now'
  BY RecordType, TimeType DEF TypeOK
<1>7. NothingAhead'
  BY <1>4, <1>6, RecordsOf DEF HistoryInv, NothingAhead, TypeOK, StateMap
<1>8. RowsAgree' /\ StatementsAgree' /\ EmissionsAgree'
  BY <1>2, <1>3 DEF HistoryInv, RowsAgree, StatementsAgree, EmissionsAgree
<1>9. StatesAgree' /\ SnapshotAgrees'
  BY <1>4 DEF HistoryInv, StatesAgree, SnapshotAgrees
<1>10. LatestAgrees'
  BY <1>6 DEF HistoryInv, LatestAgrees, TypeOK, StateMap
<1>. QED
  BY <1>5, <1>7, <1>8, <1>9, <1>10 DEF HistoryInv

(* A state is set, or removed, on top of a stack whose records stay.       *)
LEMMA HistoryInvSet ==
    ASSUME TypeOK, NEW rank, HistoryInv(rank),
           NEW e \in Entities, NEW new \in StateRec \cup {NoState},
           new # NoState => \E s \in Values, a \in Attrs : new = NewState(states[e], s, a),
           NEW base \in Seq(Frame), Len(base) = Len(stack),
           \A k \in DOMAIN stack : /\ base[k].entity = stack[k].entity
                                   /\ base[k].old = stack[k].old
                                   /\ base[k].new = stack[k].new,
           \A k \in DOMAIN stack :
              \/ rank[stack[k].entity] < rank[e]
              \/ /\ stack[k].entity = e
                 /\ states[e] # NoState /\ new # NoState /\ new.state = states[e].state
                 /\ ~Writes(Emission(e, states[e], new)),
           \A k \in DOMAIN stack : rank[stack[k].entity] < rank[e] => stack[k].entity # e,
           states' = [states EXCEPT ![e] = new],
           stack' = Append(base, Emission(e, states[e], new)),
           phase \in {"init", "up"},
           UNCHANGED <<phase, now, dbq, rows, nextId, snap, latest>>
    PROVE  HistoryInv(rank)'
<1>. DEFINE n == Len(stack)
            f == Emission(e, states[e], new)
<1>1. /\ n \in Nat /\ DOMAIN stack = 1 .. n /\ DOMAIN stack' = 1 .. n + 1
      /\ \A k \in 1 .. n : stack'[k] = base[k]
      /\ stack'[n + 1] = f
      /\ f.entity = e /\ f.old = states[e] /\ f.new = new
  BY DEF TypeOK, Emission
<1>2. states[e] \in StateRec \cup {NoState} /\ states'[e] = new
      /\ \A d \in Entities : d # e => states'[d] = states[d]
  BY DEF TypeOK, StateMap
<1>. HIDE DEF n, f
<1>3. \A k \in 1 .. n : /\ stack'[k].entity = stack[k].entity
                        /\ stack'[k].new = stack[k].new
                        /\ Writes(stack'[k]) <=> Writes(stack[k])
  BY <1>1 DEF Writes, Unchanged
<1>4. \A d \in Entities :
          /\ Inserts(d)' = Inserts(d)
          /\ WrittenFrames(d)' = WrittenFrames(d)
                                  \cup (IF d = e /\ Writes(f) THEN {n + 1} ELSE {})
  <2>. TAKE d \in Entities
  <2>1. Inserts(d)' = Inserts(d)
    BY DEF Inserts
  <2>2. \A k \in 1 .. n : k \in WrittenFrames(d)' <=> k \in WrittenFrames(d)
    BY <1>1, <1>3 DEF WrittenFrames
  <2>3. n + 1 \in WrittenFrames(d)' <=> d = e /\ Writes(f)
    BY <1>1 DEF WrittenFrames
  <2>4. WrittenFrames(d) \subseteq 1 .. n /\ WrittenFrames(d)' \subseteq 1 .. n + 1
    BY <1>1 DEF WrittenFrames
  <2>. QED
    BY <1>1, <2>1, <2>2, <2>3, <2>4
<1>5. \A d \in Entities : \A k \in WrittenFrames(d) : k \in 1 .. n /\ stack'[k].new = stack[k].new
  BY <1>1, <1>3 DEF WrittenFrames
<1>6. \A d \in Entities : \A h \in History(d)' :
          h \in History(d) \/ (d = e /\ h = new /\ Writes(f))
  BY <1>1, <1>4, <1>5 DEF History
<1>7. new # NoState => new \in StateRec /\ new.updated = now
  BY DEF NewState
<1>8. now \in Int /\ \A d \in Entities : \A h \in History(d) : h \in StateRec /\ h.updated <= now
  BY RecordsOf, TimeType DEF HistoryInv, NothingAhead, TypeOK
<1>9. \A h \in History(e) : new # NoState => Agrees(new, h)
  BY <1>8, NewAgrees DEF HistoryInv, StatesAgree
<1>10. RestoreIsLast'
  BY DEF HistoryInv, RestoreIsLast
<1>11. NestedForward(rank)'
  <2>. SUFFICES ASSUME NEW j \in 1 .. n + 1, NEW k \in 1 .. j - 1
                PROVE  \/ rank[stack'[k].entity] < rank[stack'[j].entity]
                       \/ stack'[k].entity = stack'[j].entity /\ ~Writes(stack'[j])
    BY <1>1 DEF NestedForward
  <2>1. CASE j \in 1 .. n
    <3>1. k \in 1 .. n /\ j \in DOMAIN stack
      BY <1>1, <2>1
    <3>2. \/ rank[stack[k].entity] < rank[stack[j].entity]
          \/ stack[k].entity = stack[j].entity /\ ~Writes(stack[j])
      BY <3>1 DEF HistoryInv, NestedForward
    <3>. QED
      BY <1>3, <2>1, <3>1, <3>2
  <2>2. CASE j = n + 1
    <3>1. k \in 1 .. n
      BY <1>1, <2>2
    <3>. QED
      BY <1>1, <1>3, <2>2, <3>1 DEF f
  <2>. QED
    BY <1>1, <2>1, <2>2
<1>12. EmittedHolds'
  <2>. SUFFICES ASSUME NEW k \in 1 .. n + 1
                PROVE  LET c == states'[stack'[k].entity]
                       IN  IF stack'[k].new = NoState THEN c = NoState
                           ELSE c # NoState /\ c.state = stack'[k].new.state
    BY <1>1 DEF EmittedHolds
  <2>1. CASE k = n + 1
    BY <1>1, <1>2, <2>1
  <2>2. CASE k \in 1 .. n
    <3>1. stack[k].entity \in Entities
      <4>1. stack[k] \in Frame
        BY <1>1, <2>2 DEF TypeOK
      <4>. QED
        BY <4>1 DEF Frame
    <3>2. CASE stack[k].entity = e
      BY <1>1, <1>2, <1>3, <2>2, <3>2 DEF HistoryInv, EmittedHolds
    <3>3. CASE stack[k].entity # e
      BY <1>1, <1>2, <1>3, <2>2, <3>1, <3>3 DEF HistoryInv, EmittedHolds
    <3>. QED
      BY <3>2, <3>3
  <2>. QED
    BY <1>1, <2>1, <2>2
<1>13. NothingAhead'
  <2>1. \A d \in Entities : \A h \in History(d)' : h.updated <= now
    BY <1>1, <1>6, <1>7, <1>8 DEF Writes
  <2>2. \A d \in Entities :
            /\ states'[d] # NoState => states'[d].updated <= now
            /\ states'[d] # NoState /\ snap[d] # NoState
                  => snap[d].updated <= states'[d].updated
    BY <1>2, <1>7, <1>8 DEF HistoryInv, NothingAhead
  <2>. QED
    BY <2>1, <2>2 DEF HistoryInv, NothingAhead
<1>14. RowsAgree' /\ StatementsAgree'
  BY <1>4 DEF HistoryInv, RowsAgree, StatementsAgree
<1>15. EmissionsAgree'
  <2>. SUFFICES ASSUME NEW d \in Entities, NEW k \in WrittenFrames(d)'
                PROVE  /\ \A r \in rows : r.entity = d => Agrees(stack'[k].new, r.rec)
                       /\ \A i \in Inserts(d) : Agrees(stack'[k].new, dbq[i].rec)
    BY <1>4 DEF EmissionsAgree
  <2>1. CASE k \in WrittenFrames(d)
    BY <1>5, <2>1 DEF HistoryInv, EmissionsAgree
  <2>2. CASE d = e /\ Writes(f) /\ k = n + 1
    BY <1>1, <1>9, <2>2 DEF Writes, History
  <2>. QED
    BY <1>4, <2>1, <2>2
<1>16. StatesAgree'
  <2>. SUFFICES ASSUME NEW d \in Entities, NEW h \in History(d)', states'[d] # NoState
                PROVE  Agrees(states'[d], h)
    BY DEF StatesAgree
  <2>1. CASE d # e
    BY <1>2, <1>6, <2>1 DEF HistoryInv, StatesAgree
  <2>2. CASE d = e /\ h \in History(e)
    BY <1>2, <1>9, <2>2
  <2>3. CASE d = e /\ h = new
    BY <1>2, <1>7, <2>3, RecordType DEF Agrees
  <2>. QED
    BY <1>6, <2>1, <2>2, <2>3
<1>17. SnapshotAgrees'
  <2>. SUFFICES ASSUME NEW d \in Entities, NEW h \in History(d)',
                       snap[d] # NoState, h.updated < snap[d].updated
                PROVE  Agrees(snap[d], h)
    BY DEF SnapshotAgrees
  <2>1. snap[d] \in StateRec /\ snap[d].updated <= now
    BY DEF TypeOK, StateMap, HistoryInv, NothingAhead
  <2>2. h \in History(d)
    BY <1>1, <1>6, <1>7, <1>8, <2>1, RecordType DEF Writes
  <2>. QED
    BY <2>2 DEF HistoryInv, SnapshotAgrees
<1>18. LatestAgrees'
  BY DEF LatestAgrees
<1>. QED
  BY <1>10, <1>11, <1>12, <1>13, <1>14, <1>15, <1>16, <1>17, <1>18 DEF HistoryInv

(* fire returns: the record of the innermost emission becomes a statement. *)
LEMMA HistoryInvReturn ==
    ASSUME TypeOK, NEW rank \in [Entities -> Int], HistoryInv(rank), Return
    PROVE  HistoryInv(rank)'
<1>. DEFINE n == Len(stack)
            q == [kind |-> "insert", entity |-> Top.entity, rec |-> Top.new]
<1>1. /\ n \in Nat \ {0} /\ DOMAIN stack = 1 .. n /\ DOMAIN stack' = 1 .. n - 1
      /\ \A k \in 1 .. n - 1 : stack'[k] = stack[k]
      /\ Top = stack[n] /\ Top \in Frame
  <2>1. stack # <<>> /\ stack' = SubSeq(stack, 1, n - 1) /\ stack \in Seq(Frame)
    BY DEF Return, TypeOK
  <2>2. stack' \in Seq(Frame) /\ Len(stack') = n - 1
        /\ \A k \in 1 .. n - 1 : stack'[k] = stack[k]
    BY <2>1, WithoutLast
  <2>. QED
    BY <2>1, <2>2, TopType DEF Top
<1>2. UNCHANGED <<phase, now, states, rows, nextId, snap, latest>>
  BY DEF Return
<1>3. dbq' = IF Writes(Top) THEN Append(dbq, q) ELSE dbq
  BY DEF Return, Writes
<1>4. phase # "restoring" /\ phase # "loaded" /\ phase # "down"
  BY DEF Return, HistoryInv, RestoreIsLast
<1>. DEFINE z == Len(dbq)
<1>5. /\ z \in Nat /\ DOMAIN dbq = 1 .. z
      /\ Writes(Top) => DOMAIN dbq' = 1 .. z + 1 /\ dbq'[z + 1] = q
      /\ \A i \in 1 .. z : dbq'[i] = dbq[i]
      /\ ~Writes(Top) => DOMAIN dbq' = 1 .. z
      /\ q.kind = "insert" /\ q.entity = Top.entity /\ q.rec = Top.new
  BY <1>3 DEF TypeOK
<1>. HIDE DEF n, q, z
<1>6. \A d \in Entities : WrittenFrames(d)' = WrittenFrames(d) \ {n}
  BY <1>1 DEF WrittenFrames
<1>7. \A d \in Entities :
          Inserts(d)' = Inserts(d) \cup (IF d = Top.entity /\ Writes(Top) THEN {z + 1} ELSE {})
  <2>. TAKE d \in Entities
  <2>1. \A i \in 1 .. z : i \in Inserts(d)' <=> i \in Inserts(d)
    BY <1>5 DEF Inserts
  <2>2. z + 1 \in Inserts(d)' <=> d = Top.entity /\ Writes(Top)
    BY <1>5 DEF Inserts
  <2>3. Inserts(d) \subseteq 1 .. z /\ Inserts(d)' \subseteq 1 .. z + 1
    BY <1>5 DEF Inserts
  <2>. QED
    BY <1>5, <2>1, <2>2, <2>3
<1>8. \A d \in Entities : /\ n \in WrittenFrames(d) <=> d = Top.entity /\ Writes(Top)
                         /\ WrittenFrames(d) \subseteq 1 .. n
                         /\ Inserts(d) \subseteq 1 .. z
  BY <1>1, <1>5 DEF WrittenFrames, Inserts
<1>9. \A d \in Entities : History(d)' \subseteq History(d)
  <2>. SUFFICES ASSUME NEW d \in Entities, NEW h \in History(d)'
                PROVE  h \in History(d)
    OBVIOUS
  <2>1. CASE \E r \in rows : r.entity = d /\ h = r.rec
    BY <2>1 DEF History
  <2>2. CASE \E i \in Inserts(d) : h = dbq[i].rec
    BY <2>2 DEF History
  <2>3. CASE d = Top.entity /\ Writes(Top) /\ h = Top.new
    BY <1>1, <1>8, <2>3 DEF History
  <2>4. CASE \E k \in WrittenFrames(d) : h = stack[k].new
    BY <2>4 DEF History
  <2>5. \A i \in Inserts(d)' :
            \/ dbq'[i].rec = Top.new /\ d = Top.entity /\ Writes(Top)
            \/ i \in Inserts(d) /\ dbq'[i].rec = dbq[i].rec
    BY <1>5, <1>7, <1>8
  <2>6. \A k \in WrittenFrames(d)' : k \in WrittenFrames(d) /\ stack'[k].new = stack[k].new
    BY <1>1, <1>6, <1>8
  <2>7. \/ \E r \in rows : r.entity = d /\ h = r.rec
        \/ \E i \in Inserts(d)' : h = dbq'[i].rec
        \/ \E k \in WrittenFrames(d)' : h = stack'[k].new
    BY <1>2 DEF History
  <2>. QED
    BY <2>1, <2>2, <2>3, <2>4, <2>5, <2>6, <2>7
<1>10. RestoreIsLast'
  <2>1. \A i \in 1 .. z : dbq[i].kind # "restore"
    BY <1>4, <1>5 DEF HistoryInv, RestoreIsLast
  <2>2. \A i \in DOMAIN dbq' : dbq'[i].kind # "restore"
    <3>. SUFFICES ASSUME NEW i \in DOMAIN dbq'
                  PROVE  dbq'[i].kind # "restore"
      OBVIOUS
    <3>1. CASE i \in 1 .. z
      BY <1>5, <2>1, <3>1
    <3>2. CASE i \notin 1 .. z
      <4>1. Writes(Top) /\ i = z + 1
        BY <1>5, <3>2
      <4>. QED
        BY <1>5, <4>1
    <3>. QED
      BY <3>1, <3>2
  <2>. QED
    BY <1>2, <1>4, <2>2 DEF RestoreIsLast
<1>11. NestedForward(rank)' /\ EmittedHolds'
  <2>1. \A k \in 1 .. n - 1 : k \in DOMAIN stack /\ stack'[k] = stack[k]
    BY <1>1
  <2>2. NestedForward(rank)'
    <3>. SUFFICES ASSUME NEW j \in 1 .. n - 1, NEW k \in 1 .. j - 1
                  PROVE  \/ rank[stack[k].entity] < rank[stack[j].entity]
                         \/ stack[k].entity = stack[j].entity /\ ~Writes(stack[j])
      BY <1>1, <2>1 DEF NestedForward
    <3>. QED
      BY <2>1 DEF HistoryInv, NestedForward
  <2>3. EmittedHolds'
    BY <1>1, <1>2, <2>1 DEF HistoryInv, EmittedHolds
  <2>. QED
    BY <2>2, <2>3
<1>12. NothingAhead' /\ StatesAgree' /\ SnapshotAgrees'
  BY <1>2, <1>9 DEF HistoryInv, NothingAhead, StatesAgree, SnapshotAgrees
<1>13. RowsAgree' /\ LatestAgrees'
  BY <1>2 DEF HistoryInv, RowsAgree, LatestAgrees
<1>14. StatementsAgree'
  <2>. SUFFICES ASSUME NEW d \in Entities, NEW i \in Inserts(d)'
                PROVE  /\ \A r \in rows : r.entity = d => Agrees(dbq'[i].rec, r.rec)
                       /\ \A j \in Inserts(d)' : j < i => Agrees(dbq'[i].rec, dbq'[j].rec)
    BY <1>2 DEF StatementsAgree
  <2>1. CASE i \in Inserts(d)
    <3>1. i \in 1 .. z /\ dbq'[i] = dbq[i]
      BY <1>5, <1>8, <2>1
    <3>2. \A j \in Inserts(d)' : j < i => j \in Inserts(d) /\ dbq'[j] = dbq[j]
      BY <1>5, <1>7, <1>8, <3>1
    <3>. QED
      BY <2>1, <3>1, <3>2 DEF HistoryInv, StatementsAgree
  <2>2. CASE d = Top.entity /\ Writes(Top) /\ i = z + 1
    <3>1. n \in WrittenFrames(d) /\ dbq'[i].rec = stack[n].new
      BY <1>1, <1>5, <1>8, <2>2
    <3>2. \A j \in Inserts(d)' : j < i => j \in Inserts(d) /\ dbq'[j] = dbq[j]
      BY <1>5, <1>7, <1>8, <2>2
    <3>. QED
      BY <3>1, <3>2 DEF HistoryInv, EmissionsAgree
  <2>. QED
    BY <1>7, <2>1, <2>2
<1>15. EmissionsAgree'
  <2>. SUFFICES ASSUME NEW d \in Entities, NEW k \in WrittenFrames(d)'
                PROVE  /\ \A r \in rows : r.entity = d => Agrees(stack'[k].new, r.rec)
                       /\ \A i \in Inserts(d)' : Agrees(stack'[k].new, dbq'[i].rec)
    BY <1>2 DEF EmissionsAgree
  <2>1. k \in WrittenFrames(d) /\ k \in 1 .. n - 1 /\ stack'[k] = stack[k]
    BY <1>1, <1>6, <1>8
  <2>2. Inserts(d)' = Inserts(d)
    <3>. SUFFICES ASSUME d = Top.entity, Writes(Top)
                  PROVE  FALSE
      BY <1>7
    <3>1. stack[k].entity = stack[n].entity
      BY <1>1, <2>1 DEF WrittenFrames
    <3>2. ~(rank[stack[k].entity] < rank[stack[n].entity])
      BY <1>1, <3>1 DEF Frame
    <3>. QED
      BY <1>1, <2>1, <3>2 DEF HistoryInv, NestedForward
  <2>3. \A i \in Inserts(d) : dbq'[i] = dbq[i]
    BY <1>5, <1>8
  <2>. QED
    BY <2>1, <2>2, <2>3 DEF HistoryInv, EmissionsAgree
<1>. QED
  BY <1>10, <1>11, <1>12, <1>13, <1>14, <1>15 DEF HistoryInv

(* Statements executed or rejected, rows pruned, the snapshot saved.       *)
LEMMA HistoryInvInsert ==
    ASSUME TypeOK, NEW rank, HistoryInv(rank), Insert \/ InsertFails
    PROVE  HistoryInv(rank)'
<1>. DEFINE z == Len(dbq)
            hd == dbq[1]
<1>1. /\ z \in Nat \ {0} /\ DOMAIN dbq = 1 .. z /\ DOMAIN dbq' = 1 .. z - 1 /\ Len(dbq') = z - 1
      /\ \A i \in 1 .. z - 1 : dbq'[i] = dbq[i + 1]
      /\ hd.kind = "insert" /\ hd \in Statement
  <2>1. dbq # <<>> /\ Head(dbq).kind = "insert" /\ dbq' = Tail(dbq) /\ dbq \in Seq(Statement)
    BY DEF Insert, InsertFails, TypeOK
  <2>2. Head(dbq) = hd /\ hd \in Statement /\ z \in Nat \ {0} /\ DOMAIN dbq = 1 .. z
    BY <2>1
  <2>3. DOMAIN dbq' = 1 .. z - 1 /\ Len(dbq') = z - 1 /\ \A i \in 1 .. z - 1 : dbq'[i] = dbq[i + 1]
    BY <2>1
  <2>. QED
    BY <2>1, <2>2, <2>3
<1>2. hd.entity \in Entities /\ hd.rec \in StateRec
  BY <1>1 DEF Statement
<1>3. /\ UNCHANGED <<phase, now, states, stack, snap, latest>>
      /\ \/ rows' = rows /\ nextId' = nextId
         \/ /\ rows' = rows \cup {[id |-> nextId, entity |-> hd.entity, rec |-> hd.rec]}
            /\ nextId' = nextId + 1
  BY DEF Insert, InsertFails, bus, TypeOK
<1>. HIDE DEF z, hd
<1>4. \A d \in Entities : WrittenFrames(d)' = WrittenFrames(d)
  BY <1>3 DEF WrittenFrames
<1>5. \A d \in Entities :
          /\ 1 \in Inserts(d) <=> d = hd.entity
          /\ Inserts(d) \subseteq 1 .. z
          /\ \A i \in Inserts(d)' : /\ i \in 1 .. z - 1 /\ i + 1 \in Inserts(d)
                                   /\ dbq'[i] = dbq[i + 1]
  BY <1>1 DEF Inserts, hd
<1>6. \A r \in rows' : \/ r \in rows
                       \/ r.id = nextId /\ r.entity = hd.entity /\ r.rec = dbq[1].rec
  BY <1>3 DEF hd
<1>7. \A d \in Entities : History(d)' \subseteq History(d)
  <2>. SUFFICES ASSUME NEW d \in Entities, NEW h \in History(d)'
                PROVE  h \in History(d)
    OBVIOUS
  <2>1. CASE \E r \in rows' : r.entity = d /\ h = r.rec
    <3>1. PICK r \in rows' : r.entity = d /\ h = r.rec
      BY <2>1
    <3>2. CASE r \in rows
      BY <3>1, <3>2 DEF History
    <3>3. CASE r.entity = hd.entity /\ r.rec = dbq[1].rec
      BY <1>5, <3>1, <3>3 DEF History
    <3>. QED
      BY <1>6, <3>2, <3>3
  <2>2. CASE \E i \in Inserts(d)' : h = dbq'[i].rec
    BY <1>5, <2>2 DEF History
  <2>3. CASE \E k \in WrittenFrames(d) : h = stack[k].new
    BY <2>3 DEF History
  <2>4. \/ \E r \in rows' : r.entity = d /\ h = r.rec
        \/ \E i \in Inserts(d)' : h = dbq'[i].rec
        \/ \E k \in WrittenFrames(d) : h = stack[k].new
    BY <1>3, <1>4 DEF History
  <2>. QED
    BY <2>1, <2>2, <2>3, <2>4
<1>8. RestoreIsLast'
  <2>1. phase # "loaded" /\ phase # "down"
    BY <1>1 DEF HistoryInv, RestoreIsLast
  <2>2. Len(dbq') = z - 1
    BY <1>1
  <2>3. ASSUME NEW i \in 1 .. z - 1, dbq'[i].kind = "restore"
        PROVE  i = z - 1 /\ phase = "restoring"
    <3>1. i + 1 \in 1 .. z /\ dbq[i + 1].kind = "restore"
      BY <1>1, <2>3
    <3>2. i + 1 = z /\ phase = "restoring"
      BY <1>1, <3>1 DEF HistoryInv, RestoreIsLast, z
    <3>. QED
      BY <1>1, <3>2
  <2>4. \A i \in DOMAIN dbq' : dbq'[i].kind = "restore" => i = Len(dbq') /\ phase' = "restoring"
    BY <1>1, <1>3, <2>2, <2>3
  <2>5. phase = "restoring" => stack = <<>>
    BY DEF HistoryInv, RestoreIsLast
  <2>. QED
    BY <1>3, <2>1, <2>4, <2>5 DEF RestoreIsLast
<1>9. NestedForward(rank)' /\ EmittedHolds'
  BY <1>3 DEF HistoryInv, NestedForward, EmittedHolds
<1>10. NothingAhead' /\ StatesAgree' /\ SnapshotAgrees'
  <2>1. \A r \in rows' : r.id < nextId'
    BY <1>3, RecordsOf, <1>2 DEF HistoryInv, NothingAhead, TypeOK
  <2>2. NothingAhead'
    BY <1>3, <1>7, <2>1 DEF HistoryInv, NothingAhead
  <2>3. StatesAgree' /\ SnapshotAgrees'
    BY <1>3, <1>7 DEF HistoryInv, StatesAgree, SnapshotAgrees
  <2>. QED
    BY <2>2, <2>3
<1>11. \A r \in rows : r.id < nextId /\ r.id \in Nat /\ nextId \in Nat /\ r.entity \in Entities
  BY <1>2, RecordsOf DEF HistoryInv, NothingAhead, TypeOK
<1>12. RowsAgree'
  <2>. SUFFICES ASSUME NEW q \in rows', NEW r \in rows'
                PROVE  /\ q.entity = r.entity /\ r.id < q.id => Agrees(q.rec, r.rec)
                       /\ q.id = r.id => q = r
    BY DEF RowsAgree
  <2>1. CASE q \in rows /\ r \in rows
    BY <2>1 DEF HistoryInv, RowsAgree
  <2>2. CASE q \notin rows /\ r \notin rows
    <3>1. q = r
      BY <1>3, <2>2
    <3>. QED
      BY <1>6, <1>11, <2>2, <3>1 DEF TypeOK
  <2>3. CASE q \notin rows /\ r \in rows
    <3>1. q.id = nextId /\ q.entity = hd.entity /\ q.rec = dbq[1].rec
      BY <1>6, <2>3
    <3>2. r.id < q.id /\ r.id # q.id
      BY <1>11, <2>3, <3>1
    <3>3. 1 \in Inserts(hd.entity)
      BY <1>2, <1>5
    <3>4. r.entity = hd.entity => Agrees(dbq[1].rec, r.rec)
      BY <1>2, <2>3, <3>3 DEF HistoryInv, StatementsAgree
    <3>. QED
      BY <3>1, <3>2, <3>4
  <2>4. CASE q \in rows /\ r \notin rows
    BY <1>6, <1>11, <2>4
  <2>. QED
    BY <2>1, <2>2, <2>3, <2>4
<1>13. StatementsAgree'
  <2>. SUFFICES ASSUME NEW d \in Entities, NEW i \in Inserts(d)'
                PROVE  /\ \A r \in rows' : r.entity = d => Agrees(dbq'[i].rec, r.rec)
                       /\ \A j \in Inserts(d)' : j < i => Agrees(dbq'[i].rec, dbq'[j].rec)
    BY DEF StatementsAgree
  <2>1. i \in 1 .. z - 1 /\ i + 1 \in Inserts(d) /\ dbq'[i] = dbq[i + 1]
    BY <1>5
  <2>2. ASSUME NEW j \in Inserts(d)', j < i
        PROVE  Agrees(dbq'[i].rec, dbq'[j].rec)
    <3>1. j \in 1 .. z - 1 /\ j + 1 \in Inserts(d) /\ dbq'[j] = dbq[j + 1]
      BY <1>5
    <3>2. j + 1 < i + 1
      BY <2>1, <2>2, <3>1
    <3>. QED
      BY <2>1, <3>1, <3>2 DEF HistoryInv, StatementsAgree
  <2>3. ASSUME NEW r \in rows', r.entity = d
        PROVE  Agrees(dbq'[i].rec, r.rec)
    <3>1. CASE r \in rows
      BY <2>1, <2>3, <3>1 DEF HistoryInv, StatementsAgree
    <3>2. CASE r.entity = hd.entity /\ r.rec = dbq[1].rec
      <4>1. 1 \in Inserts(d) /\ 1 < i + 1
        BY <1>5, <2>1, <2>3, <3>2
      <4>. QED
        BY <2>1, <3>2, <4>1 DEF HistoryInv, StatementsAgree
    <3>. QED
      BY <1>6, <3>1, <3>2
  <2>. QED
    BY <2>2, <2>3
<1>14. EmissionsAgree'
  <2>. SUFFICES ASSUME NEW d \in Entities, NEW k \in WrittenFrames(d)
                PROVE  /\ \A r \in rows' : r.entity = d => Agrees(stack[k].new, r.rec)
                       /\ \A i \in Inserts(d)' : Agrees(stack[k].new, dbq'[i].rec)
    BY <1>3, <1>4 DEF EmissionsAgree
  <2>1. \A i \in Inserts(d)' : Agrees(stack[k].new, dbq'[i].rec)
    BY <1>5 DEF HistoryInv, EmissionsAgree
  <2>2. ASSUME NEW r \in rows', r.entity = d
        PROVE  Agrees(stack[k].new, r.rec)
    <3>1. CASE r \in rows
      BY <2>2, <3>1 DEF HistoryInv, EmissionsAgree
    <3>2. CASE r.entity = hd.entity /\ r.rec = dbq[1].rec
      BY <1>5, <2>2, <3>2 DEF HistoryInv, EmissionsAgree
    <3>. QED
      BY <1>6, <3>1, <3>2
  <2>. QED
    BY <2>1, <2>2
<1>15. LatestAgrees'
  BY <1>1, <1>3, SMTT(30) DEF HistoryInv, RestoreIsLast, LatestAgrees
<1>. QED
  BY <1>8, <1>9, <1>10, <1>12, <1>13, <1>14, <1>15 DEF HistoryInv

LEMMA HistoryInvKeep ==
    ASSUME TypeOK, NEW rank, HistoryInv(rank), Prune \/ SaveSnapshot
    PROVE  HistoryInv(rank)'
<1>1. CASE Prune
  <2>1. rows' \subseteq rows /\ UNCHANGED <<phase, now, states, stack, dbq, nextId, snap, latest>>
    BY <1>1 DEF Prune, TypeOK
  <2>2. \A d \in Entities : WrittenFrames(d)' = WrittenFrames(d) /\ Inserts(d)' = Inserts(d)
    BY <2>1 DEF WrittenFrames, Inserts
  <2>3. \A d \in Entities : History(d)' \subseteq History(d)
    BY <2>1, <2>2 DEF History
  <2>4. RestoreIsLast' /\ NestedForward(rank)' /\ EmittedHolds'
    BY <2>1 DEF HistoryInv, RestoreIsLast, NestedForward, EmittedHolds
  <2>5. NothingAhead' /\ StatesAgree' /\ SnapshotAgrees'
    BY <2>1, <2>3 DEF HistoryInv, NothingAhead, StatesAgree, SnapshotAgrees
  <2>6. RowsAgree' /\ StatementsAgree' /\ EmissionsAgree' /\ LatestAgrees'
    BY <2>1, <2>2 DEF HistoryInv, RowsAgree, StatementsAgree, EmissionsAgree, LatestAgrees
  <2>. QED
    BY <2>4, <2>5, <2>6 DEF HistoryInv
<1>2. CASE SaveSnapshot
  <2>1. snap' = states /\ UNCHANGED <<phase, now, states, stack, dbq, rows, nextId, latest>>
    BY <1>2 DEF SaveSnapshot
  <2>2. \A d \in Entities : WrittenFrames(d)' = WrittenFrames(d) /\ Inserts(d)' = Inserts(d)
    BY <2>1 DEF WrittenFrames, Inserts
  <2>3. \A d \in Entities : History(d)' = History(d)
    BY <2>1, <2>2 DEF History
  <2>4. RestoreIsLast' /\ NestedForward(rank)' /\ EmittedHolds'
    BY <2>1 DEF HistoryInv, RestoreIsLast, NestedForward, EmittedHolds
  <2>5. \A d \in Entities : states[d] # NoState => states[d].updated \in Int
    BY RecordType DEF TypeOK, StateMap
  <2>6. NothingAhead' /\ StatesAgree' /\ SnapshotAgrees'
    BY <2>1, <2>3, <2>5 DEF HistoryInv, NothingAhead, StatesAgree, SnapshotAgrees
  <2>7. RowsAgree' /\ StatementsAgree' /\ EmissionsAgree' /\ LatestAgrees'
    BY <2>1, <2>2 DEF HistoryInv, RowsAgree, StatementsAgree, EmissionsAgree, LatestAgrees
  <2>. QED
    BY <2>4, <2>6, <2>7 DEF HistoryInv
<1>. QED
  BY <1>1, <1>2

(* An entity with rows has a newest one.                                   *)
LEMMA NewestRow ==
    ASSUME TypeOK, \A r \in rows : r.id < nextId,
           NEW e \in Entities, NEW r0 \in rows, r0.entity = e
    PROVE  \E r \in rows : IsLatest(r, e)
<1>. DEFINE Ago == {nextId - r.id : r \in {q \in rows : q.entity = e}}
            Smaller == {ss \in Nat \X Nat : ss[1] < ss[2]}
<1>1. \A r \in rows : r.id \in Nat /\ nextId \in Nat /\ nextId - r.id \in Nat
  BY RecordsOf DEF TypeOK
<1>2. Ago \subseteq Nat /\ Ago # {}
  BY <1>1
<1>3. IsWellFoundedOn(Smaller, Nat)
  BY NatLessThanWellFounded DEF OpToRel
<1>4. PICK m \in Ago : \A k \in Ago : ~ (<<k, m>> \in Smaller)
  <2> HIDE DEF Smaller, Ago
  <2> QED BY <1>2, <1>3, WFMin
<1>5. \A k \in Ago : ~ (k < m)
  BY <1>2, <1>4
<1>6. PICK r \in rows : r.entity = e /\ m = nextId - r.id
  BY <1>4
<1>7. ASSUME NEW q \in rows, q.entity = e
      PROVE  q.id <= r.id
  <2>1. ~ (nextId - q.id < nextId - r.id)
    BY <1>5, <1>6, <1>7
  <2>. QED
    BY <1>1, <2>1
<1>. QED
  BY <1>6, <1>7 DEF IsLatest

LEMMA LatestRowIsNewest ==
    ASSUME TypeOK, NEW rank, HistoryInv(rank), NEW e \in Entities
    PROVE  /\ \A r \in rows : r.entity = e =>
                LatestRow(e) # NoState /\ Agrees(LatestRow(e), r.rec)
           /\ LatestRow(e) # NoState => \E r \in rows : r.entity = e /\ r.rec = LatestRow(e)
<1>1. CASE \E r \in rows : IsLatest(r, e)
  <2>. DEFINE c == CHOOSE r \in rows : IsLatest(r, e)
  <2>1. c \in rows /\ IsLatest(c, e) /\ LatestRow(e) = c.rec
    BY <1>1 DEF LatestRow
  <2>. HIDE DEF c
  <2>2. ASSUME NEW r \in rows, r.entity = e
        PROVE  LatestRow(e) # NoState /\ Agrees(LatestRow(e), r.rec)
    <3>1. c.entity = e /\ r.id <= c.id /\ c.rec \in StateRec /\ r.id \in Nat /\ c.id \in Nat
      BY <2>1, <2>2, RecordsOf DEF IsLatest
    <3>2. CASE r.id < c.id
      BY <2>1, <2>2, <3>1, <3>2, RecordType DEF HistoryInv, RowsAgree
    <3>3. CASE r.id = c.id
      <4>1. r = c
        BY <2>1, <3>3 DEF HistoryInv, RowsAgree
      <4>. QED
        BY <2>1, <3>1, <4>1, RecordType DEF Agrees
    <3>. QED
      BY <3>1, <3>2, <3>3
  <2>. QED
    BY <2>1, <2>2 DEF IsLatest
<1>2. CASE ~ \E r \in rows : IsLatest(r, e)
  <2>1. LatestRow(e) = NoState
    BY <1>2 DEF LatestRow
  <2>2. ~ \E r \in rows : r.entity = e
    BY <1>2, NewestRow DEF HistoryInv, NothingAhead
  <2>. QED
    BY <2>1, <2>2
<1>. QED
  BY <1>1, <1>2

(* The restore finds the newest of what the disk holds.                    *)
LEMMA LoadedIsQuiet ==
    ASSUME TypeOK, NEW rank, HistoryInv(rank), phase = "loaded"
    PROVE  /\ stack = <<>> /\ dbq = <<>>
           /\ \A d \in Entities :
                 History(d) = {r.rec : r \in {q \in rows : q.entity = d}}
<1>1. stack = <<>> /\ dbq = <<>>
  BY DEF HistoryInv, RestoreIsLast
<1>2. \A d \in Entities : WrittenFrames(d) = {} /\ Inserts(d) = {}
  BY <1>1 DEF WrittenFrames, Inserts
<1>. QED
  BY <1>1, <1>2 DEF History

LEMMA RestoredIsNewest ==
    ASSUME TypeOK, NEW rank, HistoryInv(rank), phase = "loaded", NEW e \in Entities,
           NEW c, c = Restored(e, latest[e], states[e])
    PROVE  /\ c \in StateRec \cup {NoState}
           /\ c # NoState => c.updated <= now
           /\ snap[e] # NoState => c # NoState /\ snap[e].updated <= c.updated
           /\ \A r \in rows : r.entity = e => c # NoState /\ Agrees(c, r.rec)
<1>1. /\ latest[e] \in StateRec \cup {NoState}
      /\ states[e] \in StateRec \cup {NoState}
      /\ snap[e] \in StateRec \cup {NoState}
  BY DEF TypeOK, StateMap
<1>2. /\ latest[e] # NoState => latest[e].updated <= now
      /\ \A r \in rows : r.entity = e => latest[e] # NoState /\ Agrees(latest[e], r.rec)
  BY DEF HistoryInv, LatestAgrees
<1>3. /\ states[e] # NoState => states[e].updated <= now
      /\ snap[e] # NoState => snap[e].updated <= now
      /\ states[e] # NoState /\ snap[e] # NoState => snap[e].updated <= states[e].updated
  BY DEF HistoryInv, NothingAhead
<1>4. CASE latest[e] # NoState /\ SnapshotIsNewer(e, latest[e])
  <2>1. c = snap[e] /\ snap[e] # NoState /\ snap[e].updated > latest[e].updated
    BY <1>4 DEF Restored, SnapshotIsNewer
  <2>2. ASSUME NEW r \in rows, r.entity = e
        PROVE  Agrees(snap[e], r.rec)
    <3>1. r.rec \in History(e) /\ r.rec \in StateRec
      BY <2>2, RecordsOf DEF History
    <3>2. r.rec.updated < snap[e].updated
      BY <1>1, <1>2, <1>4, <2>1, <2>2, <3>1, RecordType DEF Agrees
    <3>. QED
      BY <2>1, <3>1, <3>2 DEF HistoryInv, SnapshotAgrees
  <2>3. snap[e].updated <= snap[e].updated
    BY <1>1, <2>1, RecordType
  <2>. QED
    BY <1>1, <1>3, <2>1, <2>2, <2>3
<1>5. CASE latest[e] # NoState /\ ~SnapshotIsNewer(e, latest[e])
  <2>1. c = latest[e]
    BY <1>5 DEF Restored
  <2>2. snap[e] # NoState => snap[e].updated <= c.updated
    BY <1>1, <1>5, <2>1, RecordType DEF SnapshotIsNewer
  <2>. QED
    BY <1>1, <1>2, <1>5, <2>1, <2>2
<1>6. CASE latest[e] = NoState
  <2>1. c = IF states[e] = NoState THEN snap[e] ELSE states[e]
    BY <1>6 DEF Restored
  <2>2. snap[e] # NoState => snap[e].updated <= snap[e].updated
    BY <1>1, RecordType
  <2>. QED
    BY <1>1, <1>2, <1>3, <1>6, <2>1, <2>2
<1>. QED
  BY <1>4, <1>5, <1>6

LEMMA HistoryInvRestore ==
    ASSUME TypeOK, NEW rank, HistoryInv(rank), Restore
    PROVE  HistoryInv(rank)'
<1>1. /\ phase = "loaded" /\ phase' = "up"
      /\ \A e \in Entities : states'[e] = Restored(e, latest[e], states[e])
      /\ UNCHANGED <<now, stack, dbq, rows, nextId, snap, latest>>
  BY DEF Restore, disk
<1>2. \A e \in Entities :
        /\ states'[e] # NoState => states'[e].updated <= now
        /\ snap[e] # NoState => states'[e] # NoState /\ snap[e].updated <= states'[e].updated
        /\ \A r \in rows : r.entity = e => states'[e] # NoState /\ Agrees(states'[e], r.rec)
  BY <1>1, RestoredIsNewest
<1>3. stack = <<>> /\ dbq = <<>>
      /\ \A d \in Entities : History(d) = {r.rec : r \in {q \in rows : q.entity = d}}
  BY <1>1, LoadedIsQuiet
<1>4. \A d \in Entities : /\ WrittenFrames(d)' = WrittenFrames(d)
                         /\ Inserts(d)' = Inserts(d)
  BY <1>1 DEF WrittenFrames, Inserts
<1>5. \A d \in Entities : History(d)' = History(d)
  BY <1>1, <1>4 DEF History
<1>6. RestoreIsLast' /\ NestedForward(rank)' /\ EmittedHolds'
  BY <1>1, <1>3 DEF RestoreIsLast, NestedForward, EmittedHolds
<1>7. NothingAhead' /\ StatesAgree' /\ SnapshotAgrees'
  <2>1. NothingAhead'
    BY <1>1, <1>2, <1>5 DEF HistoryInv, NothingAhead
  <2>2. StatesAgree'
    BY <1>2, <1>3, <1>5 DEF StatesAgree
  <2>3. SnapshotAgrees'
    BY <1>1, <1>5 DEF HistoryInv, SnapshotAgrees
  <2>. QED
    BY <2>1, <2>2, <2>3
<1>8. RowsAgree' /\ StatementsAgree' /\ EmissionsAgree' /\ LatestAgrees'
  BY <1>1, <1>4 DEF HistoryInv, RowsAgree, StatementsAgree, EmissionsAgree, LatestAgrees
<1>. QED
  BY <1>6, <1>7, <1>8 DEF HistoryInv

(* The query is issued, answered or rejected; the process dies.            *)
LEMMA HistoryInvStart ==
    ASSUME TypeOK, NEW rank, HistoryInv(rank), Start
    PROVE  HistoryInv(rank)'
<1>. DEFINE z == Len(dbq)
            q == [kind |-> "restore"]
<1>1. /\ phase = "init" /\ phase' = "restoring" /\ stack = <<>>
      /\ UNCHANGED <<now, states, stack, rows, nextId, snap, latest>>
      /\ dbq' = Append(dbq, q)
  BY DEF Start, Idle
<1>2. /\ z \in Nat /\ DOMAIN dbq = 1 .. z /\ DOMAIN dbq' = 1 .. z + 1 /\ Len(dbq') = z + 1
      /\ dbq'[z + 1].kind = "restore" /\ \A i \in 1 .. z : dbq'[i] = dbq[i]
  BY <1>1 DEF TypeOK
<1>. HIDE DEF z, q
<1>3. \A d \in Entities : /\ WrittenFrames(d)' = WrittenFrames(d)
                         /\ Inserts(d)' = Inserts(d)
                         /\ \A i \in Inserts(d) : dbq'[i] = dbq[i]
  <2>. TAKE d \in Entities
  <2>1. WrittenFrames(d)' = WrittenFrames(d)
    BY <1>1 DEF WrittenFrames
  <2>2. \A i \in 1 .. z : i \in Inserts(d)' <=> i \in Inserts(d)
    BY <1>2 DEF Inserts
  <2>3. z + 1 \notin Inserts(d)'
    BY <1>2 DEF Inserts
  <2>4. Inserts(d) \subseteq 1 .. z /\ Inserts(d)' \subseteq 1 .. z + 1
    BY <1>2 DEF Inserts
  <2>5. Inserts(d)' \subseteq 1 .. z
    BY <1>2, <2>3, <2>4
  <2>6. Inserts(d)' = Inserts(d)
    BY <2>2, <2>4, <2>5
  <2>. QED
    BY <1>2, <2>1, <2>4, <2>6
<1>4. \A d \in Entities : History(d)' = History(d)
  <2>. TAKE d \in Entities
  <2>1. {dbq'[i].rec : i \in Inserts(d)'} = {dbq[i].rec : i \in Inserts(d)}
    BY <1>3
  <2>2. {stack'[k].new : k \in WrittenFrames(d)'} = {stack[k].new : k \in WrittenFrames(d)}
    BY <1>1, <1>3
  <2>. QED
    BY <1>1, <2>1, <2>2, Zenon DEF History
<1>5. RestoreIsLast'
  BY <1>1, <1>2 DEF HistoryInv, RestoreIsLast
<1>6. NestedForward(rank)' /\ EmittedHolds'
  BY <1>1 DEF NestedForward, EmittedHolds
<1>7. NothingAhead' /\ StatesAgree' /\ SnapshotAgrees'
  BY <1>1, <1>4 DEF HistoryInv, NothingAhead, StatesAgree, SnapshotAgrees
<1>8. RowsAgree' /\ StatementsAgree' /\ EmissionsAgree' /\ LatestAgrees'
  BY <1>1, <1>3 DEF HistoryInv, RowsAgree, StatementsAgree, EmissionsAgree, LatestAgrees
<1>. QED
  BY <1>5, <1>6, <1>7, <1>8 DEF HistoryInv

LEMMA HistoryInvQuery ==
    ASSUME TypeOK, NEW rank, HistoryInv(rank), RestoreQuery \/ RestoreFails
    PROVE  HistoryInv(rank)'
<1>1. /\ phase = "restoring" /\ dbq # <<>> /\ Head(dbq).kind = "restore" /\ dbq' = Tail(dbq)
      /\ UNCHANGED <<now, states, stack, rows, nextId, snap>>
      /\ \/ phase' = "loaded" /\ \A e \in Entities : latest'[e] = LatestRow(e)
         \/ phase' = "up"
  BY DEF RestoreQuery, RestoreFails
<1>2. stack = <<>> /\ Len(dbq) = 1 /\ dbq[1].kind = "restore" /\ dbq' = <<>>
  <2>1. Len(dbq) \in Nat \ {0} /\ 1 \in DOMAIN dbq /\ Head(dbq) = dbq[1]
    BY <1>1 DEF TypeOK
  <2>2. Len(dbq) = 1
    BY <1>1, <2>1 DEF HistoryInv, RestoreIsLast
  <2>3. dbq' = <<>>
    BY <1>1, <2>1, <2>2 DEF TypeOK
  <2>. QED
    BY <1>1, <2>1, <2>2, <2>3 DEF HistoryInv, RestoreIsLast
<1>3. \A d \in Entities : /\ WrittenFrames(d)' = {} /\ WrittenFrames(d) = {}
                         /\ Inserts(d)' = {}
  BY <1>1, <1>2 DEF WrittenFrames, Inserts
<1>4. \A d \in Entities : History(d)' \subseteq History(d)
  BY <1>1, <1>3 DEF History
<1>5. RestoreIsLast' /\ NestedForward(rank)' /\ EmittedHolds'
  BY <1>1, <1>2 DEF RestoreIsLast, NestedForward, EmittedHolds
<1>6. NothingAhead' /\ StatesAgree' /\ SnapshotAgrees'
  BY <1>1, <1>4 DEF HistoryInv, NothingAhead, StatesAgree, SnapshotAgrees
<1>7. RowsAgree' /\ StatementsAgree' /\ EmissionsAgree'
  BY <1>1, <1>3 DEF HistoryInv, RowsAgree, StatementsAgree, EmissionsAgree
<1>8. LatestAgrees'
  <2>. SUFFICES ASSUME phase' = "loaded", NEW e \in Entities
                PROVE  /\ latest'[e] # NoState => latest'[e].updated <= now
                       /\ \A r \in rows : r.entity = e =>
                             latest'[e] # NoState /\ Agrees(latest'[e], r.rec)
    BY <1>1 DEF LatestAgrees
  <2>1. latest'[e] = LatestRow(e)
    BY <1>1
  <2>2. \A r \in rows : r.entity = e => r.rec.updated <= now
    BY DEF HistoryInv, NothingAhead, History
  <2>. QED
    BY <2>1, <2>2, LatestRowIsNewest
<1>. QED
  BY <1>5, <1>6, <1>7, <1>8 DEF HistoryInv

LEMMA HistoryInvCrash ==
    ASSUME TypeOK, NEW rank, HistoryInv(rank), Crash
    PROVE  HistoryInv(rank)'
<1>1. /\ phase' = "down" /\ states' = NoStates /\ stack' = <<>> /\ dbq' = <<>>
      /\ snap' = snap \/ snap' = NoStates
      /\ UNCHANGED <<now, rows, nextId>>
  BY DEF Crash
<1>2. \A d \in Entities : WrittenFrames(d)' = {} /\ Inserts(d)' = {} /\ states'[d] = NoState
  BY <1>1 DEF WrittenFrames, Inserts, NoStates
<1>3. \A d \in Entities : History(d)' \subseteq History(d)
  BY <1>1, <1>2 DEF History
<1>4. \A d \in Entities : snap'[d] # NoState => snap'[d] = snap[d]
  BY <1>1 DEF NoStates
<1>5. RestoreIsLast' /\ NestedForward(rank)' /\ EmittedHolds'
  BY <1>1 DEF RestoreIsLast, NestedForward, EmittedHolds
<1>6. NothingAhead' /\ StatesAgree' /\ SnapshotAgrees'
  <2>1. NothingAhead'
    BY <1>1, <1>2, <1>3, <1>4 DEF HistoryInv, NothingAhead
  <2>2. StatesAgree'
    BY <1>2 DEF StatesAgree
  <2>3. SnapshotAgrees'
    BY <1>3, <1>4 DEF HistoryInv, SnapshotAgrees
  <2>. QED
    BY <2>1, <2>2, <2>3
<1>7. RowsAgree' /\ StatementsAgree' /\ EmissionsAgree' /\ LatestAgrees'
  BY <1>1, <1>2 DEF HistoryInv, RowsAgree, StatementsAgree, EmissionsAgree, LatestAgrees
<1>. QED
  BY <1>5, <1>6, <1>7 DEF HistoryInv

(* An automation sets a state while it handles the innermost event.        *)
LEMMA HistoryInvReaction ==
    ASSUME TypeOK, NEW rank, FeedForward(rank), HistoryInv(rank), DeliverReaction
    PROVE  HistoryInv(rank)'
<1>1. PICK r \in Reactions : Matches(r, Top) /\ SetState(r.set, r.val, r.attrs, Called)
  BY DEF DeliverReaction
<1>. DEFINE e == r.set
            new == NewState(states[e], r.val, r.attrs)
            n == Len(stack)
<1>2. r.set \in Entities /\ r.val \in Values /\ r.attrs \in Attrs
      /\ r.on \in Entities /\ rank \in [Entities -> Int]
      /\ (rank[r.on] < rank[r.set] \/ Confirms(r))
  BY <1>1, StateMachineAssumption DEF Reaction, FeedForward
<1>3. new \in StateRec /\ new.state = r.val /\ new.attrs = r.attrs
  BY <1>2, NewStateType DEF NewState
<1>4. /\ stack # <<>>
      /\ UNCHANGED <<phase, now, dbq, rows, nextId, snap, latest>>
  BY DEF DeliverReaction, disk
<1>5. /\ n \in Nat \ {0} /\ DOMAIN stack = 1 .. n
      /\ \A k \in 1 .. n : stack[k] \in Frame
      /\ Top = stack[n] /\ Called \in Seq(Frame)
      /\ Len(Called) = n
      /\ Called[n] = [Top EXCEPT !.next = @ + 1]
      /\ \A k \in 1 .. n - 1 : Called[k] = stack[k]
  BY <1>4, TopType, CalledProperties DEF Top, TypeOK
<1>6. \A k \in 1 .. n : /\ stack[k].entity \in Entities
                        /\ Called[k].entity = stack[k].entity
                        /\ Called[k].old = stack[k].old
                        /\ Called[k].new = stack[k].new
  <2>. SUFFICES ASSUME NEW k \in 1 .. n
                PROVE  /\ stack[k].entity \in Entities
                       /\ Called[k].entity = stack[k].entity
                       /\ Called[k].old = stack[k].old
                       /\ Called[k].new = stack[k].new
    OBVIOUS
  <2>1. stack[k] \in Frame
    BY <1>5
  <2>2. CASE k = n
    BY <1>5, <2>1, <2>2 DEF Frame
  <2>3. CASE k # n
    BY <1>5, <2>1, <2>3 DEF Frame
  <2>. QED
    BY <2>2, <2>3
<1>7. \A k \in 1 .. n : \/ rank[stack[k].entity] < rank[r.on]
                        \/ stack[k].entity = r.on
  <2>1. stack[n].entity = r.on
    BY <1>1, <1>5 DEF Matches
  <2>2. \A k \in 1 .. n - 1 : \/ rank[stack[k].entity] < rank[stack[n].entity]
                              \/ stack[k].entity = stack[n].entity
    BY <1>5 DEF HistoryInv, NestedForward
  <2>. QED
    BY <1>5, <2>1, <2>2
<1>8. Confirms(r) => /\ states[e] # NoState /\ new.state = states[e].state
                     /\ ~Writes(Emission(e, states[e], new))
  <2>. SUFFICES ASSUME Confirms(r)
                PROVE  /\ states[e] # NoState /\ new.state = states[e].state
                       /\ ~Writes(Emission(e, states[e], new))
    OBVIOUS
  <2>1. /\ Top.new # NoState /\ Top.entity = r.on /\ Top.new.state = r.to
        /\ e = r.on /\ r.val = r.to /\ Attrs = {r.attrs}
    BY <1>1 DEF Matches, Confirms
  <2>2. states[e] # NoState /\ states[e].state = r.val
    BY <1>5, <2>1 DEF HistoryInv, EmittedHolds
  <2>3. states[e].attrs = r.attrs
    BY <1>2, <2>1, <2>2, RecordType DEF TypeOK, StateMap
  <2>. QED
    BY <1>3, <2>2, <2>3 DEF Writes, Unchanged, Emission
<1>9. \A k \in 1 .. n :
          \/ rank[stack[k].entity] < rank[e]
          \/ /\ stack[k].entity = e
             /\ states[e] # NoState /\ new # NoState /\ new.state = states[e].state
             /\ ~Writes(Emission(e, states[e], new))
  <2>. HIDE DEF new
  <2>1. CASE Confirms(r)
    <3>1. e = r.on
      BY <2>1 DEF Confirms
    <3>2. new # NoState
      BY <1>3, RecordType
    <3>. QED
      BY <1>7, <1>8, <2>1, <3>1, <3>2
  <2>2. CASE rank[r.on] < rank[e]
    <3>1. \A k \in 1 .. n : rank[stack[k].entity] \in Int
      BY <1>2, <1>6
    <3>2. rank[r.on] \in Int /\ rank[e] \in Int
      BY <1>2
    <3>. QED
      BY <1>7, <2>2, <3>1, <3>2
  <2>. QED
    BY <1>2, <2>1, <2>2
<1>10. \A k \in 1 .. n : rank[stack[k].entity] < rank[e] => stack[k].entity # e
  BY <1>2
<1>11. phase \in {"init", "up"}
  BY <1>4 DEF HistoryInv, RestoreIsLast, TypeOK
<1>12. states' = [states EXCEPT ![e] = new] /\ stack' = Append(Called, Emission(e, states[e], new))
  BY <1>1 DEF SetState
<1>. HIDE DEF new, n
<1>13. \E s \in Values, a \in Attrs : new = NewState(states[e], s, a)
  BY <1>2 DEF new
<1>14. Called \in Seq(Frame) /\ Len(Called) = Len(stack)
       /\ \A k \in DOMAIN stack : /\ Called[k].entity = stack[k].entity
                                  /\ Called[k].old = stack[k].old
                                  /\ Called[k].new = stack[k].new
  BY <1>5, <1>6 DEF n
<1>15. \A k \in DOMAIN stack :
          \/ rank[stack[k].entity] < rank[e]
          \/ /\ stack[k].entity = e
             /\ states[e] # NoState /\ new # NoState /\ new.state = states[e].state
             /\ ~Writes(Emission(e, states[e], new))
  BY <1>5, <1>9
<1>16. \A k \in DOMAIN stack : rank[stack[k].entity] < rank[e] => stack[k].entity # e
  BY <1>5, <1>10
<1>17. e \in Entities /\ new \in StateRec \cup {NoState}
       /\ (new # NoState => \E s \in Values, a \in Attrs : new = NewState(states[e], s, a))
  BY <1>2, <1>3, <1>13
<1>. HIDE DEF e
<1>. QED
  BY <1>4, <1>11, <1>12, <1>14, <1>15, <1>16, <1>17, HistoryInvSet

(* Every step keeps the invariant.                                         *)
LEMMA HistoryInvCall ==
    ASSUME TypeOK, NEW rank, HistoryInv(rank), DeliverToMirror \/ DeliverIgnored
    PROVE  HistoryInv(rank)'
<1>1. /\ stack # <<>> /\ stack' = Called
      /\ UNCHANGED <<phase, now, states, dbq, rows, nextId, snap, latest>>
  BY DEF DeliverToMirror, DeliverIgnored, disk
<1>. DEFINE n == Len(stack)
<1>2. /\ n \in Nat \ {0} /\ DOMAIN stack = 1 .. n /\ DOMAIN Called = 1 .. n
      /\ Top = stack[n] /\ Top \in Frame
      /\ Called[n] = [Top EXCEPT !.next = @ + 1]
      /\ \A k \in 1 .. n - 1 : Called[k] = stack[k]
  BY <1>1, TopType, CalledProperties DEF Top, TypeOK
<1>. HIDE DEF n
<1>3. /\ Called[n].entity = stack[n].entity /\ Called[n].old = stack[n].old
      /\ Called[n].new = stack[n].new
  BY <1>2 DEF Frame
<1>4. \A k \in 1 .. n : /\ stack'[k].entity = stack[k].entity
                        /\ stack'[k].old = stack[k].old
                        /\ stack'[k].new = stack[k].new
  <2>. TAKE k \in 1 .. n
  <2>1. CASE k = n
    BY <1>1, <1>3, <2>1
  <2>2. CASE k # n
    <3>1. k \in 1 .. n - 1
      BY <1>2, <2>2
    <3>. QED
      BY <1>1, <1>2, <3>1
  <2>. QED
    BY <2>1, <2>2
<1>5. RestoreIsLast'
  <2>1. phase \notin {"restoring", "loaded", "down"}
    BY <1>1 DEF HistoryInv, RestoreIsLast
  <2>. QED
    BY <1>1, <2>1 DEF HistoryInv, RestoreIsLast
<1>6. now' \in Int /\ now <= now'
  BY <1>1, TimeType DEF TypeOK
<1>. QED
  BY <1>1, <1>2, <1>4, <1>5, <1>6, HistoryInvSame

LEMMA HistoryInvBus ==
    ASSUME TypeOK, NEW rank, FeedForward(rank), HistoryInv(rank),
           \/ \E l \in Listeners : Listen(l) \/ Unlisten(l)
           \/ Deliver
           \/ \E a \in Automations : RunSettles(a)
           \/ Boot \/ Tick
    PROVE  HistoryInv(rank)'
<1>1. now \in Int /\ now <= now
  BY TimeType DEF TypeOK
<1>2. CASE \/ \E l \in Listeners : Listen(l) \/ Unlisten(l)
           \/ \E a \in Automations : RunSettles(a)
  <2>1. UNCHANGED <<phase, now, states, stack, disk>>
    BY <1>2 DEF Listen, Unlisten, RunSettles
  <2>2. RestoreIsLast'
    BY <2>1 DEF HistoryInv, RestoreIsLast, disk
  <2>. QED
    BY <1>1, <2>1, <2>2, HistoryInvSame DEF disk
<1>3. CASE Boot
  <2>1. phase = "down" /\ phase' = "init" /\ UNCHANGED <<now, states, stack, disk>>
    BY <1>3 DEF Boot
  <2>2. RestoreIsLast'
    BY <2>1 DEF HistoryInv, RestoreIsLast, disk
  <2>. QED
    BY <1>1, <2>1, <2>2, HistoryInvSame DEF disk
<1>4. CASE Tick
  <2>1. now' = now + 1 /\ UNCHANGED <<phase, states, stack, disk>>
    BY <1>4 DEF Tick
  <2>2. RestoreIsLast'
    BY <2>1 DEF HistoryInv, RestoreIsLast, disk
  <2>. QED
    BY <1>1, <2>1, <2>2, HistoryInvSame DEF disk
<1>. QED
  BY <1>2, <1>3, <1>4, HistoryInvCall, HistoryInvReaction, HistoryInvReturn
     DEF Deliver, FeedForward

LEMMA HistoryInvTask ==
    ASSUME TypeOK, "early" \notin Env, NEW rank, HistoryInv(rank),
           \/ \E e \in Entities, s \in Values, a \in Attrs : ExternalSet(e, s, a)
           \/ \E e \in Entities : RemoveEntity(e)
    PROVE  HistoryInv(rank)'
<1>1. ASSUME NEW e \in Entities, NEW new \in StateRec \cup {NoState},
             new # NoState => \E s \in Values, a \in Attrs : new = NewState(states[e], s, a),
             states' = [states EXCEPT ![e] = new],
             stack' = Append(stack, Emission(e, states[e], new)),
             MayTouch,
             UNCHANGED <<phase, now, dbq, rows, nextId, snap, latest>>
      PROVE  HistoryInv(rank)'
  <2>1. stack = <<>> /\ phase \in {"init", "up"}
    BY <1>1 DEF MayTouch, Idle, Running, TypeOK
  <2>2. stack \in Seq(Frame) /\ DOMAIN stack = {}
    BY <2>1 DEF TypeOK
  <2>. QED
    BY <1>1, <2>1, <2>2, HistoryInvSet
<1>2. ASSUME NEW e \in Entities, NEW s \in Values, NEW a \in Attrs, ExternalSet(e, s, a)
      PROVE  HistoryInv(rank)'
  <2>. DEFINE new == NewState(states[e], s, a)
  <2>1. new \in StateRec /\ MayTouch
        /\ UNCHANGED <<phase, now, dbq, rows, nextId, snap, latest>>
        /\ states' = [states EXCEPT ![e] = new]
        /\ stack' = Append(stack, Emission(e, states[e], new))
    BY <1>2, NewStateType DEF ExternalSet, SetState, disk
  <2>2. \E v \in Values, b \in Attrs : new = NewState(states[e], v, b)
    OBVIOUS
  <2>. HIDE DEF new
  <2>. QED
    BY <1>1, <2>1, <2>2
<1>3. ASSUME NEW e \in Entities, RemoveEntity(e)
      PROVE  HistoryInv(rank)'
  BY <1>1, <1>3 DEF RemoveEntity, disk
<1>. QED
  BY <1>2, <1>3

LEMMA HistoryInvNext ==
    ASSUME TypeOK, "early" \notin Env, NEW rank, FeedForward(rank), HistoryInv(rank),
           [Next]_vars
    PROVE  HistoryInv(rank)'
<1>1. CASE Next
  BY <1>1, HistoryInvBus, HistoryInvTask, HistoryInvInsert, HistoryInvKeep, HistoryInvStart,
     HistoryInvQuery, HistoryInvRestore, HistoryInvCrash DEF Next, Database
<1>2. CASE UNCHANGED vars
  <2>1. UNCHANGED <<phase, now, states, stack, dbq, rows, nextId, snap, latest>>
    BY <1>2 DEF vars
  <2>2. RestoreIsLast'
    BY <2>1 DEF HistoryInv, RestoreIsLast
  <2>3. now \in Int /\ now <= now
    BY TimeType DEF TypeOK
  <2>. QED
    BY <2>1, <2>2, <2>3, HistoryInvSame
<1>. QED
  BY <1>1, <1>2

LEMMA HistoryInvariant ==
    ASSUME "early" \notin Env, NEW rank, FeedForward(rank)
    PROVE  Spec => []HistoryInv(rank)
<1>1. Init => HistoryInv(rank)
  <2>. SUFFICES ASSUME Init
                PROVE  HistoryInv(rank)
    OBVIOUS
  <2>1. \A e \in Entities : WrittenFrames(e) = {} /\ Inserts(e) = {}
    BY DEF Init, WrittenFrames, Inserts
  <2>2. \A e \in Entities : History(e) = {} /\ states[e] = NoState /\ snap[e] = NoState
    BY <2>1 DEF Init, History, NoStates
  <2>. QED
    BY <2>1, <2>2 DEF Init, HistoryInv, RestoreIsLast, NestedForward, EmittedHolds,
       NothingAhead, RowsAgree, StatementsAgree, EmissionsAgree, StatesAgree,
       SnapshotAgrees, LatestAgrees
<1>2. TypeOK /\ HistoryInv(rank) /\ [Next]_vars => HistoryInv(rank)'
  BY HistoryInvNext
<1>. QED
  BY <1>1, <1>2, TypeCorrect, PTL DEF Spec

(* Whatever crashes, failed statements, torn snapshots, removals and       *)
(* prunings came before, last_changed of the map contradicts no row of the *)
(* history (setState(), restoreStates(), persistState()): when automations *)
(* feed forward and no integration is earlier than the restore.            *)
THEOREM LastChangedIsTrue ==
    ASSUME "early" \notin Env, NEW rank, FeedForward(rank)
    PROVE  Spec => []SinceLastChanged
<1>1. TypeOK /\ HistoryInv(rank) => SinceLastChanged
  <2>. SUFFICES ASSUME TypeOK, HistoryInv(rank), NEW r \in rows,
                       states[r.entity] # NoState
                PROVE  states[r.entity].changed < r.rec.updated => r.rec.state = states[r.entity].state
    BY DEF SinceLastChanged
  <2>1. r.entity \in Entities /\ r.rec \in History(r.entity)
    BY RecordsOf DEF History, TypeOK, Row
  <2>. QED
    BY <2>1 DEF HistoryInv, StatesAgree, Agrees
<1>. QED
  BY <1>1, TypeCorrect, HistoryInvariant, PTL

(* Under the same conditions the restore brings back, of every entity, a   *)
(* state no older than the snapshot's and than any row (restoreStates()).  *)
THEOREM RestoreBringsNewest ==
    ASSUME "early" \notin Env, NEW rank, FeedForward(rank)
    PROVE  Spec => RestoreIsNewest
<1>. DEFINE Newest ==
        phase = "loaded" /\ phase' = "up" =>
          /\ \A e \in Entities : snap[e] # NoState =>
                states'[e] # NoState /\ states'[e].updated >= snap[e].updated
          /\ \A r \in rows : states'[r.entity].updated >= r.rec.updated
<1>1. TypeOK /\ HistoryInv(rank) /\ [Next]_vars => [Newest]_vars
  <2>. SUFFICES ASSUME TypeOK, HistoryInv(rank), Next, phase = "loaded", phase' = "up"
                PROVE  /\ \A e \in Entities : snap[e] # NoState =>
                             states'[e] # NoState /\ states'[e].updated >= snap[e].updated
                       /\ \A r \in rows : states'[r.entity].updated >= r.rec.updated
    OBVIOUS
  <2>1. Restore
    BY LoadedIsQuiet DEF Next, Listen, Unlisten, Deliver, DeliverToMirror, DeliverIgnored,
       DeliverReaction, Return, ExternalSet, RemoveEntity, RunSettles, Database, Insert,
       InsertFails, RestoreQuery, RestoreFails, Prune, SaveSnapshot, Boot, Start, Crash, Tick
  <2>2. \A e \in Entities : states'[e] = Restored(e, latest[e], states[e])
    BY <2>1 DEF Restore
  <2>3. \A e \in Entities :
            /\ states'[e] \in StateRec \cup {NoState}
            /\ snap[e] # NoState => states'[e] # NoState /\ snap[e].updated <= states'[e].updated
            /\ \A r \in rows : r.entity = e => states'[e] # NoState /\ Agrees(states'[e], r.rec)
    BY <2>2, RestoredIsNewest
  <2>4. \A e \in Entities : snap[e] \in StateRec \cup {NoState}
    BY DEF TypeOK, StateMap
  <2>. QED
    BY <2>3, <2>4, RecordsOf, RecordType DEF Agrees, TypeOK, Row
<1>. QED
  BY <1>1, TypeCorrect, HistoryInvariant, PTL DEF Spec, RestoreIsNewest
-----------------------------------------------------------------------------
(* When the database rejects nothing and nothing is pruned, what is known  *)
(* is kept: RestartKeepsLastKnown.                                         *)

LEMMA LatestRowIs ==
    ASSUME TypeOK, NEW rank, HistoryInv(rank), NEW e \in Entities,
           NEW c \in rows, IsLatest(c, e)
    PROVE  LatestRow(e) = c.rec
<1>. DEFINE x == CHOOSE r \in rows : IsLatest(r, e)
<1>1. x \in rows /\ IsLatest(x, e) /\ LatestRow(e) = x.rec
  BY DEF LatestRow
<1>. HIDE DEF x
<1>2. x.id <= c.id /\ c.id <= x.id /\ x.id \in Nat /\ c.id \in Nat
  BY <1>1, RecordsOf DEF IsLatest
<1>3. x = c
  BY <1>1, <1>2 DEF HistoryInv, RowsAgree
<1>. QED
  BY <1>1, <1>3

(* Steps that leave every record where it is.                              *)
LEMMA KeptInvSame ==
    ASSUME TypeOK, NEW rank, HistoryInv(rank), KeptInv,
           DOMAIN stack' = DOMAIN stack,
           \A k \in DOMAIN stack : /\ stack'[k].entity = stack[k].entity
                                   /\ stack'[k].old = stack[k].old
                                   /\ stack'[k].new = stack[k].new,
           UNCHANGED <<states, dbq, rows, snap, latest>>,
           phase' = "loaded" => phase = "loaded"
    PROVE  KeptInv'
<1>1. \A e \in Entities : /\ WrittenFrames(e)' = WrittenFrames(e)
                         /\ Inserts(e)' = Inserts(e)
                         /\ \A k \in WrittenFrames(e) : stack'[k].new = stack[k].new
  BY DEF WrittenFrames, Inserts, Writes, Unchanged
<1>2. \A e \in Entities : LatestRow(e)' = LatestRow(e) /\ Recoverable(e)' = Recoverable(e)
  BY DEF LatestRow, IsLatest, Recoverable, Restored, SnapshotIsNewer
<1>3. \A e \in Entities : Kept(e) => Kept(e)'
  BY <1>1, <1>2 DEF Kept, KeptByStatement, SameContent
<1>. QED
  BY <1>2, <1>3 DEF KeptInv

(* A state is set, or removed: an emission that writes carries it.         *)
LEMMA KeptInvSet ==
    ASSUME TypeOK, NEW rank, HistoryInv(rank), KeptInv,
           NEW e \in Entities, NEW new \in StateRec \cup {NoState},
           new # NoState => \E s \in Values, a \in Attrs : new = NewState(states[e], s, a),
           NEW base \in Seq(Frame), Len(base) = Len(stack),
           \A k \in DOMAIN stack : /\ base[k].entity = stack[k].entity
                                   /\ base[k].old = stack[k].old
                                   /\ base[k].new = stack[k].new,
           states' = [states EXCEPT ![e] = new],
           stack' = Append(base, Emission(e, states[e], new)),
           phase \in {"init", "up"},
           UNCHANGED <<phase, dbq, rows, snap>>
    PROVE  KeptInv'
<1>. DEFINE n == Len(stack)
            f == Emission(e, states[e], new)
<1>1. /\ n \in Nat /\ DOMAIN stack = 1 .. n /\ DOMAIN stack' = 1 .. n + 1
      /\ \A k \in 1 .. n : stack'[k] = base[k]
      /\ stack'[n + 1] = f
      /\ f.entity = e /\ f.old = states[e] /\ f.new = new
  BY DEF TypeOK, Emission
<1>2. states[e] \in StateRec \cup {NoState} /\ states'[e] = new
      /\ \A d \in Entities : d # e => states'[d] = states[d]
  BY DEF TypeOK, StateMap
<1>. HIDE DEF n, f
<1>3. \A k \in 1 .. n : /\ stack'[k].entity = stack[k].entity
                        /\ stack'[k].new = stack[k].new
                        /\ Writes(stack'[k]) <=> Writes(stack[k])
  <2>1. \A k \in 1 .. n : /\ stack'[k].entity = stack[k].entity
                          /\ stack'[k].old = stack[k].old
                          /\ stack'[k].new = stack[k].new
    BY <1>1
  <2>. QED
    BY <2>1 DEF Writes, Unchanged
<1>4. \A d \in Entities :
          /\ Inserts(d)' = Inserts(d)
          /\ d # e \/ ~Writes(f) => WrittenFrames(d)' = WrittenFrames(d)
          /\ Writes(f) => n + 1 \in WrittenFrames(e)'
          /\ \A k \in WrittenFrames(d) : stack'[k].new = stack[k].new
  <2>. TAKE d \in Entities
  <2>1. Inserts(d)' = Inserts(d) /\ \A k \in WrittenFrames(d) : stack'[k].new = stack[k].new
    BY <1>1, <1>3 DEF Inserts, WrittenFrames
  <2>2. \A k \in 1 .. n : k \in WrittenFrames(d)' <=> k \in WrittenFrames(d)
    BY <1>1, <1>3 DEF WrittenFrames
  <2>3. Writes(f) => n + 1 \in WrittenFrames(e)'
    BY <1>1 DEF WrittenFrames
  <2>4. d # e \/ ~Writes(f) => n + 1 \notin WrittenFrames(d)'
    BY <1>1 DEF WrittenFrames
  <2>5. WrittenFrames(d) \subseteq 1 .. n /\ WrittenFrames(d)' \subseteq 1 .. n + 1
    BY <1>1 DEF WrittenFrames
  <2>6. d # e \/ ~Writes(f) => WrittenFrames(d)' \subseteq 1 .. n
    BY <1>1, <2>4, <2>5
  <2>7. d # e \/ ~Writes(f) => WrittenFrames(d)' = WrittenFrames(d)
    BY <2>2, <2>5, <2>6
  <2>. QED
    BY <2>1, <2>3, <2>7
<1>5. \A d \in Entities : Recoverable(d)' = Recoverable(d)
  BY DEF LatestRow, IsLatest, Recoverable, Restored, SnapshotIsNewer
<1>6. ASSUME NEW d \in Entities, states'[d] # NoState
      PROVE  Kept(d)'
  <2>1. CASE d # e
    <3>1. Kept(d) /\ states'[d] = states[d] /\ WrittenFrames(d)' = WrittenFrames(d)
      BY <1>2, <1>4, <1>6, <2>1 DEF KeptInv
    <3>. QED
      BY <1>4, <1>5, <3>1 DEF Kept, KeptByStatement, SameContent
  <2>2. CASE d = e /\ Writes(f)
    <3>1. new \in StateRec /\ new.updated = now /\ stack'[n + 1].new = states'[e]
      BY <1>1, <1>2, <1>6, <2>2 DEF NewState
    <3>2. snap[e] # NoState => snap[e].updated <= new.updated
      BY <3>1 DEF HistoryInv, NothingAhead
    <3>. QED
      BY <1>1, <1>2, <1>4, <1>6, <2>2, <3>1, <3>2 DEF Kept, SameContent
  <2>3. CASE d = e /\ ~Writes(f)
    <3>1. /\ states[e] # NoState
          /\ states'[e].state = states[e].state /\ states'[e].attrs = states[e].attrs
      BY <1>1, <1>2, <1>6, <2>3 DEF Writes, Unchanged
    <3>2. Kept(e) /\ WrittenFrames(e)' = WrittenFrames(e)
      BY <1>4, <2>3, <3>1 DEF KeptInv
    <3>3. UNCHANGED <<dbq, snap>> /\ Inserts(e)' = Inserts(e) /\ Recoverable(e)' = Recoverable(e)
      BY <1>1, <1>4, <1>5
    <3>4. CASE WrittenFrames(e) # {}
      <4>1. PICK k \in WrittenFrames(e) : /\ SameContent(stack[k].new, states[e])
                                          /\ snap[e] # NoState => snap[e].updated <= stack[k].new.updated
        BY <3>2, <3>4 DEF Kept
      <4>2. stack'[k].new = stack[k].new
        BY <1>4, <4>1
      <4>3. SameContent(stack[k].new, states'[e])
        BY <3>1, <4>1 DEF SameContent
      <4>4. /\ SameContent(stack'[k].new, states'[e])
            /\ snap'[e] # NoState => snap'[e].updated <= stack'[k].new.updated
        BY <3>3, <4>1, <4>2, <4>3
      <4>5. k \in WrittenFrames(e)'
        BY <3>2, <4>1
      <4>6. Kept(e)'
        BY <4>4, <4>5 DEF Kept, SameContent
      <4>. QED
        BY <2>3, <4>6
    <3>5. CASE WrittenFrames(e) = {} /\ Inserts(e) # {}
      <4>1. PICK i \in Inserts(e) : KeptByStatement(e, i)
        BY <3>2, <3>5 DEF Kept
      <4>2. /\ i \in Inserts(e)' /\ \A j \in Inserts(e)' : j <= i
            /\ SameContent(dbq'[i].rec, states'[e])
            /\ snap'[e] # NoState /\ snap'[e].updated > dbq'[i].rec.updated
                  => SameContent(snap'[e], states'[e])
        BY <3>1, <3>3, <4>1 DEF KeptByStatement, SameContent
      <4>3. WrittenFrames(e)' = {}
        BY <3>2, <3>5
      <4>. QED
        BY <2>3, <4>2, <4>3 DEF Kept, KeptByStatement, SameContent
    <3>6. CASE WrittenFrames(e) = {} /\ Inserts(e) = {}
      <4>1. SameContent(Recoverable(e)', states'[e])
        BY <3>1, <3>2, <3>3, <3>6 DEF Kept, SameContent
      <4>2. WrittenFrames(e)' = {} /\ Inserts(e)' = {}
        BY <3>2, <3>3, <3>6
      <4>. QED
        BY <2>3, <4>1, <4>2 DEF Kept, SameContent
    <3>. QED
      BY <3>4, <3>5, <3>6
  <2>. QED
    BY <2>1, <2>2, <2>3
<1>. QED
  BY <1>6 DEF KeptInv

LEMMA KeptInvReturn ==
    ASSUME TypeOK, NEW rank \in [Entities -> Int], HistoryInv(rank), KeptInv, Return
    PROVE  KeptInv'
<1>. DEFINE n == Len(stack)
            z == Len(dbq)
            q == [kind |-> "insert", entity |-> Top.entity, rec |-> Top.new]
<1>1. /\ n \in Nat \ {0} /\ DOMAIN stack = 1 .. n /\ DOMAIN stack' = 1 .. n - 1
      /\ \A k \in 1 .. n - 1 : stack'[k] = stack[k]
      /\ Top = stack[n] /\ Top \in Frame
  <2>1. stack # <<>> /\ stack' = SubSeq(stack, 1, n - 1) /\ stack \in Seq(Frame)
    BY DEF Return, TypeOK
  <2>2. stack' \in Seq(Frame) /\ Len(stack') = n - 1
        /\ \A k \in 1 .. n - 1 : stack'[k] = stack[k]
    BY <2>1, WithoutLast
  <2>. QED
    BY <2>1, <2>2, TopType DEF Top
<1>2. /\ UNCHANGED <<phase, states, rows, snap>>
      /\ dbq' = IF Writes(Top) THEN Append(dbq, q) ELSE dbq
      /\ phase # "loaded"
  BY DEF Return, Writes, HistoryInv, RestoreIsLast
<1>3. /\ z \in Nat /\ DOMAIN dbq = 1 .. z
      /\ Writes(Top) => DOMAIN dbq' = 1 .. z + 1 /\ dbq'[z + 1] = q
      /\ \A i \in 1 .. z : dbq'[i] = dbq[i]
      /\ ~Writes(Top) => DOMAIN dbq' = 1 .. z
      /\ q.kind = "insert" /\ q.entity = Top.entity /\ q.rec = Top.new
  BY <1>2 DEF TypeOK
<1>. HIDE DEF n, q, z
<1>4. \A d \in Entities : Recoverable(d)' = Recoverable(d)
  BY <1>2 DEF LatestRow, IsLatest, Recoverable, Restored, SnapshotIsNewer
<1>5. ASSUME NEW d \in Entities, states[d] # NoState
      PROVE  Kept(d)'
  <2>1. Kept(d)
    BY <1>5 DEF KeptInv
  <2>2. WrittenFrames(d) \subseteq 1 .. n /\ Inserts(d) \subseteq 1 .. z
        /\ WrittenFrames(d)' = WrittenFrames(d) \ {n}
        /\ \A k \in WrittenFrames(d)' : stack'[k] = stack[k]
    BY <1>1, <1>3 DEF WrittenFrames, Inserts
  <2>3. CASE d = Top.entity /\ Writes(Top)
    <3>1. WrittenFrames(d) = {n}
      <4>1. n \in WrittenFrames(d)
        BY <1>1, <2>3 DEF WrittenFrames
      <4>2. ASSUME NEW k \in WrittenFrames(d), k # n
            PROVE  FALSE
        <5>1. k \in 1 .. n - 1 /\ stack[k].entity = stack[n].entity
          BY <1>1, <2>2, <2>3, <4>2 DEF WrittenFrames
        <5>2. ~(rank[stack[k].entity] < rank[stack[n].entity])
          BY <1>1, <5>1 DEF Frame
        <5>. QED
          BY <1>1, <2>3, <5>1, <5>2 DEF HistoryInv, NestedForward
      <4>. QED
        BY <4>1, <4>2
    <3>2. /\ SameContent(stack[n].new, states[d])
          /\ snap[d] # NoState => snap[d].updated <= stack[n].new.updated
      BY <2>1, <3>1 DEF Kept
    <3>3. WrittenFrames(d)' = {}
      BY <2>2, <3>1
    <3>4. z + 1 \in Inserts(d)' /\ Inserts(d)' \subseteq 1 .. z + 1
      BY <1>3, <2>3 DEF Inserts
    <3>5. dbq'[z + 1].rec = stack[n].new
      BY <1>1, <1>3, <2>3
    <3>6. /\ stack[n].new \in StateRec
          /\ snap[d] \in StateRec \cup {NoState}
      BY <3>1, RecordsOf DEF TypeOK, StateMap
    <3>7. ~(snap[d] # NoState /\ snap[d].updated > stack[n].new.updated)
      BY <3>2, <3>6, RecordType
    <3>8. PICK i \in Nat : i = z + 1
      BY <1>3
    <3>9. i \in Inserts(d)' /\ Inserts(d)' # {} /\ KeptByStatement(d, i)'
      BY <1>2, <1>3, <3>2, <3>4, <3>5, <3>7, <3>8 DEF KeptByStatement, SameContent
    <3>. QED
      BY <3>3, <3>9 DEF Kept
  <2>4. CASE ~(d = Top.entity /\ Writes(Top))
    <3>1. WrittenFrames(d)' = WrittenFrames(d)
      BY <1>1, <2>2, <2>4 DEF WrittenFrames
    <3>2. Inserts(d)' = Inserts(d)
      <4>1. \A i \in 1 .. z : i \in Inserts(d)' <=> i \in Inserts(d)
        BY <1>3 DEF Inserts
      <4>2. Inserts(d)' \subseteq 1 .. z
        BY <1>3, <2>4 DEF Inserts
      <4>. QED
        BY <2>2, <4>1, <4>2
    <3>3. \A i \in Inserts(d) : dbq'[i] = dbq[i]
      BY <1>3, <2>2
    <3>. QED
      BY <1>2, <1>4, <2>1, <2>2, <3>1, <3>2, <3>3 DEF Kept, KeptByStatement, SameContent
  <2>. QED
    BY <2>3, <2>4
<1>. QED
  BY <1>2, <1>5 DEF KeptInv

(* The newest row of e when the oldest statement is executed.              *)
LEMMA InsertedRow ==
    ASSUME TypeOK, NEW rank, HistoryInv(rank), Insert, NEW e \in Entities
    PROVE  LatestRow(e)' = IF e = dbq[1].entity THEN dbq[1].rec ELSE LatestRow(e)
<1>. DEFINE x == [id |-> nextId, entity |-> dbq[1].entity, rec |-> dbq[1].rec]
            Newest(r) == r.entity = e /\ \A q \in rows' : q.entity = e => q.id <= r.id
            c == CHOOSE r \in rows' : Newest(r)
<1>1. rows' = rows \cup {x} /\ x.id = nextId /\ x.entity = dbq[1].entity /\ x.rec = dbq[1].rec
  <2>1. Head(dbq) = dbq[1]
    BY DEF Insert, TypeOK
  <2>. QED
    BY <2>1 DEF Insert
<1>2. nextId \in Nat /\ \A r \in rows : r.id < nextId /\ r.id \in Nat
  BY RecordsOf DEF HistoryInv, NothingAhead, TypeOK
<1>. HIDE DEF x
<1>4. LatestRow(e)' = IF \E r \in rows' : Newest(r) THEN c.rec ELSE NoState
  BY DEF LatestRow, IsLatest
<1>5. (\E r \in rows' : Newest(r)) => c \in rows' /\ Newest(c)
  OBVIOUS
<1>. HIDE DEF c
<1>6. CASE e = dbq[1].entity
  <2>1. x \in rows' /\ Newest(x)
    BY <1>1, <1>2, <1>6
  <2>2. c \in rows' /\ nextId <= c.id
    BY <1>1, <1>5, <1>6, <2>1
  <2>3. c = x
    BY <1>1, <1>2, <2>2
  <2>. QED
    BY <1>1, <1>4, <1>6, <2>1, <2>3
<1>7. CASE e # dbq[1].entity
  <2>1. \A r \in rows' : Newest(r) <=> r \in rows /\ IsLatest(r, e)
    BY <1>1, <1>7 DEF IsLatest
  <2>2. CASE \E r \in rows : IsLatest(r, e)
    <3>1. c \in rows /\ IsLatest(c, e)
      BY <1>1, <1>5, <2>1, <2>2
    <3>2. LatestRow(e) = c.rec
      BY <3>1, LatestRowIs
    <3>. QED
      BY <1>1, <1>4, <1>7, <2>1, <2>2, <3>2
  <2>3. CASE ~ \E r \in rows : IsLatest(r, e)
    <3>1. LatestRow(e) = NoState
      BY <2>3 DEF LatestRow
    <3>. QED
      BY <1>4, <1>7, <2>1, <2>3, <3>1
  <2>. QED
    BY <2>2, <2>3
<1>. QED
  BY <1>6, <1>7

LEMMA KeptInvInsert ==
    ASSUME TypeOK, NEW rank, HistoryInv(rank), KeptInv, Insert
    PROVE  KeptInv'
<1>. DEFINE z == Len(dbq)
<1>1. /\ z \in Nat \ {0} /\ DOMAIN dbq = 1 .. z /\ DOMAIN dbq' = 1 .. z - 1
      /\ \A i \in 1 .. z - 1 : dbq'[i] = dbq[i + 1]
      /\ dbq[1].kind = "insert"
  <2>1. dbq # <<>> /\ Head(dbq).kind = "insert" /\ dbq' = Tail(dbq) /\ dbq \in Seq(Statement)
    BY DEF Insert, TypeOK
  <2>2. Head(dbq) = dbq[1] /\ z \in Nat \ {0} /\ DOMAIN dbq = 1 .. z
    BY <2>1
  <2>3. DOMAIN dbq' = 1 .. z - 1 /\ \A i \in 1 .. z - 1 : dbq'[i] = dbq[i + 1]
    BY <2>1
  <2>. QED
    BY <2>1, <2>2, <2>3
<1>2. UNCHANGED <<phase, states, stack, snap, latest>>
  BY DEF Insert
<1>3. phase # "loaded"
  BY <1>1 DEF HistoryInv, RestoreIsLast
<1>. HIDE DEF z
<1>4. ASSUME NEW d \in Entities, states[d] # NoState
      PROVE  Kept(d)'
  <2>1. Kept(d) /\ WrittenFrames(d)' = WrittenFrames(d)
    BY <1>2, <1>4 DEF KeptInv, WrittenFrames
  <2>2. /\ Inserts(d) \subseteq 1 .. z
        /\ 1 \in Inserts(d) <=> d = dbq[1].entity
        /\ \A i \in Inserts(d)' : i \in 1 .. z - 1 /\ i + 1 \in Inserts(d)
        /\ \A i \in Inserts(d) : i # 1 => i - 1 \in Inserts(d)' /\ dbq'[i - 1] = dbq[i]
    BY <1>1 DEF Inserts
  <2>3. CASE WrittenFrames(d) # {}
    BY <1>2, <2>1, <2>3 DEF Kept, SameContent
  <2>4. CASE WrittenFrames(d) = {} /\ Inserts(d) = {}
    <3>1. Inserts(d)' = {} /\ d # dbq[1].entity
      BY <2>2, <2>4
    <3>2. LatestRow(d)' = LatestRow(d)
      BY <3>1, InsertedRow
    <3>3. Recoverable(d)' = Recoverable(d)
      BY <1>2, <3>2 DEF Recoverable, Restored, SnapshotIsNewer
    <3>. QED
      BY <1>2, <2>1, <2>4, <3>1, <3>3 DEF Kept, SameContent
  <2>5. CASE WrittenFrames(d) = {} /\ Inserts(d) # {}
    <3>1. PICK i \in Inserts(d) : KeptByStatement(d, i)
      BY <2>1, <2>5 DEF Kept
    <3>2. i \in 1 .. z /\ \A j \in Inserts(d) : j <= i
      BY <2>2, <3>1 DEF KeptByStatement
    <3>3. CASE i = 1
      <4>1. d = dbq[1].entity
        BY <2>2, <3>3
      <4>2. Inserts(d)' = {}
        <5>1. ASSUME NEW j \in Inserts(d)'
              PROVE  FALSE
          <6>1. j \in 1 .. z - 1 /\ j + 1 \in Inserts(d)
            BY <2>2
          <6>2. j + 1 <= 1
            BY <3>2, <3>3, <6>1
          <6>. QED
            BY <1>1, <6>1, <6>2
        <5>. QED
          BY <5>1
      <4>3. LatestRow(d)' = dbq[1].rec
        BY <4>1, InsertedRow
      <4>4. dbq[1].rec # NoState
        BY <3>3, RecordsOf, RecordType
      <4>5. SameContent(Recoverable(d), states[d])'
        BY <1>2, <3>1, <3>3, <4>3, <4>4
           DEF KeptByStatement, Recoverable, Restored, SnapshotIsNewer, SameContent
      <4>. QED
        BY <2>1, <2>5, <4>2, <4>5 DEF Kept
    <3>4. CASE i # 1
      <4>1. PICK k \in Nat : k = i - 1
        BY <1>1, <3>2, <3>4
      <4>2. k \in Inserts(d)' /\ dbq'[k] = dbq[i]
        BY <2>2, <3>4, <4>1
      <4>3. \A j \in Inserts(d)' : j <= k
        <5>. TAKE j \in Inserts(d)'
        <5>1. j \in 1 .. z - 1 /\ j + 1 <= i
          BY <2>2, <3>2
        <5>. QED
          BY <1>1, <3>2, <4>1, <5>1
      <4>4. KeptByStatement(d, k)'
        BY <1>2, <3>1, <4>2, <4>3 DEF KeptByStatement, SameContent
      <4>. QED
        BY <2>1, <2>5, <4>2, <4>4 DEF Kept
    <3>. QED
      BY <3>3, <3>4
  <2>. QED
    BY <2>3, <2>4, <2>5
<1>. QED
  BY <1>2, <1>3, <1>4 DEF KeptInv

LEMMA KeptInvSave ==
    ASSUME TypeOK, NEW rank, HistoryInv(rank), KeptInv, SaveSnapshot
    PROVE  KeptInv'
<1>1. /\ stack = <<>> /\ phase = "up" /\ snap' = states
      /\ UNCHANGED <<phase, states, stack, dbq, rows, latest>>
  BY DEF SaveSnapshot, Idle
<1>2. ASSUME NEW d \in Entities, states[d] # NoState
      PROVE  Kept(d)'
  <2>1. WrittenFrames(d) = {} /\ WrittenFrames(d)' = {} /\ Inserts(d)' = Inserts(d) /\ Kept(d)
    BY <1>1, <1>2 DEF WrittenFrames, Inserts, KeptInv
  <2>2. LatestRow(d)' = LatestRow(d) /\ LatestRow(d) \in StateRec \cup {NoState}
    BY <1>1, LatestRowType DEF LatestRow, IsLatest
  <2>3. CASE Inserts(d) # {}
    BY <1>1, <1>2, <2>1, <2>3 DEF Kept, KeptByStatement, SameContent
  <2>4. CASE Inserts(d) = {}
    <3>1. SameContent(Recoverable(d), states[d])
      BY <2>1, <2>4 DEF Kept
    <3>2. /\ states[d] \in StateRec /\ snap[d] \in StateRec \cup {NoState}
          /\ snap[d] # NoState => snap[d].updated <= states[d].updated
      BY <1>2 DEF TypeOK, StateMap, HistoryInv, NothingAhead
    <3>3. SameContent(Recoverable(d), states[d])'
      <4>1. CASE LatestRow(d) = NoState \/ states[d].updated > LatestRow(d).updated
        BY <1>1, <1>2, <2>2, <4>1 DEF Recoverable, Restored, SnapshotIsNewer, SameContent
      <4>2. CASE LatestRow(d) # NoState /\ ~(states[d].updated > LatestRow(d).updated)
        <5>1. Recoverable(d) = LatestRow(d)
          BY <2>2, <3>2, <4>2, RecordType DEF Recoverable, Restored, SnapshotIsNewer
        <5>2. Recoverable(d)' = LatestRow(d)
          BY <1>1, <2>2, <4>2 DEF Recoverable, Restored, SnapshotIsNewer
        <5>. QED
          BY <1>1, <3>1, <5>1, <5>2 DEF SameContent
      <4>. QED
        BY <4>1, <4>2
    <3>. QED
      BY <2>1, <2>4, <3>3 DEF Kept
  <2>. QED
    BY <2>3, <2>4
<1>. QED
  BY <1>1, <1>2 DEF KeptInv

LEMMA KeptInvBoot ==
    ASSUME TypeOK, NEW rank, HistoryInv(rank), KeptInv, Start \/ RestoreQuery \/ Restore \/ Crash
    PROVE  KeptInv'
<1>1. CASE Start
  <2>. DEFINE z == Len(dbq)
              q == [kind |-> "restore"]
  <2>1. /\ phase' = "restoring" /\ stack = <<>>
        /\ UNCHANGED <<states, stack, rows, snap>>
        /\ dbq' = Append(dbq, q)
    BY <1>1 DEF Start, Idle
  <2>2. /\ z \in Nat /\ DOMAIN dbq = 1 .. z /\ DOMAIN dbq' = 1 .. z + 1
        /\ dbq'[z + 1].kind = "restore" /\ \A i \in 1 .. z : dbq'[i] = dbq[i]
    BY <2>1 DEF TypeOK
  <2>. HIDE DEF z, q
  <2>3. \A d \in Entities : LatestRow(d)' = LatestRow(d) /\ Recoverable(d)' = Recoverable(d)
    BY <2>1 DEF LatestRow, IsLatest, Recoverable, Restored, SnapshotIsNewer
  <2>4. ASSUME NEW d \in Entities
        PROVE  /\ WrittenFrames(d)' = WrittenFrames(d) /\ WrittenFrames(d) = {}
               /\ Inserts(d)' = Inserts(d)
               /\ \A i \in Inserts(d) : dbq'[i] = dbq[i]
    <3>1. \A i \in 1 .. z : i \in Inserts(d)' <=> i \in Inserts(d)
      BY <2>2 DEF Inserts
    <3>2. Inserts(d) \subseteq 1 .. z /\ Inserts(d)' \subseteq 1 .. z + 1 /\ z + 1 \notin Inserts(d)'
      BY <2>2 DEF Inserts
    <3>3. Inserts(d)' \subseteq 1 .. z
      BY <2>2, <3>2
    <3>4. Inserts(d)' = Inserts(d)
      BY <3>1, <3>2, <3>3
    <3>5. WrittenFrames(d)' = WrittenFrames(d) /\ WrittenFrames(d) = {}
      BY <2>1 DEF WrittenFrames
    <3>. QED
      BY <2>2, <3>2, <3>4, <3>5
  <2>5. ASSUME NEW d \in Entities, Kept(d)
        PROVE  Kept(d)'
    <3>1. CASE Inserts(d) # {}
      <4>1. PICK i \in Inserts(d) : KeptByStatement(d, i)
        BY <2>4, <2>5, <3>1 DEF Kept
      <4>2. dbq'[i] = dbq[i] /\ Inserts(d)' = Inserts(d) /\ i \in Inserts(d)'
        BY <2>4, <4>1
      <4>3. /\ \A j \in Inserts(d)' : j <= i
            /\ SameContent(dbq'[i].rec, states'[d])
            /\ snap'[d] # NoState /\ snap'[d].updated > dbq'[i].rec.updated
                  => SameContent(snap'[d], states'[d])
        BY <2>1, <4>1, <4>2 DEF KeptByStatement
      <4>4. WrittenFrames(d)' = {}
        BY <2>4
      <4>. QED
        BY <4>2, <4>3, <4>4 DEF Kept, KeptByStatement, SameContent
    <3>2. CASE Inserts(d) = {}
      <4>1. SameContent(Recoverable(d)', states'[d])
        BY <2>1, <2>3, <2>4, <2>5, <3>2 DEF Kept
      <4>. QED
        BY <2>4, <3>2, <4>1 DEF Kept, SameContent
    <3>. QED
      BY <3>1, <3>2
  <2>. QED
    BY <2>1, <2>5 DEF KeptInv
<1>2. CASE RestoreQuery
  <2>1. /\ phase = "restoring" /\ dbq # <<>> /\ Head(dbq).kind = "restore" /\ dbq' = Tail(dbq)
        /\ UNCHANGED <<states, stack, rows, snap>>
        /\ latest' = [e \in Entities |-> LatestRow(e)]
    BY <1>2 DEF RestoreQuery
  <2>2. stack = <<>> /\ DOMAIN dbq = {1} /\ dbq[1].kind = "restore" /\ dbq' = <<>>
    <3>1. Len(dbq) \in Nat \ {0} /\ 1 \in DOMAIN dbq /\ Head(dbq) = dbq[1]
      BY <2>1 DEF TypeOK
    <3>2. Len(dbq) = 1
      BY <2>1, <3>1 DEF HistoryInv, RestoreIsLast
    <3>. QED
      BY <2>1, <3>1, <3>2 DEF HistoryInv, RestoreIsLast, TypeOK
  <2>3. \A d \in Entities : LatestRow(d)' = LatestRow(d) /\ Recoverable(d)' = Recoverable(d)
    BY <2>1 DEF LatestRow, IsLatest, Recoverable, Restored, SnapshotIsNewer
  <2>4. \A d \in Entities : /\ WrittenFrames(d)' = {} /\ WrittenFrames(d) = {}
                           /\ Inserts(d)' = {} /\ Inserts(d) = {}
    BY <2>1, <2>2 DEF WrittenFrames, Inserts
  <2>5. \A d \in Entities : Kept(d) => Kept(d)'
    BY <2>1, <2>3, <2>4 DEF Kept, SameContent
  <2>6. \A d \in Entities : latest'[d] = LatestRow(d)'
    BY <2>1, <2>3
  <2>. QED
    BY <2>1, <2>5, <2>6 DEF KeptInv
<1>3. CASE Restore
  <2>1. /\ phase = "loaded" /\ phase' = "up" /\ UNCHANGED <<stack, dbq, rows, snap>>
        /\ \A e \in Entities : states'[e] = Restored(e, LatestRow(e), states[e])
    BY <1>3 DEF Restore, disk, KeptInv
  <2>2. \A d \in Entities : /\ WrittenFrames(d)' = {} /\ WrittenFrames(d) = {}
                           /\ Inserts(d)' = {} /\ Inserts(d) = {}
    BY <2>1, LoadedIsQuiet DEF WrittenFrames, Inserts
  <2>3. ASSUME NEW d \in Entities, states'[d] # NoState
        PROVE  Kept(d)'
    <3>1. Recoverable(d)' = Recoverable(d)
      BY <2>1 DEF LatestRow, IsLatest, Recoverable, Restored, SnapshotIsNewer
    <3>2. CASE LatestRow(d) # NoState \/ states[d] = NoState
      <4>1. Recoverable(d) = states'[d]
        BY <2>1, <3>2 DEF Recoverable, Restored
      <4>. QED
        BY <2>2, <2>3, <3>1, <4>1 DEF Kept, SameContent
    <3>3. CASE LatestRow(d) = NoState /\ states[d] # NoState
      <4>1. states'[d] = states[d]
        BY <2>1, <3>3 DEF Restored
      <4>2. SameContent(Recoverable(d), states[d])
        BY <2>2, <3>3 DEF KeptInv, Kept
      <4>. QED
        BY <2>2, <3>1, <4>1, <4>2 DEF Kept, SameContent
    <3>. QED
      BY <3>2, <3>3
  <2>. QED
    BY <2>1, <2>3 DEF KeptInv
<1>4. CASE Crash
  <2>1. phase' = "down" /\ \A d \in Entities : states'[d] = NoState
    BY <1>4 DEF Crash, NoStates
  <2>. QED
    BY <2>1 DEF KeptInv
<1>. QED
  BY <1>1, <1>2, <1>3, <1>4

LEMMA KeptInvDelivery ==
    ASSUME TypeOK, NEW rank, FeedForward(rank), HistoryInv(rank), KeptInv, Deliver
    PROVE  KeptInv'
<1>. DEFINE n == Len(stack)
<1>1. stack # <<>>
  BY DEF Deliver, DeliverToMirror, DeliverIgnored, DeliverReaction, Return
<1>2. phase \in {"init", "up"}
  BY <1>1 DEF HistoryInv, RestoreIsLast, TypeOK
<1>3. /\ n \in Nat \ {0} /\ DOMAIN stack = 1 .. n /\ DOMAIN Called = 1 .. n
      /\ Top = stack[n] /\ Top \in Frame /\ Called \in Seq(Frame) /\ Len(Called) = Len(stack)
      /\ Called[n] = [Top EXCEPT !.next = @ + 1]
      /\ \A k \in 1 .. n - 1 : Called[k] = stack[k]
  BY <1>1, TopType, CalledProperties DEF Top, TypeOK
<1>. HIDE DEF n
<1>4. \A k \in DOMAIN stack : /\ Called[k].entity = stack[k].entity
                              /\ Called[k].old = stack[k].old
                              /\ Called[k].new = stack[k].new
  <2>. TAKE k \in DOMAIN stack
  <2>1. CASE k = n
    BY <1>3, <2>1 DEF Frame
  <2>2. CASE k # n
    BY <1>3, <2>2
  <2>. QED
    BY <2>1, <2>2
<1>5. CASE DeliverToMirror \/ DeliverIgnored
  <2>1. stack' = Called /\ UNCHANGED <<phase, states, dbq, rows, snap, latest>>
    BY <1>5 DEF DeliverToMirror, DeliverIgnored, disk
  <2>. QED
    BY <1>3, <1>4, <2>1, KeptInvSame
<1>6. CASE DeliverReaction
  <2>1. PICK r \in Reactions : SetState(r.set, r.val, r.attrs, Called)
    BY <1>6 DEF DeliverReaction
  <2>2. PICK e \in Entities : e = r.set
    BY StateMachineAssumption DEF Reaction
  <2>3. r.val \in Values /\ r.attrs \in Attrs
    BY StateMachineAssumption DEF Reaction
  <2>. DEFINE new == NewState(states[e], r.val, r.attrs)
  <2>4. /\ states' = [states EXCEPT ![e] = new]
        /\ stack' = Append(Called, Emission(e, states[e], new))
        /\ UNCHANGED <<phase, dbq, rows, snap>>
    BY <1>6, <2>1, <2>2 DEF SetState, DeliverReaction, disk
  <2>5. new \in StateRec /\ \E s \in Values, a \in Attrs : new = NewState(states[e], s, a)
    BY <2>3, NewStateType
  <2>. HIDE DEF new
  <2>. QED
    BY <1>2, <1>3, <1>4, <2>4, <2>5, KeptInvSet
<1>. QED
  BY <1>5, <1>6, KeptInvReturn DEF Deliver, FeedForward

LEMMA KeptInvTask ==
    ASSUME TypeOK, "early" \notin Env, NEW rank, HistoryInv(rank), KeptInv,
           \/ \E e \in Entities, s \in Values, a \in Attrs : ExternalSet(e, s, a)
           \/ \E e \in Entities : RemoveEntity(e)
    PROVE  KeptInv'
<1>1. ASSUME NEW e \in Entities, NEW new \in StateRec \cup {NoState},
             new # NoState => \E s \in Values, a \in Attrs : new = NewState(states[e], s, a),
             states' = [states EXCEPT ![e] = new],
             stack' = Append(stack, Emission(e, states[e], new)),
             MayTouch,
             UNCHANGED <<phase, dbq, rows, snap>>
      PROVE  KeptInv'
  <2>1. stack = <<>> /\ phase \in {"init", "up"}
    BY <1>1 DEF MayTouch, Idle, Running, TypeOK
  <2>2. stack \in Seq(Frame) /\ DOMAIN stack = {}
    BY <2>1 DEF TypeOK
  <2>. QED
    BY <1>1, <2>1, <2>2, KeptInvSet
<1>2. ASSUME NEW e \in Entities, NEW s \in Values, NEW a \in Attrs, ExternalSet(e, s, a)
      PROVE  KeptInv'
  <2>. DEFINE new == NewState(states[e], s, a)
  <2>1. new \in StateRec /\ MayTouch
        /\ UNCHANGED <<phase, dbq, rows, snap>>
        /\ states' = [states EXCEPT ![e] = new]
        /\ stack' = Append(stack, Emission(e, states[e], new))
    BY <1>2, NewStateType DEF ExternalSet, SetState, disk
  <2>2. \E v \in Values, b \in Attrs : new = NewState(states[e], v, b)
    OBVIOUS
  <2>. HIDE DEF new
  <2>. QED
    BY <1>1, <2>1, <2>2
<1>3. ASSUME NEW e \in Entities, RemoveEntity(e)
      PROVE  KeptInv'
  BY <1>1, <1>3 DEF RemoveEntity, disk
<1>. QED
  BY <1>2, <1>3

LEMMA KeptInvNext ==
    ASSUME TypeOK, Env \cap {"early", "failure", "prune"} = {},
           NEW rank, FeedForward(rank), HistoryInv(rank), KeptInv, [Next]_vars
    PROVE  KeptInv'
<1>1. CASE \/ UNCHANGED vars
           \/ \E l \in Listeners : Listen(l) \/ Unlisten(l)
           \/ \E a \in Automations : RunSettles(a)
           \/ Boot \/ Tick
  <2>1. /\ UNCHANGED <<states, stack, dbq, rows, snap, latest>>
        /\ phase' = "loaded" => phase = "loaded"
    BY <1>1 DEF vars, Listen, Unlisten, RunSettles, Boot, Tick, disk
  <2>. QED
    BY <2>1, KeptInvSame
<1>2. CASE InsertFails \/ RestoreFails \/ Prune
  BY <1>2 DEF InsertFails, RestoreFails, Prune
<1>. QED
  BY <1>1, <1>2, KeptInvDelivery, KeptInvTask, KeptInvInsert, KeptInvSave, KeptInvBoot
     DEF Next, Database

LEMMA KeptInvariant ==
    ASSUME Env \cap {"early", "failure", "prune"} = {}, NEW rank, FeedForward(rank)
    PROVE  Spec => [](HistoryInv(rank) /\ KeptInv)
<1>1. "early" \notin Env
  OBVIOUS
<1>2. Init => KeptInv
  BY DEF Init, KeptInv, NoStates
<1>3. TypeOK /\ HistoryInv(rank) /\ KeptInv /\ [Next]_vars => KeptInv'
  BY KeptInvNext
<1>4. Spec => []HistoryInv(rank)
  BY <1>1, HistoryInvariant
<1>. QED
  BY <1>2, <1>3, <1>4, TypeCorrect, PTL DEF Spec

(* As long as the database rejects nothing and nothing is pruned, a        *)
(* restart would bring back what is known of every entity once the issued  *)
(* statements are executed, whatever crashes, torn snapshots and removals  *)
(* came before (setState(), saveSnapshot(), restoreStates()).              *)
THEOREM RestartKeepsWhatIsKnown ==
    ASSUME Env \cap {"early", "failure", "prune"} = {}, NEW rank, FeedForward(rank)
    PROVE  Spec => []RestartKeepsLastKnown
<1>1. TypeOK /\ HistoryInv(rank) /\ KeptInv => RestartKeepsLastKnown
  <2>. SUFFICES ASSUME KeptInv, Idle, dbq = <<>>, NEW e \in Entities, states[e] # NoState
                PROVE  SameContent(Recoverable(e), states[e])
    BY DEF RestartKeepsLastKnown
  <2>1. WrittenFrames(e) = {} /\ Inserts(e) = {}
    BY DEF WrittenFrames, Inserts, Idle
  <2>. QED
    BY <2>1 DEF KeptInv, Kept
<1>. QED
  BY <1>1, TypeCorrect, KeptInvariant, PTL
=============================================================================

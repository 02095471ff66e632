---------------------------- MODULE StateMachine ----------------------------
(***************************************************************************)
(* The state machine of the hub (core/state-machine) on top of the event   *)
(* bus (core/event-bus), the history table and the snapshot file, across   *)
(* crashes and restarts.                                                   *)
(*                                                                         *)
(* Node runs one task at a time, and `fire' calls the listeners            *)
(* synchronously, in registration order.  A listener may itself call       *)
(* setState before it returns, so emissions nest: `stack' holds the        *)
(* emissions in progress, the innermost last.  Everything that is a task   *)
(* of its own (a request, a timer, the continuation of an await) waits     *)
(* until the stack is empty.                                               *)
(***************************************************************************)
EXTENDS Integers, Sequences, FiniteSets

CONSTANTS
    Entities,     \* entity ids
    Values,       \* state strings
    Attrs,        \* serialized attribute objects
    NoState,      \* "not in the map": undefined / null
    Automations,  \* listeners that call setState while they handle an event
    Mirrors,      \* listeners that keep a copy of the states (UI sessions)
    Reactions,    \* what the automations do, see Reaction
    Env,          \* what the environment does: subset of Behaviours
    Retention,    \* clock ticks a history row is kept (30 days in the code)
    MaxClock,     \* bound: last value of the clock
    MaxRows,      \* bound: rows written or on their way to the table
    MaxBoots      \* bound: starts of the process

(* What may happen around the state machine; a run names what it includes. *)
(*   early   an integration sets states before its first wait for the      *)
(*           database, that is while restoreStates still awaits its query  *)
(*   failure the database rejects a statement                              *)
(*   torn    the process dies inside writeFileSync of the snapshot         *)
(*   prune   the 30-day pruning deletes rows                               *)
(*   remove  entities are removed (REST DELETE, MQTT discovery)            *)
Behaviours == {"early", "failure", "torn", "prune", "remove"}

Time == 0 .. MaxClock

(* An automation `by' whose state trigger (entity `on' becomes `to') calls *)
(* a service whose handler sets `set' to `val' before its first await.     *)
Reaction == [by : Automations, on : Entities, to : Values,
             set : Entities, val : Values, attrs : Attrs]

StateRec == [state : Values, attrs : Attrs, changed : Time, updated : Time]

ASSUME StateMachineAssumption ==
    /\ NoState \notin StateRec
    /\ Automations \cap Mirrors = {}
    /\ Reactions \subseteq Reaction
    /\ Env \subseteq Behaviours
    /\ {Retention, MaxClock, MaxRows, MaxBoots} \subseteq Nat

VARIABLES
    phase,    \* "down", "init", "restoring", "loaded" or "up"
    now,      \* Date.now(), never going back
    states,   \* the in-memory map
    stack,    \* emissions of state_changed in progress
    order,    \* listeners of state_changed, in registration order
    running,  \* automations whose run has not settled
    held,     \* the copy of the states each mirror keeps
    dbq,      \* statements issued to the single database connection
    rows,     \* the table states_history
    nextId,   \* its AUTOINCREMENT counter
    snap,     \* state-snapshot.json, empty when missing or unreadable
    latest,   \* what the restore query returned
    boots,    \* starts so far
    front     \* auxiliary: the mirrors no automation has ever been ahead of

vars == <<phase, now, states, stack, order, running, held,
          dbq, rows, nextId, snap, latest, boots, front>>

bus == <<order, running, held, front>>
disk == <<dbq, rows, nextId, snap, latest>>
-----------------------------------------------------------------------------
Listeners == Automations \cup Mirrors
StateMap == [Entities -> StateRec \cup {NoState}]
NoStates == [e \in Entities |-> NoState]
Row == [id : Nat, entity : Entities, rec : StateRec]

(* One call of emitter.emit: the event and the index in `order' of the     *)
(* next listener to call.  The emitter copies the handlers when it emits;  *)
(* `order' only changes between tasks, so the copy is `order' itself.      *)
Frame == [entity : Entities, old : StateRec \cup {NoState},
          new : StateRec \cup {NoState}, next : Nat \ {0}]

Statement == [kind : {"insert"}, entity : Entities, rec : StateRec]
                \cup [kind : {"restore"}]

Idle == stack = <<>>
Running == phase # "down"
Top == stack[Len(stack)]

TypeOK ==
    /\ phase \in {"down", "init", "restoring", "loaded", "up"}
    /\ now \in Time
    /\ states \in StateMap
    /\ stack \in Seq(Frame)
    /\ order \in Seq(Listeners)
    /\ running \subseteq Automations
    /\ held \in [Mirrors -> StateMap]
    /\ dbq \in Seq(Statement)
    /\ rows \subseteq Row
    /\ nextId \in Nat
    /\ snap \in StateMap
    /\ latest \in StateMap
    /\ boots \in Nat
    /\ front \subseteq Mirrors

Init ==
    /\ phase = "down" /\ now = 0
    /\ states = NoStates /\ stack = <<>>
    /\ order = <<>> /\ running = {} /\ held = [m \in Mirrors |-> NoStates]
    /\ dbq = <<>> /\ rows = {} /\ nextId = 1
    /\ snap = NoStates /\ latest = NoStates /\ boots = 0
    /\ front = {}
-----------------------------------------------------------------------------
(* The event bus. *)

(* fire: the event is put on the wire; its listeners are called by Deliver *)
(* steps, the first of them first.                                         *)
Emission(e, old, new) == [entity |-> e, old |-> old, new |-> new, next |-> 1]

Registered == {order[i] : i \in DOMAIN order}

(* The top emission calls its next listener.                               *)
Called == [stack EXCEPT ![Len(stack)].next = @ + 1]

(* listen: sessions can only connect once the bootstrap is over; they read *)
(* the states and subscribe (HaGateway splits the two).                    *)
Listen(l) ==
    /\ Running /\ Idle
    /\ l \in Mirrors => phase = "up"
    /\ l \notin Registered
    /\ order' = Append(order, l)
    /\ held' = IF l \in Mirrors THEN [held EXCEPT ![l] = states] ELSE held
    /\ front' = IF l \in Mirrors /\ Registered \cap Automations = {}
                THEN front \cup {l} ELSE front
    /\ UNCHANGED <<phase, now, states, stack, running, disk, boots>>

Unlisten(l) ==
    /\ Running /\ Idle
    /\ \E i \in DOMAIN order :
          /\ order[i] = l
          /\ order' = SubSeq(order, 1, i - 1) \o SubSeq(order, i + 1, Len(order))
    /\ front' = front \ {l}
    /\ UNCHANGED <<phase, now, states, stack, running, held, disk, boots>>
-----------------------------------------------------------------------------
(* The state machine. *)

(* Faulty variant: last_changed is never moved once it is set.             *)
NewStateSticky(old, s, a) ==
    [state |-> s, attrs |-> a, updated |-> now,
     changed |-> IF old = NoState THEN now ELSE old.changed]

(* The frozen record setState builds: last_changed moves only with the     *)
(* state string, last_updated on every call.                               *)
NewState(old, s, a) ==
    [state |-> s, attrs |-> a, updated |-> now,
     changed |-> IF old = NoState \/ old.state # s THEN now ELSE old.changed]

(* Faulty variant: no event when the state string stays the same.          *)
SetStateQuiet(e, s, a, base) ==
    LET new == NewState(states[e], s, a)
    IN  /\ states' = [states EXCEPT ![e] = new]
        /\ stack' = IF states[e] # NoState /\ states[e].state = s THEN base
                    ELSE Append(base, Emission(e, states[e], new))

(* setState up to and including the call of fire, made by the task or by   *)
(* the listener that `base' leaves in progress.                            *)
SetState(e, s, a, base) ==
    LET new == NewState(states[e], s, a)
    IN  /\ states' = [states EXCEPT ![e] = new]
        /\ stack' = Append(base, Emission(e, states[e], new))

(* Faulty variant: only the attributes are compared.                       *)
UnchangedAttrsOnly(f) == f.old # NoState /\ f.new # NoState
                            /\ f.old.attrs = f.new.attrs

(* Nothing is written when neither the state nor the attributes changed.   *)
Unchanged(f) == f.old # NoState /\ f.new # NoState
                   /\ f.old.state = f.new.state /\ f.old.attrs = f.new.attrs

RoomForRow == nextId + Len(dbq) + Len(stack) <= MaxRows

(* While the restore is under way only an `early' integration touches the  *)
(* map; the others start with a wait for the database.                     *)
MayTouch == Running /\ Idle /\ (phase \in {"restoring", "loaded"} => "early" \in Env)

(* Integrations, REST and WebSocket calls set states.                      *)
ExternalSet(e, s, a) ==
    /\ MayTouch /\ RoomForRow
    /\ SetState(e, s, a, stack)
    /\ UNCHANGED <<phase, now, bus, disk, boots>>

RemoveEntity(e) ==
    /\ "remove" \in Env /\ MayTouch
    /\ states[e] # NoState
    /\ states' = [states EXCEPT ![e] = NoState]
    /\ stack' = Append(stack, Emission(e, states[e], NoState))
    /\ UNCHANGED <<phase, now, bus, disk, boots>>

(* A mirror applies the event: the new state, or the removal.              *)
DeliverToMirror ==
    /\ stack # <<>> /\ Top.next <= Len(order)
    /\ order[Top.next] \in Mirrors
    /\ held' = [held EXCEPT ![order[Top.next]][Top.entity] = Top.new]
    /\ stack' = Called
    /\ UNCHANGED <<phase, now, states, order, running, front, disk, boots>>

Matches(r, f) == f.new # NoState /\ r.on = f.entity /\ r.to = f.new.state

(* An automation whose trigger does not match, or which is running already *)
(* (the loop protection of the engine), returns at once ...                *)
DeliverIgnored ==
    /\ stack # <<>> /\ Top.next <= Len(order)
    /\ order[Top.next] \in Automations
    /\ \/ order[Top.next] \in running
       \/ \A r \in Reactions : r.by = order[Top.next] => ~Matches(r, Top)
    /\ stack' = Called
    /\ UNCHANGED <<phase, now, states, bus, disk, boots>>

(* ... any other runs its action inside the emission, so the event of its  *)
(* setState overtakes the one being delivered.                             *)
DeliverReaction ==
    /\ stack # <<>> /\ Top.next <= Len(order)
    /\ order[Top.next] \in Automations \ running
    /\ \E r \in Reactions :
          /\ r.by = order[Top.next] /\ Matches(r, Top)
          /\ SetState(r.set, r.val, r.attrs, Called)
    /\ running' = running \cup {order[Top.next]}
    /\ UNCHANGED <<phase, now, order, held, front, disk, boots>>

(* Faulty variant: a removal is written to the history as well.            *)
ReturnAlwaysWrites ==
    /\ stack # <<>> /\ Top.next > Len(order)
    /\ stack' = SubSeq(stack, 1, Len(stack) - 1)
    /\ dbq' = Append(dbq, [kind |-> "insert", entity |-> Top.entity, rec |-> Top.new])
    /\ UNCHANGED <<phase, now, states, bus, rows, nextId, snap, latest, boots>>

(* fire returns; setState goes on to issue the insert, or skips it.        *)
Return ==
    /\ stack # <<>> /\ Top.next > Len(order)
    /\ stack' = SubSeq(stack, 1, Len(stack) - 1)
    /\ dbq' = IF Top.new = NoState \/ Unchanged(Top) THEN dbq
              ELSE Append(dbq, [kind |-> "insert", entity |-> Top.entity,
                                rec |-> Top.new])
    /\ UNCHANGED <<phase, now, states, bus, rows, nextId, snap, latest, boots>>

(* The promise of the automation's run settles.                            *)
RunSettles(a) ==
    /\ Idle /\ a \in running
    /\ running' = running \ {a}
    /\ UNCHANGED <<phase, now, states, stack, order, held, front, disk, boots>>
-----------------------------------------------------------------------------
(* The history table and the snapshot file. *)

(* Faulty variant: the oldest row instead of the newest.                   *)
IsOldest(r, e) == r.entity = e /\ \A q \in rows : q.entity = e => q.id >= r.id

(* SELECT ... WHERE id IN (SELECT MAX(id) ... GROUP BY entity_id)          *)
IsLatest(r, e) == r.entity = e /\ \A q \in rows : q.entity = e => q.id <= r.id

LatestRow(e) == IF \E r \in rows : IsLatest(r, e)
                THEN (CHOOSE r \in rows : IsLatest(r, e)).rec
                ELSE NoState

(* persistState, when the database gets to it.                             *)
Insert ==
    /\ dbq # <<>> /\ Head(dbq).kind = "insert"
    /\ rows' = rows \cup {[id |-> nextId, entity |-> Head(dbq).entity,
                           rec |-> Head(dbq).rec]}
    /\ nextId' = nextId + 1
    /\ dbq' = Tail(dbq)
    /\ UNCHANGED <<phase, now, states, stack, bus, snap, latest, boots>>

(* The insert is rejected: the error is logged, nothing retries it.        *)
InsertFails ==
    /\ "failure" \in Env
    /\ dbq # <<>> /\ Head(dbq).kind = "insert"
    /\ dbq' = Tail(dbq)
    /\ UNCHANGED <<phase, now, states, stack, bus, rows, nextId, snap, latest, boots>>

(* pruneHistory, at start and every 24 hours: it looks at the age of a row *)
(* only, so the last row of a quiet entity goes too.                       *)
Prune ==
    /\ "prune" \in Env /\ Running /\ Idle
    /\ rows' = {r \in rows : r.rec.updated >= now - Retention}
    /\ rows' # rows
    /\ UNCHANGED <<phase, now, states, stack, bus, dbq, nextId, snap, latest, boots>>

(* The 30 s timer; it only exists once the restore is over.                *)
SaveSnapshot ==
    /\ phase = "up" /\ Idle
    /\ snap' = states
    /\ UNCHANGED <<phase, now, states, stack, bus, dbq, rows, nextId, latest, boots>>
-----------------------------------------------------------------------------
(* Start, restore and crash. *)

Boot ==
    /\ phase = "down" /\ boots < MaxBoots
    /\ phase' = "init" /\ boots' = boots + 1
    /\ UNCHANGED <<now, states, stack, bus, disk>>

(* homeassistant_start: restoreStates reads the snapshot and issues its    *)
(* query; the caller does not wait for it.                                 *)
Start ==
    /\ phase = "init" /\ Idle
    /\ phase' = "restoring"
    /\ dbq' = Append(dbq, [kind |-> "restore"])
    /\ UNCHANGED <<now, states, stack, bus, rows, nextId, snap, latest, boots>>

RestoreQuery ==
    /\ phase = "restoring"
    /\ dbq # <<>> /\ Head(dbq).kind = "restore"
    /\ dbq' = Tail(dbq)
    /\ latest' = [e \in Entities |-> LatestRow(e)]
    /\ phase' = "loaded"
    /\ UNCHANGED <<now, states, stack, bus, rows, nextId, snap, boots>>

(* The query is rejected: the error is caught, the hub goes on without the *)
(* restore and the snapshot timer starts all the same.                     *)
RestoreFails ==
    /\ "failure" \in Env /\ phase = "restoring"
    /\ dbq # <<>> /\ Head(dbq).kind = "restore"
    /\ dbq' = Tail(dbq)
    /\ phase' = "up"
    /\ UNCHANGED <<now, states, stack, bus, rows, nextId, snap, latest, boots>>

(* Faulty variant: the snapshot wins whenever it has the entity.           *)
SnapshotExists(e, rec) == snap[e] # NoState

SnapshotIsNewer(e, rec) == snap[e] # NoState /\ snap[e].updated > rec.updated

(* What restoreStates leaves in the map for e, given the last row of e and *)
(* what the map already holds.                                             *)
Restored(e, rec, current) ==
    IF rec # NoState
    THEN IF SnapshotIsNewer(e, rec) THEN snap[e] ELSE rec
    ELSE IF current = NoState THEN snap[e] ELSE current

Restore ==
    /\ phase = "loaded" /\ Idle
    /\ states' = [e \in Entities |-> Restored(e, latest[e], states[e])]
    /\ phase' = "up"
    /\ UNCHANGED <<now, stack, bus, disk, boots>>

(* Memory and the statements not yet executed are lost; the mirrors find   *)
(* nothing to listen to until they register again.                         *)
Crash ==
    /\ Running
    /\ phase' = "down"
    /\ states' = NoStates /\ stack' = <<>>
    /\ order' = <<>> /\ running' = {} /\ held' = [m \in Mirrors |-> NoStates]
    /\ front' = {}
    /\ dbq' = <<>> /\ latest' = NoStates
    /\ \/ snap' = snap
       \/ "torn" \in Env /\ phase = "up" /\ Idle /\ snap' = NoStates
    /\ UNCHANGED <<now, rows, nextId, boots>>

Tick ==
    /\ now < MaxClock
    /\ now' = now + 1
    /\ UNCHANGED <<phase, states, stack, bus, disk, boots>>
-----------------------------------------------------------------------------
Deliver == DeliverToMirror \/ DeliverIgnored \/ DeliverReaction \/ Return

Database == Insert \/ InsertFails \/ RestoreQuery \/ RestoreFails

Next ==
    \/ \E l \in Listeners : Listen(l) \/ Unlisten(l)
    \/ \E e \in Entities, s \in Values, a \in Attrs : ExternalSet(e, s, a)
    \/ \E e \in Entities : RemoveEntity(e)
    \/ Deliver
    \/ \E a \in Automations : RunSettles(a)
    \/ Database
    \/ Prune \/ SaveSnapshot
    \/ Boot \/ Start \/ Restore \/ Crash
    \/ Tick

Spec == Init /\ [][Next]_vars

(* Calls return, the database executes what was issued, and the 30 s timer *)
(* keeps firing; nothing else is promised.                                 *)
Fairness ==
    /\ WF_vars(Deliver)
    /\ WF_vars(Insert \/ RestoreQuery)
    /\ WF_vars(Start) /\ WF_vars(Restore)
    /\ WF_vars(SaveSnapshot)

FairSpec == Spec /\ Fairness
-----------------------------------------------------------------------------
(* A mirror no automation was ever ahead of agrees with the map between    *)
(* tasks: however setState calls nest inside the automations behind it, it *)
(* hears of them in the order they were made.                              *)
FrontMirrorFresh == Idle => \A m \in front : held[m] = states

(* The inductive invariant behind it.  A front mirror comes before every   *)
(* automation; an emission that is not the innermost is suspended inside   *)
(* an automation, so it has passed every front mirror; and the innermost   *)
(* emission still carries the current state until an automation runs.      *)
FrontLeads ==
    \A m \in front : \E i \in DOMAIN order :
        order[i] = m /\ \A j \in 1 .. i : order[j] \notin Automations

RegisteredOnce == \A i, j \in DOMAIN order : order[i] = order[j] => i = j

SuspendedInAutomation ==
    \A k \in 1 .. Len(stack) - 1 :
        stack[k].next - 1 \in DOMAIN order /\ order[stack[k].next - 1] \in Automations

NotYetOvertaken(f) == \A j \in DOMAIN order : j < f.next => order[j] \notin Automations

InnermostIsCurrent ==
    stack # <<>> /\ NotYetOvertaken(Top) => states[Top.entity] = Top.new

Undelivered(m) == \A j \in DOMAIN order : j < Top.next => order[j] # m

HeldUpToInnermost ==
    \A m \in front, e \in Entities :
        \/ held[m][e] = states[e]
        \/ stack # <<>> /\ e = Top.entity /\ Undelivered(m)

FrontInv ==
    /\ front # {} => phase = "up"
    /\ FrontLeads /\ RegisteredOnce
    /\ SuspendedInAutomation
    /\ InnermostIsCurrent
    /\ HeldUpToInnermost

(* last_changed tells since when the state has been what it is: no row of  *)
(* the history written after it, up to last_updated, has another state.    *)
SinceLastChanged ==
    \A r \in rows :
        LET c == states[r.entity]
        IN  c # NoState /\ c.changed < r.rec.updated /\ r.rec.updated <= c.updated
                => r.rec.state = c.state

(* Automations feed forward when none has to do, directly or through the   *)
(* others, with the entity that set it off - except one that sets what is  *)
(* set already.                                                            *)
Confirms(r) == r.on = r.set /\ r.to = r.val /\ Attrs = {r.attrs}

FeedForward(rank) ==
    /\ rank \in [Entities -> Int]
    /\ \A r \in Reactions : rank[r.on] < rank[r.set] \/ Confirms(r)

(* The inductive invariant behind SinceLastChanged and RestoreIsNewest     *)
(* when automations feed forward and nothing sets a state before the       *)
(* restore.  Agrees relates a record to an earlier one of the entity: it   *)
(* is not older, and had the state since its last_changed.  Every record   *)
(* agrees with those the history has before it, in the order of their      *)
(* ids, then of the statements, then of the emissions; the map with all of *)
(* them; and the snapshot with those that are older than it.               *)
Agrees(c, r) == r.updated <= c.updated /\ (c.changed < r.updated => r.state = c.state)

Writes(f) == f.new # NoState /\ ~Unchanged(f)

WrittenFrames(e) == {k \in DOMAIN stack : Writes(stack[k]) /\ stack[k].entity = e}

Inserts(e) == {i \in DOMAIN dbq : dbq[i].kind = "insert" /\ dbq[i].entity = e}

History(e) ==
    {r.rec : r \in {q \in rows : q.entity = e}}
        \cup {dbq[i].rec : i \in Inserts(e)}
        \cup {stack[k].new : k \in WrittenFrames(e)}

RestoreIsLast ==
    /\ \A i \in DOMAIN dbq : dbq[i].kind = "restore" => i = Len(dbq) /\ phase = "restoring"
    /\ phase = "restoring" => stack = <<>>
    /\ phase \in {"loaded", "down"} => stack = <<>> /\ dbq = <<>>
    /\ phase = "down" => states = NoStates

NestedForward(rank) ==
    \A j \in DOMAIN stack : \A k \in 1 .. j - 1 :
        \/ rank[stack[k].entity] < rank[stack[j].entity]
        \/ stack[k].entity = stack[j].entity /\ ~Writes(stack[j])

EmittedHolds ==
    \A k \in DOMAIN stack :
        LET c == states[stack[k].entity]
        IN  IF stack[k].new = NoState THEN c = NoState
            ELSE c # NoState /\ c.state = stack[k].new.state

NothingAhead ==
    /\ \A r \in rows : r.id < nextId
    /\ \A e \in Entities :
          /\ \A r \in History(e) : r.updated <= now
          /\ states[e] # NoState => states[e].updated <= now
          /\ snap[e] # NoState => snap[e].updated <= now
          /\ states[e] # NoState /\ snap[e] # NoState => snap[e].updated <= states[e].updated

RowsAgree ==
    \A q, r \in rows : /\ q.entity = r.entity /\ r.id < q.id => Agrees(q.rec, r.rec)
                       /\ q.id = r.id => q = r

StatementsAgree ==
    \A e \in Entities : \A i \in Inserts(e) :
        /\ \A r \in rows : r.entity = e => Agrees(dbq[i].rec, r.rec)
        /\ \A j \in Inserts(e) : j < i => Agrees(dbq[i].rec, dbq[j].rec)

EmissionsAgree ==
    \A e \in Entities : \A k \in WrittenFrames(e) :
        /\ \A r \in rows : r.entity = e => Agrees(stack[k].new, r.rec)
        /\ \A i \in Inserts(e) : Agrees(stack[k].new, dbq[i].rec)

StatesAgree ==
    \A e \in Entities : \A r \in History(e) : states[e] # NoState => Agrees(states[e], r)

SnapshotAgrees ==
    \A e \in Entities : \A r \in History(e) :
        snap[e] # NoState /\ r.updated < snap[e].updated => Agrees(snap[e], r)

LatestAgrees ==
    phase = "loaded" => \A e \in Entities :
        /\ latest[e] # NoState => latest[e].updated <= now
        /\ \A r \in rows : r.entity = e => latest[e] # NoState /\ Agrees(latest[e], r.rec)

HistoryInv(rank) ==
    /\ RestoreIsLast
    /\ NestedForward(rank) /\ EmittedHolds
    /\ NothingAhead
    /\ RowsAgree /\ StatementsAgree /\ EmissionsAgree
    /\ StatesAgree /\ SnapshotAgrees /\ LatestAgrees

(* What a restart would bring back for e if nothing more were written.     *)
Recoverable(e) == Restored(e, LatestRow(e), NoState)

SameContent(r, c) == r # NoState /\ r.state = c.state /\ r.attrs = c.attrs

(* Once the database has caught up, a restart brings back the last known   *)
(* state of every entity.                                                  *)
RestartKeepsLastKnown ==
    phase = "up" /\ Idle /\ dbq = <<>> =>
        \A e \in Entities :
            states[e] # NoState => SameContent(Recoverable(e), states[e])

(* The inductive invariant behind it when moreover no statement is         *)
(* rejected and nothing is pruned: the content of a known state is in the  *)
(* last emission to be written, else in the last statement, else in what a *)
(* restart would find; and a snapshot newer than the last statement has it *)
(* too.                                                                    *)
KeptByStatement(e, i) ==
    /\ \A j \in Inserts(e) : j <= i
    /\ SameContent(dbq[i].rec, states[e])
    /\ snap[e] # NoState /\ snap[e].updated > dbq[i].rec.updated
          => SameContent(snap[e], states[e])

Kept(e) ==
    IF WrittenFrames(e) # {}
    THEN \E k \in WrittenFrames(e) :
            /\ SameContent(stack[k].new, states[e])
            /\ snap[e] # NoState => snap[e].updated <= stack[k].new.updated
    ELSE IF Inserts(e) # {} THEN \E i \in Inserts(e) : KeptByStatement(e, i)
    ELSE SameContent(Recoverable(e), states[e])

KeptInv ==
    /\ \A e \in Entities : states[e] # NoState => Kept(e)
    /\ phase = "loaded" => \A e \in Entities : latest[e] = LatestRow(e)

(* The restore brings back the most recent of what the disk holds.         *)
RestoreIsNewest ==
    [][phase = "loaded" /\ phase' = "up" =>
          /\ \A e \in Entities : snap[e] # NoState =>
                states'[e] # NoState /\ states'[e].updated >= snap[e].updated
          /\ \A r \in rows : states'[r.entity].updated >= r.rec.updated]_vars

(* The restore never replaces what an integration has already reported by  *)
(* something older.  The start event is fired, and nobody waits for the    *)
(* restore: an `early' integration refutes this.                           *)
RestoreKeepsNewer ==
    [][phase = "loaded" /\ phase' = "up" =>
          \A e \in Entities : states[e] # NoState =>
              \/ SameContent(states'[e], states[e])
              \/ states'[e] # NoState /\ states'[e].updated > states[e].updated]_vars

(* Again and again a restart would bring back the state of every entity:   *)
(* a state that stays is sooner or later on disk, unless the process dies. *)
EventuallyRecoverable ==
    \A e \in Entities :
        []<>(\/ phase # "up" \/ states[e] = NoState
             \/ Recoverable(e) # NoState /\ Recoverable(e).state = states[e].state)
=============================================================================

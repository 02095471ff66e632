------------------------------ MODULE Schedule ------------------------------
(***************************************************************************)
(* The weekly thermostat schedule: ThermostatScheduler in the browsers,    *)
(* ThermostatScheduleService, which keeps the table and every five minutes *)
(* sets each thermostat to the temperature of the current slot, and the    *)
(* thermostats.                                                            *)
(***************************************************************************)
EXTENDS Naturals, FiniteSets, FiniteSetsExt

CONSTANTS Climates, Temps, Browsers,
          MaxSlot,       \* the slots (day and hour) are 1, 2, ...
          MaxPaints,     \* how often somebody edits, selects, applies or sets by hand
          MaxSaves,      \* how often Save is pressed
          MaxCrashes     \* how often the server restarts

\* without a thermostat there is no scheduler
ASSUME ScheduleAssumption == Climates # {}

VARIABLES
    rows,        \* the table: per climate a set of <<slot, temperature>>
    now,         \* the current slot
    editor,      \* per browser: climate shown, entries, saving
    loads,       \* schedules on their way to a browser
    saves,       \* saveSchedule() calls under way
    acked,       \* per climate {entries} of the last save that was answered, or {}
    mixed,       \* climates with two saves under way at once
    applies,     \* applyCurrentSlot() calls under way: what they still set
    setpoint,    \* the temperature of each thermostat
    ready,       \* climate.set_temperature is registered
    sched        \* how much has happened

scheduleVars == <<rows, now, editor, loads, saves, acked, mixed, applies,
                  setpoint, ready, sched>>

Slots == 1 .. MaxSlot
Table == SUBSET (Slots \X Temps)
AtSlot(c, s) == {r[2] : r \in {x \in rows[c] : x[1] = s}}

(* A browser shows the first climate of the list, which has no schedule.   *)
ScheduleInit ==
    /\ rows = [c \in Climates |-> {}]
    /\ now = 1
    /\ editor = [b \in Browsers |-> [climate |-> CHOOSE c \in Climates : TRUE,
                                     entries |-> {}, saving |-> FALSE]]
    /\ loads = {} /\ saves = {}
    /\ acked = [c \in Climates |-> {}] /\ mixed = {}
    /\ applies = {}
    /\ \E t \in Temps : setpoint = [c \in Climates |-> t]
    /\ ready = FALSE
    /\ sched = [paints |-> 0, saves |-> 0, crashes |-> 0]

-----------------------------------------------------------------------------
(* The editor.                                                             *)
Hand == /\ sched.paints < MaxPaints
        /\ sched' = [sched EXCEPT !.paints = @ + 1]
Editing == UNCHANGED <<rows, now, saves, acked, mixed, applies, setpoint, ready>>

(* Another climate is selected: its schedule is fetched; until it comes    *)
(* the entries of the one before are shown, and can be saved.              *)
SelectClimate(b) ==
    /\ Hand
    /\ \E c \in Climates \ {editor[b].climate} :
          /\ editor' = [editor EXCEPT ![b].climate = c]
          /\ loads' = loads \cup {[browser |-> b, entries |-> rows[c]]}
    /\ Editing

ScheduleLoaded(b) ==
    /\ \E l \in loads : /\ l.browser = b
                        /\ editor' = [editor EXCEPT ![b].entries = l.entries]
                        /\ loads' = loads \ {l}
    /\ Editing /\ UNCHANGED sched

(* setCell(): a cell has one entry; clearAll().                            *)
SetCell(b) ==
    /\ Hand
    /\ \/ \E s \in Slots, t \in Temps :
             editor' = [editor EXCEPT ![b].entries =
                           {x \in @ : x[1] # s} \cup {<<s, t>>}]
       \/ editor' = [editor EXCEPT ![b].entries = {}]
    /\ Editing /\ UNCHANGED loads

(* The button is disabled while a save of this browser is under way.       *)
Save(b) ==
    LET c == editor[b].climate
    IN /\ ~editor[b].saving /\ sched.saves < MaxSaves
       /\ editor' = [editor EXCEPT ![b].saving = TRUE]
       /\ mixed' = IF \E s \in saves : s.climate = c THEN mixed \cup {c} ELSE mixed
       /\ saves' = saves \cup {[browser |-> b, climate |-> c,
                                entries |-> editor[b].entries, step |-> "delete"]}
       /\ acked' = [acked EXCEPT ![c] = {}]
       /\ sched' = [sched EXCEPT !.saves = @ + 1]
       /\ UNCHANGED <<rows, now, loads, applies, setpoint, ready>>

-----------------------------------------------------------------------------
(* Faulty variant: the rows of another thermostat are deleted with them.   *)
SaveDeletesAll(s) ==
    /\ s.step = "delete"
    /\ rows' = [c \in Climates |-> {}]
    /\ saves' = (saves \ {s}) \cup {[s EXCEPT !.step = "insert"]}
    /\ UNCHANGED <<now, editor, loads, acked, mixed, applies, setpoint, ready, sched>>

(* Faulty variant: the old rows stay.                                      *)
SaveKeepsOld(s) ==
    /\ s.step = "delete"
    /\ saves' = (saves \ {s}) \cup {[s EXCEPT !.step = "insert"]}
    /\ UNCHANGED <<rows, now, editor, loads, acked, mixed, applies, setpoint, ready, sched>>

(* saveSchedule(): all rows are deleted, then the new ones are inserted,   *)
(* in two statements.                                                      *)
SaveDeletes(s) ==
    /\ s.step = "delete"
    /\ rows' = [rows EXCEPT ![s.climate] = {}]
    /\ saves' = (saves \ {s}) \cup {[s EXCEPT !.step = "insert"]}
    /\ UNCHANGED <<now, editor, loads, acked, mixed, applies, setpoint, ready, sched>>

SaveInserts(s) ==
    /\ s.step = "insert"
    /\ rows' = [rows EXCEPT ![s.climate] = @ \cup s.entries]
    /\ saves' = saves \ {s}
    /\ editor' = [editor EXCEPT ![s.browser].saving = FALSE]
    /\ acked' = [acked EXCEPT ![s.climate] =
                    IF s.climate \in mixed THEN {} ELSE {s.entries}]
    /\ UNCHANGED <<now, loads, mixed, applies, setpoint, ready, sched>>

(* applyCurrentSlot(): at startup, every five minutes and on request; the  *)
(* slot and its rows are read, then the thermostats are set one by one.    *)
ReadSlot == {x \in Climates \X Temps : x[2] \in AtSlot(x[1], now)}

Reads == UNCHANGED <<rows, now, editor, loads, saves, acked, mixed, setpoint, ready>>

(* Faulty variant: only one thermostat is looked after.                    *)
ApplyFirst == /\ applies = {} /\ Reads /\ UNCHANGED sched
              /\ applies' = {{x \in ReadSlot : x[1] = CHOOSE c \in Climates : TRUE}}

(* The timer: five minutes are enough for the calls of the time before.    *)
ApplyTick == applies = {} /\ applies' = {ReadSlot} /\ Reads /\ UNCHANGED sched

(* "Apply now": it may overlap with the timer's.                           *)
ApplyNow == Hand /\ applies' = applies \cup {ReadSlot} /\ Reads

(* A call that fails, as all do before the climate integration is loaded,  *)
(* is only logged.                                                         *)
ApplyNext ==
    \E a \in applies :
        /\ IF a = {} THEN applies' = applies \ {a} /\ UNCHANGED setpoint
           ELSE \E x \in a :
                   /\ applies' = (applies \ {a}) \cup {a \ {x}}
                   /\ setpoint' = IF ready THEN [setpoint EXCEPT ![x[1]] = x[2]]
                                           ELSE setpoint
        /\ UNCHANGED <<rows, now, editor, loads, saves, acked, mixed, ready, sched>>

IntegrationLoaded == /\ ~ready /\ ready' = TRUE
                     /\ UNCHANGED <<rows, now, editor, loads, saves, acked, mixed,
                                    applies, setpoint, sched>>

(* Somebody turns the thermostat.                                          *)
SetByHand == /\ Hand
             /\ \E c \in Climates, t \in Temps : setpoint' = [setpoint EXCEPT ![c] = t]
             /\ UNCHANGED <<rows, now, editor, loads, saves, acked, mixed, applies, ready>>

NextSlot == /\ now < MaxSlot /\ now' = now + 1
            /\ UNCHANGED <<rows, editor, loads, saves, acked, mixed, applies,
                           setpoint, ready, sched>>

(* The server restarts: a save that was under way is lost where it stands. *)
ServerRestarts ==
    /\ sched.crashes < MaxCrashes
    /\ sched' = [sched EXCEPT !.crashes = @ + 1]
    /\ saves' = {} /\ applies' = {ReadSlot} /\ ready' = FALSE
    /\ editor' = [b \in Browsers |-> [editor[b] EXCEPT !.saving = FALSE]]
    /\ UNCHANGED <<rows, now, loads, acked, mixed, setpoint>>

ScheduleNext ==
    \/ \E b \in Browsers : SelectClimate(b) \/ ScheduleLoaded(b) \/ SetCell(b) \/ Save(b)
    \/ \E s \in saves : SaveDeletes(s) \/ SaveInserts(s)
    \/ ApplyTick \/ ApplyNow \/ ApplyNext \/ IntegrationLoaded
    \/ SetByHand \/ NextSlot \/ ServerRestarts

ScheduleFairness == /\ WF_scheduleVars(ApplyTick) /\ WF_scheduleVars(ApplyNext)
                    /\ WF_scheduleVars(IntegrationLoaded)

ScheduleSpec == ScheduleInit /\ [][ScheduleNext]_scheduleVars /\ ScheduleFairness

-----------------------------------------------------------------------------
ScheduleTypeOK ==
    /\ rows \in [Climates -> Table] /\ now \in Slots
    /\ editor \in [Browsers -> [climate : Climates, entries : Table, saving : BOOLEAN]]
    /\ \A s \in saves : s.entries \in Table /\ s.step \in {"delete", "insert"}
    /\ mixed \subseteq Climates /\ acked \in [Climates -> SUBSET Table]
    /\ \A a \in applies : a \subseteq Climates \X Temps
    /\ setpoint \in [Climates -> Temps] /\ ready \in BOOLEAN

(* What was saved is what is stored: after a save was answered the table   *)
(* of its thermostat is exactly what the browser had, until the next save  *)
(* of the same thermostat begins, whatever is saved for others.  (Unless   *)
(* two saves of one thermostat overlapped: their statements interleave.)   *)
SavedIsStored == \A c \in Climates : acked[c] \subseteq {rows[c]}

(* A slot has one temperature, so that the order in which the rows are     *)
(* applied does not matter.  (Unless saves of any thermostat overlapped:   *)
(* a browser that loaded such a table can save it for another one.)        *)
OneTempPerSlot ==
    mixed = {} => \A c \in Climates, s \in Slots : Cardinality(AtSlot(c, s)) <= 1

(* In the end the schedule wins: once the table and the clock stand still, *)
(* every thermostat that has a row in the current slot is set to it and    *)
(* stays so, in spite of hands, stale reads, restarts and calls made       *)
(* before the climate integration was there.                               *)
Followed == \A c \in Climates : AtSlot(c, now) \in {{}, {setpoint[c]}}
ScheduleIsFollowed == <>[](Followed \/ mixed # {})

(* What is saved is stored, without contradiction, and the thermostats     *)
(* follow it in the end.                                                   *)
ScheduleHolds == [](SavedIsStored /\ OneTempPerSlot) /\ ScheduleIsFollowed
=============================================================================

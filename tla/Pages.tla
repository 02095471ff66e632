------------------------------- MODULE Pages --------------------------------
(***************************************************************************)
(* Pages of the web UI with a state of their own: the lists of settings and*)
(* integrations, the history page, the two halves of the home page, and the*)
(* wall panel around its cards.                                            *)
(***************************************************************************)
EXTENDS Lists, SequencesExt, FiniteSets

-----------------------------------------------------------------------------
(***************************************************************************)
(* Two lists the pages edit from a copy of their own: the notification     *)
(* rules of the settings page and the floors of the integrations page.     *)
(* Neither looks at every answer, and neither stops a second press.        *)
(***************************************************************************)

CONSTANTS MaxRows,    \* ids of rows
          RowTexts,   \* what a rule says, what a floor is called
          MaxListAsks, MaxListFaults

ASSUME ListsAssumption == MaxRows \in Nat \ {0} /\ RowTexts # {}

VARIABLES
    which,      \* "rules" or "floors"
    rowsOf,     \* the file: a sequence of rows
    shownRows,  \* the page's copy
    listForm,       \* the form: "shut", or the id it is about (0: a new row) and its text
    listAsks,   \* requests under way
    listFaults, listAstray

listVars == <<which, rowsOf, shownRows, listForm, listAsks, listFaults, listAstray>>

RowIds == 1 .. MaxRows
Row == [id : RowIds, text : RowTexts, on : BOOLEAN]
Shut == [open |-> FALSE, id |-> 0, text |-> CHOOSE t \in RowTexts : TRUE, on |-> TRUE, saving |-> FALSE]
IdsOf(rs) == {rs[n].id : n \in DOMAIN rs}
Underway == {n \in DOMAIN listAsks : listAsks[n].step # "over"}
Without(rs, i) == Filtered(rs, {r \in Range(rs) : r.id # i})
RowChanged(rs, i, new(_)) == [n \in DOMAIN rs |-> IF rs[n].id = i THEN new(rs[n]) ELSE rs[n]]
NewIds == RowIds \ UNION {IdsOf(rowsOf), IdsOf(shownRows),
                          {listAsks[n].row.id : n \in DOMAIN listAsks}}

First1 == [id |-> 1, text |-> Shut.text, on |-> TRUE]
Ended == [op |-> "none", row |-> First1, about |-> 0, got |-> <<>>, step |-> "over"]

ListsInit ==
    /\ which \in {"rules", "floors"}
    /\ rowsOf \in {<<>>, <<[First1 EXCEPT !.on = which = "rules"]>>}
    /\ shownRows = <<>> /\ listForm = Shut
    /\ listAsks = <<[Ended EXCEPT !.op = "load", !.step = "sent"]>>
    /\ listFaults = 0 /\ listAstray = FALSE

Requests(op, row, about) ==
    /\ Len(listAsks) < MaxListAsks
    /\ listAsks' = Append(listAsks, [op |-> op, row |-> row, about |-> about,
                                     got |-> <<>>, step |-> "sent"])
    /\ UNCHANGED <<which, rowsOf, shownRows, listFaults, listAstray>>

-----------------------------------------------------------------------------
(* The form of a rule: a new one, or startEdit with what the row says.     *)
Add == /\ which = "rules" /\ ~listForm.open
       /\ listForm' = [Shut EXCEPT !.open = TRUE]
       /\ UNCHANGED <<which, rowsOf, shownRows, listAsks, listFaults, listAstray>>

StartEdit(n) ==
    /\ listForm' = [open |-> TRUE, id |-> shownRows[n].id, text |-> shownRows[n].text,
                on |-> shownRows[n].on, saving |-> FALSE]
    /\ UNCHANGED <<which, rowsOf, shownRows, listAsks, listFaults, listAstray>>

Fill == /\ listForm.open /\ listForm' \in {[listForm EXCEPT !.text = t] : t \in RowTexts \ {listForm.text}}
        /\ UNCHANGED <<which, rowsOf, shownRows, listAsks, listFaults, listAstray>>

(* resetForm, Escape: nothing waits for a save that is under way.          *)
Cancelled == /\ listForm.open /\ listForm' = Shut
             /\ UNCHANGED <<which, rowsOf, shownRows, listAsks, listFaults, listAstray>>

(* Save of a rule; a new row gets its id from the service.  The form also  *)
(* sends the flag it was opened with.                                      *)
SaveRule ==
    /\ which = "rules" /\ listForm.open /\ ~listForm.saving
    /\ IF listForm.id = 0
       THEN \E i \in NewIds : Requests("create", [id |-> i, text |-> listForm.text, on |-> TRUE], 0)
       ELSE Requests("update", [id |-> listForm.id, text |-> listForm.text, on |-> listForm.on], listForm.id)
    /\ listForm' = [listForm EXCEPT !.saving = TRUE]

(* toggle: what is sent was drawn, what is flipped later is the copy.      *)
ToggleRule(n) == /\ which = "rules"
                 /\ Requests("toggle", [shownRows[n] EXCEPT !.on = ~@], shownRows[n].id)
                 /\ UNCHANGED listForm

DeleteListRow(n) == Requests("delete", shownRows[n], shownRows[n].id) /\ UNCHANGED listForm

(* A floor: its id is typed in, so it may be one that exists; a rename is  *)
(* sent by Enter and again when the field is left.                         *)
AddFloor == /\ which = "floors"
            /\ \E i \in RowIds, t \in RowTexts : Requests("add", [id |-> i, text |-> t, on |-> FALSE], i)
            /\ UNCHANGED listForm

RenameFloor == /\ which = "floors" /\ listForm.open /\ listForm.id \in IdsOf(shownRows)
               /\ Requests("rename", [id |-> listForm.id, text |-> listForm.text, on |-> FALSE], listForm.id)
               /\ UNCHANGED listForm

UploadModel(n) == /\ which = "floors"
                  /\ Requests("upload", shownRows[n], shownRows[n].id)
                  /\ UNCHANGED listForm

-----------------------------------------------------------------------------
(* The services.  update() of a rule merges what was sent into the row: a  *)
(* toggle sends the flag only, a save all but the id.  saveFloor() writes  *)
(* the row anew, so that it says again that its model is floor_<id>.       *)
RowMerged(r, a) == CASE a.op = "toggle" -> [r EXCEPT !.on = a.row.on]
                  [] OTHER -> a.row

Put(row) == IF row.id \in IdsOf(rowsOf) THEN RowChanged(rowsOf, row.id, LAMBDA r : row)
                                        ELSE Append(rowsOf, row)

Serve(n) ==
    LET a == listAsks[n] IN
    /\ a.step = "sent"
    /\ rowsOf' = CASE a.op = "create" -> Append(rowsOf, a.row)
                   [] a.op \in {"update", "toggle"} -> RowChanged(rowsOf, a.about, LAMBDA r : RowMerged(r, a))
                   [] a.op \in {"add", "rename"} -> Put(a.row)
                   [] a.op = "delete" -> Without(rowsOf, a.about)
                   [] OTHER -> rowsOf
    /\ listAsks' = [listAsks EXCEPT
          ![n].step = "done",
          ![n].got = IF a.op = "load" THEN rowsOf
                     ELSE IF a.op = "update" THEN Filtered(rowsOf', {r \in Range(rowsOf') : r.id = a.about})
                     ELSE <<>>]
    /\ UNCHANGED <<which, shownRows, listForm, listFaults, listAstray>>

(* Two requests about one row, or a load and anything else: what the page  *)
(* shows then depends on the order of the answers.                         *)
Races(n) == \E k \in Underway \ {n} :
               \/ listAsks[n].op = "load" \/ listAsks[k].op = "load"
               \/ /\ listAsks[n].about = listAsks[k].about
                  /\ listAsks[k].about # 0

(* Faulty variant: the answer of a save goes to the row the form is about  *)
(* by now.                                                                 *)
AnsweredToForm(n) ==
    LET a == listAsks[n] IN
    /\ a.step = "done"
    /\ shownRows' = CASE a.op = "load" -> a.got
                      [] a.op \in {"create", "add"} -> Append(shownRows, a.row)
                      [] a.op = "update" -> RowChanged(shownRows, listForm.id, LAMBDA r : a.got[1])
                      [] a.op = "toggle" -> RowChanged(shownRows, a.about, LAMBDA r : [r EXCEPT !.on = ~@])
                      [] a.op = "rename" -> RowChanged(shownRows, a.about, LAMBDA r : [r EXCEPT !.text = a.row.text])
                      [] a.op = "delete" -> Without(shownRows, a.about)
                      [] a.op = "upload" -> shownRows
    /\ listAsks' = [listAsks EXCEPT ![n] = Ended]
    /\ listForm' = IF a.op \in {"create", "update", "rename"} THEN Shut ELSE listForm
    /\ listAstray' = (listAstray \/ Races(n))
    /\ UNCHANGED <<which, rowsOf, listFaults>>

(* The answers.  An update of a rule that is gone has no body: the page    *)
(* shows an error and keeps the row.  A floor that exists is added again.  *)
Answered(n) ==
    LET a == listAsks[n] IN
    /\ a.step = "done"
    /\ shownRows' = CASE a.op = "load" -> a.got
                      [] a.op \in {"create", "add"} -> Append(shownRows, a.row)
                      [] a.op = "update" -> IF a.got = <<>> THEN shownRows
                                            ELSE RowChanged(shownRows, a.about, LAMBDA r : a.got[1])
                      [] a.op = "toggle" -> RowChanged(shownRows, a.about, LAMBDA r : [r EXCEPT !.on = ~@])
                      [] a.op = "rename" -> RowChanged(shownRows, a.about, LAMBDA r : [r EXCEPT !.text = a.row.text])
                      [] a.op = "delete" -> Without(shownRows, a.about)
                      [] a.op = "upload" -> shownRows
    /\ listAsks' = [listAsks EXCEPT ![n] = Ended]
    /\ listForm' = IF a.op \in {"create", "rename"} \/ (a.op = "update" /\ a.got # <<>>) THEN Shut
               ELSE [listForm EXCEPT !.saving = IF a.op = "update" THEN FALSE ELSE @]
    /\ listAstray' = (\/ listAstray \/ Races(n)
                      \/ (a.op = "add" /\ a.row.id \in IdsOf(shownRows)))
    /\ UNCHANGED <<which, rowsOf, listFaults>>

(* A request fails.  Refused by the server: a delete and a rename are not  *)
(* looked at and count as done.  No answer: the list stays as it was.      *)
RequestFails(n) ==
    LET a == listAsks[n]
        believed == a.step = "sent" /\ a.op \in {"delete", "rename"} IN
    /\ a.step # "over" /\ listFaults < MaxListFaults
    /\ \E refused \in BOOLEAN :
          /\ refused => a.step = "sent"
          /\ shownRows' = IF ~(refused /\ believed) THEN shownRows
                          ELSE IF a.op = "delete" THEN Without(shownRows, a.about)
                          ELSE RowChanged(shownRows, a.about, LAMBDA r : [r EXCEPT !.text = a.row.text])
          /\ listForm' = IF refused /\ a.op = "rename" THEN Shut
                     ELSE IF a.op \in {"create", "update"} THEN [listForm EXCEPT !.saving = FALSE] ELSE listForm
    /\ listAsks' = [listAsks EXCEPT ![n] = Ended]
    /\ listAstray' = (listAstray \/ a.step = "done" \/ a.op = "load" \/ believed)
    /\ listFaults' = listFaults + 1
    /\ UNCHANGED <<which, rowsOf>>

ListsNext ==
    \/ Add \/ Fill \/ Cancelled \/ SaveRule \/ AddFloor \/ RenameFloor
    \/ \E n \in DOMAIN shownRows : StartEdit(n) \/ ToggleRule(n) \/ DeleteListRow(n) \/ UploadModel(n)
    \/ \E n \in DOMAIN listAsks : Serve(n) \/ Answered(n) \/ RequestFails(n)

ListsSpec == ListsInit /\ [][ListsNext]_listVars

-----------------------------------------------------------------------------
(* What is drawn: the rows with their buttons, and the form, which says    *)
(* whether it edits a row; a rule is offered as new only while it is shut. *)
RulesDrawn == [rows |-> shownRows, new |-> ~listForm.open,
               editing |-> listForm.open /\ listForm.id # 0, busy |-> listForm.saving]
FloorsDrawn == [n \in DOMAIN shownRows |->
                  [row |-> shownRows[n], renamed |-> listForm.open /\ listForm.id = shownRows[n].id]]

-----------------------------------------------------------------------------
(* The variables have the shape the code gives them.                       *)
ListsTypeOK ==
    /\ which \in {"rules", "floors"}
    /\ Range(rowsOf) \subseteq Row /\ Range(shownRows) \subseteq Row
    /\ listForm.id \in RowIds \cup {0} /\ listForm.open \in BOOLEAN
    /\ \A n \in DOMAIN listAsks : listAsks[n].step \in {"sent", "done", "over"}

(* When nothing is under way the page shows what the file says, though the *)
(* form was taken to another row while a save was under way: unless        *)
(* answers raced for one row, a floor was added twice, or a request failed *)
(* in a way the page did not look at.                                      *)
ListIsFile ==
    Underway = {} /\ ~listAstray =>
        Range(shownRows) = Range(rowsOf) /\ Len(shownRows) = Len(rowsOf)

-----------------------------------------------------------------------------
(***************************************************************************)
(* The history page: a chart of one sensor over a range, the detail of an  *)
(* energy sensor, which is the same chart under a list, the log of events  *)
(* and the voice commands. Each choice asks the server, and the answers    *)
(* come in any order.                                                      *)
(***************************************************************************)

CONSTANTS Selections,   \* sensor and range, as one value
          NoChoice,
          Points,       \* [Selections -> Nat], the numeric points the server holds
          MaxPicks

VARIABLES
    tab,        \* "chart", "events", "energy" or "voice"
    chosen,     \* entityId and range; NoChoice: no energy sensor is selected
    chartAsks,      \* requests on their way: the choice, and when it was made
    data,       \* the choice whose points are held, NoChoice: none
    canvas,     \* the choice whose line the canvas shows
    loading,
    disordered, \* the answer held is older than one that came before it
    newest,     \* the latest request that was answered
    failed,     \* the answer held is that of a request that failed
    eventsTab,     \* the events tab: its socket, whether it is paused, its lines
    picks       \* bound, and the number of the last request

chartVars == <<tab, chosen, chartAsks, data, canvas, loading, disordered, newest, failed, eventsTab, picks>>

NoEvents == [socket |-> "none", paused |-> FALSE]

(* A tab mounts anew: the chart asks for its sensor at once.               *)
MountsTab(t) ==
    /\ tab' = t
    /\ data' = NoChoice /\ canvas' = NoChoice /\ disordered' = FALSE /\ newest' = 0
    /\ failed' = FALSE
    /\ eventsTab' = IF t = "events" THEN [NoEvents EXCEPT !.socket = "opening"] ELSE NoEvents
    /\ IF t = "chart"
       THEN /\ chosen' \in Selections /\ loading' = TRUE
            /\ chartAsks' = {[choice |-> chosen', no |-> picks']}
       ELSE chosen' = NoChoice /\ loading' = FALSE /\ chartAsks' = {}

ChartInit ==
    /\ tab = "chart" /\ chosen \in Selections
    /\ chartAsks = {[choice |-> chosen, no |-> 0]}
    /\ data = NoChoice /\ canvas = NoChoice /\ loading = TRUE
    /\ disordered = FALSE /\ newest = 0 /\ failed = FALSE
    /\ eventsTab = NoEvents /\ picks = 0

Pick1 == picks < MaxPicks /\ picks' = picks + 1

OpenHistoryTab == /\ Pick1 /\ \E t \in {"chart", "events", "energy", "voice"} \ {tab} : MountsTab(t)

-----------------------------------------------------------------------------
(* Another sensor or another range: the effect asks; what is held stays    *)
(* until an answer comes. In the energy tab this is a sensor of the list   *)
(* or a range of its detail.                                               *)
PickChart ==
    /\ tab \in {"chart", "energy"} /\ Pick1
    /\ \E c \in Selections \ {chosen} :
          /\ chosen' = c
          /\ chartAsks' = chartAsks \cup {[choice |-> c, no |-> picks']}
    /\ loading' = TRUE
    /\ IF chosen = NoChoice THEN data' = NoChoice /\ canvas' = NoChoice ELSE UNCHANGED <<data, canvas>>
    /\ UNCHANGED <<tab, disordered, newest, failed, eventsTab>>

(* The selected sensor is pressed again: its detail goes, and so do the    *)
(* answers it waited for.                                                  *)
CloseDetail ==
    /\ tab = "energy" /\ chosen # NoChoice /\ Pick1
    /\ chosen' = NoChoice /\ chartAsks' = {} /\ loading' = FALSE
    /\ disordered' = FALSE /\ newest' = 0 /\ failed' = FALSE
    /\ data' = NoChoice /\ canvas' = NoChoice
    /\ UNCHANGED <<tab, eventsTab>>

(* Faulty variant: the line is drawn when the answer to the first choice   *)
(* comes, and then never again.                                            *)
DrawnOnce(d) == IF d # NoChoice /\ Points[d] >= 2 /\ canvas = NoChoice THEN d ELSE canvas

(* drawLine: fewer than two points draw nothing, and leave what was drawn. *)
DrawnFor(d) == IF d # NoChoice /\ Points[d] >= 2 THEN d ELSE canvas

(* Whichever answer comes last is held; the first one to come ends the     *)
(* loading. A request that fails holds no points.                          *)
ChartAnswers ==
    \E a \in chartAsks, ok \in BOOLEAN :
        /\ chartAsks' = chartAsks \ {a}
        /\ data' = IF ok THEN a.choice ELSE NoChoice
        /\ canvas' = DrawnFor(data')
        /\ failed' = ~ok
        /\ loading' = FALSE
        /\ newest' = IF a.no < newest THEN newest ELSE a.no
        /\ disordered' = (a.no < newest)
        /\ UNCHANGED <<tab, chosen, eventsTab, picks>>

-----------------------------------------------------------------------------
(* The events tab opens a plain WebSocket where the server speaks          *)
(* Socket.IO: it is refused, at the start and after each pause.            *)
EventsRefused == /\ eventsTab.socket = "opening"
                 /\ eventsTab' = [eventsTab EXCEPT !.socket = "closed"]
                 /\ UNCHANGED <<tab, chosen, chartAsks, data, canvas, loading, disordered, newest,
                                failed, picks>>

PauseEvents == /\ tab = "events" /\ Pick1
               /\ eventsTab' = [socket |-> "opening", paused |-> ~eventsTab.paused]
               /\ UNCHANGED <<tab, chosen, chartAsks, data, canvas, loading, disordered, newest,
                              failed>>

ChartNext == OpenHistoryTab \/ PickChart \/ CloseDetail \/ ChartAnswers \/ EventsRefused \/ PauseEvents
ChartSpec == ChartInit /\ [][ChartNext]_chartVars

-----------------------------------------------------------------------------
(* What is drawn under the canvas.                                         *)
HeldPoints == IF data = NoChoice THEN 0 ELSE Points[data]
CaptionDrawn == IF loading THEN "loading"
                ELSE IF HeldPoints < 2 THEN "no data" ELSE "points, least and greatest"
EventsDrawn == IF tab = "events" THEN "waiting for events" ELSE "none"

ChartTypeOK ==
    /\ tab \in {"chart", "events", "energy", "voice"}
    /\ chosen \in Selections \cup {NoChoice} /\ data \in Selections \cup {NoChoice}
    /\ canvas \in Selections \cup {NoChoice} /\ eventsTab.socket \in {"none", "opening", "closed"}

(* Once every answer is there, the caption and the line are those of the   *)
(* sensor and range that are chosen: unless the last answer to come was    *)
(* not the last request's, which nothing prevents, or failed. A line drawn *)
(* before stays when the choice has too few points for one.                *)
ChartIsChosen ==
    chartAsks = {} /\ ~disordered /\ ~failed /\ chosen # NoChoice
      => data = chosen /\ (Points[chosen] >= 2 => canvas = chosen)

-----------------------------------------------------------------------------
(***************************************************************************)
(* The home page: the entities by area, a section per area with something  *)
(* in it, in an order the user drags and the browser keeps.                *)
(***************************************************************************)

CONSTANTS Rooms,          \* areas, in the order of the registry
          NoRoom,
          Members,        \* entities
          Favourites,     \* ha_pinned, which the entities page writes
          MaxRearranges

(* An area is listed once.                                                 *)
ASSUME HomeAssumption == Rooms \in Seq(Range(Rooms)) /\ IsInjective(Rooms)

VARIABLES
    rooms,      \* the server's areas
    placed,     \* the server's registry: [Members -> area]
    roomsHere,  \* areas, as this page has read them
    placedHere, \* entityAreas
    present,    \* states
    order, keptOrder,   \* sectionOrder, and ha_section_order
    dragged, over,      \* dragId and dragOverId
    turn                \* bound

sectVars == <<rooms, placed, roomsHere, placedHere, present, order, keptOrder, dragged, over, turn>>

NoSection == "none"
Pinned == "pinned"
Other == "other"

(* No area is called as one of the two sections the page adds: the server  *)
(* makes ids of the names and does not refuse these.                       *)
OwnNames == Range(Rooms) \cap {Pinned, Other} = {}

NoPlaces == [t \in Members |-> NoRoom]

-----------------------------------------------------------------------------
(* byArea: an entity whose area is not known to the page is neither in a   *)
(* section of that area nor among the others.                              *)
Grouped(r) == {t \in present : placedHere[t] = r}
Unassigned == Grouped(NoRoom)

(* The sections there are now, and the order they are drawn in: as saved,  *)
(* then those that the saved order does not name.                          *)
AllSectionIds ==
    (IF Favourites # {} THEN <<Pinned>> ELSE <<>>)
    \o Filtered(Rooms, {r \in roomsHere : Grouped(r) # {}})
    \o (IF Unassigned # {} THEN <<Other>> ELSE <<>>)

(* Faulty variant: what the saved order does not name is not drawn.        *)
OrderedIdsSaved ==
    IF order = <<>> THEN AllSectionIds
    ELSE Filtered(order, Range(AllSectionIds))

OrderedIds ==
    LET saved == Filtered(order, Range(AllSectionIds))
    IN saved \o Filtered(AllSectionIds, Range(AllSectionIds) \ Range(saved))

(* The entities the page draws: the favourites, and each section's own.    *)
DrawnIn(i) == CASE i = Pinned -> present \cap Favourites
                [] i = Other -> Unassigned
                [] OTHER -> Grouped(i)
DrawnThings == UNION {DrawnIn(i) : i \in Range(OrderedIds)}

IdsAre == {Pinned, Other} \cup Range(Rooms)

SectInit ==
    /\ rooms = Range(Rooms) /\ placed \in [Members -> Range(Rooms) \cup {NoRoom}]
    /\ roomsHere = {} /\ placedHere = NoPlaces
    /\ present = Members
    /\ order = <<>> /\ keptOrder = order
    /\ dragged = NoSection /\ over = NoSection /\ turn = 0

Turns == turn < MaxRearranges /\ turn' = turn + 1

-----------------------------------------------------------------------------
(* The two answers come in any order; each may fail, which shows nothing.  *)
RoomsArrive == /\ roomsHere # rooms /\ roomsHere = {}
               /\ roomsHere' = rooms
               /\ UNCHANGED <<rooms, placed, placedHere, present, order, keptOrder, dragged, over, turn>>

PlacesArrive == /\ placedHere = NoPlaces /\ placed # NoPlaces
                /\ placedHere' = placed
                /\ UNCHANGED <<rooms, placed, roomsHere, present, order, keptOrder, dragged, over, turn>>

(* On another page: an area is deleted, which leaves its entities placed   *)
(* in it, and an entity is given a room.                                   *)
RoomDeleted == /\ Turns /\ \E r \in rooms : rooms' = rooms \ {r}
               /\ UNCHANGED <<placed, roomsHere, placedHere, present, order, keptOrder, dragged, over>>

Rehoused == /\ Turns
            /\ \E t \in Members, r \in rooms \cup {NoRoom} : r # placed[t] /\ placed' = [placed EXCEPT ![t] = r]
            /\ UNCHANGED <<rooms, roomsHere, placedHere, present, order, keptOrder, dragged, over>>

EntityComesOrGoes == /\ Turns
                     /\ \E t \in Members : present' = IF t \in present THEN present \ {t} ELSE present \cup {t}
                     /\ UNCHANGED <<rooms, placed, roomsHere, placedHere, order, keptOrder, dragged, over>>

(* The page is opened again: it starts from the order the browser kept.    *)
ReopenHome == /\ Turns
          /\ roomsHere' = {} /\ placedHere' = NoPlaces
          /\ order' = keptOrder /\ dragged' = NoSection /\ over' = NoSection
          /\ UNCHANGED <<rooms, placed, present, keptOrder>>

-----------------------------------------------------------------------------
(* Dragging, by mouse or by finger: every touch of a section grabs it.     *)
Grab == /\ dragged = NoSection /\ turn < MaxRearranges
        /\ dragged' \in Range(OrderedIds)
        /\ UNCHANGED <<rooms, placed, roomsHere, placedHere, present, order, keptOrder, over, turn>>

Hover == /\ dragged # NoSection
         /\ over' \in (Range(OrderedIds) \cup {NoSection}) \ {over}
         /\ UNCHANGED <<rooms, placed, roomsHere, placedHere, present, order, keptOrder, dragged, turn>>

(* splice: taken out of its place, put in at the place the target had.     *)
PositionOf(s, i) == CHOOSE n \in DOMAIN s : s[n] = i

(* Faulty variant: the target's place is taken, and the target lost.       *)
MovedOver(s, i, j) ==
    [n \in 1 .. Len(s) - 1 |-> LET t == Filtered(s, Range(s) \ {i}) IN IF t[n] = j THEN i ELSE t[n]]

Moved(s, i, j) ==
    LET rest == Filtered(s, Range(s) \ {i}) IN
    InsertAt(rest, PositionOf(s, j), i)

(* A drop on itself, or on or of a section that is gone meanwhile, does    *)
(* nothing. What is saved names only the sections there are at the time.   *)
Drop == /\ dragged # NoSection /\ over # NoSection
        /\ IF dragged # over /\ {dragged, over} \subseteq Range(OrderedIds)
           THEN Turns /\ order' = Moved(OrderedIds, dragged, over) /\ keptOrder' = order'
           ELSE UNCHANGED <<order, keptOrder, turn>>
        /\ dragged' = NoSection /\ over' = NoSection
        /\ UNCHANGED <<rooms, placed, roomsHere, placedHere, present>>

LetGo == /\ dragged # NoSection
         /\ dragged' = NoSection /\ over' = NoSection
         /\ UNCHANGED <<rooms, placed, roomsHere, placedHere, present, order, keptOrder, turn>>

SectNext == \/ RoomsArrive \/ PlacesArrive \/ RoomDeleted \/ Rehoused \/ EntityComesOrGoes
            \/ ReopenHome \/ Grab \/ Hover \/ Drop \/ LetGo
SectSpec == SectInit /\ [][SectNext]_sectVars

-----------------------------------------------------------------------------
SectTypeOK ==
    /\ roomsHere \subseteq Range(Rooms) /\ present \subseteq Members
    /\ order \in Seq(IdsAre) /\ dragged \in IdsAre \cup {NoSection} /\ over \in IdsAre \cup {NoSection}

(* Whatever was dragged, deleted and reloaded, every entity has its place  *)
(* on the page, and no section is drawn twice: except an entity of an area *)
(* that the page does not know, because the area is deleted or its list    *)
(* did not come, which is drawn nowhere.                                   *)
EveryThingIsDrawn ==
    OwnNames =>
        /\ IsInjective(OrderedIds)
        /\ \A t \in present : placedHere[t] \in roomsHere \cup {NoRoom} => t \in DrawnThings

(* A drop moves one section: the others keep their order.                  *)
OthersKeepOrder ==
    [][ OwnNames /\ order' # order /\ dragged # NoSection =>
          LET without(s) == Filtered(s, Range(s) \ {dragged})
          IN without(order') = without(OrderedIds) ]_sectVars

-----------------------------------------------------------------------------
(***************************************************************************)
(* The bar of shortcuts on the home page: a press runs one, holding one    *)
(* for 600 ms opens the edit mode, in which they are added and removed.    *)
(***************************************************************************)

CONSTANTS Targets,        \* entities that may be given a shortcut
          MaxShortcuts, MaxPresses

ASSUME BarAssumption == MaxShortcuts \in Nat

VARIABLES
    bar, keptBar,   \* the shortcuts, and ha_shortcuts in the browser
    editing,        \* editMode
    adding,         \* the add dialogue: "closed", "open", or the entity picked
    down,           \* the shortcuts pressed now
    holds,          \* hold timers that run: the shortcut pressed
    holder,         \* longPressRef: the hold timer a release would clear
    firing,         \* the shortcut drawn as running, 0 is none
    ending,         \* timers that end the drawing
    barCalls,          \* calls sent to the server: the entity, and whether it was a hold
    held,           \* presses that were long enough to open the edit mode
    orphaned,       \* a second finger's press hid the timer of the first
    pressed         \* bound

barVars == <<bar, keptBar, editing, adding, down, holds, holder, firing, ending, barCalls, held,
             orphaned, pressed>>

Slots == DOMAIN bar

BarInit ==
    /\ bar \in UNION {[1 .. n -> Targets] : n \in 0 .. MaxShortcuts} /\ keptBar = bar
    /\ editing = FALSE /\ adding = "closed"
    /\ down = {} /\ holds = {} /\ holder = 0 /\ firing = 0 /\ ending = 0
    /\ barCalls = {} /\ held = {} /\ orphaned = FALSE /\ pressed = 0

-----------------------------------------------------------------------------
PressDown(n) ==
    /\ n \in Slots /\ n \notin down /\ pressed < MaxPresses /\ adding = "closed"
    /\ pressed' = pressed + 1
    /\ down' = down \cup {n} /\ holds' = holds \cup {n} /\ holder' = n
    /\ orphaned' = (orphaned \/ holder # 0)
    /\ UNCHANGED <<bar, keptBar, editing, adding, firing, ending, barCalls, held>>

HoldFires(n) ==
    /\ n \in holds /\ holds' = holds \ {n}
    /\ editing' = TRUE
    /\ held' = IF n \in down THEN held \cup {n} ELSE held
    /\ UNCHANGED <<bar, keptBar, adding, down, holder, firing, ending, barCalls, orphaned, pressed>>

(* Faulty variant: a shortcut runs in the edit mode too.                   *)
FiresAlways(n) == /\ firing' = n /\ ending' = ending + 1
                  /\ barCalls' = barCalls \cup {[target |-> bar[n], wasHeld |-> n \in held]}

(* fire: not in the edit mode. A failed call is drawn like any other.      *)
Fires(n) == IF editing THEN UNCHANGED <<firing, ending, barCalls>>
            ELSE /\ firing' = n /\ ending' = ending + 1
                 /\ barCalls' = barCalls \cup {[target |-> bar[n], wasHeld |-> n \in held]}

(* Faulty variant: the release is a click, and clears no timer.            *)
ReleasePressKeeps(n) ==
    /\ n \in down /\ n \in Slots /\ down' = down \ {n}
    /\ held' = held \ {n}
    /\ Fires(n)
    /\ UNCHANGED <<bar, keptBar, editing, adding, holds, holder, orphaned, pressed>>

(* The release clears the timer that is remembered, and is a click.        *)
ReleasePress(n) ==
    /\ n \in down /\ n \in Slots /\ down' = down \ {n}
    /\ holds' = holds \ {holder} /\ holder' = 0
    /\ held' = held \ {n}
    /\ Fires(n)
    /\ UNCHANGED <<bar, keptBar, editing, adding, orphaned, pressed>>

(* The finger slides off, or the browser takes the touch for scrolling:    *)
(* the timer is cleared, and nothing runs.                                 *)
SlideOff(n) ==
    /\ n \in down /\ down' = down \ {n} /\ held' = held \ {n}
    /\ holds' = holds \ {holder} /\ holder' = 0
    /\ UNCHANGED <<bar, keptBar, editing, adding, firing, ending, barCalls, orphaned, pressed>>

(* The drawing ends 600 ms after the call's end, whichever runs by then.   *)
FireEnds == /\ ending > 0 /\ ending' = ending - 1 /\ firing' = 0
            /\ UNCHANGED <<bar, keptBar, editing, adding, down, holds, holder, barCalls, held,
                           orphaned, pressed>>

-----------------------------------------------------------------------------
EditOn == /\ ~editing /\ bar # <<>> /\ adding = "closed" /\ editing' = TRUE
          /\ UNCHANGED <<bar, keptBar, adding, down, holds, holder, firing, ending, barCalls, held,
                         orphaned, pressed>>

EditDone == /\ editing /\ adding = "closed" /\ down = {} /\ editing' = FALSE
            /\ UNCHANGED <<bar, keptBar, adding, down, holds, holder, firing, ending, barCalls, held,
                           orphaned, pressed>>

(* The dialogue: opened from the empty bar or in the edit mode; an entity  *)
(* is picked, and Add appends it.                                          *)
OpenAdd == /\ adding = "closed" /\ (editing \/ bar = <<>>) /\ adding' = "open"
           /\ UNCHANGED <<bar, keptBar, editing, down, holds, holder, firing, ending, barCalls, held,
                          orphaned, pressed>>

PickTarget == /\ adding # "closed" /\ adding' \in Targets \ {adding}
              /\ UNCHANGED <<bar, keptBar, editing, down, holds, holder, firing, ending, barCalls,
                             held, orphaned, pressed>>

CloseAdd == /\ adding # "closed" /\ adding' = "closed"
            /\ UNCHANGED <<bar, keptBar, editing, down, holds, holder, firing, ending, barCalls, held,
                           orphaned, pressed>>

ConfirmAdd == /\ adding \in Targets /\ Len(bar) < MaxShortcuts
              /\ bar' = Append(bar, adding) /\ keptBar' = bar' /\ adding' = "closed"
              /\ UNCHANGED <<editing, down, holds, holder, firing, ending, barCalls, held, orphaned,
                             pressed>>

(* The bar that was emptied leaves the edit mode.                          *)
RemoveShortcut(n) ==
    /\ editing /\ n \in Slots /\ down = {} /\ adding = "closed"
    /\ bar' = RemoveAt(bar, n) /\ keptBar' = bar'
    /\ editing' = (bar' # <<>>)
    /\ UNCHANGED <<adding, down, holds, holder, firing, ending, barCalls, held, orphaned, pressed>>

BarNext == \/ FireEnds \/ EditOn \/ EditDone \/ OpenAdd \/ PickTarget \/ CloseAdd \/ ConfirmAdd
           \/ \E n \in 1 .. MaxShortcuts :
                PressDown(n) \/ HoldFires(n) \/ ReleasePress(n) \/ SlideOff(n) \/ RemoveShortcut(n)
BarSpec == BarInit /\ [][BarNext]_barVars

-----------------------------------------------------------------------------
BarTypeOK ==
    /\ bar \in Seq(Targets) /\ Len(bar) <= MaxShortcuts
    /\ adding \in {"closed", "open"} \cup Targets
    /\ holds \subseteq 1 .. MaxShortcuts /\ down \subseteq 1 .. MaxShortcuts

(* A tap is not a hold, and a hold is not a tap: the timer that opens the  *)
(* edit mode runs only while its shortcut is pressed, and the press that   *)
(* opened it runs nothing when it ends. A second finger may break the      *)
(* first: the bar remembers one timer.                                     *)
TapsAreNotHolds == ~orphaned => holds \subseteq down /\ \A c \in barCalls : ~c.wasHeld
-----------------------------------------------------------------------------
(***************************************************************************)
(* The wall panel around its cards: the view that is open, the tabs that   *)
(* dashboard.yaml offers, swipes, the settings kept in the browser, the    *)
(* toasts that announce changes, and the two editors of dashboard.yaml.    *)
(***************************************************************************)

CONSTANTS Cats,             \* CATS, in the order of the panel
          Home,             \* the view of a browser that keeps none: lights
          Security,         \* the view a toast leads to
          Dashboards,       \* the contents dashboard.yaml may have
          ViewsOf,          \* [Dashboards -> sequences of views], in the order of the text
          Formless,         \* contents that are not YAML
          EmptyDashboard,   \* the empty text
          Sensors,          \* entities that are announced
          MaxSteps, MaxToasts, MaxSettings

ASSUME PanelAssumption ==
    /\ Cats \in Seq(Range(Cats)) /\ Home \in Range(Cats)
    /\ \A doc \in Dashboards : ViewsOf[doc] \in Seq(Range(ViewsOf[doc]))
    /\ EmptyDashboard \in Dashboards
    /\ IsFiniteSet(Sensors) /\ MaxToasts \in Nat \ {0}

VARIABLES
    dashboardFile,       \* dashboard.yaml
    yamlEditor,     \* the editor: its text, whether the file was read, how that ended
    dashboard,     \* dashboardConfig: "none", or the views
    asking,     \* the panel's request for the config: what the server read
    cat, keptCat,           \* the view, and ha_panel_cat in localStorage
    mode,
    setting, keptSetting,   \* theme, size, language and sound: position of a cycle
    doors, heard,           \* sensors, and prevStates
    toasts,
    pulled,                 \* the page was pulled down and will be reloaded
    steps, strayed          \* the view was left by a toast, or never was offered

panelVars == <<dashboardFile, yamlEditor, dashboard, asking, cat, keptCat, mode, setting, keptSetting,
               doors, heard, toasts, pulled, steps, strayed>>

CatSet == Range(Cats)
Nobody0 == [text |-> EmptyDashboard, read |-> "no", saving |-> FALSE]
NoConfig == [known |-> FALSE, views |-> <<>>]

(* The tabs: the views of the text that the panel knows, or all of them.   *)
KnownViews(vs) == Filtered(vs, CatSet)
ActiveCats == LET k == KnownViews(dashboard.views) IN
              IF dashboard.known /\ k # <<>> THEN k ELSE Cats
ActiveSet == Range(ActiveCats)

(* GET dashboard: a text that is not YAML reads as no views.               *)
Parsed(doc) == IF doc \in Formless THEN <<>> ELSE ViewsOf[doc]

Mounts(kept, set) ==
    /\ cat' = kept /\ setting' = set /\ mode' = "2d"
    /\ dashboard' = NoConfig /\ asking' = [open |-> TRUE, read |-> <<>>, served |-> FALSE]
    /\ heard' = [s \in Sensors |-> "unseen"] /\ toasts' = <<>>
    /\ pulled' = FALSE /\ strayed' = FALSE

PanelInit ==
    /\ dashboardFile \in Dashboards \ Formless
    /\ yamlEditor = Nobody0
    /\ dashboard = NoConfig /\ asking = [open |-> TRUE, read |-> <<>>, served |-> FALSE]
    /\ cat \in CatSet /\ keptCat = cat /\ mode = "2d"
    /\ setting = 0 /\ keptSetting = 0
    /\ doors \in [Sensors -> {"on", "off"}] /\ heard = [s \in Sensors |-> "unseen"]
    /\ toasts = <<>> /\ pulled = FALSE /\ steps = 0 /\ strayed = FALSE

PanelStep == steps < MaxSteps /\ steps' = steps + 1

-----------------------------------------------------------------------------
(* The config arrives: a view the text does not offer is left for its      *)
(* first one, which is not kept, and which the panel may not know.         *)
DashboardServed == /\ asking.open /\ ~asking.served
                   /\ asking' = [asking EXCEPT !.served = TRUE, !.read = Parsed(dashboardFile)]
                   /\ UNCHANGED <<dashboardFile, yamlEditor, dashboard, cat, keptCat, mode, setting, keptSetting,
                                  doors, heard, toasts, pulled, steps, strayed>>

DashboardArrives ==
    /\ asking.served /\ asking' = [open |-> FALSE, read |-> <<>>, served |-> FALSE]
    /\ dashboard' = [known |-> TRUE, views |-> asking.read]
    /\ cat' = IF cat \in Range(asking.read) \/ asking.read = <<>> THEN cat ELSE asking.read[1]
    /\ strayed' = (cat' \notin CatSet)
    /\ UNCHANGED <<dashboardFile, yamlEditor, keptCat, mode, setting, keptSetting, doors, heard, toasts,
                   pulled, steps>>

DashboardFails == /\ asking.open /\ PanelStep
                  /\ asking' = [open |-> FALSE, read |-> <<>>, served |-> FALSE]
                  /\ UNCHANGED <<dashboardFile, yamlEditor, dashboard, cat, keptCat, mode, setting, keptSetting,
                                 doors, heard, toasts, pulled, strayed>>

(* changeCat: a tab, a swipe or a toast; the view is kept.                 *)
ChangeCat(c) ==
    /\ cat' = c /\ keptCat' = c
    /\ UNCHANGED <<dashboardFile, yamlEditor, dashboard, asking, setting, keptSetting, doors, heard, toasts,
                   pulled>>

PressTab == /\ mode = "2d" /\ PanelStep
            /\ \E c \in ActiveSet \ {cat} : ChangeCat(c)
            /\ UNCHANGED mode /\ strayed' = FALSE

(* indexOf gives -1 for a view that is not among the tabs.                 *)
IndexIn(cs, c) == IF c \in Range(cs) THEN (CHOOSE n \in DOMAIN cs : cs[n] = c) - 1 ELSE -1
Beside(cs, by) == cs[((IndexIn(cs, cat) + by + Len(cs)) % Len(cs)) + 1]

(* Faulty variant: a swipe goes through all the views there are.           *)
SwipeAll == /\ mode = "2d" /\ PanelStep
            /\ \E by \in {1, -1} : ChangeCat(Beside(Cats, by))
            /\ UNCHANGED mode /\ strayed' = FALSE

Swipe == /\ mode = "2d" /\ PanelStep
         /\ \E by \in {1, -1} : ChangeCat(Beside(ActiveCats, by))
         /\ UNCHANGED mode /\ strayed' = FALSE

ClickToast == /\ toasts # <<>> /\ PanelStep
              /\ ChangeCat(Security)
              /\ mode' = "2d" /\ strayed' = (Security \notin ActiveSet)

-----------------------------------------------------------------------------
(* The sidebar: 2D or 3D, which is not kept, and four settings, which are. *)
ToggleMode == /\ PanelStep /\ mode' = IF mode = "3d" THEN "2d" ELSE "3d"
              /\ UNCHANGED <<dashboardFile, yamlEditor, dashboard, asking, cat, keptCat, setting, keptSetting,
                             doors, heard, toasts, pulled, strayed>>

CycleSetting == /\ PanelStep /\ setting' = (setting + 1) % MaxSettings /\ keptSetting' = setting'
                /\ UNCHANGED <<dashboardFile, yamlEditor, dashboard, asking, cat, keptCat, mode, doors, heard,
                               toasts, pulled, strayed>>

(* Pull to refresh: 600 ms after the finger is lifted the page is loaded   *)
(* anew, with what the browser kept.                                       *)
PullDown == /\ mode = "2d" /\ ~pulled /\ PanelStep /\ pulled' = TRUE
            /\ UNCHANGED <<dashboardFile, yamlEditor, dashboard, asking, cat, keptCat, mode, setting, keptSetting,
                           doors, heard, toasts, strayed>>

Reload == /\ pulled
          /\ Mounts(IF keptCat \in CatSet THEN keptCat ELSE Home, keptSetting)
          /\ UNCHANGED <<dashboardFile, yamlEditor, keptCat, keptSetting, doors, steps>>

-----------------------------------------------------------------------------
(* The toasts: every render with new states compares each entity with what *)
(* it was in the render before; at most four are shown, each for 5 s.      *)
DoorMoves(s) == /\ PanelStep /\ doors' = [doors EXCEPT ![s] = IF @ = "on" THEN "off" ELSE "on"]
                /\ UNCHANGED <<dashboardFile, yamlEditor, dashboard, asking, cat, keptCat, mode, setting,
                               keptSetting, heard, toasts, pulled, strayed>>

(* Faulty variant: an entity that is not known yet counts as off.          *)
AnnouncedFirst(now) == {s \in Sensors : heard[s] # now[s] /\ now[s] = "on"}

(* An entity that was not seen before is only remembered.                  *)
Announced(now) == {s \in Sensors : heard[s] \notin {"unseen", now[s]} /\ now[s] = "on"}

(* The new toasts go behind the others, and the oldest make room.          *)
NewestOf(ts) == SubSeq(ts, IF Len(ts) > MaxToasts THEN Len(ts) - MaxToasts + 1 ELSE 1, Len(ts))

PanelRenders ==
    /\ heard # doors
    /\ heard' = doors
    /\ toasts' = NewestOf(toasts \o SetToSeq(Announced(doors)))
    /\ UNCHANGED <<dashboardFile, yamlEditor, dashboard, asking, cat, keptCat, mode, setting, keptSetting,
                   doors, pulled, steps, strayed>>

ToastEnds == /\ toasts # <<>> /\ toasts' = Tail(toasts)
             /\ UNCHANGED <<dashboardFile, yamlEditor, dashboard, asking, cat, keptCat, mode, setting,
                            keptSetting, doors, heard, pulled, steps, strayed>>

-----------------------------------------------------------------------------
(* The editors of dashboard.yaml, on the settings and on the integrations  *)
(* page: the text is read when the page opens; Save does not wait for it.  *)
EditorUnchanged == UNCHANGED <<dashboard, asking, cat, keptCat, mode, setting, keptSetting, doors,
                               heard, toasts, pulled, strayed>>

OpenEditor == /\ yamlEditor.read = "no" /\ PanelStep
              /\ yamlEditor' = [Nobody0 EXCEPT !.read = "asked"]
              /\ UNCHANGED dashboardFile /\ EditorUnchanged

DashboardTextArrives == /\ yamlEditor.read = "asked"
               /\ yamlEditor' \in {[yamlEditor EXCEPT !.text = dashboardFile, !.read = "yes"],
                               [yamlEditor EXCEPT !.read = "failed"]}
               /\ UNCHANGED <<dashboardFile, steps>> /\ EditorUnchanged

TypeDoc == /\ yamlEditor.read # "no" /\ PanelStep
           /\ \E doc \in Dashboards \ {yamlEditor.text} : yamlEditor' = [yamlEditor EXCEPT !.text = doc]
           /\ UNCHANGED dashboardFile /\ EditorUnchanged

SaveDoc == /\ yamlEditor.read # "no" /\ ~yamlEditor.saving /\ PanelStep
           /\ yamlEditor' = [yamlEditor EXCEPT !.saving = TRUE]
           /\ UNCHANGED dashboardFile /\ EditorUnchanged

(* PUT dashboard/text: what is not YAML is refused.                        *)
DocServed == /\ yamlEditor.saving
             /\ dashboardFile' = IF yamlEditor.text \in Formless THEN dashboardFile ELSE yamlEditor.text
             /\ yamlEditor' = [yamlEditor EXCEPT !.saving = FALSE]
             /\ UNCHANGED steps /\ EditorUnchanged

PanelNext ==
    \/ DashboardServed \/ DashboardArrives \/ DashboardFails
    \/ PressTab \/ Swipe \/ ClickToast \/ ToggleMode \/ CycleSetting \/ PullDown \/ Reload
    \/ PanelRenders \/ ToastEnds \/ OpenEditor \/ DashboardTextArrives \/ TypeDoc \/ SaveDoc \/ DocServed
    \/ \E s \in Sensors : DoorMoves(s)

PanelSpec == PanelInit /\ [][PanelNext]_panelVars

-----------------------------------------------------------------------------
(* What is drawn: a tab per view with a count of what is active in it, the *)
(* open view in 2D mode (none for a view the panel does not know), and the *)
(* buttons of the sidebar.                                                 *)
ActiveCounts == [c \in CatSet |-> IF c = Security THEN Cardinality({s \in Sensors : doors[s] = "on"}) ELSE 0]
TabsDrawn == [n \in DOMAIN ActiveCats |->
                [tab |-> ActiveCats[n], active |-> ActiveCats[n] = cat, badge |-> ActiveCounts[ActiveCats[n]]]]
ViewDrawn == IF mode = "2d" THEN {cat} \cap CatSet ELSE {}
SidebarDrawn == [mode |-> mode, setting |-> setting]

-----------------------------------------------------------------------------
(* The variables have the shape the code gives them.                       *)
PanelTypeOK ==
    /\ dashboardFile \in Dashboards /\ yamlEditor.text \in Dashboards /\ mode \in {"2d", "3d"}
    /\ Len(toasts) <= MaxToasts /\ setting \in 0 .. MaxSettings - 1
    /\ \A s \in Sensors : heard[s] \in {"unseen", "on", "off"}

(* Whatever comes first, a tab, a swipe or the config, the panel ends on a *)
(* view that it offers a tab for: unless a toast led away from them, or    *)
(* the first view of the text is one it does not know.                     *)
ShowsWhatItOffers == ~asking.open /\ ~strayed => cat \in ActiveSet

(* A panel that was just loaded announces nothing: what is open already is *)
(* not news, only what opens while it watches.                             *)
NewsOnly == [][ \A s \in Sensors :
                  heard[s] = "unseen" /\ heard'[s] # "unseen"
                    => s \notin Range(toasts') ]_panelVars
=============================================================================

------------------------------ MODULE Registry ------------------------------
(***************************************************************************)
(* The entity and area registries (entity-registry.service.ts,             *)
(* area-registry.service.ts) behind /api, and the page that edits them     *)
(* (AreasPage.tsx).  An operation checks the map in memory, then issues    *)
(* its statements one after the other; statements are executed in the      *)
(* order issued, and the code that waits for one goes on before the next.  *)
(***************************************************************************)
EXTENDS Integers, Sequences, FiniteSets

CONSTANTS Ents, AreaIds,
          Names,          \* names people give
          Originals,      \* names integrations give
          NoName, NoRow,
          MaxJobs, MaxRestarts

VARIABLES
    stored,     \* the tables entity_registry and area_registry
    known,      \* the maps entities and areas
    queue,      \* statements issued and not yet executed
    toRegister, \* entities the integrations have still to register
    page,       \* the page: areas, entities, and what it asked for
    lateAnswers,\* answers of the server that have not reached the page
    renamed,    \* auxiliary: the name of an entity last confirmed to a person
    regs        \* how much has happened

regVars == <<stored, known, queue, toRegister, page, lateAnswers, renamed, regs>>

EntityRows == [name : Names \cup Originals, original : Originals,
               area : AreaIds \cup {NoName}]
AreaRows == Names
RegKeys == Ents \cup AreaIds
RowsOf == EntityRows \cup AreaRows

(* The two tables have their keys for themselves.                          *)
ASSUME RegistryAssumption ==
    /\ Ents \cap AreaIds = {}
    /\ NoRow \notin RowsOf
    /\ NoName \notin RegKeys
    /\ {MaxJobs, MaxRestarts} \subseteq Nat

(* A statement: what it does, to which row, and who waits for it.          *)
Stmt(does, key, set, who) == [does |-> does, key |-> key, set |-> set, who |-> who]

RegInit ==
    /\ stored = [k \in RegKeys |-> NoRow] /\ known = stored
    /\ queue = << >>
    /\ toRegister = Ents
    /\ page = [open |-> FALSE, areas |-> {}, area |-> [e \in Ents |-> NoName], asked |-> 0,
               patient |-> TRUE]
    /\ lateAnswers = << >>
    /\ renamed = [e \in Ents |-> NoName]
    /\ regs = [jobs |-> 0, restarts |-> 0]

-----------------------------------------------------------------------------
(* The changes a statement makes to a row: those it names.                 *)
Changed(row, set) == [f \in DOMAIN row |-> IF f \in DOMAIN set THEN set[f] ELSE row[f]]

Issue(s) == queue' = Append(queue, s)

(* registerEntity(): a new entity is inserted, one there is updated with   *)
(* what the integration says; the name people gave is not touched.         *)
(* Faulty variant: the name is taken from the integration again.           *)
RegisterRenames ==
    /\ \E e \in toRegister, o \in Originals :
          /\ toRegister' = toRegister \ {e}
          /\ Issue(IF known[e] = NoRow
                   THEN Stmt("insert", e, [name |-> o, original |-> o, area |-> NoName],
                             "integration")
                   ELSE Stmt("update", e, [original |-> o, name |-> o], "integration"))
    /\ UNCHANGED <<stored, known, page, lateAnswers, renamed, regs>>
RegisterEntity ==
    /\ \E e \in toRegister, o \in Originals :
          /\ toRegister' = toRegister \ {e}
          /\ Issue(IF known[e] = NoRow
                   THEN Stmt("insert", e, [name |-> o, original |-> o, area |-> NoName],
                             "integration")
                   ELSE Stmt("update", e, [original |-> o], "integration"))
    /\ UNCHANGED <<stored, known, page, lateAnswers, renamed, regs>>

(* A request of the page; the answer tells it whether it was carried out.  *)
Request == /\ page.open /\ regs.jobs < MaxJobs
           /\ regs' = [regs EXCEPT !.jobs = @ + 1]
           /\ UNCHANGED <<stored, known, toRegister>>
(* patient: no request was sent while another was under way.               *)
Asks == page' = [page EXCEPT !.asked = @ + 1, !.patient = @ /\ page.asked = 0]

Reply(does, key, set) ==
    lateAnswers' = Append(lateAnswers, [does |-> does, key |-> key, set |-> set])
Refuse == Reply("refused", NoName, NoRow)

(* updateEntity(): not found, or changed.                                  *)
UpdateEntity(e, set) ==
    /\ Request /\ Asks
    /\ renamed' = IF "name" \in DOMAIN set THEN [renamed EXCEPT ![e] = NoName] ELSE renamed
    /\ IF known[e] = NoRow THEN Refuse /\ UNCHANGED queue
       ELSE Issue(Stmt("update", e, set, "person")) /\ UNCHANGED lateAnswers

(* What the page offers: the areas it lists, and no area.                  *)
Listed  == page.areas
AreaChoices == page.areas \cup {NoName}

RenameEntity(e) == \E n \in Names : UpdateEntity(e, [name |-> n])
AssignEntity(e) == \E a \in AreaChoices : UpdateEntity(e, [area |-> a])

(* createArea(): the id is made of the name; there may be one already.     *)
CreateArea(a) ==
    /\ Request /\ Asks
    /\ UNCHANGED renamed
    /\ IF known[a] # NoRow THEN Refuse /\ UNCHANGED queue
       ELSE \E n \in Names : /\ Issue(Stmt("insert", a, n, "person"))
                             /\ UNCHANGED lateAnswers

(* updateArea() and deleteArea().                                          *)
UpdateArea(a) ==
    /\ Request /\ Asks
    /\ UNCHANGED renamed
    /\ IF known[a] = NoRow THEN Refuse /\ UNCHANGED queue
       ELSE \E n \in Names : /\ Issue(Stmt("update", a, n, "person"))
                             /\ UNCHANGED lateAnswers

DeleteArea(a) ==
    /\ Request /\ Asks /\ a \in Listed
    /\ UNCHANGED renamed
    /\ IF known[a] = NoRow
       THEN Reply("delete", a, NoRow) /\ UNCHANGED queue
       ELSE Issue(Stmt("delete", a, NoRow, "person")) /\ UNCHANGED lateAnswers

-----------------------------------------------------------------------------
(* The database executes the first statement.  INSERT and DELETE are shown *)
(* by the code that waited; after an UPDATE the row is read again.         *)
Answer(s) ==
    IF s.who = "integration" THEN UNCHANGED lateAnswers ELSE Reply(s.does, s.key, s.set)

(* A rename is confirmed for good when no other is on its way.             *)
Confirm(s) ==
    renamed' = IF /\ s.who = "person" /\ s.key \in Ents /\ "name" \in DOMAIN s.set
                  /\ ~\E i \in DOMAIN Tail(queue) :
                        /\ Tail(queue)[i].key = s.key /\ Tail(queue)[i].who = "person"
                        /\ "name" \in DOMAIN Tail(queue)[i].set
               THEN [renamed EXCEPT ![s.key] = s.set.name] ELSE renamed

Executed == /\ queue # << >>
            /\ UNCHANGED <<toRegister, page, regs>>

ExecInsert ==
    /\ Executed
    /\ LET s == Head(queue)
       IN /\ s.does = "insert"
          /\ queue' = Tail(queue)
          /\ stored' = [stored EXCEPT ![s.key] = s.set]
          /\ known' = [known EXCEPT ![s.key] = s.set]
          /\ Answer(s)
    /\ UNCHANGED renamed

(* Faulty variant: the map in memory keeps the row.                        *)
ExecDeleteKeeps ==
    /\ Executed
    /\ LET s == Head(queue)
       IN /\ s.does = "delete"
          /\ queue' = Tail(queue)
          /\ stored' = [stored EXCEPT ![s.key] = NoRow]
          /\ Answer(s)
    /\ UNCHANGED <<known, renamed>>

ExecDelete ==
    /\ Executed
    /\ LET s == Head(queue)
       IN /\ s.does = "delete"
          /\ queue' = Tail(queue)
          /\ stored' = [stored EXCEPT ![s.key] = NoRow]
          /\ known' = [known EXCEPT ![s.key] = NoRow]
          /\ Answer(s)
    /\ UNCHANGED renamed

(* UPDATE of a row that is gone changes nothing.                           *)
ExecUpdate ==
    /\ Executed
    /\ LET s == Head(queue)
       IN /\ s.does = "update"
          /\ stored' = IF stored[s.key] = NoRow THEN stored
                       ELSE [stored EXCEPT ![s.key] =
                                IF s.key \in Ents THEN Changed(@, s.set) ELSE s.set]
          /\ queue' = Append(Tail(queue), [s EXCEPT !.does = "find"])
    /\ UNCHANGED <<known, lateAnswers, renamed>>

(* findOne(): a row that is gone makes the conversion throw.               *)
(* Faulty variant: what was asked for is shown, not what was read.         *)
ExecFindTrusts ==
    /\ Executed
    /\ LET s == Head(queue)
       IN /\ s.does = "find"
          /\ queue' = Tail(queue)
          /\ known' = IF known[s.key] = NoRow /\ s.key \in Ents THEN known
                      ELSE [known EXCEPT ![s.key] =
                               IF s.key \in Ents THEN Changed(@, s.set) ELSE s.set]
          /\ Answer(s) /\ Confirm(s)
    /\ UNCHANGED stored
ExecFind ==
    /\ Executed
    /\ LET s == Head(queue)
       IN /\ s.does = "find"
          /\ queue' = Tail(queue)
          /\ IF stored[s.key] = NoRow
             THEN /\ IF s.who = "person" THEN Refuse ELSE UNCHANGED lateAnswers
                  /\ UNCHANGED <<known, renamed>>
             ELSE /\ known' = [known EXCEPT ![s.key] = stored[s.key]]
                  /\ Answer(s) /\ Confirm(s)
    /\ UNCHANGED stored

(* The process restarts: loadFromDatabase(), then the integrations register*)
(* their entities again.  Requests under way fail.                         *)
ServerRestart ==
    /\ regs.restarts < MaxRestarts
    /\ regs' = [regs EXCEPT !.restarts = @ + 1]
    /\ known' = stored
    /\ queue' = << >>
    /\ toRegister' = Ents
    /\ lateAnswers' = << >>
    /\ page' = [page EXCEPT !.asked = 0, !.patient = @ /\ page.asked = 0]
    /\ UNCHANGED <<stored, renamed>>

-----------------------------------------------------------------------------
(* The page asks for both lists when it opens; they are answered from      *)
(* memory.                                                                 *)
OpenPage ==
    /\ ~page.open
    /\ page' = [page EXCEPT !.open = TRUE, !.asked = 2]
    /\ lateAnswers' = lateAnswers \o
          <<[does |-> "areas", key |-> NoName, list |-> {a \in AreaIds : known[a] # NoRow}],
            [does |-> "entities", key |-> NoName,
             areas |-> [e \in Ents |-> IF known[e] = NoRow THEN NoName ELSE known[e].area]]>>
    /\ UNCHANGED <<stored, known, queue, toRegister, renamed, regs>>

(* An answer arrives, in any order; a refusal changes nothing, except that *)
(* a deleted area goes whatever the answer says.                           *)
Arrives(i) ==
    /\ lateAnswers' = SubSeq(lateAnswers, 1, i - 1)
                        \o SubSeq(lateAnswers, i + 1, Len(lateAnswers))
    /\ UNCHANGED <<stored, known, queue, toRegister, renamed, regs>>

ListsArrive(i) ==
    /\ lateAnswers[i].does \in {"areas", "entities"}
    /\ page' = IF lateAnswers[i].does = "areas"
               THEN [page EXCEPT !.areas = lateAnswers[i].list, !.asked = @ - 1]
               ELSE [page EXCEPT !.area = lateAnswers[i].areas, !.asked = @ - 1]

AreaCreated(i) ==
    /\ lateAnswers[i].does = "insert"
    /\ page' = [page EXCEPT !.areas = @ \cup {lateAnswers[i].key}, !.asked = @ - 1]

AreaDeleted(i) ==
    /\ lateAnswers[i].does = "delete"
    /\ page' = [page EXCEPT !.areas = @ \ {lateAnswers[i].key}, !.asked = @ - 1]

EntityAssigned(i) ==
    /\ lateAnswers[i].does = "find"
    /\ page' = IF lateAnswers[i].key \in Ents /\ "area" \in DOMAIN lateAnswers[i].set
               THEN [page EXCEPT !.area[lateAnswers[i].key] = lateAnswers[i].set.area,
                                 !.asked = @ - 1]
               ELSE [page EXCEPT !.asked = @ - 1]

Refused(i) == /\ lateAnswers[i].does = "refused"
              /\ page' = [page EXCEPT !.asked = @ - 1]

AnswerArrives == \E i \in DOMAIN lateAnswers :
    /\ Arrives(i)
    /\ \/ ListsArrive(i) \/ AreaCreated(i) \/ AreaDeleted(i) \/ EntityAssigned(i)
       \/ Refused(i)

Persons == \/ \E e \in Ents : RenameEntity(e) \/ AssignEntity(e)
           \/ \E a \in AreaIds : CreateArea(a) \/ UpdateArea(a) \/ DeleteArea(a)

Database == ExecInsert \/ ExecDelete \/ ExecUpdate \/ ExecFind

RegNext == RegisterEntity \/ Persons \/ Database \/ ServerRestart \/ OpenPage \/ AnswerArrives

RegSpec == RegInit /\ [][RegNext]_regVars

-----------------------------------------------------------------------------
(* The state has the shape the code gives it.                              *)
RegTypeOK ==
    /\ \A k \in Ents : {stored[k], known[k]} \subseteq EntityRows \cup {NoRow}
    /\ \A k \in AreaIds : {stored[k], known[k]} \subseteq AreaRows \cup {NoRow}
    /\ \A i \in DOMAIN queue : queue[i].key \in RegKeys
    /\ toRegister \subseteq Ents
    /\ page.areas \subseteq AreaIds /\ page.asked >= 0
    /\ renamed \in [Ents -> Names \cup {NoName}]

(* The registry is a durable table: what is read is never ahead of the     *)
(* database, differs from it only while a change is being copied, and      *)
(* starts from it after a restart (updateEntityInternal(), createArea(),   *)
(* deleteArea(), loadFromDatabase()).                                      *)
Behind == {queue[i].key : i \in {j \in DOMAIN queue : queue[j].does = "find"}}
Durable == INSTANCE DurableTable WITH Keys <- RegKeys, Rows <- RowsOf, disk <- stored,
                                    copy <- known, behind <- Behind
IsDurableTable == Durable!TableSpec

(* A name a person was told is saved is there until the next rename, though*)
(* the integration registers its entity again at every start               *)
(* (registerEntity()).                                                     *)
NamesAreKept ==
    \A e \in Ents : renamed[e] # NoName =>
        /\ stored[e] # NoRow /\ stored[e].name = renamed[e]
        /\ known[e] # NoRow /\ known[e].name = renamed[e]

(* A page whose user waits for each answer shows the areas there are, as   *)
(* long as nobody else changes them.                                       *)
PageShowsAreas ==
    page.open /\ page.patient /\ page.asked = 0 =>
        page.areas = {a \in AreaIds : known[a] # NoRow}

(* What a person edited stays, and is what the pages show.                 *)
EditsAreKept == NamesAreKept /\ PageShowsAreas
=============================================================================

--------------------------- MODULE AutomationFile ---------------------------
(***************************************************************************)
(* automations.yaml between the page that writes it (AutomationsPage.tsx,  *)
(* with its visual editor and the suggestions of ai.controller.ts), the    *)
(* watcher that reads it again (automation.integration.ts) and the engine  *)
(* that runs what it read (Automation.tla says how).                       *)
(***************************************************************************)
EXTENDS Integers, Sequences, FiniteSets, SequencesExt

CONSTANTS Hand,         \* automations written by hand
          Visual,       \* what the visual editor generates
          Suggestions,  \* what the assistant suggests
          KeysOf,       \* the keys an entry has, of "trigger" and "action"
          NoText,
          MaxChars,     \* entries of a text
          MaxTyping, MaxSavings, MaxLoadFaults

Entries == Hand \cup {Visual} \cup Suggestions

VARIABLES
    autoFile,   \* automations.yaml
    watcher,    \* the debounce timer of the watcher runs
    engine,     \* the automations registered
    autoPage,   \* AutomationsPage
    autoRuns    \* how much has happened

autoVars == <<autoFile, watcher, engine, autoPage, autoRuns>>

(* A text parses, or does not (typed by hand, or a suggestion that is not  *)
(* a list).                                                                *)
Texts == [ok : BOOLEAN, entries : BoundedSeq(Entries, MaxChars)]
NoEntries == [ok |-> TRUE, entries |-> << >>]

(* registerAutomation() needs a list of triggers; without one it throws,   *)
(* and the entries after it are not registered.                            *)
Registers(e) == "trigger" \in KeysOf[e]
UpToFault(entries) ==
    LET bad == {i \in DOMAIN entries : ~Registers(entries[i])}
    IN IF bad = {} THEN entries
       ELSE SubSeq(entries, 1, (CHOOSE i \in bad : \A j \in bad : i <= j) - 1)

(* execute(): an entry of the list of actions without the key `action' is  *)
(* an unknown action.                                                      *)
Executes(e) == "action" \in KeysOf[e]

AutoInit ==
    /\ \E e \in Hand : autoFile = [ok |-> TRUE, entries |-> <<e>>]
    /\ engine = UpToFault(autoFile.entries)
    /\ watcher = FALSE
    /\ autoPage = [tab |-> "list", yaml |-> NoEntries, dirty |-> FALSE, answer |-> NoText,
                   saving |-> FALSE, ideas |-> {}, removed |-> {}, read |-> FALSE, hasty |-> FALSE]
    /\ autoRuns = [typing |-> 0, savings |-> 0, faults |-> 0]

-----------------------------------------------------------------------------
(* fs.watch(): every write starts the timer of 500 ms again; then the file *)
(* is read.                                                                *)
Written(text) == autoFile' = text /\ watcher' = TRUE

(* reloadFromFile(): text that does not parse changes nothing; otherwise   *)
(* everything is torn down and registered again.                           *)
(* Faulty variants: nothing is torn down; everything is, first.            *)
ReloadAdds ==
    /\ watcher /\ watcher' = FALSE
    /\ engine' = IF autoFile.ok THEN engine \o UpToFault(autoFile.entries) ELSE engine
    /\ UNCHANGED <<autoFile, autoPage, autoRuns>>
ReloadTearsDown ==
    /\ watcher /\ watcher' = FALSE
    /\ engine' = IF autoFile.ok THEN UpToFault(autoFile.entries) ELSE << >>
    /\ UNCHANGED <<autoFile, autoPage, autoRuns>>
ReloadFile ==
    /\ watcher /\ watcher' = FALSE
    /\ engine' = IF autoFile.ok THEN UpToFault(autoFile.entries) ELSE engine
    /\ UNCHANGED <<autoFile, autoPage, autoRuns>>

-----------------------------------------------------------------------------
(* The page.  The effect of a change of tab: the YAML is loaded for the    *)
(* tabs `new' and `edit' unless there is some already.                     *)
Loading(page) ==
    IF page.tab \in {"new", "edit"} /\ page.yaml = NoEntries
    THEN [page EXCEPT !.answer = autoFile] ELSE page

OpenTab ==
    /\ \E t \in {"new", "edit", "ai"} \ {autoPage.tab} :
          autoPage' = Loading([autoPage EXCEPT !.tab = t])
    /\ UNCHANGED <<autoFile, watcher, engine, autoRuns>>

(* The answer replaces whatever is there.                                  *)
TextArrives ==
    /\ autoPage.answer # NoText
    /\ autoPage' = [autoPage EXCEPT !.answer = NoText, !.yaml = autoPage.answer, !.read = TRUE]
    /\ UNCHANGED <<autoFile, watcher, engine, autoRuns>>

LoadFails ==
    /\ autoPage.answer # NoText /\ autoRuns.faults < MaxLoadFaults
    /\ autoPage' = [autoPage EXCEPT !.answer = NoText]
    /\ autoRuns' = [autoRuns EXCEPT !.faults = @ + 1]
    /\ UNCHANGED <<autoFile, watcher, engine>>

(* appendYaml(): behind what is there; the tab becomes `edit', whose       *)
(* effect finds some YAML.                                                 *)
(* Faulty variant: the snippet replaces what is there.                     *)
AppendedAlone(snippet) ==
    autoPage' = [autoPage EXCEPT !.tab = "edit", !.dirty = TRUE,
                    !.yaml = [ok |-> TRUE, entries |-> <<snippet>>]]
Appended(snippet) ==
    autoPage' = [autoPage EXCEPT !.tab = "edit", !.dirty = TRUE,
                    !.yaml.entries = Append(@, snippet)]

Typing == /\ autoRuns.typing < MaxTyping /\ Len(autoPage.yaml.entries) < MaxChars
          /\ autoRuns' = [autoRuns EXCEPT !.typing = @ + 1]
          /\ UNCHANGED <<autoFile, watcher, engine>>

(* Generate YAML.                                                          *)
Generate == /\ Typing /\ autoPage.tab = "new"
            /\ Appended(Visual)

(* Generate suggestions; a new answer replaces the old ones.               *)
Suggest ==
    /\ autoPage.tab = "ai" /\ autoPage.ideas = {}
    /\ autoPage' = [autoPage EXCEPT !.ideas = Suggestions]
    /\ UNCHANGED <<autoFile, watcher, engine, autoRuns>>

Apply == /\ Typing /\ autoPage.tab = "ai"
         /\ \E s \in autoPage.ideas : Appended(s)

(* Typing in the text: an entry more, one less, or something that does not *)
(* parse.                                                                  *)
Type ==
    /\ Typing /\ autoPage.tab = "edit"
    /\ \E e \in Hand :
          \E text \in {[autoPage.yaml EXCEPT !.entries = Append(@, e)],
                       [autoPage.yaml EXCEPT !.entries = IF @ = << >> THEN @ ELSE Front(@)],
                       [autoPage.yaml EXCEPT !.ok = ~@]} :
             autoPage' = [autoPage EXCEPT !.yaml = text, !.dirty = TRUE,
                !.removed = @ \cup (ToSet(autoPage.yaml.entries) \ ToSet(text.entries))]

(* saveYaml() and updateAutomations(): the text as it is.  A save before   *)
(* the file has been read is remembered as hasty.                          *)
SaveYamlText ==
    /\ autoPage.tab = "edit" /\ autoPage.dirty /\ ~autoPage.saving
    /\ autoRuns.savings < MaxSavings
    /\ Written(autoPage.yaml)
    /\ autoPage' = [autoPage EXCEPT !.saving = TRUE,
                       !.hasty = @ \/ ~autoPage.read \/ autoPage.answer # NoText]
    /\ autoRuns' = [autoRuns EXCEPT !.savings = @ + 1]
    /\ UNCHANGED engine

(* The answer: what was typed meanwhile counts as saved, too.              *)
SavedAnswer ==
    /\ autoPage.saving
    /\ autoPage' = [autoPage EXCEPT !.saving = FALSE, !.dirty = FALSE]
    /\ UNCHANGED <<autoFile, watcher, engine, autoRuns>>

-----------------------------------------------------------------------------
AutoNext ==
    \/ ReloadFile
    \/ OpenTab \/ TextArrives \/ LoadFails
    \/ Generate \/ Suggest \/ Apply \/ Type
    \/ SaveYamlText \/ SavedAnswer

AutoSpec == AutoInit /\ [][AutoNext]_autoVars

-----------------------------------------------------------------------------
(* The state has the shape the code gives it.                              *)
AutoTypeOK ==
    /\ autoFile \in Texts
    /\ watcher \in BOOLEAN
    /\ engine \in BoundedSeq(Entries, MaxChars)
    /\ autoPage \in [tab : {"list", "new", "edit", "ai"}, yaml : Texts, dirty : BOOLEAN,
                     answer : Texts \cup {NoText}, saving : BOOLEAN,
                     ideas : SUBSET Suggestions, removed : SUBSET Entries,
                     read : BOOLEAN, hasty : BOOLEAN]
    /\ autoRuns \in [typing : 0..MaxTyping, savings : 0..MaxSavings, faults : 0..MaxLoadFaults]

(* However often and however quickly the file is written: when the timer   *)
(* has run out the engine runs the file, up to the first entry that cannot *)
(* be registered.                                                          *)
EngineFollowsFile ==
    ~watcher /\ autoFile.ok => engine = UpToFault(autoFile.entries)

(* Text that does not parse stops no automation that runs.                 *)
BrokenTextStopsNone ==
    [][~autoFile.ok => engine' = engine]_autoVars

(* As long as the page saves only what it has read before: a save drops no *)
(* automation that nobody has removed from the text.  (A hasty save, say   *)
(* of a suggestion while the file is still loading, drops them all.)       *)
SaveKeepsOthers ==
    [][autoFile' # autoFile /\ ~autoPage'.hasty =>
         ToSet(autoFile.entries) \ ToSet(autoFile'.entries) \subseteq autoPage.removed]_autoVars

(* What the page's visual editor generates does something when it is       *)
(* triggered.                                                              *)
GeneratedActs == \A i \in DOMAIN engine : engine[i] = Visual => Executes(Visual)
=============================================================================

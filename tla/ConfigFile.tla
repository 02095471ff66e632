----------------------------- MODULE ConfigFile -----------------------------
(***************************************************************************)
(* The configuration file, the process that read it at its start, and the  *)
(* pages that change it: the forms and the YAML editor of                  *)
(* IntegrationsPage.tsx (config.controller.ts), snapshots (BackupPage.tsx, *)
(* backup.controller.ts), the self-update (OtaPage.tsx, ota.controller.ts).*)
(* Every change is followed by a restart, which a timer of the old process *)
(* asks pm2 for.                                                           *)
(***************************************************************************)
EXTENDS Integers, FiniteSets

CONSTANTS Formed,       \* integrations the page has a form for
          Foreign,      \* configured integrations without a form
          Settings,     \* what can be configured for one
          Off, Blank,   \* not there; a form with every field emptied
          Snaps,        \* names of snapshots
          NoDoc, Nobody,
          Tabs,         \* which pages people have open together
          MaxWrites, MaxEdits, MaxUpdates, MaxPm2Faults

ASSUME ConfigAssumption == {MaxWrites, MaxEdits, MaxUpdates, MaxPm2Faults} \subseteq Nat

Known == Formed \cup Foreign
Docs  == [Known -> Settings \cup {Off}]
Forms == [Known -> Settings \cup {Off, Blank}]

VARIABLES
    disk,       \* conf: configuration.yaml; source, dist: what git and the build left
    proc,       \* the process: what it read, and its timers
    shelf,      \* the snapshots
    form,       \* the forms of IntegrationsPage
    yamlTab,    \* ConfigYamlEditor
    backup,     \* BackupPage
    ota,        \* OtaPage
    cfgRuns     \* how much has happened

cfgVars == <<disk, proc, shelf, form, yamlTab, backup, ota, cfgRuns>>

Empty == [i \in Known |-> Off]

CfgInit ==
    /\ \E conf \in {d \in Docs : \A i \in Known : d[i] # Off} :
          /\ disk = [conf |-> conf, source |-> 0, dist |-> 0]
          /\ proc = [up |-> TRUE, conf |-> conf, dist |-> 0, due |-> {}, job |-> "none",
                     refused |-> FALSE]
    /\ shelf = [s \in Snaps |-> NoDoc]
    /\ form = [values |-> Empty, answer |-> NoDoc, asked |-> FALSE, doing |-> "idle",
               sent |-> NoDoc, alone |-> TRUE, rebooted |-> FALSE]
    /\ yamlTab = [text |-> NoDoc, answer |-> NoDoc, asked |-> FALSE]
    /\ backup = [open |-> FALSE, listed |-> {}, confirming |-> Nobody, answers |-> {}]
    /\ ota = [sees |-> FALSE, confirming |-> FALSE]
    /\ \E tabs \in Tabs :
          cfgRuns = [tabs |-> tabs, writes |-> 0, edits |-> 0, updates |-> 0, faults |-> 0]

-----------------------------------------------------------------------------
(* The process: a restart that is due kills it, with its other timers; pm2 *)
(* starts it again, and it reads the file (ha-config.loader.ts).           *)
Boot ==
    /\ ~proc.up
    /\ proc' = [proc EXCEPT !.up = TRUE, !.conf = disk.conf, !.dist = disk.dist,
                             !.refused = FALSE]
    /\ form' = [form EXCEPT !.rebooted = TRUE]
    /\ UNCHANGED <<disk, shelf, yamlTab, backup, ota, cfgRuns>>

Dies == proc' = [proc EXCEPT !.up = FALSE, !.due = {}, !.job = "none"]

(* setTimeout(() => exec('pm2 restart ...'), 500), process.exit(0).        *)
Restart ==
    /\ proc.due # {} /\ Dies
    /\ UNCHANGED <<disk, shelf, form, yamlTab, backup, ota, cfgRuns>>

(* exec() fails: an error is logged, and nothing else happens.             *)
Pm2Fails ==
    /\ cfgRuns.faults < MaxPm2Faults /\ "pm2" \in proc.due
    /\ proc' = [proc EXCEPT !.due = @ \ {"pm2"}, !.refused = TRUE]
    /\ cfgRuns' = [cfgRuns EXCEPT !.faults = @ + 1]
    /\ UNCHANGED <<disk, shelf, form, yamlTab, backup, ota>>

(* The server has stored a document, and will restart in the given way.    *)
Stored(doc, way) ==
    /\ disk' = [disk EXCEPT !.conf = doc]
    /\ proc' = [proc EXCEPT !.due = @ \cup {way}]
    /\ cfgRuns' = [cfgRuns EXCEPT !.writes = @ + 1]
MayWrite == proc.up /\ cfgRuns.writes < MaxWrites

-----------------------------------------------------------------------------
(* The forms.  loads: what the running process was started with.           *)
OpenForms ==
    /\ proc.up /\ "forms" \in cfgRuns.tabs /\ ~form.asked
    /\ form' = [form EXCEPT !.asked = TRUE, !.answer = proc.conf]
    /\ UNCHANGED <<disk, proc, shelf, yamlTab, backup, ota, cfgRuns>>

(* Edits of integrations the server does not know are kept.                *)
FormsLoaded ==
    /\ form.answer # NoDoc
    /\ form' = [form EXCEPT !.answer = NoDoc,
                  !.values = [i \in Known |-> IF form.answer[i] # Off THEN form.answer[i]
                                              ELSE form.values[i]]]
    /\ UNCHANGED <<disk, proc, shelf, yamlTab, backup, ota, cfgRuns>>

(* What renderIntegration() lets a person do: fields and devices of one    *)
(* form.                                                                   *)
EditForm ==
    /\ "forms" \in cfgRuns.tabs /\ cfgRuns.edits < MaxEdits
    /\ \E i \in Formed : \E v \in (Settings \cup {Blank}) \ {form.values[i]} :
          form' = [form EXCEPT !.values[i] = v]
    /\ cfgRuns' = [cfgRuns EXCEPT !.edits = @ + 1]
    /\ UNCHANGED <<disk, proc, shelf, yamlTab, backup, ota>>

(* save(): the forms that have a value.  applyConfig() puts them in the    *)
(* place of all integrations of the file.                                  *)
Sent == [i \in Known |-> IF i \in Formed /\ form.values[i] \in Settings
                         THEN form.values[i] ELSE Off]
SaveForms ==
    /\ MayWrite /\ "forms" \in cfgRuns.tabs /\ form.doing = "idle"
    /\ Stored(Sent, "pm2")
    /\ form' = [form EXCEPT !.doing = "waiting", !.sent = Sent, !.alone = TRUE,
                            !.rebooted = FALSE]
    /\ UNCHANGED <<shelf, yamlTab, backup, ota>>

(* Somebody else has written the file since.                               *)
Crowded == form' = [form EXCEPT !.alone = FALSE]

(* waitForServer() polls every 2 s; the old process, which has 500 ms to   *)
(* live, no longer answers the first poll.                                 *)
(* Faulty variant: the first poll is made at once.                         *)
HealthyAtOnce ==
    /\ form.doing = "waiting" /\ proc.up
    /\ form' = [form EXCEPT !.doing = "reloading"]
    /\ UNCHANGED <<disk, proc, shelf, yamlTab, backup, ota, cfgRuns>>
Healthy ==
    /\ form.doing = "waiting" /\ proc.up
    /\ form.rebooted \/ proc.due = {}
    /\ form' = [form EXCEPT !.doing = "reloading"]
    /\ UNCHANGED <<disk, proc, shelf, yamlTab, backup, ota, cfgRuns>>

(* 60 polls without an answer.                                             *)
GivesUp ==
    /\ form.doing = "waiting" /\ ~proc.up
    /\ form' = [form EXCEPT !.doing = "idle"]
    /\ UNCHANGED <<disk, proc, shelf, yamlTab, backup, ota, cfgRuns>>

(* reloadConfig(): the forms show what runs now, edits made meanwhile are  *)
(* gone; if the fetch fails they stay.  In both cases: applied.            *)
ReloadForms ==
    /\ form.doing = "reloading"
    /\ form' = [form EXCEPT !.doing = "idle", !.values = IF proc.up THEN proc.conf ELSE @]
    /\ UNCHANGED <<disk, proc, shelf, yamlTab, backup, ota, cfgRuns>>

-----------------------------------------------------------------------------
(* ConfigYamlEditor: the text of the file.                                 *)
OpenYaml ==
    /\ proc.up /\ "yaml" \in cfgRuns.tabs /\ ~yamlTab.asked
    /\ yamlTab' = [yamlTab EXCEPT !.asked = TRUE, !.answer = disk.conf]
    /\ UNCHANGED <<disk, proc, shelf, form, backup, ota, cfgRuns>>

YamlLoaded ==
    /\ yamlTab.answer # NoDoc
    /\ yamlTab' = [yamlTab EXCEPT !.text = yamlTab.answer, !.answer = NoDoc]
    /\ UNCHANGED <<disk, proc, shelf, form, backup, ota, cfgRuns>>

EditYaml ==
    /\ cfgRuns.edits < MaxEdits /\ yamlTab.text # NoDoc
    /\ \E i \in Known, v \in Settings \cup {Off} :
          /\ v # yamlTab.text[i]
          /\ yamlTab' = [yamlTab EXCEPT !.text[i] = v]
    /\ cfgRuns' = [cfgRuns EXCEPT !.edits = @ + 1]
    /\ UNCHANGED <<disk, proc, shelf, form, backup, ota>>

(* saveConfigText(): text that cannot be parsed, and no text, is refused.  *)
SaveYaml ==
    /\ MayWrite /\ yamlTab.text # NoDoc
    /\ Stored(yamlTab.text, "pm2")
    /\ Crowded
    /\ UNCHANGED <<shelf, yamlTab, backup, ota>>

-----------------------------------------------------------------------------
(* BackupPage.  load(): an answer of listSnapshots() is on its way.        *)
There == {s \in Snaps : shelf[s] # NoDoc}

OpenBackups ==
    /\ proc.up /\ "backup" \in cfgRuns.tabs /\ ~backup.open
    /\ backup' = [backup EXCEPT !.open = TRUE, !.answers = {There}]
    /\ UNCHANGED <<disk, proc, shelf, form, yamlTab, ota, cfgRuns>>

SnapshotsListed ==
    /\ \E list \in backup.answers :
          backup' = [backup EXCEPT !.answers = @ \ {list}, !.listed = list]
    /\ UNCHANGED <<disk, proc, shelf, form, yamlTab, ota, cfgRuns>>

(* createSnapshot(): the files as they are now.                            *)
CreateSnapshot ==
    /\ proc.up /\ backup.open
    /\ \E s \in Snaps \ There :
          /\ shelf' = [shelf EXCEPT ![s] = disk.conf]
          /\ backup' = [backup EXCEPT !.answers = @ \cup {There \cup {s}}]
    /\ UNCHANGED <<disk, proc, form, yamlTab, ota, cfgRuns>>

(* Delete and Restore ask first, in the row of the snapshot; the page asks *)
(* one question at a time.                                                 *)
ConfirmSaved ==
    /\ \E s \in backup.listed \ {backup.confirming} :
          backup' = [backup EXCEPT !.confirming = s]
    /\ UNCHANGED <<disk, proc, shelf, form, yamlTab, ota, cfgRuns>>
Confirmed == proc.up /\ backup.confirming \in backup.listed

DeleteSnapshot ==
    /\ Confirmed
    /\ shelf' = [shelf EXCEPT ![backup.confirming] = NoDoc]
    /\ backup' = [backup EXCEPT !.confirming = Nobody,
                      !.answers = @ \cup {There \ {backup.confirming}}]
    /\ UNCHANGED <<disk, proc, form, yamlTab, ota, cfgRuns>>

(* restoreSnapshot(): not found, or all its files are copied back.         *)
(* Faulty variant: the process goes on with what it read.                  *)
RestoreQuietly ==
    /\ Confirmed /\ MayWrite
    /\ backup' = [backup EXCEPT !.confirming = Nobody]
    /\ IF shelf[backup.confirming] = NoDoc THEN UNCHANGED <<disk, proc, cfgRuns, form>>
       ELSE /\ disk' = [disk EXCEPT !.conf = shelf[backup.confirming]]
            /\ cfgRuns' = [cfgRuns EXCEPT !.writes = @ + 1]
            /\ Crowded /\ UNCHANGED proc
    /\ UNCHANGED <<shelf, yamlTab, ota>>

RestoreSnapshot ==
    /\ Confirmed /\ MayWrite
    /\ backup' = [backup EXCEPT !.confirming = Nobody]
    /\ IF shelf[backup.confirming] = NoDoc THEN UNCHANGED <<disk, proc, cfgRuns, form>>
       ELSE Stored(shelf[backup.confirming], "exit") /\ Crowded
    /\ UNCHANGED <<shelf, yamlTab, ota>>

-----------------------------------------------------------------------------
(* The self-update.  status(): are there commits to pull.                  *)
CheckUpdates ==
    /\ proc.up /\ "ota" \in cfgRuns.tabs /\ ota.sees # (disk.source < MaxUpdates)
    /\ ota' = [ota EXCEPT !.sees = ~@]
    /\ UNCHANGED <<disk, proc, shelf, form, yamlTab, backup, cfgRuns>>

AskUpdate ==
    /\ ota.sees /\ ~ota.confirming
    /\ ota' = [ota EXCEPT !.confirming = TRUE]
    /\ UNCHANGED <<disk, proc, shelf, form, yamlTab, backup, cfgRuns>>

UpdateServer ==
    /\ proc.up /\ ota.confirming /\ proc.job = "none" /\ cfgRuns.updates < MaxUpdates
    /\ ota' = [ota EXCEPT !.confirming = FALSE]
    /\ proc' = [proc EXCEPT !.job = "pull"]
    /\ cfgRuns' = [cfgRuns EXCEPT !.updates = @ + 1]
    /\ UNCHANGED <<disk, shelf, form, yamlTab, backup>>

(* git pull, npm install and build, pm2 restart: one after the other.      *)
UpdateStep ==
    /\ CASE proc.job = "pull" ->
              /\ disk' = [disk EXCEPT !.source = MaxUpdates]
              /\ proc' = [proc EXCEPT !.job = "build"]
         [] proc.job = "build" ->
              /\ disk' = [disk EXCEPT !.dist = disk.source]
              /\ proc' = [proc EXCEPT !.job = "none", !.due = @ \cup {"exit"}]
         [] OTHER -> FALSE
    /\ UNCHANGED <<shelf, form, yamlTab, backup, ota, cfgRuns>>

(* A step fails: process.exit(1).                                          *)
UpdateFails ==
    /\ proc.job # "none" /\ Dies
    /\ UNCHANGED <<disk, shelf, form, yamlTab, backup, ota, cfgRuns>>

-----------------------------------------------------------------------------
CfgNext ==
    \/ Boot \/ Restart \/ Pm2Fails
    \/ OpenForms \/ FormsLoaded \/ EditForm \/ SaveForms
    \/ Healthy \/ GivesUp \/ ReloadForms
    \/ OpenYaml \/ YamlLoaded \/ EditYaml \/ SaveYaml
    \/ OpenBackups \/ SnapshotsListed \/ CreateSnapshot \/ ConfirmSaved
    \/ DeleteSnapshot \/ RestoreSnapshot
    \/ CheckUpdates \/ AskUpdate \/ UpdateServer \/ UpdateStep \/ UpdateFails

CfgSpec == CfgInit /\ [][CfgNext]_cfgVars

-----------------------------------------------------------------------------
(* The state has the shape the code gives it.                              *)
CfgTypeOK ==
    /\ disk \in [conf : Docs, source : 0..MaxUpdates, dist : 0..MaxUpdates]
    /\ proc \in [up : BOOLEAN, conf : Docs, dist : 0..MaxUpdates, due : SUBSET {"pm2", "exit"},
                  job : {"none", "pull", "build"}, refused : BOOLEAN]
    /\ shelf \in [Snaps -> Docs \cup {NoDoc}]
    /\ form \in [values : Forms, answer : Docs \cup {NoDoc}, asked : BOOLEAN,
                  doing : {"idle", "waiting", "reloading"}, sent : Docs \cup {NoDoc},
                  alone : BOOLEAN, rebooted : BOOLEAN]
    /\ yamlTab \in [text : Docs \cup {NoDoc}, answer : Docs \cup {NoDoc}, asked : BOOLEAN]
    /\ backup \in [open : BOOLEAN, listed : SUBSET Snaps, confirming : Snaps \cup {Nobody},
                    answers : SUBSET SUBSET Snaps]
    /\ ota \in [sees : BOOLEAN, confirming : BOOLEAN]
    /\ cfgRuns \in [tabs : Tabs, writes : 0..MaxWrites, edits : 0..MaxEdits, updates : 0..MaxUpdates,
                     faults : 0..MaxPm2Faults]

(* Whoever changed the files or built a new version, in whatever order: a  *)
(* process that is not about to restart runs what is on the disk, unless   *)
(* pm2 refused.                                                            *)
RunsWhatIsThere ==
    proc.up /\ proc.due = {} /\ ~proc.refused =>
        proc.conf = disk.conf /\ proc.dist = disk.dist

(* "Configuration applied and server restarted": when the page says so and *)
(* nobody else wrote the file meanwhile, the restarted server runs what    *)
(* was sent, and the forms show it.                                        *)
AppliedIsRunning ==
    [][form.doing = "reloading" /\ form'.doing = "idle" /\ proc.up
       /\ form.alone /\ ~proc.refused
         => proc.conf = form.sent /\ form'.values = form.sent]_cfgVars
=============================================================================

------------------------------- MODULE Plugins -------------------------------
(***************************************************************************)
(* Plugins on disk: the loader's map, the watcher of the directory with    *)
(* its one timer for all plugins, and the requests that install and remove *)
(* them.                                                                   *)
(***************************************************************************)
EXTENDS Integers, FiniteSets

CONSTANTS Dirs, NoDir,    \* directories of plugins
          PluginDomain,   \* [Dirs -> domains]: what the manifest says
          Recognised,     \* directories whose name holds the domain
          MaxVersion, MaxPluginStops

(* No two directories hold plugins of one domain, and none bears the name  *)
(* of another's: a change in it would take the other's plugin from memory. *)
ASSUME PluginsAssumption ==
    /\ Recognised \subseteq Dirs /\ NoDir \notin Dirs /\ MaxVersion \in Nat
    /\ \A d, e \in Dirs : PluginDomain[d] \in {PluginDomain[e], e} => d = e

VARIABLES
    pluginDisk,       \* the version in a directory, 0 for no directory
    sound,      \* its manifest and entry file load
    loaded,     \* plugins: the version in memory of a domain, 0 for none
    running,    \* the version the integration of a domain was created from
    watching,   \* fs.watch runs: five seconds after the start
    scanTimer,  \* the directory the timer is about, or NoDir
    goings,     \* directories that were gone when the timer ran out
    missed,     \* directories with a change the watcher was never told of
    stops, installPage

pluginVars == <<pluginDisk, sound, loaded, running, watching, scanTimer, goings, missed,
                stops, installPage>>

PluginDomains == {PluginDomain[d] : d \in Dirs}
Versions == 0 .. MaxVersion
OnDisk == {d \in Dirs : pluginDisk[d] > 0}
DirFor(m) == CHOOSE d \in Dirs : PluginDomain[d] = m

(* loadPlugin and scanPlugins: what does not load stays as it was, and     *)
(* nothing is ever unloaded.                                               *)
Load(mem, dk, ok, ds) ==
    [m \in PluginDomains |-> IF DirFor(m) \in ds /\ dk[DirFor(m)] > 0 /\ ok[DirFor(m)]
                             THEN dk[DirFor(m)] ELSE mem[m]]
Scan(dk, ok) == loaded' = Load(loaded, dk, ok, Dirs)

Nothing == [m \in PluginDomains |-> 0]

(* The start: the plugins are scanned, and the integrations created from   *)
(* what was loaded.                                                        *)
PluginsInit ==
    /\ pluginDisk \in [Dirs -> 0 .. 1] /\ sound \in [Dirs -> BOOLEAN]
    /\ \A d \in Dirs : pluginDisk[d] = 0 => sound[d]
    /\ loaded = Load(Nothing, pluginDisk, sound, Dirs) /\ running = loaded
    /\ watching = FALSE /\ scanTimer = NoDir /\ goings = {} /\ missed = {}
    /\ stops = 0 /\ installPage = "idle"

WatchStarts == /\ ~watching /\ watching' = TRUE
               /\ UNCHANGED <<pluginDisk, sound, loaded, running, scanTimer, goings, missed, stops, installPage>>

(* A change in a directory: the timer starts again and is about it alone.  *)
Notices(d) ==
    /\ scanTimer' = IF watching THEN d ELSE scanTimer
    /\ missed' = (missed \ IF watching THEN {d} ELSE {})
                 \cup IF watching THEN {scanTimer} \ {NoDir, d} ELSE {d}

EditPlugin(d) ==
    /\ pluginDisk[d] \in 1 .. MaxVersion - 1
    /\ pluginDisk' = [pluginDisk EXCEPT ![d] = @ + 1]
    /\ \E ok \in BOOLEAN : sound' = [sound EXCEPT ![d] = ok]
    /\ Notices(d)
    /\ UNCHANGED <<loaded, running, watching, goings, stops, installPage>>

(* POST install: the clone blocks the process, then everything is scanned; *)
(* the files of the clone are noticed after that.                          *)
Install(d) ==
    /\ pluginDisk[d] = 0
    /\ \E v \in 1 .. MaxVersion, ok \in BOOLEAN :
          /\ pluginDisk' = [pluginDisk EXCEPT ![d] = v] /\ sound' = [sound EXCEPT ![d] = ok]
    /\ Scan(pluginDisk', sound')
    /\ Notices(d)
    /\ UNCHANGED <<running, watching, goings, stops, installPage>>

(* DELETE: the directory goes, the scan unloads nothing.                   *)
Uninstall(d) ==
    /\ pluginDisk[d] > 0
    /\ pluginDisk' = [pluginDisk EXCEPT ![d] = 0] /\ sound' = [sound EXCEPT ![d] = TRUE]
    /\ Scan(pluginDisk', sound')
    /\ Notices(d)
    /\ UNCHANGED <<running, watching, goings, stops, installPage>>

Rescan == /\ Scan(pluginDisk, sound)
          /\ missed' = {d \in missed : pluginDisk[d] = 0}
          /\ UNCHANGED <<pluginDisk, sound, running, watching, scanTimer, goings, stops, installPage>>

-----------------------------------------------------------------------------
(* reloadChanged.  A directory that is there: what was loaded under its    *)
(* name goes, then it is loaded anew, if it loads.  A directory that is    *)
(* gone is looked at again after three seconds.                            *)
TimerFires ==
    LET d == scanTimer
        kept == [m \in PluginDomains |-> IF m = d THEN 0 ELSE loaded[m]] IN
    /\ d # NoDir /\ scanTimer' = NoDir
    /\ \/ pluginDisk[d] > 0 /\ loaded' = Load(kept, pluginDisk, sound, {d}) /\ UNCHANGED goings
       \/ /\ pluginDisk[d] = 0 /\ UNCHANGED loaded
          /\ goings' = goings \cup {x \in {d} \cap Recognised : loaded[PluginDomain[x]] > 0}
    /\ UNCHANGED <<pluginDisk, sound, running, watching, missed, stops, installPage>>

(* Faulty variant: the directory is not looked at again.                   *)
GoneForSure(d) ==
    /\ d \in goings /\ goings' = goings \ {d}
    /\ loaded' = [loaded EXCEPT ![PluginDomain[d]] = 0]
    /\ UNCHANGED <<pluginDisk, sound, running, watching, scanTimer, missed, stops, installPage>>

Gone(d) ==
    /\ d \in goings /\ goings' = goings \ {d}
    /\ loaded' = [loaded EXCEPT ![PluginDomain[d]] = IF pluginDisk[d] = 0 THEN 0 ELSE @]
    /\ UNCHANGED <<pluginDisk, sound, running, watching, scanTimer, missed, stops, installPage>>

(* The process starts again.                                               *)
PluginRestart ==
    /\ stops < MaxPluginStops /\ stops' = stops + 1
    /\ loaded' = Load(Nothing, pluginDisk, sound, Dirs) /\ running' = loaded'
    /\ watching' = FALSE /\ scanTimer' = NoDir /\ goings' = {} /\ missed' = {}
    /\ UNCHANGED <<pluginDisk, sound, installPage>>

(* The page asks below /api/plugins, the controller answers below          *)
(* /api/api/plugins: its list stays empty, every Install ends in an error. *)
PressInstall == /\ installPage = "idle" /\ installPage' = "installing"
                /\ UNCHANGED <<pluginDisk, sound, loaded, running, watching, scanTimer, goings, missed, stops>>
NotRouted == /\ installPage = "installing" /\ installPage' = "idle"
             /\ UNCHANGED <<pluginDisk, sound, loaded, running, watching, scanTimer, goings, missed, stops>>

PluginsNext ==
    \/ WatchStarts \/ Rescan \/ TimerFires \/ PluginRestart \/ PressInstall \/ NotRouted
    \/ \E d \in Dirs : EditPlugin(d) \/ Install(d) \/ Uninstall(d) \/ Gone(d)

PluginsSpec == PluginsInit /\ [][PluginsNext]_pluginVars

-----------------------------------------------------------------------------
(* What GET answers: the plugins in memory, then the directories whose     *)
(* name is not the domain of one: a plugin in a directory of another name  *)
(* is listed twice.                                                        *)
ListedPlugins ==
    {[domain |-> m, loaded |-> TRUE] : m \in {x \in PluginDomains : loaded[x] > 0}}
    \cup {[domain |-> PluginDomain[d], loaded |-> FALSE] :
            d \in {x \in OnDisk : \A m \in PluginDomains : loaded[m] > 0 => m # x}}
PluginsDrawn == [installed |-> {}, offered |-> installPage = "idle"]

-----------------------------------------------------------------------------
(* The variables have the shape the code gives them.                       *)
PluginsTypeOK ==
    /\ pluginDisk \in [Dirs -> Versions] /\ sound \in [Dirs -> BOOLEAN]
    /\ loaded \in [PluginDomains -> Versions] /\ running \in [PluginDomains -> Versions]
    /\ scanTimer \in Dirs \cup {NoDir} /\ goings \subseteq Dirs /\ missed \subseteq Dirs

(* Once the watcher has nothing left to do, memory is what the disk holds, *)
(* though plugins are removed and installed again while their removal is   *)
(* waited for: except where a change was never noticed, a plugin does not  *)
(* load, or its directory does not tell the domain.                        *)
MemoryIsDisk ==
    watching /\ scanTimer = NoDir /\ goings = {} =>
        \A d \in Recognised \ missed :
            IF pluginDisk[d] = 0 THEN loaded[PluginDomain[d]] = 0
            ELSE sound[d] => loaded[PluginDomain[d]] = pluginDisk[d]
=============================================================================

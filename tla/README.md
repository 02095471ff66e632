# Verification of the home-automation hub

TLA+ models, TLC runs and TLAPS proofs for the NestJS reimplementation of Home Assistant in
`src/`. The hub is one Node process: an event bus, an in-memory map of entity states with a
history table, automations, integrations for devices, a WebSocket gateway for the web UI, an
intercom between the phones of the house, and services for cameras, thermostats, zones and
notices. Paths below are relative to `src/src/` unless they start with `frontend/`.

1. [The system](#1-the-system)
2. [What is modelled where](#2-what-is-modelled-where)
3. [The runs](#3-the-runs)
4. [Fairness](#4-fairness)
5. [What is proved](#5-what-is-proved)
6. [What the models showed about the code](#6-what-the-models-showed-about-the-code)
7. [What is not modelled](#7-what-is-not-modelled)
8. [Plan](#8-plan)

To repeat a run or a proof:

    tlc -config sm_lossless.cfg StateMachineMC.tla
    tlapm StateMachineProofs.tla

## 1. The system

Node executes one task at a time. Inside a task everything is sequential, but three things
interleave: the **continuations of `await`** (a database query, a service handler, the
validation of a token), **timers** (`for:` durations, delays, the 30 s snapshot) and
**nested emissions**: `fire` calls the listeners synchronously, and a listener may call
`setState`, which fires again before the outer `fire` returns. The browsers run beside the
hub, each with tasks of its own; sockets keep messages in order and lose what is in flight
when they break; HTTP requests are answered in any order.

| Component | State | Operations | Talks to |
|---|---|---|---|
| State machine `core/state-machine` | map of states; table `states_history`; `state-snapshot.json` | setState, removeEntity, restoreStates, persistState, saveSnapshot, pruneHistory | fires `state_changed` on the bus; is called by everyone |
| Event bus `core/event-bus` | listeners in registration order | fire, listen, listenOnce, listenMany | synchronous callbacks |
| Bootstrap `app.module.ts` | - | fires `homeassistant_start`, loads integrations | does not wait for the restore |
| Automation engine `automations/` | runtimes by id, `activeContextIds`, running promises | load, reload (file watcher), onTriggered, enable, disable, trigger | triggers on the bus, service registry, conditions |
| Triggers `automations/triggers` | one listener, timer and closure per trigger | attach, detach, fire | bus in, engine out |
| Conditions `automations/conditions` | none | evaluate | reads the state machine |
| WebSocket gateway `websocket/` | one session per socket: phase, user, subscriptions | connect, auth, get_states, subscribe/unsubscribe, call_service, disconnect | auth service (await), bus, service registry |
| Web UI connection `frontend/src/context/HaContext.tsx` | token, socket, map of states, pending calls | login, logout, callService, message handlers, reconnect | gateway over Socket.IO |
| Integration loader, service registry, simulated platforms | loaded integrations, handlers by `domain.service`, entities that exist as states only | load one after the other, register, call with several targets | integrations, state machine |
| Plugin loader `core/plugin-loader` | plugins by directory, one watcher timer | scan, change, install, remove | disk, integrations |
| Device integrations `integrations/built-in` | link to a hub or broker, queries under way, entities | connect, lose, reconnect, query, command, discover, teardown | hubs over TCP, WebSocket, HTTP, MQTT |
| Camera streams, WebRTC and HLS | one ffmpeg per stream; ready, idle and restart timers | touch, stop, register, close, restart | child processes |
| Intercom `comm/`, `CommContext.tsx` | clients, phones with push endpoints, rooms, messages; calls in the browser | register, join, leave, signal, chat, disconnect; call, accept, hang up | Socket.IO, HTTP, push |
| Registries `registry/` | maps of entities and areas over tables | register, update, remove | database, pages |
| Geofence, schedule, sun, anomaly, push | tables and last values | reports, ticks, polls, saves, sends | database, state machine, push services |
| Authentication, rate limit `auth/` | first administrator, long-lived tokens, attempts per address | login, validateToken, create/revoke tokens | database |
| Configuration, backup, update `api/config`, `api/backup`, `api/ota` | the files on disk, the process that read them | edit, apply, restart, snapshot, restore, update | pm2, git, disk |
| Pages, cards, floor plans, overlays `frontend/src` | what each shows and waits for | load, edit, press, drag, select, answer | REST, WebSocket |
| MCP server, database, migrations | none of their own | | |

### What is hard about it

* **Nested emissions.** A listener behind an automation sees the newer change before the
  older one; the history rows are written in the opposite order of the changes.
* **Restart.** The restore merges the newest row of the table with a snapshot that may be
  older, newer, missing or torn, and nobody waits for it: integrations may set states before
  it finishes.
* **Reload while runs wait.** A run outlives the runtime object it was started from and
  returns to counters, loop protection and an entity that a reload has replaced.
* **Timers that race events.** `for:` timers against the change that ends the hold, against
  non-numeric readings, against detaching; reconnection timers against close events, login
  timeouts and teardown.
* **Awaits.** While a token is validated the socket can close, send more messages or a
  second token. Reports, registrations, renames and pushes read, wait and write. While a
  phone asks for the microphone, the call can end or another one arrive.
* **Copies of the truth.** Browsers keep states, lists and edits that were true when they
  were asked for; answers come late and out of order; optimistic states are shown before the
  device has answered.
* **Child processes.** The exit of a killed process arrives after its successor was started.

### What makes the components correct

State machine: between tasks the listeners know what the map holds; a restart brings back
the last known state and replaces nothing newer; `last_changed` is true. Automations: runs
of one automation end, and do not overlap in a mode that forbids it, and what the engine
keeps about runs agrees with the runs; the triggers on the bus are those of the file.
Triggers: fire when, and only when, the state was held. Gateway: no listener without a
session, nothing to a socket that showed no valid token. UI: shows what the hub has, and
reports a call as successful only if it was. Intercom: whoever is listed can be rung,
messages are shown once, rooms and call screens are honest. Device integrations: one link
per hub until teardown, and entities that agree with the devices once nothing is on its way.
Services: no process without a watcher and none that is missing, a schedule that is
followed, crossings and alarms told once, pushes that reach whoever is subscribed,
registries that are durable. Pages: at rest they show what the server has, lose no edit, and
what was closed is closed. `PROJECT.json` lists the hazards line by line, each with the
properties that cover it or the reason none does.

## 2. What is modelled where

Every definition is mapped to its lines of code in `PROJECT.json`. Operators commented
"Faulty variant" are not part of the specification: they are what a plausible bug would make
of the definition that follows, and each property is known to fail with one of them.

### `StateMachine` (with `StateMachineMC`, `StateMachineProofs`)

`core/state-machine/state-machine.service.ts` on top of the bus, the table and the snapshot
file. `stack` is the nest of `fire` calls in progress; a frame is an event and the next
listener to call, so one step calls one listener (`DeliverToMirror`, `DeliverIgnored`,
`DeliverReaction`) and `Return` is the rest of `setState`: the insert is issued, or skipped
when state and attributes are unchanged. Two kinds of listeners exist: `Mirrors` keep a copy
of what they hear (UI sessions), `Automations` answer a change by setting a state, once per
run (`Reactions`, `running`). Everything else only runs when `stack` is empty. `dbq` holds
the statements issued to the single SQLite connection, which executes them in order
(`Insert`, `RestoreQuery`) or rejects them. `Boot`, `Start`, `RestoreQuery` and `Restore`
are the bootstrap, whose query is not awaited; `Crash` may happen between any two steps and
may tear the snapshot that is being written.

Abstracted: a state is a state string, an opaque attribute object and the two times;
contexts and the rest of the record play no part. The clock is a small counter that never
goes back. `Env` names what the environment may do, and each run says which: `early` (an
integration sets states while the restore waits, which nothing prevents), `failure`, `torn`,
`prune`, `remove`. Without `early` integrations wait for the database first (they register
entities), as the built-in ones mostly do; what happens otherwise is the run `sm_early`.

### `Automation` (with `HubMC`, `AutomationProofs`)

`automation-engine.service.ts`, `action-executor.service.ts` and the file watcher of
`automation.integration.ts`. `runtimes` holds every runtime object ever created and
`automations` the map of ids to the current ones, so a run that outlives a reload still has
its own object to return to. `stack` holds emissions and the synchronous part of runs: a run
executes inside the emission that triggered it up to its first wait (`Call`, `CallFails`,
`Delay`, `Switch`), and continues with `Resume`. `Refused` has the checks of `onTriggered`;
`Finish` is the `finally` block. The services `automation.turn_on` and `turn_off` are
actions of runs (`Switch`) and of clients (`ClientSwitch`).

Abstracted: a trigger listens to a set of events (`TriggerEvaluator` has what is inside);
the outcome of a condition is a free choice; the action lists are flat sequences. The entity
`automation.<id>` is its state only. No trigger of the files listens to `automation.*`
entities, reload happens between tasks (it comes from a debounced file watcher), mode
`restart` has no check in the code and has none here. `MaxRuns` and `MaxRuntimes` bound the
runs started and the objects created; when `MaxRuns` is reached further triggers are
refused.

### `TriggerEvaluator` (with `HubMC`; proofs in `AutomationProofs`)

`trigger-evaluator.service.ts`: one `state` and one `numeric_state` trigger on one entity.
`Changed` is the whole listener of both: the filters, the timer of `for:`, the edge detector
`wasInside`, and the immediate call when no duration is given. An event that the filter of
`from` and `to` rejects leaves a pending timer alone, as in the code; the runs have both a
`from` and a `to`. `GoesOff` is the callback of a timer, with what it looks at again;
`Reattach` is a reload. The auxiliary variables `since`, `fitting` (whether the state was
entered from the one `from` asks for), `inside` and `watched` record the history that the
properties compare the calls (`fires`) with.

Abstracted: state strings are model values, `Inside` are those within `above`/`below` and
`NotNumeric` those `parseFloat` makes NaN; a timer that is due goes off before the clock
moves on. `Updates` allows reports that leave the state as it is; the runs exclude them
because they restart the timer (section 6), the proofs include them.

### `HaGateway` (with `HubMC`; proofs in `HaContextProofs`)

`websocket.gateway.ts`, `ws-session.service.ts` and the handlers. A socket is an ordered
pair of queues `up` and `down`; the client end (`peers`) can go away before the server
notices (`Disconnect`). One step takes one message: `Authenticate` starts the validation and
returns, `Validated` is what follows the `await`, for any of the validations in progress on
that socket, and finds the session there or not. `Subscribe` takes an old listener of the
same id off the bus before it puts the new one; `Destroyed` is `destroySession`. `Change` is
a state change: every listener sends an event. `AnyClient` sends any request at any time.

Abstracted: a state is the number of the change it comes from; `validateToken` is a choice
of the set of tokens still accepted at the time it answers (or a rejection, `failure`);
ping, get_config and get_services are left out: they read constants and reply.

`HubMC` is the instance for TLC of what listens to the bus: gateway, engine and triggers
share no state, so a behaviour is about one of them (`part`).

### `HaContext` (on top of `HaGateway`, with `ContextsMC`, `HaContextProofs`)

`HaContext.tsx` as the only client of the gateway: `Login`, `Logout`, `Open`, `Drop`,
`Call`, `Timeout`, `PatchState` and one action per message type. `buffer` is what Socket.IO
keeps while it has no connection, `pending` the calls waiting for an answer, `cmdId` the
message ids, which go on across connections. `patched` holds the entities a panel has
overwritten on the screen and the hub has not spoken of since. `Call` before `auth_ok` is
possible in the code (`eager`). `HubChange` has no guard but that of the gateway: a change
may come between the answer to `get_states` and the subscription. `missed` records the
entities whose last change, since the hub sent all states, the UI was not told of, or was
told of as a removal, which it ignores. `succeeded` is what really happened to a call,
`reported` what the user was told.

`ContextsMC` is the instance for TLC of this provider beside that of the intercom: they have
a socket each and share no state, so a behaviour is about one of them (`provider`).

### `CommGateway`, `CommContext` (with `ContextsMC`, `CommProofs`)

`CommGateway` is `comm.gateway.ts`: `HandleConnection`, `Register`, `RegisterPush`,
`ChatMessage`, `ReadReceipt`, `Signal` (offer, answer, hang-up, push call), `JoinGroupCall`,
`LeaveGroupCall`, `HandleDisconnect`. A connection is a session with a client id of its own;
`devices` are the phones known by their device id, with or without a session, with or
without a push endpoint; `rooms` hold client ids. A phone that comes back before the server
noticed that it went has two sessions for a while. `out` and `in` are the two directions of
a connection; what a phone emits while disconnected waits in the send buffer.

`CommContext` is `CommContext.tsx` with the buttons of `CommPanel.tsx`, composed with that
server. `ui[p]` is what the provider keeps (call state, peer, connection, offer, messages,
tiles) and its `tasks` are the async functions that wait: `StartCall` and `AcceptCall` go on
with `GotMedia`, `GotIceServers`, `SendOffer`, `SendAnswer`, `AnswerTaken` (what follows the
await of `setRemoteDescription`) or end with `MediaRefused`; uploads with `SendMedia`,
`UploadVoice`, `UploadFails`; the history with `ShowHistory`. The `On...` actions are the
message handlers. `ContextsMC` splits what the users may do into eight budgets, so that
each kind of behaviour is exhausted with two phones.

Abstracted: ICE candidates, names, the line "... left the chat", the unread counter, showing
and hiding the panel. `Routed` says whether the request for the history reaches its
controller. As the server routes it, it does not (section 6), so it is `FALSE` in both runs;
the theorems hold either way.

### `Bridge`, `TcpBridges`, `Mqtt`, `Polled`, composed by `Bridges` (with `BridgesProofs`)

Nine integrations of `integrations/built-in`. `Bridge` has what they share: `actual` values
of the devices, `shown` values of the entities, `link` and its reconnection timer `retry`,
the messages `inbox` and `outbox` of the link, HTTP exchanges `http`, people at the switches
(`Flip`), and `left`, what may still happen of flips, calls and faults. `TcpBridges` has
Lutron Caseta (queries one after the other with their timeout, the login,
`scheduleReconnect` from four places), Envisalink (log in, poll, reconnect) and ISY994
(events over a WebSocket, commands and polls over HTTP). `Mqtt` has the MQTT client with
discovery and the RTI bridge, which publishes the hub's entities the other way. `Polled` has
the mock of Yamaha, Nest, Ecobee and the weather. `Bridges` puts them together: a behaviour
is about one integration.

Abstracted: one attribute per device; the encodings. Assumed: a Lutron bridge answers a
query within its 3 s while the session stands; there are at most three devices on it; one
line per TCP chunk; polls of ISY994 do not overlap; MQTT entities have a command topic of
their own. What happens otherwise is in section 6.

### `CameraStream`, `Webrtc`

`camera-stream.service.ts` with its controller: `entry` is the record of one stream,
`ffmpeg` what became of each process (`Dying` ones have been killed and not yet reported as
closed), `polls` and `restarts` the ready polls and restart timers under way. `TouchStream`
is a request for the manifest or a segment, `CloseEvent` the exit as the code hears of it,
possibly after a successor was started. `webrtc.service.ts`: go2rtc and one HLS process per
stream name, the delayed starts nobody can cancel, the restart timers, and the editing of
the list of streams. The WHEP proxy and the configuration file are left out.

### `Registry`, `DurableTable`

`entity-registry.service.ts`, `area-registry.service.ts` and the page that edits them
(`AreasPage.tsx`). A request checks the map, issues a statement (`Issue`), waits, and copies
the result (`Confirm`); statements run in the order issued (`Executed`), and `ServerRestart`
drops what is under way and reads the tables again. `page` is the page: open, what it lists,
whether its user waits for answers. `DurableTable` is the abstract specification: a table on
disk with a copy in memory that a change reaches after the disk, and a restart from disk.

### `Geofence`, `Push`, `Schedule`, `Watchers`, `Platforms`

* `Geofence`: `GeofenceService` and the reports of `GeofencePage`. A report goes `FindZone`,
  `ReadPrevious`, `Upsert`, then `Entered` or `Left`, with anything in between; `ZoneEdit`
  creates, resizes and deletes zones. Reports of one phone are assumed not to overlap.
* `Push`: `PushService`, the rules and `usePushSubscription`. `StateChanged` starts a
  handler, which goes on with `LogNotification`, `FindSubscriptions`, one `Responded` per
  endpoint and `DeleteDead`. Browsers subscribe, leave and reload in between.
* `Schedule`: the editor in the browsers, delete-then-insert in the server, the five-minute
  tick, thermostats, restarts.
* `Watchers`: `SunService` and `AnomalyService`, whose timers fire once a minute, or a
  little late; arithmetic of minutes, windows and baselines is kept.
* `Platforms`: `integration-loader.service.ts`, `service-registry.service.ts`, and demo,
  light, switch, fan, sensor, binary_sensor, scene next to isy994. A service has one
  handler; handlers wait between their targets (`Rests`).

`Services` composes these with `CameraStream`, `Webrtc` and `Registry`. They do not wait for
one another, so a behaviour is about one of them (`service`), and the others rest.
`ServicesMC` gives the instance.

### The web UI: `House` and its parts

| Module | Code | What it holds |
|---|---|---|
| `ConfigFile` | `IntegrationsPage.tsx`, `BackupPage.tsx`, `OtaPage.tsx` and their controllers | the file, the process that read it at its start, forms and editors over it, backups, updates, the pm2 restart |
| `AutomationFile` | `AutomationsPage.tsx`, `VisualEditor`, suggestions, the watcher of `automation.integration.ts` | the file, the page's copy, the debounced reload, what the engine runs |
| `Assistant` | `FloatingMic` of `App.tsx`, `ai.controller.ts` | recorder, silence, cancel, question, reply, the lamps it switches |
| `Cards` | `components/panel/cards` | finger, local level, call, echo, two panels on one entity; a ring shows its own value until something draws it anew (`own`, `DrawnAnew`), the slider of an unlit tile starts at 0 |
| `FloorPlans` | `useSceneContent.ts`, `FloorPlan3DScene.tsx`, `FloorPlan2DPage.tsx`, the mapping editor | models that load late, optimistic presses with rollback, the map of meshes |
| `Auth` | `auth.service.ts`, the rate limit, `SettingsPage.tsx` tokens | first administrator, attempts per window, tokens with their last use |
| `Plugins` | `plugin-loader.service.ts`, `plugin.controller.ts` | directories, the one watcher timer, loaded plugins |
| `CameraViews` | `DoorbellOverlay`, `CameraCard.tsx` | rings, pictures, players and their fallbacks |
| `Pages` | `SettingsPage.tsx`, `HistoryPage.tsx`, home page, `RtiPanelPage.tsx` with dashboard.yaml | lists, charts, sections, shortcuts; the panel's views, tabs, swipes, toasts, editors |
| `Lists` | `Array.prototype.filter` | what `Auth` and `Pages` do with lists |

Each keeps its own state with the requests it makes and the part of the server that answers
them; `House` composes them as `Services` does (`part`), parts that rest being in their
simplest state. Drawing appears as operators (`...Drawn`) of what is shown; colours, sounds
and layout are left out.

## 3. The runs

Each run takes under five minutes with two workers. Deadlock is not checked: each instance
stops when its bounds (changes, sockets, clock, faults, presses) are used up.

| Run | Question | Distinct states |
|---|---|---|
| `sm_restart` | With crashes, failing statements, torn snapshots, pruning and removals: is a mirror in front of the automations ever behind, is `last_changed` true, does the restore bring the newest? | 1.7 M |
| `sm_lossless` | Does a restart bring back the last known state, and does every state get to disk? | 749 k |
| `hub` | Gateway: any client, overlapping validations, expiring tokens, failures, lost sockets. Engine: reloads during runs, automations that trigger and switch each other. Triggers: do they fire when, only when and as often as the state was held? | 492 k |
| `contexts` | Connection: are the calls the user is told of real, over lost connections and late answers? Intercom: two phones over overlapping sessions, their lists, rooms, messages, call screens. | 803 k |
| `ui_live` | Does the UI show what the hub told it, never go back, and, while it stays connected, come to show it? | 593 k |
| `devices` | Nine integrations over switches, calls, lost links, failed requests, discovery, teardown. | 643 k |
| `services` | Ten services of the server, each with its timers, processes, database calls and faults. | 480 k |
| `house` | Seventeen parts of the web UI with the requests behind them. | 809 k |
| `sm_early` | Does the restore leave a newer report of an integration alone? **Violated.** | |
| `trig_from` | Does a state trigger with a `from` fire only if the state was held? **Violated.** | |
| `ui_gap` | Does a UI that stays connected come to show *every* change of the hub? **Violated.** | |
| `comm_history` | Does what was said while a phone was away reach it? **Violated.** | |

Bounds, and why they suffice:

* `sm_restart`: one entity, two values, one automation that confirms a value (`Confirm`: a
  nested emission for the same entity), one mirror that can register before or behind it,
  two starts, three rows: a row can be older than, as old as and newer than the snapshot,
  gone, or never written. Entities do not interact in the restore.
* `sm_lossless`: two entities connected by one automation (`Forward`), two starts. No
  database errors, removals, feedback or early reports: with those the properties do not
  hold (section 6). `sm_early` has one entity and early reports.
* `hub`, gateway: one socket (sessions share nothing but the list of listeners), two tokens,
  two requests, two answers and two validations at a time, two changes, one id (subscribing
  twice with one id is the interesting case).
* `hub`, engine: three contents of `automations.yaml`; three runs and four runtime objects:
  enough for a run that survives a reload, a run of its successor, and one of another
  automation.
* `hub`, triggers, and `trig_from`: a trigger from `low` to `high` with a duration of two
  ticks in five; two values inside, one outside, one non-numeric, and the entity can go. A
  hold, its interruption and a second hold fit, and so does a state left for another and
  entered again from elsewhere.
* `ui_live`, `ui_gap`: two connections one after the other, one entity, two changes, of
  which any may fall between the answer to `get_states` and the subscription, five ids (two
  for each handshake, one call). Entities do not interact in the client. `ui_live` has
  removals too.
* `contexts`, connection: the same two connections with a call at any time, before `auth_ok`
  and while there is no connection included. The states do not change: a report is about the
  answer to a call, and `ViewIsFollowed` is proved with such calls as well.
* `contexts`, intercom: two phones and two sessions each, so an old session of a phone
  overlaps with its new one while the other phone looks on; phones are symmetric. A budget
  allows three connections, and two each of calls, texts, pushes or group calls. There are
  two rooms, so that a phone can stray from one into the other.
* `devices`: two devices (a query of the second waits for the first), one flip, one call,
  two faults: a fault can hit the recovery from the first. Integrations differ, so each is
  explored by itself.
* `services`: four processes, two idle stops and two exits of a camera; two stream names;
  two thermostats, one browser's edits and a restart in a week of two slots (the theorem is
  for any number of browsers); a day of twelve minutes, so that windows wrap; two phones,
  two zones that may overlap; two endpoints and two senders; every kind of platform once;
  one entity and one area with three requests at a time.
* `house`: two of whatever can be confused with one another (panels, requests, edits,
  models, rings, players), one fault each.
* `comm_history`: the intercom of `contexts` with one room, beside a connection that has
  only one socket.

### Properties

Several properties of one question are checked as one conjunction; the names of the parts
are those a reader meets in the modules.

* `FrontMirrorFresh`: a session registered before every automation agrees with the map
  between tasks. *A session behind an automation need not*: see section 6.
* `SinceLastChanged`: no history row between `last_changed` and `last_updated` shows another
  state.
* `RestoreIsNewest`, `RestartKeepsLastKnown`, `EventuallyRecoverable`: the restore loses
  nothing that is on disk, and what the map holds gets to disk. `RestoreKeepsNewer`, that it
  replaces nothing newer, is what `sm_early` refutes.
* `NoOverlap`, `ProtectionMatchesRuns`, `EntityShowsEnabled`, `TriggersAreCurrent`,
  `RunsEnd`: see the comments in `Automation`. `NoOverlap` speaks of the modes that forbid a
  second run; it claims nothing of two runs that were both started in `parallel` mode.
  (`ProtectionMatchesRuns` is why there are none of those either, which is not what the
  manual says: section 6.)
* `StateHeld`, `NumericHeld` and `HeldIsFired` (`StateFires`, `NumericFires`,
  `NumericFiresOnce`): soundness, completeness and uniqueness of the calls. `StateHeld`
  excepts one case, a state that was entered anew, while the timer ran, from another than
  `from`; `OnlyHeldFires` is the property without that exception, which `trig_from` refutes.
* `ListenersMatchSubscriptions`, `NothingToStrangers` (`OnlyProvenReceive`,
  `InvalidIsLast`): the bus holds the subscriptions of live sessions and nothing else;
  states go only where a valid token was shown; `auth_invalid` is the last message of a
  socket.
* `ViewFollows` (`ViewFresh`, `Forwards`), `ReportedWasExecuted`, `UIConverges`: what the
  user sees. The view is the hub's for every entity but those `missed` and `patched`;
  `ChangesAreShown`, of all that is not patched, is what `ui_gap` refutes.
* `PhonesCanBeRung` (`EveryPhoneReachable`, `AwayCanBeRung`, `ListIsCurrent`),
  `EachMessageOnce` (`NothingTwice`, `NothingUnheard`), `RoomsAgree` (`RoomsHoldClients`,
  `RoomsSeeEachOther`), `CallScreenHonest`: the intercom. `NothingUnheard` is about whoever
  was there when a message was relayed; `NothingLost`, about whoever was away too, is what
  `comm_history` refutes.
* `OneLink` (`LinkOrTimer`, `StaysDown`), `AgreesWhenQuiet`, `EventuallyAgrees`: the
  devices.
* `StreamIsFreed` (`OneFfmpeg`, `IdleIsFree`), `StreamsAreServed` (`ViewerIsServed`,
  `HlsFollowsStreams`, `EntryIsBacked`), `ScheduleHolds` (`SavedIsStored`, `OneTempPerSlot`,
  `ScheduleIsFollowed`), `AlarmsAreTrue` (`SunIsTold`, `LongOpenIsTold`, `ToldWasOpen`,
  `SteadyIsQuiet`), `CrossingsAreTold` (`CrossingsAlternate`, `HomeMeansPresent`),
  `PushReaches` (`SubscribedIsStored`, `NobodyIsPassedOver`, `OnlyDeadAreDropped`),
  `PlatformsStand` (`EveryoneIsTried`, `TogglesCount`, `ServicesStay`), `EditsAreKept`
  (`NamesAreKept`, `PageShowsAreas`), and the refinement `IsDurableTable`: the services.
* `RunsWhatIsOnDisk`, `ControlsAreTrue`, `PagesShowWhatThereIs`, `EndedIsOver`,
  `AccountsHold`: the web UI, composed in `House` of the properties of its parts.

The type invariants (`TypeOK`, `TriggersTypeOK`, `ClientTypeOK`, `CommTypeOK`,
`BridgeTypeOK`, `ServicesTypeOK`, `HouseTypeOK`) hold on these instances too; the runs
spend their time on the others. Every property is known to fail when one mapped definition
is replaced by its faulty variant (`PROJECT.json`, "mutants").

## 4. Fairness

* `StateMachine!FairSpec`: a synchronous call returns (`Deliver`), SQLite executes the
  statements issued to it, the bootstrap goes on, and the 30 s timer keeps firing while the
  process is up. No fairness for crashes, ticks of the clock or anything a user does.
  `EventuallyRecoverable` is true of a process that stays up because of the timer: an insert
  alone would not do for a state that changes all the time.
* `Automation!EngineFairness`, in `HubSpec`: synchronous steps are executed; a settled
  promise or an expired delay gets its turn. Strong fairness, because other tasks may come
  first any number of times, but the event loop serves timers and promises in order of
  arrival. A service whose promise never settles is excluded: for such a service `RunsEnd`
  is false, and the code has no timeout for it.
* `HaContext!UIFairSpec`: over the connection in use (`ConnectionGoesOn`) the client handles
  what arrives, the hub handles requests, and the validation of a token answers. No fairness
  for logging in, reconnecting, calling or changing states: `UIConverges` speaks of a
  connection that stays.
* `CameraSpec`, `WebrtcSpec`: an ffmpeg writes its files or ends, its end is reported,
  timers fire. Nothing is assumed of the viewers: `ViewerIsServed` speaks of one who goes on
  watching.
* `ScheduleSpec`: the five-minute tick fires and goes on, integrations get loaded; people
  are not fair.
* `Bridges!Spec`: hubs execute and answer, integrations do what is due, polls go on. Links
  are lost and requests fail only as often as the bounds say. Excluded from
  `EventuallyAgrees` are the states from which the code has no way out (`Deaf`, `Stranded`:
  section 6) and what teardown ended.
* `TriggerEvaluator`, `HaGateway`, `CommContext`, `House` and the other services need none:
  their properties are safety.

## 5. What is proved

With TLAPS, for every value of the constants that satisfies the named assumptions of the
modules: `StateMachineAssumption`, `TriggerAssumption`, `AutomationAssumption`,
`HaGatewayAssumption`, `HaContextAssumption`, `CommAssumption`, `UsersAssumption`,
`BridgeAssumption`; of the services `CameraAssumption`, `WebrtcAssumption`,
`RegistryAssumption`, `PushAssumption`, `GeofenceAssumption`, `WatchersAssumption`,
`ScheduleAssumption`, `ThingsAssumption`; of the web UI `LoginAssumption`, `MicAssumption`,
`BellAssumption`, `TileAssumption`, `BarAssumption`, `CardsAssumption`, `ConfigAssumption`,
`PluginsAssumption`, `SceneAssumption`, `ListsAssumption`, `HomeAssumption`,
`PanelAssumption`. They give types to the constants (bounds are naturals, ids are
positive, a marker such as `None` is no member); TLC evaluates them in the runs. Three say
more: a one-minute timer skips at most one minute (`MaxStall` of `WatchersAssumption`: a
process that stalls for longer can miss the window of a sunrise), a scene targets entities
of other platforms (`ThingsAssumption`), and no plugin directory bears the domain of another
plugin (`PluginsAssumption`, see below). Theorems with hypotheses of their own say so below.
Nothing else is assumed; the bounds of the instances (`MaxRuns`, `MaxSessions`, ...) are
arbitrary.

| Theorem | Statement |
|---|---|
| `StateMachineProofs!TypeCorrect` | `Spec => []TypeOK` |
| `FrontMirrorsAreFresh` | `Spec => []FrontMirrorFresh` |
| `LastChangedIsTrue` | `Spec => []SinceLastChanged`, if automations feed forward and nobody is early |
| `RestoreBringsNewest` | `Spec => RestoreIsNewest`, under the same conditions |
| `RestartKeepsWhatIsKnown` | `Spec => []RestartKeepsLastKnown`, if moreover the database rejects and prunes nothing |
| `AutomationProofs!TypeCorrect` | `EngineSpec => []EngineTypeOK` |
| `RunsNeverOverlap` | `EngineSpec => []NoOverlap` |
| `ProtectionIsExact` | `EngineSpec => []ProtectionMatchesRuns` |
| `EntityIsTruthful` | `EngineSpec => []EntityShowsEnabled` |
| `ReloadsLeaveNoTrigger` | `EngineSpec => []TriggersAreCurrent`, if no file has two automations with one id |
| `TriggersTypeCorrect` | `TriggersSpec => []TriggersTypeOK` |
| `StateHolds` | `TriggersSpec => []StateHeld`, for any `from` and `to`, attribute-only updates included |
| `NumericHolds` | `TriggersSpec => []NumericHeld` |
| `HaContextProofs!GatewayTypeCorrect` | `Spec => []TypeOK` |
| `ListenersAreSubscriptions` | `Spec => []ListenersMatchSubscriptions` |
| `StrangersHearNothing` | `Spec => []NothingToStrangers` |
| `HaContextProofs!UITypeCorrect` | `UISpec => [](TypeOK /\ ClientTypeOK /\ ViewTypeOK)` |
| `ReportsAreTrue` | `UISpec => []ReportedWasExecuted` |
| `ViewIsFollowed` | `UISpec => ViewFollows` |
| `CommProofs!RegistriesAreTrue` | `CommSpec => [](SessionsAreKnown /\ RecordsAreTrue /\ RoomsHoldClients)` |
| `PhonesAreRung` | `CommSpec => []PhonesCanBeRung` |
| `ScreensAreHonest` | `CommSpec => []CallScreenHonest` |
| `RoomsAreSeen` | `CommSpec => []RoomsAgree` |
| `MessagesComeOnce` | `CommSpec => []NothingTwice` |
| `MessagesAreKept` | `CommSpec => []EachMessageOnce` |
| `BridgesProofs!BridgesTypeCorrect` | `Spec => []BridgeTypeOK` |
| `HubsHaveOneLink` | `Spec => OneLink` |
| `EntitiesAgree` | `Spec => []AgreesWhenQuiet` |
| `ServicesProofs!CameraTypeCorrect` | `CameraSpec => []CameraTypeOK` |
| `CameraIsFreed` | `CameraSpec => []StreamIsFreed` |
| `RegistryIsDurable` | `RegSpec => IsDurableTable`: the registries implement `DurableTable` |
| `EditsAreAlwaysKept` | `RegSpec => []EditsAreKept` |
| `PushAlwaysReaches` | `PushSpec => PushReaches` |
| `CrossingsAreAlwaysTold` | `GeofenceSpec => []CrossingsAreTold` |
| `AlarmsAreAlwaysTrue` | `WatchersSpec => []AlarmsAreTrue` |
| `SavesAreStored` | `ScheduleSpec => [](SavedIsStored /\ OneTempPerSlot)` |
| `PlatformsAlwaysStand` | `PlatSpec => PlatformsStand` |
| `EntriesAreBacked` | `WebrtcSpec => []EntryIsBacked` |
| `PartsAreThemselves` | a behaviour of `ServicesSpec` is one of each of these parts |
| `ServerIsDurable`, `ServerFreesCameras`, `ServerReachesSubscribers`, `ServerTellsCrossings`, `ServerKeepsEdits`, `ServerTellsTrueAlarms`, `ServerStoresSchedules`, `ServerKeepsPlatforms`, `ServerBacksEntries` | the same properties of the composed server |
| `PagesProofs!RevokedNeverReturns` | `TokensSpec => []RevokedStaysRevoked` |
| `ScenesAreWhole` | `SceneSpec => [](KnownAreInScene /\ OneModel)` |
| `ChartsShowTheChoice` | `ChartSpec => []ChartIsChosen` |
| `PanelsOfferWhatTheyShow` | `PanelSpec => []ShowsWhatItOffers /\ NewsOnly` |
| `TokenListsAreTrue` | `TokensSpec => []TokensAreListed` |
| `HomeIsArranged` | `SectSpec => []EveryThingIsDrawn /\ OthersKeepOrder` |
| `ListsAreTheirFiles` | `ListsSpec => []ListIsFile` |
| `HouseProofs!AttemptsAreLimited` | `LoginSpec => []LimiterBounds` |
| `PrintedPasswordOpens` | `LoginSpec => []PrintedPasswordWorks` |
| `CancelsHold` | `MicSpec => [](MicIsReleased /\ CancelledIsNotSent /\ CancelEndsIt)` |
| `OrdersAreTried` | `MicSpec => []AllWereTried` |
| `ClosedIsQuiet` | `BellSpec => []QuietOnceClosed` |
| `OnePlayerPlays` | `TileSpec => [](OnePlayer /\ PeersAreHeld)` |
| `NoTapIsAHold` | `BarSpec => []TapsAreNotHolds` |
| `PlansAreTrue` | `TouchSpec => []PlanIsTrue` |
| `PicksReachTheFile` | `MapSpec => []PicksAreKept` |
| `CardsAreTrue` | `CardsSpec => [](CardsAgree /\ FingerLeads /\ LastGestureCounts)` |
| `DiskIsRunning` | `CfgSpec => []RunsWhatIsThere /\ AppliedIsRunning` |
| `AutomationsAreThere` | `AutoSpec => []EngineFollowsFile /\ BrokenTextStopsNone /\ SaveKeepsOthers` |
| `PluginsAreThere` | `PluginsSpec => []MemoryIsDisk` |
| `PartsOfTheHouse` | a behaviour of `HouseSpec` is one of each of its seventeen parts |
| `HouseKeepsItsDoors` | `HouseSpec => []AccountsHold` |
| `HouseEndsWhatIsEnded` | `HouseSpec => []EndedIsOver` |
| `HouseControlsAreTrue` | `HouseSpec => []ControlsAreTrue` |
| `HouseRunsWhatIsOnDisk` | `HouseSpec => RunsWhatIsOnDisk` |
| `HouseShowsWhatThereIs` | `HouseSpec => PagesShowWhatThereIs` |

### State machine

**`FrontMirrorsAreFresh`.** The property speaks of moments when no emission is in progress;
it is preserved only because of what holds during emissions. `FrontInv` says so: a front
mirror precedes every automation in `order` (`FrontLeads`; listeners register once,
`RegisteredOnce`, and only when the bootstrap is over); an emission that is not the
innermost is suspended *inside* an automation (`SuspendedInAutomation`), so it has already
passed every front mirror; the innermost one still carries the current state as long as it
has reached no automation (`InnermostIsCurrent`); and a front mirror differs from the map at
most in the entity of the innermost emission, and only until it is called
(`HeldUpToInnermost`). When the stack is empty the last conjunct is the property. The proof
has a lemma per group of actions; the hardest step is `DeliverReaction`, where a new
emission is put on top of one that has passed every front mirror.

**`LastChangedIsTrue`, `RestoreBringsNewest`.** `HistoryInv(rank)` relates every record to
those the history has before it (`Agrees`: not older, and of the same state since its
`last_changed`), in the order of their ids, then of the statements issued, then of the
emissions that have yet to issue one: `RowsAgree`, `StatementsAgree`, `EmissionsAgree`; the
map agrees with all of them (`StatesAgree`), the snapshot with those that are older than it,
and so does the answer of the restore's query. The hypothesis `FeedForward(rank)` says that
no automation has to do, directly or through others, with the entity that set it off, except
one that sets what is set already. It is needed: two automations that answer each other
write the nested row before the outer one, so the row with the greater id is the older one,
and a restart without a newer snapshot restores the older state. TLC finds this with two
such automations. `"early" \notin Env` is needed too: the restore is not awaited, and a
state set before its query would have a row the restore never compares.

**`RestartKeepsWhatIsKnown`.** `KeptInv`: the content of every
known state is in the last emission to be written, else in the last statement, else in what
a restart would find; and a snapshot newer than that statement has it too. A rejected insert
leaves the state in memory only, so `failure` is excluded (as is `prune`, which may take the
only row before the next snapshot): then the property is false. So is `early`: the restore
would put an older state over the known one, which is the counterexample of `sm_early`.

### Triggers and automations

**`StateHolds`.** `StateHoldInv`: while the state is the wanted one and was entered from the
one asked for (`fitting`), a pending timer is not due before `since + For`, because the
event that brought it there matched and set the timer anew. An event that does not match
leaves the timer alone, so of a state entered from elsewhere nothing is claimed: its timer
may be one of an earlier stay (`trig_from`). With `for: 0` there is never a timer.

**`NumericHolds`.** A numeric timer is pending only while the last number was inside, and is
not due before `inside + For` (`TimerCoversHold`): leaving the range cancels it, and gaps of
non-numeric readings do not count as leaving, neither for the code nor for `inside`.

**`AutomationProofs`.** `Inv` is the type invariant, `OneRunEach` (an id has one run in
progress at most, whatever the mode), `active = Holding` (`activeContextIds` holds exactly
the ids of automations with a run in progress), `Counted` (a runtime object counts its own
runs, old objects included) and `EntityShowsEnabled`. `NoOverlap` follows from `OneRunEach`,
which is not inductive alone: a start is refused by `activeContextIds`, so the proof needs
that this set is never short of an id, and a `Finish` is safe because it is the only run of
its id. The steps are sorted into five kinds (`StepForms`): those that load a file,
start a run, let one go on, switch an automation, or end a run. `ReloadsLeaveNoTrigger`
needs distinct ids: two entries of one id share a place in the map, and the triggers of the
first stay on the bus (section 6).

### Gateway and web UI

**The gateway.** For *any* client: the lemmas are stated about the handlers, so they serve
`HaContext` too. `GatewayInv` adds to the two properties that a session in the command
phase was proven (`CommandsAreProven`) and that a live session has been refused nothing
(`RefusedAreOut`); the await of `validateToken` is harmless because the session is looked up
again after it, and `LiveAreOpened` says that what it finds is a session that was opened.

**`ReportsAreTrue`.** `ClientInv`: there is one connection, and no message id is used twice,
on this connection or an earlier one (`IdsAreOwn`); a result with an id of a pending call is
therefore the result of that call.

**`ViewIsFollowed`.** `NewsInOrder`: what is on its way to the client is not older than what
it shows, in the order it will be read, and not newer than the hub; a removal is no news.
`NewsArrive`: once connected, the subscription stands or is on its way, and all states have
yet to be asked for, or every entity that is not in `missed` is `UpToDate`: the view is the
hub's state and nothing on its way speaks of it, or the last word about it on its way is the
hub's. The change in the gap and the removal are not assumed away: they put the entity into
`missed`, and its next change takes it out.

### Intercom

`CommInv` has three parts. `ServerInv`: a session that is registered is connected, records
name the session that made them, rooms hold clients that are connected, the lists in flight
end with the list of the server, and whoever is shown as away has a push endpoint. The proof
that this survives `HandleDisconnect` is the case of overlapping sessions: the record of the
phone names the newer one and must stay. `InboxInv`: a signal in flight names its sender.
`PhonesInv`: a call task waiting for a session description belongs to the connection of the
screen, or that connection was replaced. Without that exception (`replaced`)
`CallScreenHonest` is false: TLC shows two presses on *accept* that leave a screen on
"connected" without a connection (section 6). All of it holds for any number of phones,
sessions and rooms.

**`RoomsAreSeen`.** `SeesInv`: of two connected members of a room each shows the other, or
a message that will make it so is on its way, or it has yet to ask (`Told`, `Asks`).
`OneRoomInv`: a phone that did not stray is in one room at most, counting what it has still
to send. A phone can be a member of two rooms (the gateway does not take it out of the
first) but has one list of tiles, so what it shows of the first is lost: `strayed` records
it, and the theorem claims nothing of such a phone. The instance has two rooms, so it does
happen.

**`MessagesAreKept`.** `TalkInv`: `IdsInv` (the ids of the log, and of what each phone has
still to send or upload, are distinct and were given before), `ListsInv` (a phone shows an
id once), `RelaysInv` (a message was relayed to connections that were made before), and
`LostInv` (a message that was relayed to the connection a phone has now is in its list or on
its way, unless the list is full). Merging an answer of the history, an empty one included,
takes nothing away. Of messages relayed while a phone had no connection nothing is claimed:
those are lost, which is the counterexample of `comm_history`.

### Device integrations

`BridgeInv` adds to the types (`BridgeShape`) what belongs to which integration
(`Belongings`), when there is a link, a login or a timer (`LinkInv`: a login in progress has
no timer, a session is watched by nobody else, a timer is single), and three statements
about news. `Follows(d)`: the device is still to be asked for, or something about it is in
the outbox, or the last word about it in the inbox is its value, or the inbox is silent and
the entity shows it. `SessionAgrees` claims it of every device while a session of Lutron,
Envisalink or MQTT stands, `RtiAgrees` the mirror image for RTI, as long as no connection
was lost (a QoS 0 message in flight is not sent again), `YamahaAgrees` for the mock
receiver. When inbox, outbox and queries are empty, `Follows` leaves only the last case:
`AgreesWhenQuiet`. Each integration has its lemma (`LutronKeeps`, `EvlKeeps`, `IsyKeeps`,
`MqttKeeps`, `RtiKeeps`, `PolledKeeps`), and `HouseKeeps` does the people and the hubs.
`OneLink` follows from `LinkInv` in both states of a step.

### Services

* **Camera.** `CameraInv`: types, `TimerIsCounted` (idle timer and viewer agree), and
  `~overtaken => Sole`: unless an ffmpeg was started between the end of another and its
  close event, the process of the entry is the only one alive. The exception is a defect of
  the code (section 6), recorded in `overtaken`.
* **Registry.** `RegInv` says of each statement in the queue and each confirmation which row
  it will be, so that every step of `RegNext` is a write, a copy, a restart or a stutter of
  `DurableTable`. `EditsAreKept` needs two more: `NamesInv` (rows are there before their
  renamings, renamings go on, and the last one executed is in the table) and `PageInv` (a
  patient user has nothing under way, one request, its answer, or the two lists on their
  way).
* **Push.** `PushInv`: endpoints belong to their browsers, rows are there from the save to
  the delete, and a sender has left to send to whatever it read and has not answered
  (`Senders`).
* **Geofence.** `GeofenceInv`: `NewZonesAreFresh`, `ReportsAreInStep` (what a report read is
  what is stored until it writes), `NoticesFollow` (the notices told of a zone end with the
  side on which the phone is stored, or with the one its report is about to tell).
* **Watchers.** `WatchersInv`: how often a sunrise was told is a function of the minutes
  since (`Told`), split at the window of three minutes and at midnight, where the window is
  cut; the age of an open door is what the service knows of it, less than a tick behind
  (`DoorInv`); and a history of equal readings has an average that equals them, by
  an argument about sums in place of an induction (`SumOfEqual`: the least counterexample).
* **Schedule.** `AnsweredStands`, `SavesTakeTurns` (a save that is alone finds the table it
  emptied), and `TablesAgree` (rows, editors, loads and saves have one temperature per slot)
  as long as no two saves overlapped. The attempt at the proof showed that the exception has
  to speak of saves of *any* thermostat: a browser that loads a mixed table can save it for
  another one.
* **Platforms.** `LoadInv`: an integration of the list is yet to load or has been tried, and
  each failure has cost a fault. `EntitiesInv`: the state of an entity is what was asked
  for, toggled once more for every caller that has yet to reach it (`Follows`, `Parity`).
  The proof needs the process to be up: calls it had accepted when it ended are not done.
* **HLS.** `HlsInv`: an id leaves the processes that run only for those whose close event is
  to come; an event that comes takes the entry along, and starts are given new ids.
* **Composition.** A step of `Services` is a step of the part it is about and leaves the
  variables of the others, so each part's behaviour is one of its own specification,
  fairness of the camera included. Every theorem about a part is one about the server.

### Web UI pages and cards

The lists of what the server has (tokens, history, scene, panel, home page, rules, floors)
are proved about in `PagesProofs`; everything else, and the composition, in `HouseProofs`.

* **Login and tokens.** `LoginInv` has the limiter and the password. `Limited` counts the
  attempts inside the window the guard remembers, and says of the time before it that no
  span of a window's length has more than the limit: a span over two windows has at most
  twice as many, which is the bound (fixed windows allow no less). `PasswordInv`: the
  account has the password printed last, and while it is being made there is none yet.
  `TokensInv`: ids were given as `1..k`, so a new one was never revoked.
* **Voice.** `RecordingInv`: one recording is asked for or running unless two were asked for
  at once; what was cancelled is stopping or off; and after a cancel that found nothing
  under way no timer, question or speech is left that could start one. `QuestionsInv`: the
  lamps of an order are those left, those done and those refused.
* **Doorbell, camera tile, shortcuts.** `BellInv`: unless an interval was forgotten the one
  that runs is the one remembered. `TileInv`: a connection that is asking or open is the one
  the tile knows, and until a stale retry fires a player runs only in the mode of the tile.
  `BarInv`: a press timer belongs to a shortcut that is down, unless one was orphaned.
* **Floor plans.** `TouchInv`: the last news on its way is what the house has; without news,
  with all touches done, the plan shows it, and what a single open touch would go back to is
  true. `MapInv`: the file after the writes on their way (`FileToBe`) has what was picked,
  and so has the map of the editor once it is loaded.
* **Cards.** `CardsInv` has five parts: `CardsShape`; `KnobsInv` (which level, finger and
  timer a kind of card can have, and that a slidable card at rest shows what its panel
  heard, unless it is a ring that nothing has drawn since the finger was lifted: `own`);
  `EchoInv` (the last news on its way to a panel is the entity's state); `WishInv` (the last
  gesture, if no other panel had a hand in it, is the last call on its way or done);
  `AskedInv` (a card that shows what it asked for shows what the server has, or will be
  told, or has asked).
* **Files.** `CfgInv`: `RunsWhatIsThere` itself, and that what the forms sent is in the file
  until the page is done, and is run by a process that started since (`SentIsRunning`).
  `FileInv`: an answer on its way to the page is the file, and the page's text lacks only
  what somebody removed from it (`TextIsFile`). `PluginsInv`: of every directory that the
  timer is not about, memory is what the disk holds, or it is among those that are going
  (`MemoryFollows`). The hypothesis on names was found by the proof: after a change the
  loader drops the plugin whose domain is the *directory's* name
  (`plugin-loader.service.ts:72-77`), so a directory named like another plugin's domain
  takes that plugin out of memory.
* **Scene, charts, panel.** `SceneInv`: until a floor is left before its model has arrived,
  a load is the only one, is that of the selected floor, and finds the scene empty.
  `ChartInv`: the request for what is chosen is the latest one asked and still on its way,
  or every request left is older than the last answer, which is the one shown. `PanelInv`:
  the page asks for its configuration until it has it, so that the views that arrive later
  are the first it has, and its own view is among the tabs (`ActiveSet`).
* **Lists.** A page that edits a copy never compares it with the file: it applies to the
  copy what it asked the server to do. The invariants therefore relate the two *while*
  answers are on their way. `ListInv` (tokens): what the table has is what the page lists,
  and what was made, less what was revoked, in answers that have not arrived. `RowsInv`
  (rules, floors) says it row by row: where no answer about a row is on its way, file and
  page agree there (`FollowAt`); where one is, they differ by what that answer will do
  (`AnswerIs`); where there are two nothing is said, and the page that takes one of them is
  marked as astray. That is enough only because a row that is being made is nobody else's
  (`NewRowsAreNew`), a press on a row asked for the contrary of what is drawn
  (`AsksFitRows`), and an answer to a load is the file unless another answer is on its way
  (`LoadsAreFresh`).
* **Home page.** `SectInv`: the saved order names no section twice. With the lemmas on
  filtered, joined and moved sequences it gives that what is drawn has every section once,
  and that a drop leaves the order of the others. Both hold if no area's id is `pinned` or
  `other` (`OwnNames`, section 6).
* **Composition.** `PartsOfTheHouse`, as for the services: one lemma says that when one part
  acts the others rest (`OneActsOthersRest`), one per part that a step of it is its own.

### Only model-checked

* Liveness, which is out of the prover's reach, as is `ENABLED`: `RunsEnd`,
  `EventuallyRecoverable`, `HeldIsFired`, `UIConverges`, `EventuallyAgrees`, and the
  liveness in `ScheduleHolds` (`ScheduleIsFollowed`) and `StreamsAreServed`
  (`ViewerIsServed`, `HlsFollowsStreams`), whose safety parts are proved.

Of the thirty-nine properties of the passing runs thirty-two are proved; the seven others
are those named here.

## 6. What the models showed about the code

Four runs end in a counterexample; `PROJECT.json` quotes the lines.

* `sm_early`: `app.module.ts:111-112` says the state machine restores before the
  integrations are loaded. The start is not awaited (line 115), and an integration that
  reports a state before the restore's query is answered has it replaced by the state of
  before the restart.
* `trig_from`: the manual (`说明书.md:1127`) says the state must persist for the duration.
  With `from: low, to: high`, an entity that goes low, high, higher, high has the timer of
  the first `high` still running: the second one returns at the `from` filter
  (`trigger-evaluator.service.ts:81`) before the timer is cleared (89-90).
* `ui_gap`: the manual (`说明书.md:1290`) says the UI follows `state_changed` in real time. A
  change between the answer to `get_states` and the subscription (`HaContext.tsx:215`) is in
  neither, and stays unknown until the entity changes again.
* `comm_history`: `CommContext.tsx:549` says that the persisted chat history is loaded. The
  controllers `api/comm/...` (`chat-message.controller.ts:4`) and `api/plugins`
  (`plugin.controller.ts:13`) carry the global prefix `api` (`main.ts:85`) twice, so the
  requests are answered 404, and what was said while a phone was away never reaches it.

Found while modelling, each with the place in the models where it shows (an exception in a
property, an excluded input, or a hypothesis of a theorem):

**State machine, automations, triggers**

* A listener registered behind an automation receives nested changes in the wrong order and
  keeps the older state until the entity changes again. The rows of the two changes are
  inserted in the wrong order too, so a restart without a newer snapshot restores the older
  state.
* `removeEntity` leaves the history, so a removed entity returns at the next start; the UI
  ignores the removal event.
* Reports that leave the state unchanged restart the `for:` timer of a state trigger without
  `from`, or with a `from` that equals its `to`: with such reports `StateFires` fails,
  `StateHeld` is proved.
* A numeric trigger starts outside its range whatever the value is: after a reload the first
  reading inside counts as a crossing.
* The manual (`说明书.md:1107-1108`) says mode `single` cancels the run in progress and
  `parallel` allows several: the code skips the new trigger in both, as the loop protection
  goes by the id of the automation. `max_runs` is never reached. The protection is lifted
  when a run ends, so a cycle of automations with a delay in it goes on for ever.
* Two automations with one id (aliases without ASCII letters all become the empty string)
  share a map entry; the triggers of the first stay on the bus after every reload.
* `enableShutdownHooks` is never called: `shutdown` and `teardown` of the services run only
  when something closes the application.

**Gateway and web UI connection**

* What a panel patched (`patchState`, `HaContext.tsx:120-134`) stays on the screen until the
  hub speaks of the entity, also when the call behind it failed; only the switches of the
  3D plan put it back then (`FloorPlan3DScene.tsx:301`, `370`).
* The UI takes `auth_invalid` for an expired token (`HaContext.tsx:204`). A service called
  before `auth_ok` is answered the same way (line 106), and the user is logged out with a
  valid token.
* When the database rejects the validation of a token the client gets no answer at all.

**Intercom**

* Two presses on *accept*: the first `acceptCall` goes on after its connection was replaced
  and cleaned up, and shows "connected" without one.
* A hang-up while `startCall` or `acceptCall` waits leaves microphone and connection open,
  and the offer is still sent; an answer goes to whoever is the peer by then (line 373); an
  offer overrides the current call (691).
* The gateway does not relay the `group` flag (`comm.gateway.ts:165`), so ICE candidates of
  group calls never arrive; leaving during an await leaves a tile.
* A voice message is shown twice to its sender (404, 617); reading one's own message marks
  it as read (598); after a reconnection, missed messages go before older ones.
* A push endpoint registered before the phone leaves a record of a phone that is never
  online.

**Device integrations**

* Lutron: if the first opening fails nobody listens to the later ones (`Deaf`); a login that
  is closed cleanly never ends (`Stranded`); a query that times out is shown as off
  (`lutron-caseta-client.service.ts:68-73`); with four devices or more two fetches overlap.
  Optimistic states are set while the link is down (`lutron-caseta.integration.ts:325-328`,
  `mqtt.integration.ts:432`).
* Envisalink arms its reconnection after teardown (125-129, 184-190; `StaysDown` leaves it
  out), leaks a poll interval per login (153-160), and has a socket timeout of 10 s under
  polls of 30 s.
* MQTT: a withdrawn entity leaves its topic in `topicMap` (306-313, 376); the default
  command topic is the state topic; discovered domains get no services. RTI publishes
  nothing at first.
* Yamaha's real mode registers no zones (113-134). `climate.set_temperature` is registered
  by several integrations, and the last one wins. Polls of Nest and Ecobee may overlap.

**Services**

* Camera: the close of an ffmpeg killed as idle, after a new request has started its
  successor, forgets the successor, and the next request starts a second one
  (`camera-stream.service.ts:36-37` says there is one; `overtaken`). A stale `index.m3u8` is
  served as ready.
* HLS: the late close of a killed process deletes the entry of its successor; the 4 s start
  cannot be cancelled; go2rtc is not restarted.
* Schedule: saving deletes before it inserts; the page can show and save the entries of the
  thermostat selected before; the timer overrides a manual setting every five minutes.
* Anomaly: a door closed and opened between two polls goes unnoticed. Geofence: overlapping
  reports of one phone lose crossings; the first of two phones to leave a zone sets it to
  `not_home`; a deleted zone is never left.
* Push: after a failed save and a reload a browser believes it is subscribed; failed sends
  are not retried.
* Platforms: isy994, lutron, mqtt and yamaha skip domains that demo has registered, so their
  devices are never commanded (`说明书.md:1008`, `1042`); a failed setup leaves services of
  half a platform; a fan row without a platform ends the process; `fan` acts on its first
  target only; integrations load in the order of the file, not of their dependencies
  (loader, line 50).

**Web UI**

* Configuration: saving writes one path and applying reads another when `HA_CONFIG_PATH` is
  set (159, 182); a failed restart is reported as applied; saving before the file has
  arrived, or after that failed, drops the other integrations; a restore copies `ha.db`
  under the running process; an update interrupted between pull and build is "up to date".
* Automations: "Restart server to apply" (`AutomationsPage.tsx:308`), though the file is
  watched; an entry without a trigger stops a reload after the teardown of the old ones; the
  visual editor writes entries without an action (57-79).
* Voice: a second press while permission is pending leaves a recorder running; *cancel*
  while it thinks or speaks does not end the round.
* Cards: the flag that a light was slid to zero is cleared at once
  (`LightCards.tsx:112-118`, `163-171`); the rings keep `dragging` in a ref and set no state
  when the finger is lifted (`LightCards.tsx:312`, `323-324`, `390-400`), so after a refused
  call, or a change by others during the drag, the dragged value stays until something draws
  the card (`own` in `CardsAgree`); pressing and releasing the slider of an unlit tile sends
  `turn_off` (`LightCards.tsx:209-214`); services without a handler (`number.set_value`,
  `lock.*`, `button.press`, ...) are called and the refusal is swallowed
  (`PanelContext.tsx:264-270`).
* Floor plans: the model of a floor that was left is added late and never removed
  (`useSceneContent.ts:162`); a pick before the map has loaded writes a map with one entry;
  several presses are never rolled back.
* Settings and history: the page sends `expires_days` and the service reads
  `expires_in_days`, so its tokens never expire; revoking ignores the status of the answer;
  quick toggles of a rule overwrite one another; a chart shows the answer that came last,
  not the one asked for last (the exception in `ChartIsChosen`).
* Home page: ids of areas are made of their names, and none is refused
  (`area-registry.service.ts`): an area named "Pinned" or "Other" shares the id of a section
  the page adds (`DashboardPage.tsx:126-132`); `OwnNames` leaves it out.
* Plugins: one timer serves all directories, and a change in one drops that in another; a
  rescan never unloads; a plugin that no longer loads drops the one that ran.
* Doorbell: a second ring forgets the interval of the first (`DoorbellOverlay`, 85-111).
  Camera tile: the retry timer of 400 ms is not cancelled (`CameraCard.tsx:63`), a stale
  WHEP answer is taken for the new one (56-58).

## 7. What is not modelled

* The condition evaluator: a pure function of the states, whose outcome is a free choice in
  `Automation`.
* Event patterns, `listenOnce` and `listenMany`; time and event triggers, which keep no
  state.
* The device registry, which nothing calls; the MCP server and the custom components, which
  are clients of the REST API; database and migrations, read once at the start.
* Drawing, wording, styles, the geometry of the 3D scene, the codecs and encodings, the
  schema of the configuration's sections, what a language model answers.
* Pages and components that nothing imports (the AI chat panel, the camera grid, RTI cards).

`PROJECT.json` says for each component what its models leave out.

## 8. Plan

1. The abstract specifications that remain: a *durable store* for `StateMachine` under the
   hypotheses of `RestartKeepsWhatIsKnown`; a *hold detector* for `TriggerEvaluator`.
2. The condition evaluator, event patterns and time triggers as operators, each against a
   reference definition over bounded inputs.

# WrathClassicAPI in TLA+

WrathClassicAPI is a DLL for World of Warcraft 3.3.5a that adds Lua functions and
events of later clients. It is injected into the game, hooks engine functions, and
registers its own functions with the engine's Lua state; an embedded add-on
(`AddOns/!!!WrathClassicAPI`) adds a Lua layer on top. This directory holds TLA+
models of the parts that keep state over time and of the calls that answer from the
engine's state, the TLC configurations that check them, and machine-checked proofs
about nearly all of them. Source paths below are relative
to `src/` (so `src/item/Data.cpp` is `src/src/item/Data.cpp` in this checkout).

To check: `tlc -config X.cfg M` for each run in `PROJECT.json`; `tlapm M.tla` for
`ItemData_proofs`, `Timer_proofs`, `EventRegistry`, `Services`, `SpellPacket`, `Answers`,
`Queries` and `Session_proofs` (some minutes each; the last three, whose obligations
stand in the scope of many instantiated modules, a quarter of an hour). A leaf that the
prover takes seconds over says so with `SMTT` or `ZenonT`, so that a slower machine proves
it too.

## 1. The system

### How it runs

Almost everything runs on the client's **main thread**: a frame handles packets and
input (which run Lua event handlers), then the engine's `OnUpdate` dispatch, then the
subscribers of `FrameTick` - this library's own per-frame work. There is no preemption
between these, and yet three things interleave:

* **Re-entrancy.** `Event::Custom::Fire` runs every Lua handler before it returns, and
  a handler may call any function of the library: in the middle of a loop over a
  container, of a callback list, of an engine handler that has not finished. This is
  the hazard the code meets most often, and the models make each such call a step of
  its own with a marker of where the interrupted C++ code stands.
* **The world.** The server, the network and loading screens go on between frames; the
  server drops queries of a player who is not in the world and never says so.
* **Other threads.** FMOD's mixer ends sounds when it likes; at injection, a worker
  thread and the main thread may install the hooks at the same time.

Nothing is persisted by the library itself; what a *crash* would do elsewhere is here
done by `/reload` and logout, which destroy the Lua state (and with it every callback)
under C++ state that stays, or must be cleared by a `ReloadAutoRegister`.

### Inventory

| Component | State | Operations | Correct when |
|---|---|---|---|
| Item data requests `item/Data.cpp` | `g_requests`, `g_wasInWorld`, `g_ownedPrefetched`; callbacks attached to entries of the engine's item cache | `RequestLoadItemData(ByID)`, the `GetItemInfo` warm-up, `OnItemLoaded`, `OnTick` (resend, prefetch, send), reload | each request is answered by exactly one event, of its kind, with an honest flag |
| Quest data requests `quest/Data.cpp` | callbacks attached to the quest cache | `RequestLoadQuestByID`, its callback, reload | the same |
| Timers `timer/Timer.cpp` | `g_heap`, the Lua callback registry, `g_nextRef` | `After`, `NewTimer`, `NewTicker`, `Cancel`, `Tick`, reload | cancelled is final, nothing leaks, limits hold, everything due fires |
| Sound kits `sound/Play.cpp` | `g_tracked` | `PlaySound` with `runFinishCallback`, `OnFrame`, reload | one `SOUNDKIT_FINISHED` for each sound that ends |
| Cursor `cursor/Changed.cpp` | `g_lastRaw`, `g_lastState` | `OnTick` | every change is told, old and new content fit together |
| Bags `bag/UpdateDelayed.cpp` | `g_pending` | two hooks, `OnFrame` | no update without a later event; none behind a loading screen |
| Quest removal `quest/Removed.cpp` | `g_snapshot` | the log-rebuild hook | one event for each quest that leaves the log |
| Session cvars `cvar/Temp.cpp` | `g_entries` | `SetTempCVar`, `RemoveTempCVar`, the archive co-hook | session values are never saved; the user's choice is never lost |
| Callback registry `Util/CallbackRegistry.lua`, `GlobalCallbackRegistry.lua`, `EventUtil.lua` | callback tables, event counts | register, unregister, `TriggerEvent`, once and all-events continuations | a walk reaches everybody once; nobody is cut off from an engine event |
| Swing timers `combat/Swing.cpp` | `g_swing`, `g_cast` | packet observers, swing and attack-start hooks, `OnFrame` | the client's timers agree with the server's |
| Incoming resurrections `unit/IncomingResurrection.cpp` | `g_entries` | packet observers, `OnFrame`, the query | the query and its event follow the casts in view |
| Spell packets `net/SpellPacket.cpp` | the packet's read cursor | two hooks, two observers each | each observer reads the whole packet |
| Frame tick `tick/FrameTick.cpp` | the subscriber list | `FireOnUpdate_h` | right in any order of subscribers |
| Injection `DllMain.cpp` | `g_initClaimed`, `g_initDone`, `g_initResult` | `EnsureInitialized` by worker and `Load` | both callers see the real result of one install |
| Module lifecycle `Game.cpp`, `Bootstrap.cpp` | four registration chains, the glue latch | in-game, glue and reload chains, detour list | every Lua state that should have a function has it |
| Reserved events `event/Custom.cpp` | `g_reserved` | reserve, fill, look up, fire | a name fires its own event |
| Entering-world payload `event/EnteringWorld.cpp` | a login flag | two events | the flags tell login, reload and loading screen apart |
| Unit event filters `frame/UnitEvent.cpp` | `g_filters` beside the engine's listener nodes | `RegisterUnitEvent`, unregister co-hook, the gate | behaves like the node kinds of 5.4.8 |
| Swing range, weapon slot, turn-in, standings | a few flags or last values | hooks and frame polls | one event per change |
| Add-on loading `addons/*` | the embedded-or-disk decision, the rescanned registry, namespace tables | file reads, reload rescan, TOC executor | files, saved variables and registry in the order retail has |
| Mask textures `texture/Mask.cpp` | masks per texture | add, remove, set, region teardown, the batch renderer | no mask outlives its regions |
| Pools `Util/Pools.lua`, `FrameWatcher.lua` | active and inactive objects | acquire, release | an object is in one state at a time |
| Queries: items, spells, units, auras, gossip, friends, tooltips, talents, ... | none | read the engine | - |
| Encodings, colours, dates, tables, TOC rewriting | none | pure functions | - |

`PROJECT.json` lists all of them with their files and what is (not) modelled.

Interactions: every event goes through `Event::Custom::Fire`; per-frame work through
`FrameTick`; item and quest requests share the engine's cache; Swing and
IncomingResurrection share a packet; the timers, EventUtil and ItemUtil of the add-on
are used by other add-ons' code, that is, by anything.

Hard behaviours, each listed at its line under `hazards` in `PROJECT.json`:
re-entrant handlers inside container walks; requests lost to loading screens and
forgotten by reloads; comparisons by value standing in for identity; a tick counter
that wraps; packets that are never sent for what is out of view; `pairs` over a table
that changes.

## 2. The modules

| Module | Models | Kind |
|---|---|---|
| `DBCache` | the engine's record cache, the server and loading screens, as `item/Data.cpp`, `quest/Data.cpp` and `Offsets.h:117-131, 2171-2176` use and describe them (external) | building block, no specification of its own |
| `LoadPromise` | what an asynchronous load promises the Lua side | abstract specification |
| `ItemData` | `item/Data.cpp` on `DBCache`; implements `LoadPromise` | component |
| `ItemData_proofs` | theorems about `ItemData` and `QuestData` | proofs |
| `QuestData` | `quest/Data.cpp` on `DBCache`; implements `LoadPromise` | component |
| `Timer`, `Timer_proofs` | `timer/Timer.cpp` | component, proofs |
| `SoundPlay`, `CursorChanged`, `BagUpdateDelayed`, `QuestRemoved` | one event module each | components |
| `CVarTemp` | `cvar/Temp.cpp` | component |
| `EventRegistry` | the add-on's callback registry and EventUtil | component |
| `Services` | `tick/FrameTick.cpp`, composing the four event modules on one Lua thread; beside them `CVarTemp` and `EventRegistry`, for one run | composition, frame of a run, proofs |
| `DataStore` | a packet and its reads | building block |
| `Swing`, `IncomingResurrection` | the two observers, each beside the server's side | components |
| `SpellPacket` | `net/SpellPacket.cpp`, composing them with a server | composition, proofs |
| `Install` | `DllMain.cpp`, `Bootstrap.cpp`: two threads and one installation | component |
| `ListenerNodes` | the unit event nodes of the 5.4.8 client | abstract specification |
| `UnitEvent` | `frame/UnitEvent.cpp`; implements `ListenerNodes` | component |
| `AddonRegistry`, `AddonLoad` | `addons/`: the rescan at a UI build; loading with saved variables first, namespace tables and the embedded library | components |
| `Mask` | `texture/Mask.cpp` | component |
| `Session` | `Game.cpp`, `event/Custom.cpp`, `event/EnteringWorld.cpp`, composing the five above over process starts, logins, reloads and logouts | composition |
| `Session_proofs` | theorems about `Session` and the five components in it | proofs |
| `TocFiles` | `addons/TocRewrite.cpp`, `TocFile.cpp` | component |
| `Reputation`, `SwingRange`, `Notices`, `SoundFiles`, `ServerTime` | `faction/`, `combat/SwingRange.cpp`, `player/WeaponSlot.cpp` with `quest/TurnedIn.cpp`, `sound/Mute.cpp`, `time/` | components |
| `Auras`, `Social`, `Units`, `Gossip`, `Inventory`, `ItemInfo` | `aura/`, `friendlist/`, `unit/` with `group/Info.cpp`, `gossip/Info.cpp`, `item/Swap.cpp` with the locations, the other item queries with `player/CanUseItem.cpp` | queries, each over the engine state it reads |
| `Encodings`, `Serialization` | `encoding/`: bytes; Lua values | codecs |
| `Answers` | instances of `Encodings`, `TocFiles`, `Inventory`, `SoundFiles`, `Reputation`, `ItemInfo` and `ServerTime`, and what is proved of each | proofs |
| `Queries` | the rest of the last rows and `QuestData`, and all of these side by side, for one run | frame of a run, proofs |
| `MC*` | values of the constants for TLC | |

`Services` and `Queries` instantiate parts that share no state and call nothing of each
other: `part` says which of them a behaviour is about, and the others stand still, so
that the runs add up their states instead of multiplying them. `Session` does compose:
its steps drive the parts, and `interest` only says on which of them a behaviour's
add-ons make calls.

In each module the variables carry the names of the code's globals (`owed` and `sent`
split the records of `g_requests`; ghosts, marked as such, record history only for
properties), one action stands for one function or for the stretch of it between two
points where other code may run, and definitions headed `Mutant:` are wrong variants
of the definition below them: they are used by no action, and only show that a
property notices the bug (`mutants` in `PROJECT.json`).

### ItemData on DBCache

`Track` is the API call and the `GetItemInfo` warm-up; `Deliver` is the cache's response handler with
`OnItemLoaded` in it; `TickStarts` ... `TickEnds` are `OnTick`, one step per ID of a
snapshot (`todo`), because `Complete` runs Lua in between. `handler` is TRUE while a Lua handler
runs: then only `Track` and `HandlerReturns` may happen, and `pc`/`todo` keep the place of the
interrupted walk. A record the server does not have leaves its entry `failing` while
handlers run, and is deleted when they return, which is what makes a request from that
handler special (below).

### Timer

`heap` is the set of refIDs with an entry, `Top` any of the earliest, so every order of
`std::push_heap` among equals is allowed. Time is `uptime`; `NowSec` is what
`GetTickCount` shows of it. `Pop`, the callback (which may be any Lua call) and
`CallbackReturns` are separate steps.

### Services: the frame

`FrameEnds` starts the subscribers, `CallSubscriber` takes them in any order,
`LuaRuns` says when Lua may call: in the innermost handler, or between frames. The vector of
`SoundPlay` is modelled with its capacity, because a push in the middle of the
range-for may move it: what the stale iterator then reads is any value. Sounds end on
the audio thread at any time.

### CVarTemp

`SetTempCVar` runs up to the change callback of `CVar::Set`; `landing` is the stack of calls that are in
their callback; `Lands` is the rest. `user` is the ghost the properties compare with:
what the user chose, by `SetCVar` or in the character's config. `g_entries` is a set here: the
code looks entries up by name and its order shows nowhere.

### EventRegistry

`triggers` is the stack of `TriggerEvent` calls, each with the keys its `pairs` has
not come to. Clearing a key under a walk is defined in Lua 5.1; adding one is not, and
then any key may come again, be left out, or `next` may fail (`NextFails`).
Callbacks are called without `pcall`: one that raises an error (`CallbackRaises`) unwinds the walk it was
called from and any number of those around it, up to a `pcall` in another callback or to the engine (`Unwinds`), and
what these walks had still to call is not called. `ReachedAll` therefore speaks of walks that return normally;
`CallsOnce` and the counts of `CallbacksHear` speak of all.

### SpellPacket

A packet is a sequence of fields with a cursor (`DataStore`); `Swing` reads it first,
the cursor is put back, `IncomingResurrection` reads it. The server's own attack timers run beside
the client's by the rules at the head of `combat/Swing.cpp` (lines 16-30), and casts
begin, finish and fail for casters in and out of view. The resurrections' entries are a set: the code
looks them up by caster or by target and their order shows nowhere.

### Install and Session

`Install`'s threads are the worker that `DllMain` starts and the main thread in LichCore's
`Load`; the installer takes the claim, and each thread's place (`thread`) and `step` say how far
it is. A feature list with a target twice, or one MinHook refuses, makes the installation fail at
any hook. `Session` starts with it, then walks `phase`: login screen, UI build (the module
`chain`, in any order of its functions), the add-ons' load, `PLAYER_ENTERING_WORLD`, the world,
loading screens, the end of the Lua state, and a restart of the process at any step, which
leaves only the disk. `table` and `slots` are the engine's event table and `g_reserved`.

### UnitEvent

`listeners` is the engine's list of an event, with the pending changes
(`unregisters`, `registers`) that the engine keeps while the event is dispatched; `filters` is
`g_filters`. The gate is in `dispatch`, one step for each frame, between which handlers register and
unregister. The refinement maps a frame's node to its place in the list and its filter.

### AddonRegistry and AddonLoad

`disk` is edited between rescans, and while one runs folders may go; `index`, `order`, `with`, `rev`, `display` and
`metaHash` are the engine's arrays and lists, with freed entries in `victims` until nothing points to them. A rescan
is several steps: `RunBegins` compares each entry with its file, `Evict` takes one victim out and puts it back as parsed again (or not,
if its folder went meanwhile), `RunEnds` adds what is new and links it; `Session` takes them in `RescanRuns` before the add-ons load. A reverse list is kept as the number of times it names an entry (`rev`), which is what scrubbing one pointer too few or
too many shows in. `asOf` is a ghost: the disk that the rescan under way saw. The display array is rebuilt at the end, and nobody
reads it before. `AddonLoad`'s `queue` is the engine's whole order, on-demand add-ons included, which its walk skips; it keeps a
stack `loading`, because file-scope Lua may load an add-on on demand: each frame of it
has come to the saved variables, the files, or the engine's own load of the saved variables,
which `pendingSuppress` drops. `copy` and `source` are the disk's library and `DecideSource`'s choice.

### Mask

`texture` maps addresses to what a region's own `SetTexture` put there, `maskLoads` mask regions to the file and the handle of our own load
of it; `draw` is the batch renderer between its hooks, `device` what it set on the texture units. Addresses of dead regions are used again.
A structured exception may end `DrawMasked` at any point: while the masks are resolved (`Faults`), in the middle of one mask's load
among them (`TearsLoad`: the old handle is released, the new one not stored), or after the device has been pushed (`Drawn`). Each drops the entry
and turns the feature off. `held` counts what whole calls took and released; what a torn load
released and took beside that is in the ghost `torn`, which stays to the end of the process. So `RefsKept`
is exact where no load was torn, and says that at most one is; `NothingReleasedTwice` has no such exemption and is a violated run.

### The queries

Each module of this kind keeps the engine's state a call reads (`VARIABLES`), the events of the world that
change it (external actions), and the calls as operators; the properties compare two calls about the same
thing, a call with its documented meaning, or a scan in several calls with what stayed throughout.
`Inventory` adds the requests on their way to the server and what the server makes of them,
`Gossip` the two sessions that the engine never clears, `Units` the places where a unit's data may be,
`ItemInfo` what is asked for when a record is not there, `ServerTime` a clock of
`SecondsPerMinute` seconds and a tick counter that wraps at `TickRange`.
`Encodings` and `Serialization` encode, let the text travel (a transport may change it), and decode; `TocFiles`
reads a file through `Transform` and asks what the engine then loads.

## 3. The runs

| Run | What it asks | Instance |
|---|---|---|
| `item_events` | do events keep the promise (refinement of `LoadPromise`), can every sent request complete, does none wait in the world? | two items of which the server has one, one loading screen, one reload, the engine asks on its own, the player carries one |
| `item_answers` | is every request answered although a loading screen swallows queries? (liveness) | two items the server has, one loading screen, no reload |
| `item_reload` | the same with a reload: **violated** | one item, one loading screen, one reload |
| `timers` | cancel, leak, limits, punctuality, and that everything fires (liveness) | two timers in each UI session, delays 0 and 1, tickers of two iterations and without a limit, time 0 to 3, one reload |
| `timer_next_frame` | "next frame" of `C_Timer.After(0, f)`: **violated** | as above |
| `services` | frame events: are events of four modules lost, repeated or wrong, with handlers that call into one another? cvars: do session values stay out of the config and off the user's choice? registry: does a walk reach everybody once, is once once, is nobody cut off? | two sounds, two stacks of one item, two quests, four stimuli from outside; two cvars, four values of which one is refused, calls nested two deep; two events, two ordinary owners, a once owner, a continue-after-all object, two calls deep, four Lua calls, callbacks that raise errors |
| `sound_finished` | the same when handlers play tracked sounds: **violated** | as above, `HandlersPlay = TRUE` |
| `spell_packets` | do the swing timers track the server's, across pauses and the wrap; do resurrections follow the casts? | a player and a healer, one spell of each kind, with one and with three weapons, four packets |
| `ui_build` | does `Load` tell the truth, do names fire their own events, are the payloads right, do filters behave as 5.4.8's nodes, do registry, loads and masks survive UI builds? | hook lists that install, repeat a target or fail; tables with room and without; two frames, two events; two add-ons and the library, one with its variables first, two edits of the disk, two updates of the library; three regions, one image that loads and one that does not, three calls |
| `glue_functions` | are the functions there on every login screen? **violated** | as above, no add-on calls |
| `torn_mask` | is no mask file released twice? **violated** | the masks of `ui_build`, a fault in a load |
| `queries` | do answers agree with the engine and each other, do events tell what happened, do moves do what was asked, do encodings come back? | per part: the smallest tables that hold each case (three factions, three auras of which one is inline, two quests, a friend list of two, ...); values and texts in `MCQueries.tla` |

Why the bounds suffice. The properties about requests, timers and cvars are per item,
per timer and per cvar; two of each give every interleaving of one with another and
one loading screen or reload gives every point it can come at. Two nested calls give
re-entrancy; three would repeat it with another name. In `spell_packets` four packets
hold a complete paused cast with a swing before and after it, or a cast that begins in view,
ends out of view and is replaced by another one. `EventRegistry`'s `MaxCalls` bounds Lua calls
rather than time: calls of the engine's own events are free. In `ui_build` the process may be
restarted at any step, so each bound on calls, edits and updates is met from
every state that the disk allows. `queries` takes the boundaries themselves into its instances: a tick
counter that wraps within the modelled time, arrays of the size at which the code changes its way
(`InlineSize`, `GREETING_QUESTS_MAX`, `RecentSlots`, `Ceiling`, `kMaxDepth`), leap days and ends of months,
slots one past the end of each range.

The bounded counters (`MaxTransfers`, `MaxReloads`, `MaxTimers`, `MaxClock`, `MaxSounds`,
`MaxStimuli`, `MaxRebuilds`, `MaxSetting`, `MaxTriggers`, `MaxCount`, `MaxTime`, `MaxPackets`,
`MaxEdits`, `MaxUpdates`, `MaxOpens`, `MaxShifts`, `MaxStanding`, `MaxNotices`, `MaxUnderWay`, `MaxNames`,
`MaxLines`) are guards, each named in its
module's constants. Deadlock is checked except where a behaviour of the model may run
out of its bounds: in `services`, `spell_packets` and `queries`, where Lua, the server or the
carrier of a text stops when calls, time, packets or lines are spent.

### The assumptions behind a passing run

Some constants keep a case out that the code does not handle, and say so by name.
Each was set the other way to see what it hides; the hazards list the lines.

| Constant | Off | What happens when it is on |
|---|---|---|
| `HandlersPlay` (SoundPlay) | handlers of SOUNDKIT_FINISHED play no tracked sound | `NoSoundForgotten` fails (a finding) |
| `Coincidences` (CVarTemp) | nobody sets the very value a session entry put there | `SavesTheUsersChoice` fails |
| `Reentrant` (CVarTemp) | a change callback does not come back to its own cvar | `NoTempLeaks` fails |
| `MaxRebuilds > 1` (`MaxDepth` of QuestRemoved) | QUEST_REMOVED handlers do not rebuild the log | `ToldOfEachRemoval` fails |
| `HandlesTwice` (EventRegistry) | nobody unregisters twice | `ListenersHear` fails: the count is per call, not per owner |
| `ActsWhilePaused` (Swing) | no parry or attack start during a cast that pauses the timers | `TracksServer` fails |
| `StartsInCast` (SpellPacket) | no on-next-swing spell is queued during a cast | `TracksServer` fails: `g_cast` is replaced |
| `BackWithinAFrame` (IncomingResurrection) | no caster leaves view and is back with no frame between | `ShowsTheCasts` fails |
| `CorpsesMove` (IncomingResurrection) | no corpse comes or goes during a cast at it | `ToldOfEachChange` fails |
| `EngineAsks` (DBCache), on in `item_events`, off in `item_answers` | the engine asks for records on its own | `EveryRequestCompletes` would fail as in `item_reload`: a request attaches to the entry of an engine's query that a loading screen swallowed, and nobody asks again |

The merged properties of `services` and `queries` are conjunctions of the names used here and in
the modules (`ChangesAreTold` holds `ToldOfEachRemoval`, `KeepsTheChoice` holds `SavesTheUsersChoice`, ...).

Also kept out: in `Swing`, timers never used on a machine up for more than half of
`GetTickCount`'s range (`MaxTime < Ticks \div 2`, and an initial state whose timers have
just run out), changes of equipment, and attack starts out of range; in `Timer`'s run, what a
wrap does to timers started before it (`MaxClock` stays below `Wrap`): it delays them (`FiresOnTimeOverWraps` says that it makes none early).

What the models of `ui_build` and `queries`, and of the violated runs on the same instances, take for granted of the world:

* `ui_build`: other libraries register the same names at each UI build of a process (`foreign`); the login
  screen's event table is shorter than any slot given out in game; nobody edits a TOC between the engine's scan and
  the rescan that follows it, or removes a saved-variables file in the middle of a load; masked textures meet the end of a UI only at
  a reload; behaviours about add-ons' calls start with an installation by LichCore that succeeds.
* `queries`, clock: `time/Server.h` promises a time "accurate within a few hundred ms" after the first minute that was seen to
  turn. The code anchors a minute at the call that first finds it, so the answer may be behind by as long as nobody asked, nearly a minute
  (`AccurateFromRollover` states the promise and does not hold). `ClockRight` asks for what remains true: the right minute, never ahead, never backwards, and exact through a minute
  whose first second was asked for. A call on a date before 1970, or that leads
  to one, returns nothing, as the code has it; shifts whose seconds an `int` does not hold (24 856 days) and the C library's own end
  of time, the year 3000, are left out.
* bags: what the server does with a request is external; a stack's count is read when the call is made. `Swap.h` and `docs/API.md` say
  that `MoveCount` moves all or nothing and is refused onto a different item; a count of the whole stack is sent as a swap
  instead, which exchanges it with a different item (`Exchanged`) and, onto a like stack with room for less, moves a part
  (`Filled`; `NeverInPart` states the docs' promise and does not hold). `MovesAreTrue` allows these two for a whole stack, and for a part of a stack all or nothing only.
* units: a change of group and of the map it is on is one step. gossip: an NPC's older greeting may be
  shown while one of its quest panels is open.
* item info: client and server agree on records the client ships; an item's name that begins with a number
  is taken for an ID (`CachedNamesResolve` exempts such names, `Arg.h:41` does not).
  `GetItemLink(location)` drops the instance's suffix, and a proficiency mask of 0 counts as met,
  before the server's packet too; both are modelled as they are.
* codecs: zlib, tinycbor and picojson are not in the repository and stand for the
  trees and bytes they document (a negative CBOR integer from its absolute value as -abs); two distinct table keys with equal
  content have no canonical order; bytes behind a CBOR value are accepted. The room that
  `Inflate` gives grows by scaled steps up to `Ceiling`.
* TOC files: out of memory, an unterminated `[`, and the blank before a stripped condition are left out.

### Fairness

`ItemData`: the main loop comes round to the network, the idle pump and a frame
however often Lua runs in between (strong fairness on `TickStarts`, `Pump` and each
`Deliver`, which need the idle main thread; weak on the rest of a tick once begun and
on the handler's return - a handler that never returns hangs the client); the server answers
(weak, on `Network`); a loading screen ends (strong, on `World` while out of it). No
fairness is put on Lua, on reloads or on beginning a loading screen. `Timer`: time
passes, frames are drawn, callbacks return. The other specifications have no
fairness and no liveness property.

### What the violated runs show

* `item_reload` - **a bug.** After a loading screen has swallowed a query, a reload clears `g_requests` and
  with it the mark that the query was sent; the cache's entry is still pending, so the new UI's
  request only attaches to it and nobody asks the server again.
* `sound_finished` - **a bug.** Handlers run inside the range-for over `g_tracked`; a tracked sound
  played there is cut off by the `resize(keep)` behind the loop.
* `glue_functions` - **a bug.** The chain that registers functions with the login screen's Lua state runs once per
  process. After a logout the login screen has a new state, without `Mixin`, `C_CVar` and `C_ColorUtil`.
* `torn_mask` - **a bug.** `MaskHandle` releases a mask's old handle before it loads the new file. A fault in that load, which the
  SEH latch survives, leaves the released handle in `g_maskLoads`; the region's destructor or the next reload releases it again.
* `timer_next_frame` - `docs/API.md` says a timer of 0 seconds runs in the next frame. Started
  by an event or `OnUpdate` handler, it runs in the same one.

The details, with the lines, are under `findings`.

Four more statements of the docs are defined in the modules, do not hold, and have no run of their own. The first three fail
when added to the cfg of the passing run on their instance, the last one with `Coincidences = TRUE`:

* `TickersRunOn` (`Timer`, run `timers`) - `docs/API.md:2922-2924` and a comment in the code say a ticker without a limit runs until it is
  cancelled. One of 0 seconds is taken for a one-shot and given up after its first run. `IterationsKept` exempts it by name.
* `AccurateFromRollover` (`Queries`, run `queries`) - `Server.h` and `Server.cpp` say that after the first minute seen to turn the clock is
  accurate. It is set by the call that finds a new minute, however late in it: an answer and those after it are behind until that minute ends.
* `NeverInPart` (`Queries`, run `queries`) - `docs/API.md` and `Swap.h` say that nothing partial happens. A count of the whole stack goes as
  a swap, and of two pieces of cloth onto one, of at most two, one moves.
* `SavesTheUsersChoice` (`CVarTemp`, run `services`) - `docs/API.md:723-724` says a plain `SetCVar` replaces the session value and is saved.
  When both values are equal it is not noticed.

## 4. The proofs

**`ItemData_proofs`**, for every set of items, of carried items and of known records, and any number of loading screens
and reloads, from `CacheAssumption` and `ItemAssumption`:

* `TypeCorrect`: `Spec => []TypeOK`.
* `SentRequestsCanComplete`: `Spec => []SentCanComplete`. Not inductive by itself: a response
  settles a request only if one is owed (hence `SentAreOwed`), a `failing` entry must be of a record the
  server does not have (`FailingAreUnknown`), or deleting it would strand a request, and
  `SendWaiting` must meet owed items only (`BacklogIsOwed`): `g_requests[itemID]` would make a request
  nobody made. `IInv` is the conjunction.
* `KeepsPromise`: `Spec => PromiseKept`, the refinement of `LoadPromise` with
  `known <- {i \in Items : Loaded(i)}`: initial states map to initial states, and every step to a step
  of `LoadPromise` or a stutter (`PromiseStep`), using `IInv` and that loaded entries stay loaded.
* `NoneWaits`: `Spec => []NoneWaitsInWorld`. `OnTick` works in the world only, where each way of asking sends at
  once, and while it stands in its walk what waits unsent is in the part of the backlog still to visit (`WaitInv`).

**`Timer_proofs`**, for any number of timers and any delays, from `TimerAssumption`:

* `TypeCorrect`, `CancelIsFinal` (`[]CancelledHoldsNoCallback`), `NoLeak`
  (`[]NoLeakedCallback`), `IterationLimit` (`[]IterationsKept`). The inductive
  invariant `IInv` adds: what is in the heap, in the registry or cancelled was started
  (`OnlyStarted`); the timer whose callback runs is out of the heap (`RunningIsPopped`), so it cannot be
  popped twice; and for each timer the sum of firings and iterations left is what was asked
  (`CountedTicker`), a one-shot in the heap has not fired (`FiredOnce`), and a refID not
  given out yet has not fired (`Unstarted`), which a reload that starts refIDs over needs; and a timer that is neither cancelled nor done keeps
  its callback and its place in the heap or is running (`GoesOn`), but for a ticker of 0 seconds that has run (`TickersRunOn` does not hold).
* `NothingFiresEarly`: `MaxClock < Wrap => (Spec => FiresOnTime)`, up to the first start-over of the tick count, as the run has it.
* `FiresOnTimeOverWraps`: for any number of start-overs, a timer that fires is due, unless the count started over within this very tick
  (`now <= NowSec`), and none fires twice in a frame. `FrameInv` compares two clocks: `due` is in uptime, `fireAt` in ticks, and `Turn`, the uptime at which
  the present count began, only grows (`TurnMoves`), so an entry that was not early when it was pushed never becomes so (`OnTime`). A wrap delays a
  timer, which is safe; that it may be by a whole turn of the count is what stays out of the liveness run.

**`ItemData_proofs`** again, for `QuestData`: `QuestRequestsCanComplete` (`QuestSpec => []SentCanComplete`) and
`QuestKeepsPromise` (`QuestSpec => QuestPromiseKept`), `NoQuestWaits` (`QuestSpec => []NoneWaitsInWorld`). The quest module calls the same cache, so the lemmas about the
cache's steps are cited, not proved again; what is new is that a quest request is sent when it is made.

**`Services`**, of the frame (`FrameSpec`), for any number of sounds, stacks, amounts, quests and calls, from `Settled`: the assumptions of
the four modules, finitely many quests, and the two cases the code does not handle kept out
(`~HandlersPlay`, `MaxRebuilds = 1`). `SoundsAreNotForgotten` (`[]NoSoundForgotten`), `ChangesAreToldOf`
(`[]ChangesAreTold`), `FrameEventsTrue` (`FrameEventsAreTrue`, four action properties).
Each step is a step of one part and a stutter of the others (`StepsOfParts`), so each part has an
invariant of its own, and `TurnsKept` is what they need of the schedule: one subscriber is at work at a
time, and the hook of a rebuild lies on top of a handler, never on top of the walk itself.
`SoundInv` says which places of `g_tracked` are owed an event in the middle of a walk (`Active`: those
kept and those to come) and that no id stands there twice; `CursorInv` ties `g_lastRaw` and `g_lastState` to the last
event; `BagInv` is that `g_pending` and an unseen update are the same thing; `QuestInv` that a quest was told of as often
as it left, but for those that the loop has still to come to (`Untold`).

**`EventRegistry`**, for any owners and events, from `Careful` (finitely many owners, nobody unregisters
twice): `CallbacksAreHeard` (`[]CallbacksHear`), `RegistryTypes`. The count of an engine event is never below the number of the
owners registered for it (`Counted`); a once callback is in the tables of one event and only before it
ran (`OnceKnown`), who waits for all events is registered for none that it has received (`AllKnown`).
`TriggersReachEach` (`ReachesEveryCallback` of walks that return normally, and `CallsOnce` of all, those that an error ends too) needs an invariant of every walk on the stack, not of the innermost
alone, because what runs on top changes the tables under the others: `WalkOK` says that what a walk owes it has seen or
will still come to, and that a walk over the closures has seen nobody it would meet again among the functions. A callback put
under a walk keeps it only because the walk then owes the owner nothing, or is spoiled, or had not seen it
(`PuttingIsSafe`).

**`Services`** as a whole: a step of the composition is a step of one part and a stutter of the others, so each
part runs by its own specification (`PartsRun`), and the theorems about the frame, about `EventRegistry` and, proved in
this module too, about `CVarTemp` carry over to the properties the run `services` checks: `SoundsAreKept`, `ChangesStayTold`, `FrameEventsStayTrue`, `SessionValuesAreKnown`,
`ChoicesAreKept`, `CallbacksStayHeard`, `TriggersStillReachOnce`.

`TypesHold` is `[]TypeOK` of the composition, from the types of the three (`FrameTypes`, `CVarTypes`, `RegistryTypes`).

Of `CVarTemp`, for any cvars, values and depth of calls, from `Orderly` (`CVarAssumption`, no value chosen by coincidence,
no call back to the same cvar, and a mark that is no value): `CVarTypes`, `TempCVarsAreKnown` (`[]NoTempLeaks`), `TempCVarsAreNotSaved`
(`KeepsTheChoice`). The invariant adds what an entry knows while its `SetTempCVar` is in the change
callback (its saved value is the user's already, its session value not yet recorded), and that otherwise an
entry that matches the live value knows the user's (`ChoiceKnown`).

**`SpellPacket`**, for any spells, cast times, weapons, casters and corpses and any start of the clock, a wrap in it included,
from `PacketAssumption` and `Handled`, which keeps the four cases of section 3's table out (a swing acted on during a paused cast, a spell queued during a
cast, a caster back within a frame, a corpse that moves under a cast): `TypesAreKept`, `TimersTrackTheServer` (`[]TracksServer`), `BarsEndWithTheTimers`
(`[]BarsAreRight`), `EntriesAreTheCasts` (`[]ShowsTheCasts`), `EachChangeIsTold` (`[]ToldOfEachChange`).

* The swing timers' invariant (`SwingInv`) relates two clocks, the server's remaining times and the client's end ticks.
  `TracksServer` alone is not inductive, since a timer that is not counting may start to: `Tracks` says of each weapon that an end tick is the tick at which the
  server's timer runs out, or, once that is over, some tick of this behaviour, so that the client cannot take it for one half a range ahead.
  It also has the last event of the type name that tick. During a pause `CastKnown` replaces it: the cast under way is the one in `g_cast`, and
  `pausedLeft` is what the server has left. `Bounded` keeps every difference below half the tick range, where the code's
  signed subtraction tells before from after. Packets' fields are read by a lemma for each shape of packet, and the arithmetic of `% Ticks` by lemmas on remainders.
* The resurrections' invariant (`ResurrectionInv`) adds to the two properties that every entry is of a caster in view or just gone from it and names
  the unit its target stands for (`EntriesKnown`), and that no cast of a caster out of view counts as seen (`UnseenOutOfView`).

**`Session_proofs`**, from `SessionAssumption`, which holds the assumptions of the parts: hook lists in which every target can be named, finitely
many add-on names (the embedded library's is not one of them), a library that is not on demand, finitely many regions, and
at most seven texture units for masks. Secure add-ons may be any set.

* `LoadIsTruthful` (`InstallSpec => []LoadTellsTheTruth`), for any hook lists and either or both threads asking. The invariant
  (in `Install`) has one installer (`OneInstaller`), which hooks are queued at each `step`, none of them twice
  (`QueuedSoFar`), and that once `g_initDone` is published the result is the truth (`ResultIsTrue`).
* `UnitEventsAreNodes` (`UnitEventSpec => KeepsNodeKinds`, the refinement of `ListenerNodes`), for any frames, events and
  units. `UnitEventInv` ties the engine's lists, the filters and the dispatch under way to the nodes (`ListsAgree`, `FiltersAgree`,
  `DispatchAgrees`).
* `LoadStaysTruthful` and `UnitEventsStayNodes` say the same of the session: it drives the actions of `Install` and
  `UnitEvent` in no way but theirs, and a new process starts both anew (`HooksAndUnitsStep`, `HooksAndUnitsRun`).
* `PayloadStaysRight` (`[]PayloadRight`), for any events, logins, reloads and logouts. The flag of
  `EnteringWorld.cpp` is a matter of the order of two events, so the invariant (`LifeInv`) says for each
  phase what the flags are and whether the two IDs were resolved in this life of the interface (`IdsRight`), which needs that the
  engine's names come first in its table (`EnginesFirst`, `LooksUpEngines`).
* `SlotsStayTheirOwn` (`[]FiresItsOwnEvent`), for any events reserved and engine's tables of any length. `SlotInv` says what
  is in the event table in each phase; a slot is either unset or the one of this life (`OwnSlots`), since other libraries
  register the same names at each build, so that a slot kept from the life before still names its event.
* `MasksStayTheirOwn` (`[]MaskRight`), for any regions, files and batches. `MaskInv`: no table speaks of a dead region (in `TablesTyped`); the
  references to a file that whole calls took and did not release are exactly those that the two tables stand for (`RefsCounted`, a sum of two cardinalities, hence the lemmas on what each
  call adds to and takes from `SetBy` and `LoadedBy`), and a load is torn only by the fault that turns the feature off, once in a process (`TornOnce`); of a batch, what lies behind `start` is drawn once and with the masks bound to it, but for the
  entry that faulted (`DrawnSoFar`); and the device is clean, or one entry's masks are on it and the renderer stands at that entry (`DeviceInv`).
* `RegistryStaysRight` (`[]RegistryRight`), for any add-ons, secure ones among them, and any edits. `RegistryInv` must hold in the middle of a rescan too:
  `LinksInv` says that the reverse lists are right but for pairs with an entry put back so far, whose links are missing on both sides until
  `FixupReverseLoadWith`, each once; `RunInv` that what the rescan has dealt with is as `asOf` had it, and that folders have only gone since. At its
  end the registry is that of a login scan only if what was not reparsed was as parsed (`AsParsed`), or as just scanned when nothing has
  been parsed yet (`AsScanned`); which of them holds is a matter of the phase (`RegistryLife` in `Session`).
* `AddonsStayAsTheyShould` (`[]AddonRight`) and `DataStaysKept` (the action property `DataKept`), for any add-ons, any nesting of loads and
  any order in the registry. `AddonInv`: only the innermost add-on is outside its files and none loads twice on the stack (`StackInv`); the value of each
  saved variable at each stage of its add-on's load (`ValuesAt`), before and after it (`RestInv`); and which copy of the library was
  served (`LibraryInv`).
* `ClientIsTyped` (`[]TypeOK`): the session's own variables (`ClientTypes`), and those of the parts from the invariants above.

`PayloadStaysRight` and `SlotsStayTheirOwn` are from `EventsApart`: the engine's names are distinct, the modules reserve others, the login screen has no more
names than the game, and `Reserved` is a sequence of declared names. The last is a fact of the fold that defines
`Reserved`, and would take an induction over it.

**`Queries` and `Answers`**, from `QueriesAssumption`, the conjunction of its parts' assumptions, each a fact of the code's tables: ranges of the player's array lie apart
and behind the bags' own slots, a minute has seconds, is shorter than the tick counter and than the modelled time, dates have whole numbers for fields, shifts have seconds that an `int`
holds, an interface line of a TOC has a number, swings are numbered 0 to 2, a faction's base is a
number, a cached name that begins with a number begins with one of the IDs in play, an item's class and faction are ones a character has a
proficiency and a standing for, the bag's own slot is one the player has. A step is a step of the part that the behaviour is about, and the others stand still (`RunOfAPart`).
`Answers` has the pure lemmas and, for half of the parts, the part's instance and what its steps keep; `Queries` the same for the others, then the parts side by
side: so a proof has little more in its context than the part it is about.

* `EventsAlwaysTell` (`[]EventsTell`), for any factions, packets, gear, distances, classes and slots, from `EventsInv`. `StandingsInv`: what scripts know of a
  faction is its standing, but for the one that `FireNotify_h` has changed and whose event it is about to fire; the record that event
  reads holds that faction and its standing. `RangeInv`: of each check that is on, a listener knows what `g_lastState` has,
  and between the poll of a swing and the end of the frame that is what a poll would find; `EnableRangeCheck` keeps it since it seeds the state it switches on.
  `NoticesInv`: `g_weaponDirty` is set exactly while a change is unheard, and a completion with a reward is one ahead of its event until the engine's second pass.
* `MovesAreAlwaysTrue` (`[]MovesAreTrue`), for any ranges, bags, stacks and calls and any number of requests under way. What an `Encode` returns is in the
  range that was asked for, and no two pairs of bag and slot share a place (`Placed`, `Apart`: pure lemmas about the ranges). `MovesInv` says
  when the client's copy is the server's: with no update on its way; else the last update has what the server holds. So the count of a
  request made with nothing under way was taken of the stack the server will see, as long as that request is the first in line.
  `Processed` is what the server then does, split, merge or exchange. What moved is what was asked for (`MovedAll`), or it was a whole stack,
  exchanged (`Exchanged`) or moved as far as there was room (`Filled`); the theorem does not say that the last never happens.
* `ClockIsAlwaysRight` (`[]ClockRight`), for any length of a minute and width of the counter. `ClockInv`: the ticks since the anchor are at most
  the seconds of the clock's minute, and exactly those if a call saw the minute turn, as long as the anchor belongs to this minute; no
  earlier answer exceeds the minute and those ticks. The arithmetic of `\div` and `%` is in lemmas (`Products`, `Unique`, `Between`, `NextTick`), since
  a solver does not find products of two variables. The theorem says nothing of how far behind an answer is in a minute whose first second nobody asked for (`AccurateFromRollover`). The ghost `before` is the last answer of any earlier second (`Latest`), so
  `before <= answer` says that `GetServerTime` never runs backwards on a realm once a minute has turned, not only within one second.
* `AnswersAlwaysAgree` (`[]AnswersAgree`), for any data of the client, any rosters, friends, auras, menus, items and sounds, from `AnswersInv`, the invariants of eight parts:
  - *A list in ascending order* is, here and in the modules, the function from a place to the member with that many below it. `EachHasItsPlace` and `EachInOrder` say that it
    exists, hits each member once and grows; the sorted answers of `Auras`, `Gossip`, `SoundFiles` and `Reputation` rest on them.
  - `FactionsAreOne` (`QueriesAgree`): the list shown has no faction twice, so an index and an ID name the same row; at most one faction is watched.
  - `RecentIsRight` (`RecentRight`): the ring of `RecentSlots` holds one slot per file, with the numbers of the last openings of each, and a file not in it was opened
    before all that are (`RecentInv`, with the ghost `opened`). The slot a full ring gives up is the one opened longest ago, so what `GetRecentSoundFiles` returns is the last ones, newest first.
  - `ScansMissNothing` and `AurasAreOne` (`ScanMissesNothing`, `AurasAgree`): `ScanInv` says of a scan under way that what it has collected ascends and stops short of its token, and that each slot that has
    matched throughout is collected or not behind the token; a batch that ends with a token goes on at the next match (`NextSlot`).
  - `FriendsAreOne`: no two entries of one GUID, so the searches by index, name and GUID meet the same entry. `UnitsAreOne`: a unit that a token stands for is in view,
    on a roster or in the name cache, the roster's copy is the one that `ResolveMember` reads, and a missing amount is the engine's maximum less its current.
  - `GossipIsOne`: each session's counts are its lists' lengths, and a choice by ID or by place goes to the sender of the menu that was shown with it. `GossipInv` says who sent the menu and the greeting that are kept;
    an older greeting cannot answer for a menu, nor the other way round.
  - `FormsAreOne`, `StrongerUses` (`FormsAgree`, `CachedNamesResolve`, `UsableGrows`): the forms of an argument for one item get one answer, and who has more of everything can use no less.
  - `LocationsAreOne` (`LocationsAgree`): a GUID's place is the place it is read at, since no two places hold one item (`OneEach`), on the client, the server and every update between; a split
    makes a new ID, which no place and no update under way has.
* `QueriesAreTyped` (`[]TypeOK`), from the invariants above, `TypesInv` and those of `QuestData`. A bound on a queue or a counter is the
  bound of the guard in front of it; what takes an argument is the clock, whose counter stays in its range over a wrap (`ClockTypes`), and the calendar.
* `CalendarComesBack` (`[]CalendarRight`), for any dates and shifts. `CalendarInv`: the date that the calls have led to is the one that the sum of
  their minutes leads to, at once. It needs that `gmtime` and `mkgmtime` are each other's inverse: the year that the `CHOOSE` in `gmtime` takes exists, as the
  least whose end is behind the day (`YearOfDay`, by the least-number principle, `LeastNat`), and it is the only one, since years and months follow
  one another without a gap, February's end in a leap year included.
* `EncodingsComeBack` (`[]BytesReturn`), for any strings of bytes of any length. `EncodingsInv` says of a text what the way has left of it: its first digits are the
  payload's in one of the alphabets, and padding follows (`Spells`), or a foreign character stands in it (`IsSpoilt`). What a decode makes of
  four digits is the three bytes they come of (`BytesReturned`), a cut text has a prefix (`FirstBytes`), a text of a foreign character is refused (`SpoiltRefused`).
  Of compression, that a run of bytes, however short its stream, is given the room it needs as long as twice its length is at most the ceiling (`RoomEnough`, over the rooms of the
  recursive function `Doublings`, whose existence `RoomsDouble` proves).
* `TocLinesStay` (`[](part = "toc" => Toc!LinesInPlace)`), for any lines and any number of reads: `LinesInv`, over the lemmas on one line (`LineRebuilt`, `InterfaceRewritten`) and
  on the text (`TextRebuilt`).
* `QuestsKeepTheirPromise` (`QuestPromiseKept`): the quest part runs by `QuestSpec`, and `QuestKeepsPromise` of `ItemData_proofs` says the rest.

The runs' constants satisfy each of these assumptions; the cases that `Settled`, `Orderly`, `Careful` and `Handled` keep out are those of the table
in section 3.
The invariants were checked by TLC before they were proved. Only model-checked: the
liveness properties and everything that needs ENABLED, which are outside the prover's
reach, and one invariant of `Queries`, `RoundTrips`, in part. Three of its parts are proved as above: the calendar, the encodings of bytes and the lines of a TOC. What
remains is serialization, where recursive encoders and decoders go through a tree of values, and which files of a TOC are loaded (`FilesLoad`), which
comes of folds over its lines: both are induction over data, which is out of reach, so nothing here claims them for all inputs (the recursion is in recursive functions, so that the
proofs may share the module).

## 5. Not modelled, and what is left

Left out, each with its reason under `components` in `PROJECT.json`:

* **Reads of one value**: spell, tooltip, talent, combat-log and quest-log queries, cvar queries and the bit fields of a
  cvar; in the partly modelled query components the single reads their notes name. They keep no state and combine no two pieces of it.
* **Pure Lua and C++**: colours, `TableUtil`, `MathUtil` and the rest of the add-on's functions without state.
* **Callers of what is modelled**: `TimedCallback`, `FunctionUtil`, `ItemUtil` and the other utilities over timers and item events.
* **Input and output**: exports, console commands, what a mask looks like, `TableInspector`.
* **`Pools.lua` and `FrameWatcher.lua`** keep state. A pool's create and reset functions
  are its user's; what they may do to the pool they are called from would be a small module, and is the next one to write.

Proofs worth having next: that which files load does not change when a line that loads nothing is put in a TOC, as a step towards `FilesLoad`.

------------------------------- MODULE Session -------------------------------
(***************************************************************************)
(* The life of the client around the library: the process starts and the   *)
(* hooks go in (Install), the login screen, a UI is built, torn down and   *)
(* built again.  At each UI build the module chain runs, and at each end   *)
(* of a Lua state the cleanups (src/src/Game.cpp, Bootstrap.cpp); the      *)
(* event table gets its reserved names (event/Custom.cpp); the add-ons     *)
(* load; PLAYER_ENTERING_WORLD gets its payload (event/EnteringWorld.cpp). *)
(* Unit events, masks, the add-on registry and the add-ons' loads are      *)
(* driven by these steps, as in the code by its chains and hooks.          *)
(*                                                                         *)
(* The process may die at any step; the disk is what remains of it.        *)
(***************************************************************************)
EXTENDS Integers, Sequences, FiniteSets, SequencesExt

CONSTANTS
    FeatureLists,
    Declared,       \* the AutoReserves in the order they run
    MaxReserved,    \* 32 in the code
    MaxTable,       \* 1024 in the code
    EngineEvents,   \* the engine's in-game events
    GlueEvents,     \* and those of the login screen
    Foreign,        \* how many names other libraries add before the module chain
    Pairs, Units,
    Names, Library, Secure, MaxEdits,
    First, OnDemand, Shares, MaxUpdates,
    Regions, Files, Loadable, Usable, MaxCalls,
    Interests       \* what the add-ons of a behaviour call

VARIABLES
    phase,          \* where the client is
    interest,       \* what this behaviour varies: the start, or the calls on one part
    features, thread, installer, initDone, initResult, mhInitialized, queued, enabled, step,
    done,           \* RunGlueModuleRegistrations' latch
    glueFunctions,  \* the login screen's Lua state has the library's functions
    foreign,        \* names other libraries add in this process
    table,          \* the engine's event table
    slots,          \* g_reserved: each name's slot
    ids,            \* g_loginID and g_enteringWorldID
    loginFired,     \* g_loginFired
    reloading,      \* the engine's m_currentlyReloadingUI
    chain,          \* RunModuleRegistrations: the functions still to run
    via, payload,   \* ghost: what led to the last PLAYER_ENTERING_WORLD, what it said
    listeners, unregisters, registers, filters, dispatch, ran,
    disk, index, order, with, rev, display, metaHash, victims, refreshed, evicted, rescanning,
    edits, asOf,
    queue, loading, started, value, file, pendingSuppress, allowFlag, namespaces,
    loadingEmbedded, copy, source, updates, served, vanished, wrote, loads,
    alive, texture, masksEnabled, pathMasks, baseMasks, maskLoads, draw, device, held, torn, calls

Hooks    == INSTANCE Install
UnitEv   == INSTANCE UnitEvent
Registry == INSTANCE AddonRegistry
Loads    == INSTANCE AddonLoad WITH AddOns <- Names \cup {Library}
Masks    == INSTANCE Mask WITH enabled <- masksEnabled

ASSUME SessionAssumption ==
    /\ Hooks!InstallAssumption /\ MaxReserved \in Nat /\ MaxTable \in Nat
    /\ {"PLAYER_LOGIN", "PLAYER_ENTERING_WORLD"} \subseteq Range(EngineEvents)
    /\ Foreign \subseteq Nat
    /\ Interests \subseteq {"start", "unit events", "registry", "loads", "library", "masks"}
    /\ Registry!RegistryAssumption /\ Loads!LoadAssumption /\ Masks!MaskAssumption
    /\ UnitEv!UnitEventAssumption

hookVars     == <<features, thread, installer, initDone, initResult, mhInitialized, queued,
                  enabled, step>>
glueVars     == <<done, glueFunctions>>
eventVars    == <<table, slots>>
enteringVars == <<ids, loginFired, via, payload>>
unitVars     == <<listeners, unregisters, registers, filters, dispatch, ran>>
regVars      == <<disk, index, order, with, rev, display, metaHash, victims, refreshed, evicted,
                  rescanning, edits, asOf>>
loadVars     == <<queue, loading, started, value, file, pendingSuppress, allowFlag, namespaces,
                  loadingEmbedded, wrote, loads>>
addonVars    == <<loadVars, copy, source, updates, served, vanished>>
maskVars     == <<alive, texture, masksEnabled, pathMasks, baseMasks, maskLoads, draw, device,
                  held, torn, calls>>
partVars     == <<unitVars, regVars, addonVars, maskVars>>
lifeVars     == <<glueVars, foreign, eventVars, enteringVars, reloading, chain>>
vars         == <<phase, interest, hookVars, lifeVars, partVars>>

Chain == {"RegisterReservedEvents", "ResolveEventIDs", "Rescan"}
Phases == {"boot", "glue", "build", "load", "entering", "world", "loading screen", "left"}

-----------------------------------------------------------------------------
(* event/Custom.cpp.                                                       *)

\* AutoReserve: a name once, and as many as there is room for.
Reserved ==
    FoldLeft(LAMBDA names, n : IF Len(names) >= MaxReserved \/ Contains(names, n) THEN names
                               ELSE Append(names, n), <<>>, Declared)

\* Mutant: the slots are counted from the place before.
SlotsBefore == [i \in DOMAIN Reserved |-> Len(table) + i - 1]

SlotsAfter == [i \in DOMAIN Reserved |-> Len(table) + i]

\* The whole table goes back through FillEvents with the reserved names behind it.
RegisterReservedEvents ==
    IF table = <<>> \/ Len(table) + Len(Reserved) > MaxTable
      THEN UNCHANGED eventVars
      ELSE /\ table' = table \o Reserved
           /\ slots' = SlotsAfter

\* -1, unless the name is reserved or in the table.
Lookup(name) ==
    LET at(names) == {i \in DOMAIN names : names[i] = name}
    IN  IF at(Reserved) # {} THEN slots[CHOOSE i \in at(Reserved) : TRUE]
        ELSE IF at(table) # {} THEN CHOOSE i \in at(table) : \A j \in at(table) : i <= j
        ELSE -1

\* Fire: what the engine signals, which checks that the event is in its table.
Fire(id) == IF id \in DOMAIN table THEN table[id] ELSE "nothing"

-----------------------------------------------------------------------------
(* event/EnteringWorld.cpp.                                                *)

ResolveEventIDs ==
    ids' = [login |-> Lookup("PLAYER_LOGIN"), enteringWorld |-> Lookup("PLAYER_ENTERING_WORLD")]

\* Mutant: the login is remembered for good.
KeepsLogin == loginFired

\* g_loginFired after PLAYER_ENTERING_WORLD.
LoginForgotten == FALSE

EnginesIdOf(name) == CHOOSE i \in DOMAIN EngineEvents : EngineEvents[i] = name

\* SignalEvent_h.
SignalEvent(id) ==
    IF id = ids.login
      THEN loginFired' = TRUE /\ UNCHANGED payload
      ELSE IF id = ids.enteringWorld
        THEN /\ loginFired' = LoginForgotten
             /\ payload' = [isInitialLogin |-> loginFired /\ ~reloading, isReloadingUi |-> reloading]
        ELSE UNCHANGED <<loginFired, payload>>

-----------------------------------------------------------------------------
(* The process starts, and the login screen.                               *)

NoPayload == [isInitialLogin |-> FALSE, isReloadingUi |-> FALSE]

\* LichCore is there from the start.
OnlyLoad == thread["worker"] = "absent"

Init ==
    /\ phase = "boot"
    /\ interest \in Interests
    /\ Hooks!InstallInit
    /\ done = FALSE /\ glueFunctions = FALSE
    /\ foreign \in Foreign
    /\ table = <<>> /\ slots = [i \in DOMAIN Reserved |-> -1]
    /\ ids = [login |-> -1, enteringWorld |-> -1]
    /\ loginFired = FALSE /\ reloading = FALSE
    /\ chain = {}
    /\ via = "nothing" /\ payload = NoPayload
    /\ UnitEv!UnitEventInit /\ Registry!RegistryInit /\ Loads!AddonInit /\ Masks!MaskInit
    /\ interest # "start" => IsInjective(Hooks!Targets) /\ foreign = 0 /\ OnlyLoad
    /\ interest # "registry" => disk = [n \in Names |-> Registry!Toc({})]
    /\ interest # "loads" => file = {}
    /\ interest # "library" => copy = "newer"

\* RunGlueModuleRegistrations.
RunGlue(functions) ==
    /\ done' = TRUE
    /\ glueFunctions' = IF done THEN functions ELSE TRUE

\* GlueMgrInit_h: a new Lua state for the login screen, and the chain if we are hooked.
GlueInit ==
    /\ phase \in {"boot", "left"}
    /\ Hooks!MainFree
    /\ phase' = "glue"
    /\ table' = GlueEvents
    /\ IF "CGLUEMGR_INITIALIZE" \in enabled
         THEN RunGlue(FALSE) ELSE glueFunctions' = FALSE /\ UNCHANGED done
    /\ UNCHANGED <<interest, hookVars, foreign, slots, enteringVars, reloading, chain, partVars>>

\* A step of the installation; Load, which LichCore calls when the first login screen
\* is up, runs the chain itself when it has succeeded.
InstallStep(t) ==
    /\ t = "main" => phase = "glue"
    /\ Hooks!InstallStep(t)
    /\ IF t = "main" /\ thread'["main"] = "told success"
         THEN RunGlue(glueFunctions) ELSE UNCHANGED glueVars
    /\ UNCHANGED <<phase, interest, foreign, eventVars, enteringVars, reloading, chain, partVars>>

-----------------------------------------------------------------------------
(* A UI is built.                                                          *)

\* Nobody is still installing, and the hooks are in.
Installed == initDone /\ initResult = 0 /\ \A t \in Hooks!Threads :
    thread[t] \in {"absent", "told success"}

EngineFills == table' = EngineEvents \o [i \in 1..foreign |-> "foreign"]

\* RunReloadCleanups, then the engine destroys the Lua state and all that hangs on it.
FrameScriptShutdown ==
    /\ dispatch = UnitEv!Nodes!Idle
    /\ UnitEv!UnitEventShutdown /\ Masks!MaskShutdown /\ Loads!AddonShutdown

\* A character enters: the engine scans the add-ons and fills its event table.
Login ==
    /\ phase = "glue" /\ Installed
    /\ phase' = "build" /\ via' = "login"
    /\ EngineFills
    /\ chain' = Chain
    /\ Registry!LoginScan /\ Loads!ReadsLibrary
    /\ UNCHANGED <<interest, hookVars, glueVars, foreign, slots, ids, loginFired, payload,
                   reloading, unitVars, loadVars, maskVars>>

ReloadUI ==
    /\ phase = "world"
    /\ phase' = "build" /\ via' = "reload"
    /\ FrameScriptShutdown
    /\ reloading' = TRUE
    /\ EngineFills
    /\ chain' = Chain
    /\ UNCHANGED <<interest, hookVars, glueVars, foreign, slots, ids, loginFired, payload, regVars>>

\* UIBindingsInit_h: the module chain, in whatever order the modules were linked.
RunsModule(f) ==
    /\ phase = "build" /\ f \in chain /\ ~rescanning
    /\ chain' = chain \ {f}
    /\ \/ f = "RegisterReservedEvents" /\ RegisterReservedEvents /\ UNCHANGED <<ids, regVars>>
       \/ f = "ResolveEventIDs" /\ ResolveEventIDs /\ UNCHANGED <<eventVars, regVars>>
       \/ f = "Rescan" /\ Registry!RunBegins /\ UNCHANGED <<eventVars, ids>>
    /\ UNCHANGED <<phase, interest, hookVars, glueVars, foreign, loginFired, via, payload,
                   reloading, unitVars, addonVars, maskVars>>

\* The rescan, entry by entry.
RescanRuns ==
    /\ (\E n \in DOMAIN victims : Registry!Evict(n)) \/ Registry!RunEnds
    /\ UNCHANGED <<phase, interest, hookVars, lifeVars, unitVars, addonVars, maskVars>>

\* FrameXML and the add-ons load, in the registry's order.
LoadBegins ==
    /\ phase = "build" /\ chain = {} /\ ~rescanning
    /\ phase' = "load"
    /\ Loads!LoadPass(order)
    /\ UNCHANGED <<interest, hookVars, lifeVars, unitVars, regVars, maskVars>>

\* EnterWorld: PLAYER_LOGIN for a UI that was built, then PLAYER_ENTERING_WORLD.
PlayerLogin ==
    /\ phase = "load" /\ queue = <<>> /\ Loads!Idle
    /\ phase' = "entering"
    /\ SignalEvent(EnginesIdOf("PLAYER_LOGIN"))
    /\ UNCHANGED <<interest, hookVars, glueVars, foreign, eventVars, ids, via, reloading, chain,
                   partVars>>

EnteringWorld ==
    /\ phase \in {"entering", "loading screen"}
    /\ phase' = "world"
    /\ SignalEvent(EnginesIdOf("PLAYER_ENTERING_WORLD"))
    /\ reloading' = FALSE
    /\ UNCHANGED <<interest, hookVars, glueVars, foreign, eventVars, ids, via, chain, partVars>>

-----------------------------------------------------------------------------
(* In the world, and out of it.                                            *)

LoadingScreen ==
    /\ phase = "world" /\ interest = "start"
    /\ phase' = "loading screen" /\ via' = "loading screen"
    /\ UNCHANGED <<interest, hookVars, glueVars, foreign, eventVars, ids, loginFired, payload,
                   reloading, chain, partVars>>

\* Logout, or a connection that is lost, behind a loading screen too.  (Masks meet the
\* end of a UI at a reload, which is the same to them.)
Logout ==
    /\ interest # "masks"
    /\ phase \in {"world", "loading screen"}
    /\ phase' = "left"
    /\ FrameScriptShutdown
    /\ UNCHANGED <<interest, hookVars, lifeVars, regVars>>

\* The process ends, by a crash or otherwise, and a new one starts.
Restart ==
    /\ phase' = "boot"
    /\ Hooks!Attach
    /\ interest # "start" => OnlyLoad'
    /\ done' = FALSE /\ glueFunctions' = FALSE
    /\ table' = <<>> /\ slots' = [i \in DOMAIN Reserved |-> -1]
    /\ ids' = [login |-> -1, enteringWorld |-> -1]
    /\ loginFired' = FALSE /\ reloading' = FALSE
    /\ chain' = {}
    /\ via' = "nothing" /\ payload' = NoPayload
    /\ UnitEv!UnitEventShutdown
    /\ Registry!RegistryRestart /\ Loads!AddonRestart /\ Masks!MaskRestart
    /\ UNCHANGED <<interest, features, foreign>>

\* What the add-ons call and the engine does with it, for the part of interest.
LuaRuns == phase \in {"load", "entering", "world", "loading screen"}

UnitEvents ==
    /\ interest = "unit events" /\ phase = "world"
    /\ UnitEv!UnitEventCall \/ UnitEv!UnitEventFires \/ UnitEv!UnitEventRuns
    /\ UNCHANGED <<phase, interest, hookVars, lifeVars, regVars, addonVars, maskVars>>

\* Files are changed beside the client, but not between its own scan of them and ours.
Edits ==
    /\ interest = "registry"
    /\ phase \in {"glue", "world"} \/ rescanning
    /\ Registry!RegistryCall
    /\ UNCHANGED <<phase, interest, hookVars, lifeVars, unitVars, addonVars, maskVars>>

AddonsLoad ==
    /\ phase \in {"load", "world"}
    /\ Loads!AddonRuns \/ (interest = "loads" /\ Loads!AddonCall)
    /\ UNCHANGED <<phase, interest, hookVars, lifeVars, unitVars, regVars, maskVars>>

LibraryReplaced ==
    /\ interest = "library" /\ phase \in {"glue", "build", "load", "world"}
    /\ Loads!CopyCall
    /\ UNCHANGED <<phase, interest, hookVars, lifeVars, unitVars, regVars, maskVars>>

MasksUsed ==
    /\ interest = "masks" /\ phase = "world"
    /\ Masks!MaskCall \/ Masks!MaskDraws \/ Masks!MaskRuns
    /\ UNCHANGED <<phase, interest, hookVars, lifeVars, unitVars, regVars, addonVars>>

Next ==
    \/ GlueInit
    \/ \E t \in Hooks!Threads : InstallStep(t)
    \/ Login \/ ReloadUI \/ \E f \in Chain : RunsModule(f)
    \/ RescanRuns \/ LoadBegins \/ PlayerLogin \/ EnteringWorld
    \/ LoadingScreen \/ Logout \/ Restart
    \/ UnitEvents \/ Edits \/ AddonsLoad \/ LibraryReplaced \/ MasksUsed

Spec == Init /\ [][Next]_vars

-----------------------------------------------------------------------------
(* Properties.                                                             *)

TypeOK ==
    /\ phase \in Phases /\ interest \in Interests
    /\ Hooks!InstallTypeOK
    /\ done \in BOOLEAN /\ glueFunctions \in BOOLEAN
    /\ loginFired \in BOOLEAN /\ reloading \in BOOLEAN
    /\ chain \subseteq Chain
    /\ DOMAIN slots = DOMAIN Reserved
    /\ UnitEv!UnitEventTypeOK /\ Registry!RegistryTypeOK
    /\ Loads!AddonTypeOK /\ Masks!MaskTypeOK

\* PLAYER_ENTERING_WORLD says what led to it, as in retail: the first one of a
\* character's login, the one of a /reload, or neither behind a loading screen, in any
\* sequence of them, connections lost behind a loading screen included.
PayloadRight == phase = "world" =>
    payload = [isInitialLogin |-> via = "login", isReloadingUi |-> via = "reload"]

\* Whenever a module may fire an event of its own, the engine signals that event and no
\* other: slots of an earlier UI never name somebody else's event, at the login screen
\* neither; in game each name that was reserved is signalled, if the table had room.
FiresItsOwnEvent ==
    phase # "build" => \A n \in Range(Declared) :
        LET fired == Fire(Lookup(n)) IN
        /\ fired \in {n, "nothing"}
        /\ LuaRuns /\ Contains(Reserved, n)
              /\ Len(EngineEvents) + foreign + Len(Reserved) <= MaxTable => fired = n

\* Once Load has succeeded, the library's functions are there on each login screen, the
\* one after a logout too: baselib/Mixin.cpp, color/Util.cpp and the cvar modules
\* register theirs with both chains "so they're always present".
GlueFunctionsThere == phase = "glue" /\ thread["main"] = "told success" => glueFunctions

LoadTellsTheTruth == Hooks!LoadTellsTheTruth
KeepsNodeKinds == UnitEv!KeepsNodeKinds

\* The add-ons that load, and all there is to see of them, are those on disk: from the
\* load on for what the last rescan saw, and at every step without a loose pointer.
RegistryRight ==
    /\ Registry!NothingDangles /\ Registry!LibraryFirst
    /\ LuaRuns => Registry!MatchesDisk

AddonRight == Loads!AddonRight
DataKept == Loads!DataKept
MaskRight == Masks!MaskRight

\* A handle that was released is not released again: what the comments of Mask.cpp say of the
\* handles in its tables.  A fault in the middle of a load breaks it (Mask).
NothingReleasedTwice == Masks!NothingReleasedTwice
=============================================================================

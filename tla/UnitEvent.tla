------------------------------ MODULE UnitEvent ------------------------------
(***************************************************************************)
(* src/src/frame/UnitEvent.cpp: frame:RegisterUnitEvent.  The engine keeps *)
(* who listens; the library keeps the filters beside it and drops a        *)
(* handler's run that a filter rejects.  The lists of an event object and  *)
(* what the engine does with them while the event is being dispatched are  *)
(* external (src/src/Offsets.h:1822-1850).                                 *)
(***************************************************************************)
EXTENDS FiniteSets, Functions

CONSTANTS
    Pairs,          \* <<frame, event>>: what may be registered for what
    Units           \* unit tokens

VARIABLES
    listeners,      \* pairs in their event's listener list
    unregisters,    \* pairs in the list of removals queued in mid-dispatch
    registers,      \* pairs in the list of additions queued in mid-dispatch
    filters,        \* g_filters: the units of each pair that has a filter
    dispatch,       \* the event on its way through its listeners
    ran             \* a handler of this dispatch is running

engineLists == <<listeners, unregisters, registers>>
unitEventVars == <<engineLists, filters, dispatch, ran>>

\* What the engine does as a whole promises; nodes are read off both tables.
IsRegistered(p) == (p \in listeners /\ p \notin unregisters) \/ p \in registers

\* Script_IsEventRegistered: whether, and the units.
NodeOf(p) == [on |-> IsRegistered(p),
              units |-> IF IsRegistered(p) /\ p \in DOMAIN filters THEN filters[p] ELSE {}]

Nodes == INSTANCE ListenerNodes WITH nodes <- [p \in Pairs |-> NodeOf(p)]

UnitEventTypeOK ==
    /\ listeners \subseteq Pairs
    /\ unregisters \subseteq listeners
    /\ registers \subseteq Pairs \ listeners
    /\ DOMAIN filters \subseteq Pairs
    /\ \A p \in DOMAIN filters : filters[p] \in (SUBSET Units) \ {{}}
    /\ dispatch.todo \subseteq listeners
    /\ dispatch.heard \subseteq Pairs
    /\ ran \in BOOLEAN

UnitEventInit ==
    /\ listeners = {} /\ unregisters = {} /\ registers = {}
    /\ filters = <<>>
    /\ dispatch = Nodes!Idle
    /\ ran = FALSE

-----------------------------------------------------------------------------
(* The engine's two functions.                                             *)

MidDispatch(p) == dispatch.event = p[2]

\* Lua runs between events and in the handler of one.
LuaMayCall == dispatch = Nodes!Idle \/ ran

\* RegisterScriptEvent: cancels a queued removal, and adds what is not there.
EngineRegister(p) ==
    /\ unregisters' = unregisters \ {p}
    /\ IF p \in listeners \/ p \in registers
         THEN UNCHANGED <<listeners, registers>>
         ELSE IF MidDispatch(p)
                THEN registers' = registers \cup {p} /\ UNCHANGED listeners
                ELSE listeners' = listeners \cup {p} /\ UNCHANGED registers

\* UnregisterScriptEvent, for each of the pairs.
EngineUnregister(ps) ==
    LET now == {p \in ps : ~MidDispatch(p)}
    IN  /\ registers' = registers \ ps
        /\ listeners' = listeners \ now
        /\ unregisters' = unregisters \cup ((ps \cap listeners) \ now)

-----------------------------------------------------------------------------
(* The Lua methods and the co-hook.                                        *)

FindFilter(p) == p \in DOMAIN filters

\* Mutant: a filter is put beside a registration that was plain.
SetsUnits(p, units) ==
    filters' = [q \in DOMAIN filters \cup {p} |-> IF q = p THEN units ELSE filters[q]]

\* What RegisterUnitEvent does to g_filters; wasRegistered is read before the
\* engine's call.
SetUnits(p, units) ==
    filters' = IF units # {} /\ (FindFilter(p) \/ ~IsRegistered(p))
                 THEN [q \in DOMAIN filters \cup {p} |-> IF q = p THEN units ELSE filters[q]]
                 ELSE filters

\* Script_RegisterUnitEvent; also Frame:RegisterEvent, which is the engine's alone.
RegisterUnitEvent(p, units) ==
    /\ LuaMayCall
    /\ EngineRegister(p)
    /\ SetUnits(p, units)
    /\ UNCHANGED <<dispatch, ran>>

RegisterEvent(p) ==
    /\ LuaMayCall
    /\ EngineRegister(p)
    /\ UNCHANGED <<filters, dispatch, ran>>

\* Mutant: the filter is left when a removal is only queued.
EraseApplied(ps) == filters' = Restrict(filters, DOMAIN filters \ {p \in ps : ~MidDispatch(p)})

EraseFilter(ps) == filters' = Restrict(filters, DOMAIN filters \ ps)

\* UnregisterScriptEvent_h: UnregisterEvent, or UnregisterAllEvents of a frame.
UnregisterScriptEvent(ps) ==
    /\ LuaMayCall
    /\ EraseFilter(ps)
    /\ EngineUnregister(ps)
    /\ UNCHANGED <<dispatch, ran>>

-----------------------------------------------------------------------------
(* The dispatcher and the gate.                                            *)

SignalEvent(event, arg) ==
    /\ dispatch = Nodes!Idle
    /\ dispatch' = [event |-> event, arg |-> arg, heard |-> {},
                    todo |-> {p \in listeners : p[2] = event}]
    /\ ran' = FALSE
    /\ UNCHANGED <<engineLists, filters>>

\* Mutant: a filter stops events that are not about units.
RejectsAll(p, arg) == FindFilter(p) /\ arg \notin filters[p]

Rejects(p, arg) == FindFilter(p) /\ arg # Nodes!NoUnit /\ arg \notin filters[p]

\* The dispatcher passes over a removed listener; Execute_h drops a rejected run.
Execute(p) ==
    LET heard == p \notin unregisters /\ ~Rejects(p, dispatch.arg)
    IN  /\ p \in dispatch.todo
        /\ dispatch' = [dispatch EXCEPT !.todo = @ \ {p},
                                        !.heard = IF heard THEN @ \cup {p} ELSE @]
        /\ ran' = heard
        /\ UNCHANGED <<engineLists, filters>>

\* The queued changes are applied.
DispatchEnds ==
    /\ dispatch # Nodes!Idle /\ dispatch.todo = {}
    /\ listeners' = (listeners \ unregisters) \cup registers
    /\ unregisters' = {} /\ registers' = {}
    /\ dispatch' = Nodes!Idle
    /\ ran' = FALSE
    /\ UNCHANGED filters

\* Mutant: the filters survive the frames they belong to.
KeepFilters == UNCHANGED filters

PrepareForReload == filters' = <<>>

\* The engine destroys every frame and event object after the cleanup.
UnitEventShutdown ==
    /\ PrepareForReload
    /\ listeners' = {} /\ unregisters' = {} /\ registers' = {}
    /\ dispatch' = Nodes!Idle
    /\ ran' = FALSE

-----------------------------------------------------------------------------
(* Lua of an add-on, and the world.                                        *)

UnitEventCall ==
    \/ \E p \in Pairs : RegisterEvent(p) \/ UnregisterScriptEvent({p})
    \/ \E p \in Pairs, units \in SUBSET Units : RegisterUnitEvent(p, units)
    \/ \E frame \in {p[1] : p \in Pairs} : UnregisterScriptEvent({p \in Pairs : p[1] = frame})

UnitEventFires == \E p \in Pairs, arg \in Units \cup {Nodes!NoUnit} : SignalEvent(p[2], arg)

UnitEventRuns == DispatchEnds \/ \E p \in Pairs : Execute(p)

UnitEventNext == UnitEventCall \/ UnitEventFires \/ UnitEventRuns \/ UnitEventShutdown
UnitEventSpec == UnitEventInit /\ [][UnitEventNext]_unitEventVars

\* The events a frame hears, and whether it counts as registered, are those of the
\* 5.4.8 nodes, for calls made in mid-dispatch too; and RegisterEvent is the nodes'
\* plain registration, whatever filters there were on the pair before.
KeepsNodeKinds ==
    /\ Nodes!NodesSpec
    /\ [][\A p \in Pairs : RegisterEvent(p) => Nodes!Register(p)]_unitEventVars

-----------------------------------------------------------------------------
(* KeepsNodeKinds, for every set of frames, events and units.  The tables   *)
(* are read as nodes only while they agree: a filter is on a registered     *)
(* pair, and the queued changes are of the event on its way (ListsAgree).   *)

UnitEventAssumption == (\A p \in Pairs : p[2] # "none") /\ Nodes!NoUnit \notin Units

ListsAgree ==
    /\ listeners \subseteq Pairs /\ unregisters \subseteq listeners
    /\ registers \subseteq Pairs \ listeners
    /\ \A p \in unregisters \cup registers : MidDispatch(p)

FiltersAgree ==
    /\ filters \in [DOMAIN filters -> (SUBSET Units) \ {{}}]
    /\ \A p \in DOMAIN filters : p \in Pairs /\ IsRegistered(p)

DispatchAgrees ==
    /\ dispatch \in [event : {"none"} \cup {p[2] : p \in Pairs}, arg : Units \cup {Nodes!NoUnit},
                     todo : SUBSET Pairs, heard : SUBSET Pairs]
    /\ dispatch.event = "none" => dispatch = Nodes!Idle
    /\ \A p \in dispatch.todo : p \in listeners /\ MidDispatch(p)

UnitEventInv == ListsAgree /\ FiltersAgree /\ DispatchAgrees

\* The nodes as the refinement reads them off the tables.
NodesRead == [p \in Pairs |-> NodeOf(p)]
=============================================================================

------------------------------- MODULE DBCache -------------------------------
(***************************************************************************)
(* The engine's record cache (DBCache<ItemStats_C>, DBCache<QuestCache>),   *)
(* the server behind it, and the loading screens between them.  None of    *)
(* them is in the repository: they are modelled from how                   *)
(* src/src/item/Data.cpp and src/src/quest/Data.cpp use them, and from the *)
(* contract noted beside the addresses in src/src/Offsets.h (lines         *)
(* 117-131, 2171-2176).  The module has no specification of its own: the   *)
(* modules that extend it build their actions from these.                  *)
(***************************************************************************)
EXTENDS Naturals, FiniteSets

CONSTANTS
    Items,               \* record IDs a client may ask for
    Exists,              \* the ones the server has a record of
    MaxTransfers,        \* bound: loading screens in a behaviour
    EngineAsks           \* does the engine ask for records on its own?

ASSUME CacheAssumption ==
    /\ Exists \subseteq Items
    /\ MaxTransfers \in Nat
    /\ EngineAsks \in BOOLEAN

VARIABLES
    entry,      \* the cache's entry for each record
    attached,   \* records whose entry carries this module's callback
    held,       \* queries the cache throttled, waiting for the idle pump
    wire,       \* queries on their way to the server, per record
    resp,       \* answers on their way back, per record
    inWorld,    \* VAR_IN_WORLD, the client's view
    serverIn,   \* has the server put the player in the world?
    transfers   \* loading screens so far

cacheVars == <<entry, attached, held, wire, resp>>
worldVars == <<inWorld, serverIn, transfers>>

\* "failing": the "no such record" reply is running the callbacks; the entry
\* is deleted when they return.
EntryStates == {"absent", "pending", "loaded", "failing"}

CacheTypeOK ==
    /\ entry \in [Items -> EntryStates]
    /\ attached \in SUBSET Items
    /\ held \in SUBSET Items
    /\ wire \in [Items -> Nat]
    /\ resp \in [Items -> Nat]
    /\ inWorld \in BOOLEAN
    /\ serverIn \in BOOLEAN
    /\ transfers \in Nat

\* The process starts at the login screen.
CacheInit ==
    /\ entry = [i \in Items |-> "absent"]
    /\ attached = {}
    /\ held = {}
    /\ wire = [i \in Items |-> 0]
    /\ resp = [i \in Items |-> 0]
    /\ inWorld = FALSE
    /\ serverIn = FALSE
    /\ transfers = 0

-----------------------------------------------------------------------------
(* The cache, called by the client.                                        *)

\* GetRecord with no callback: a lookup.
Loaded(i) == entry[i] = "loaded"

SendQuery(i) == wire' = [wire EXCEPT ![i] = @ + 1]

\* A new entry queries the server, now or (throttled) when the pump runs.
NewEntry(i) ==
    /\ entry' = [entry EXCEPT ![i] = "pending"]
    /\ \/ SendQuery(i) /\ UNCHANGED held
       \/ held' = held \cup {i} /\ UNCHANGED wire

\* GetRecord with the callback on a record that is not loaded: `unique`
\* attaches it once, and only a new entry sends anything.
Attach(i) ==
    /\ attached' = attached \cup {i}
    /\ IF entry[i] = "absent"
         THEN NewEntry(i)
         ELSE UNCHANGED <<entry, held, wire>>
    /\ UNCHANGED resp

\* A query sent past the cache (Net::Packet::SendUint32).
BareQuery(i) ==
    /\ SendQuery(i)
    /\ UNCHANGED <<entry, attached, held, resp>>

\* The engine asks for a record itself, with a callback of its own, in the
\* world or out of it.
EngineFetches(i) ==
    /\ EngineAsks
    /\ entry[i] = "absent"
    /\ NewEntry(i)
    /\ UNCHANGED <<attached, resp>>

PumpHeld(i) ==
    /\ i \in held
    /\ held' = held \ {i}
    /\ SendQuery(i)
    /\ UNCHANGED <<entry, attached, resp>>

\* An answer reaches the client.  A record fills its entry; "no such record"
\* deletes it, once the Lua handlers its callbacks started (if they did)
\* have returned.
FillOrFail(i, handled) ==
    /\ resp[i] > 0
    /\ resp' = [resp EXCEPT ![i] = @ - 1]
    /\ entry' = [entry EXCEPT ![i] =
                   CASE @ = "pending" /\ i \in Exists -> "loaded"
                     [] @ = "pending" /\ i \notin Exists ->
                          IF handled THEN "failing" ELSE "absent"
                     [] OTHER -> @]
    /\ UNCHANGED <<held, wire>>

DeleteFailed ==
    /\ entry' = [i \in Items |->
                   IF entry[i] = "failing" THEN "absent" ELSE entry[i]]
    /\ attached' = attached \ {i \in Items : entry[i] = "failing"}
    /\ UNCHANGED <<held, wire, resp>>

-----------------------------------------------------------------------------
(* The server.                                                             *)

ServerAnswers(i) ==
    /\ serverIn
    /\ wire[i] > 0
    /\ wire' = [wire EXCEPT ![i] = @ - 1]
    /\ resp' = [resp EXCEPT ![i] = @ + 1]
    /\ UNCHANGED <<entry, attached, held>>

ServerDrops(i) ==
    /\ ~serverIn
    /\ wire[i] > 0
    /\ wire' = [wire EXCEPT ![i] = @ - 1]
    /\ UNCHANGED <<entry, attached, held, resp>>

-----------------------------------------------------------------------------
(* Loading screens.  The connection is ordered: the client has read every  *)
(* answer sent before it was told to leave, and the server has read every  *)
(* query sent before it lets the player back in.                           *)

ServerTakesOut ==
    /\ serverIn /\ inWorld
    /\ transfers < MaxTransfers
    /\ serverIn' = FALSE
    /\ transfers' = transfers + 1
    /\ UNCHANGED inWorld

ClientLeaves ==
    /\ inWorld /\ ~serverIn
    /\ \A i \in Items : resp[i] = 0
    /\ inWorld' = FALSE
    /\ UNCHANGED <<serverIn, transfers>>

ServerPutsIn ==
    /\ ~serverIn /\ ~inWorld
    /\ \A i \in Items : wire[i] = 0
    /\ serverIn' = TRUE
    /\ UNCHANGED <<inWorld, transfers>>

ClientEnters ==
    /\ serverIn /\ ~inWorld
    /\ inWorld' = TRUE
    /\ UNCHANGED <<serverIn, transfers>>
=============================================================================

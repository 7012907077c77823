------------------------------ MODULE ItemData ------------------------------
(***************************************************************************)
(* src/src/item/Data.cpp: item records are asked for asynchronously, and   *)
(* every request is owed one event, GET_ITEM_INFO_RECEIVED for an implicit *)
(* request (GetItemInfo, the prefetch of carried items) and                *)
(* ITEM_DATA_LOAD_RESULT for an explicit one (RequestLoadItemData).        *)
(*                                                                         *)
(* Everything runs on the client's main thread.  An event runs Lua         *)
(* handlers before Fire returns, and a handler may ask for items again, in *)
(* the middle of OnTick or of the cache's response handler: `handler` is   *)
(* true while one runs, `pc` says where OnTick is, `todo` is the snapshot  *)
(* (RequestIDs) it walks.                                                  *)
(***************************************************************************)
EXTENDS DBCache

CONSTANTS
    Owned,          \* items the player carries
    MaxReloads      \* bound: /reload and logout

ASSUME ItemAssumption == Owned \subseteq Items /\ MaxReloads \in Nat

VARIABLES
    owed,           \* g_requests: the kind of event owed, or "none"
    sent,           \* g_requests: the entries with `sent`
    wasInWorld,     \* g_wasInWorld
    prefetched,     \* g_ownedPrefetched
    pc, todo,       \* OnTick: the stage, the IDs it has still to visit
    entered,        \* OnTick: first frame in the world
    handler,        \* a Lua event handler is running
    fired,          \* the event fired by the last step
    reloads

reqVars  == <<owed, sent>>
tickVars == <<wasInWorld, prefetched, pc, todo, entered>>
vars == <<cacheVars, worldVars, reqVars, tickVars, handler, fired, reloads>>

Kinds == {"implicit", "explicit"}
Stages == {"idle", "resend", "prefetch", "send"}

TypeOK ==
    /\ CacheTypeOK
    /\ owed \in [Items -> Kinds \cup {"none"}]
    /\ sent \in SUBSET Items
    /\ wasInWorld \in BOOLEAN
    /\ prefetched \in BOOLEAN
    /\ pc \in Stages
    /\ todo \in SUBSET Items
    /\ entered \in BOOLEAN
    /\ handler \in BOOLEAN
    /\ fired \in SUBSET (Kinds \X Items \X BOOLEAN)
    /\ reloads \in Nat

Init ==
    /\ CacheInit
    /\ owed = [i \in Items |-> "none"]
    /\ sent = {}
    /\ wasInWorld = FALSE
    /\ prefetched = FALSE
    /\ pc = "idle"
    /\ todo = {}
    /\ entered = FALSE
    /\ handler = FALSE
    /\ fired = {}
    /\ reloads = 0

-----------------------------------------------------------------------------
(* The main thread.                                                        *)

Idle == pc = "idle" /\ ~handler

\* Lua runs between the library's steps, and inside a handler.
LuaRuns == pc = "idle" \/ handler

OwedItems == {i \in Items : owed[i] # "none"}

Silent == fired' = {} /\ UNCHANGED handler

\* Event::Custom::Fire runs every Lua handler of the event.
Fire(kind, i, success) ==
    /\ fired' = {<<kind, i, success>>}
    /\ handler' = TRUE

\* Complete: fires and forgets the request, if one is owed.
CompleteOwed(i, success) ==
    IF owed[i] = "none"
      THEN Silent /\ UNCHANGED reqVars
      ELSE /\ owed' = [owed EXCEPT ![i] = "none"]
           /\ sent' = sent \ {i}
           /\ Fire(owed[i], i, success)

\* The kind g_requests holds after try_emplace and the explicit upgrade.
Upgraded(kind, implicit) ==
    IF ~implicit THEN "explicit" ELSE IF kind = "none" THEN "implicit" ELSE kind

\* Mutant: a request made out of the world is marked sent.
RecordMarkedSent(i, implicit) ==
    /\ owed' = [owed EXCEPT ![i] = Upgraded(@, implicit)]
    /\ sent' = sent \cup {i}
    /\ IF inWorld THEN Attach(i) ELSE UNCHANGED cacheVars

\* Track, past its lookup: record the request, hand it to the cache once the
\* player is in the world.  Send's own lookup misses here, as Track's did.
Record(i, implicit) ==
    /\ owed' = [owed EXCEPT ![i] = Upgraded(@, implicit)]
    /\ IF i \notin sent /\ inWorld
         THEN sent' = sent \cup {i} /\ Attach(i)
         ELSE UNCHANGED <<sent, cacheVars>>

TrackItem(i, implicit) ==
    IF Loaded(i)
      THEN /\ IF implicit THEN Silent ELSE Fire("explicit", i, TRUE)
           /\ UNCHANGED <<reqVars, cacheVars>>
      ELSE Record(i, implicit) /\ Silent

\* Script_RequestLoadItemData(ByID), or WarmCache from GetItemInfo.
Track(i, implicit) ==
    /\ LuaRuns
    /\ TrackItem(i, implicit)
    /\ UNCHANGED <<worldVars, tickVars, reloads>>

\* The handlers return to Fire; inside a failure reply, to the cache, which
\* deletes the entry.
HandlerReturns ==
    /\ handler
    /\ handler' = FALSE
    /\ fired' = {}
    /\ DeleteFailed
    /\ UNCHANGED <<worldVars, reqVars, tickVars, reloads>>

\* Mutant: the reply's success flag is not looked at.
DeliverAlwaysSuccess(i) ==
    /\ Idle
    /\ FillOrFail(i, i \in attached /\ owed[i] # "none")
    /\ IF entry[i] = "pending" /\ i \in attached
         THEN CompleteOwed(i, TRUE)
         ELSE Silent /\ UNCHANGED reqVars
    /\ attached' = attached \ {i}
    /\ UNCHANGED <<worldVars, tickVars, reloads>>

\* The cache's response handler: fill the entry, run OnItemLoaded if it is
\* attached, drop the callbacks.
Deliver(i) ==
    /\ Idle
    /\ FillOrFail(i, i \in attached /\ owed[i] # "none")
    /\ IF entry[i] = "pending"
         THEN /\ IF i \in attached
                   THEN CompleteOwed(i, i \in Exists)
                   ELSE Silent /\ UNCHANGED reqVars
              /\ attached' = attached \ {i}
         ELSE Silent /\ UNCHANGED <<reqVars, attached>>
    /\ UNCHANGED <<worldVars, tickVars, reloads>>

-----------------------------------------------------------------------------
(* OnTick.                                                                 *)

TickStarts ==
    /\ Idle
    /\ wasInWorld' = inWorld
    /\ LET first == inWorld /\ ~wasInWorld
       IN  /\ entered' = first
           /\ todo' = IF first THEN sent ELSE {}
           /\ pc' = CASE first                             -> "resend"
                      [] inWorld /\ ~first /\ ~prefetched -> "prefetch"
                      [] OTHER                             -> "idle"
    /\ Silent
    /\ UNCHANGED <<cacheVars, worldVars, reqVars, prefetched, reloads>>

InStage(stage) == pc = stage /\ ~handler

\* Mutant: the lost query is asked for through the cache.
ResendThroughCache(i) ==
    /\ InStage("resend") /\ i \in todo
    /\ todo' = todo \ {i}
    /\ IF Loaded(i)
         THEN CompleteOwed(i, TRUE) /\ UNCHANGED cacheVars
         ELSE Attach(i) /\ Silent /\ UNCHANGED reqVars
    /\ UNCHANGED <<worldVars, wasInWorld, prefetched, pc, entered, reloads>>

\* ResendLost, one ID of its snapshot.
ResendLost(i) ==
    /\ InStage("resend") /\ i \in todo
    /\ todo' = todo \ {i}
    /\ IF Loaded(i)
         THEN CompleteOwed(i, TRUE) /\ UNCHANGED cacheVars
         ELSE BareQuery(i) /\ Silent /\ UNCHANGED reqVars
    /\ UNCHANGED <<worldVars, wasInWorld, prefetched, pc, entered, reloads>>

EnterPrefetch ==
    /\ InStage("resend") /\ todo = {}
    /\ pc' = "prefetch"
    /\ Silent
    /\ UNCHANGED <<cacheVars, worldVars, reqVars, wasInWorld, prefetched, todo,
                   entered, reloads>>

\* The walk runs once, when the inventory manager exists.
PrefetchStarts ==
    /\ InStage("prefetch") /\ todo = {}
    /\ ~prefetched
    /\ prefetched' = TRUE
    /\ todo' = Owned
    /\ Silent
    /\ UNCHANGED <<cacheVars, worldVars, reqVars, wasInWorld, pc, entered,
                   reloads>>

PrefetchOwned(i) ==
    /\ InStage("prefetch") /\ i \in todo
    /\ todo' = todo \ {i}
    /\ TrackItem(i, TRUE)
    /\ UNCHANGED <<worldVars, wasInWorld, prefetched, pc, entered, reloads>>

\* Mutant: only explicit requests are sent from the backlog.
EnterSendExplicit ==
    /\ InStage("prefetch") /\ todo = {}
    /\ pc' = IF entered THEN "send" ELSE "idle"
    /\ todo' = IF entered THEN {i \in Items \ sent : owed[i] = "explicit"} ELSE {}
    /\ Silent
    /\ UNCHANGED <<cacheVars, worldVars, reqVars, wasInWorld, prefetched,
                   entered, reloads>>

\* The requests that waited go out on the first frame in the world only.
EnterSend ==
    /\ InStage("prefetch") /\ todo = {}
    /\ pc' = IF entered THEN "send" ELSE "idle"
    /\ todo' = IF entered THEN OwedItems \ sent ELSE {}
    /\ Silent
    /\ UNCHANGED <<cacheVars, worldVars, reqVars, wasInWorld, prefetched,
                   entered, reloads>>

\* SendWaiting, one ID of its snapshot: Send.  g_requests[itemID] makes an
\* explicit entry where there is none.
SendWaiting(i) ==
    /\ InStage("send") /\ i \in todo
    /\ todo' = todo \ {i}
    /\ LET kind == Upgraded(owed[i], owed[i] = "implicit")
       IN  IF Loaded(i)
             THEN /\ owed' = [owed EXCEPT ![i] = "none"]
                  /\ sent' = sent \ {i}
                  /\ Fire(kind, i, TRUE)
                  /\ UNCHANGED cacheVars
             ELSE /\ owed' = [owed EXCEPT ![i] = kind]
                  /\ sent' = sent \cup {i}
                  /\ Attach(i)
                  /\ Silent
    /\ UNCHANGED <<worldVars, wasInWorld, prefetched, pc, entered, reloads>>

TickEnds ==
    /\ InStage("send") /\ todo = {}
    /\ pc' = "idle"
    /\ entered' = FALSE
    /\ Silent
    /\ UNCHANGED <<cacheVars, worldVars, reqVars, wasInWorld, prefetched, todo,
                   reloads>>

\* Mutant: the requests are reset to zero-filled entries, not cleared.
ReloadZeroes ==
    /\ Idle
    /\ reloads < MaxReloads
    /\ reloads' = reloads + 1
    /\ owed' = [i \in Items |-> ""]
    /\ sent' = {}
    /\ prefetched' = FALSE
    /\ Silent
    /\ UNCHANGED <<cacheVars, worldVars, wasInWorld, pc, todo, entered>>

\* PrepareForReload.  The cache, and the callbacks attached to it, stay.
PrepareForReload ==
    /\ Idle
    /\ reloads < MaxReloads
    /\ reloads' = reloads + 1
    /\ owed' = [i \in Items |-> "none"]
    /\ sent' = {}
    /\ prefetched' = FALSE
    /\ Silent
    /\ UNCHANGED <<cacheVars, worldVars, wasInWorld, pc, todo, entered>>

-----------------------------------------------------------------------------
(* Around it.                                                              *)

Network ==
    /\ \E i \in Items : ServerAnswers(i) \/ ServerDrops(i)
    /\ Silent
    /\ UNCHANGED <<worldVars, reqVars, tickVars, reloads>>

Pump ==
    /\ Idle
    /\ \E i \in Items : PumpHeld(i)
    /\ Silent
    /\ UNCHANGED <<worldVars, reqVars, tickVars, reloads>>

EngineLookup ==
    /\ Idle
    /\ \E i \in Items : EngineFetches(i)
    /\ Silent
    /\ UNCHANGED <<worldVars, reqVars, tickVars, reloads>>

\* Frames are dispatched during a loading screen, so OnTick has seen the
\* player out of the world before it sees them back.
World ==
    /\ Idle
    /\ \/ ServerTakesOut
       \/ ClientLeaves
       \/ ServerPutsIn
       \/ ClientEnters /\ ~wasInWorld
    /\ Silent
    /\ UNCHANGED <<cacheVars, reqVars, tickVars, reloads>>

OnTick ==
    \/ TickStarts
    \/ \E i \in Items : ResendLost(i) \/ PrefetchOwned(i) \/ SendWaiting(i)
    \/ EnterPrefetch \/ PrefetchStarts \/ EnterSend \/ TickEnds

Next ==
    \/ \E i \in Items, implicit \in BOOLEAN : Track(i, implicit)
    \/ HandlerReturns
    \/ \E i \in Items : Deliver(i)
    \/ OnTick
    \/ PrepareForReload
    \/ Network \/ Pump \/ EngineLookup \/ World

Spec == Init /\ [][Next]_vars

\* The main loop comes round to the network, the pump and a frame however
\* often Lua runs in between; handlers and loading screens end.
Fairness ==
    /\ WF_vars(HandlerReturns)
    /\ SF_vars(TickStarts)
    /\ WF_vars(OnTick /\ pc # "idle")
    /\ SF_vars(Pump)
    /\ WF_vars(Network)
    /\ \A i \in Items : SF_vars(Deliver(i))
    /\ SF_vars(World /\ ~serverIn)
    /\ SF_vars(World /\ ~inWorld)

FairSpec == Spec /\ Fairness

-----------------------------------------------------------------------------
(* Properties.                                                             *)

\* A sent request always has a way to complete: its cache entry is still
\* unloaded and carries OnItemLoaded.  (A record the server does not have is
\* left out: see the README on requests made inside its failure handler.)
SentCanComplete ==
    \A i \in sent \cap Exists : entry[i] = "pending" /\ i \in attached

\* Once OnTick has seen the player in the world, no request waits unsent:
\* only requests made out of the world wait, and the first frame sends them.
NoneWaitsInWorld ==
    inWorld /\ wasInWorld /\ pc = "idle" => OwedItems \subseteq sent

\* The events keep the promise: every event answers a request still owed one
\* with the kind asked for (or is an explicit hit), success is honest, no
\* request is answered twice, and no explicit request is downgraded.
Promise == INSTANCE LoadPromise
             WITH known <- {i \in Items : Loaded(i)}
PromiseKept == Promise!Spec

\* Every request is answered, through any number of loading screens that
\* swallow its query.
EveryRequestCompletes == \A i \in Items : owed[i] # "none" ~> owed[i] = "none"
=============================================================================

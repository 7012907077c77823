---------------------------- MODULE EventRegistry ----------------------------
(***************************************************************************)
(* The addon's callback registry (AddOns/!!!WrathClassicAPI/Util:          *)
(* CallbackRegistry.lua, GlobalCallbackRegistry.lua, EventUtil.lua).       *)
(* Callbacks sit in two tables, keyed by owner; TriggerEvent walks both    *)
(* with pairs and calls what it meets, and a callback may register,        *)
(* unregister and trigger again.  EventRegistry also counts who wants an   *)
(* engine event and listens to it while anybody does.                      *)
(***************************************************************************)
EXTENDS Naturals, Sequences, FiniteSets, SequencesExt, FiniteSetTheorems, SequenceTheorems,
        TLAPS

CONSTANTS
    Events,
    Plain,          \* owners of ordinary callbacks
    Once,           \* owner IDs of RegisterOnceFrameEventAndCallback
    All,            \* ContinueAfterAllEvents objects, each for all Events
    MaxDepth,       \* bound: TriggerEvent calls on the stack
    MaxCount,       \* bound: registrations counted for one event
    MaxCalls,       \* bound: Lua calls modelled
    HandlesTwice    \* callers unregister what is not registered any more

RegistryAssumption ==
    /\ Plain \cap Once = {} /\ Plain \cap All = {} /\ Once \cap All = {}
    /\ MaxDepth \in Nat /\ MaxCount \in Nat /\ MaxCalls \in Nat
    /\ HandlesTwice \in BOOLEAN

Owners == Plain \cup Once \cup All
CallbackType == {"Closure", "Function"}
Nobody == "nobody"

VARIABLES
    tables,         \* callbackTables: [type][event] -> owners with a callback
    counts,         \* eventCounts
    listening,      \* the engine events frameEventFrame is registered for
    triggers,       \* the TriggerEvent calls on the stack
    received,       \* the events each ContinueAfterAllEvents object received
    used,           \* the Once and All owners that were registered
    fired,          \* ghost: how often their callback ran
    luaCalls        \* counts up to MaxCalls

registry == <<tables, counts, listening>>
vars == <<registry, triggers, received, used, fired, luaCalls>>

\* A TriggerEvent call.  type: the table being walked; todo: the keys pairs
\* has not come to; inserted: a key was added under the walk, which leaves
\* the walk undefined; running: the owner whose callback runs.  Ghosts: seen,
\* the owners called; owed, those whose registration is older than the call;
\* spoiled: inserted, in either table.
Trigger == [event: Events, type: CallbackType, todo: SUBSET Owners,
            inserted: BOOLEAN, running: Owners \cup {Nobody},
            seen: SUBSET Owners, owed: SUBSET Owners, spoiled: BOOLEAN]

TypeOK ==
    /\ tables \in [CallbackType -> [Events -> SUBSET Owners]]
    /\ \A e \in Events : tables["Closure"][e] \cap tables["Function"][e] = {}
    /\ counts \in [Events -> Nat]
    /\ listening = {e \in Events : counts[e] > 0}
    /\ triggers \in Seq(Trigger)
    /\ received \in [All -> SUBSET Events]
    /\ used \subseteq Once \cup All
    /\ fired \in [Once \cup All -> Nat]
    /\ luaCalls \in 0..MaxCalls

Init ==
    /\ tables = [t \in CallbackType |-> [e \in Events |-> {}]]
    /\ counts = [e \in Events |-> 0]
    /\ listening = {}
    /\ triggers = <<>>
    /\ received = [a \in All |-> {}]
    /\ used = {}
    /\ fired = [o \in Once \cup All |-> 0]
    /\ luaCalls = 0

Registered(e) == tables["Closure"][e] \cup tables["Function"][e]
Top == Last(triggers)

\* Lua runs outside the registry, or in the innermost callback.
LuaRuns == IF triggers = <<>> THEN TRUE ELSE Top.running # Nobody

LuaCall == LuaRuns /\ luaCalls < MaxCalls /\ luaCalls' = luaCalls + 1

-----------------------------------------------------------------------------
(* Counting the engine events.                                             *)

RegisterFrameEvents(E) ==
    /\ \A e \in E : counts[e] < MaxCount
    /\ counts' = [e \in Events |-> IF e \in E THEN counts[e] + 1 ELSE counts[e]]
    /\ listening' = listening \cup E

\* Mutant: the event is given up on the way from two to one.
UnregistersEarly(e) ==
    /\ counts' = [counts EXCEPT ![e] = IF @ > 0 THEN @ - 1 ELSE @]
    /\ listening' = IF counts[e] \in {1, 2} THEN listening \ {e} ELSE listening

UnregisterFrameEvent(e) ==
    /\ counts' = [counts EXCEPT ![e] = IF @ > 0 THEN @ - 1 ELSE @]
    /\ listening' = IF counts[e] = 1 THEN listening \ {e} ELSE listening

-----------------------------------------------------------------------------
(* The callback tables, and what changing them does to walks under way.    *)

\* Mutant: the owner's callback of the other type stays.
AddsOnly(t, e, o) ==
    /\ tables' = [tables EXCEPT ![t][e] = @ \cup {o}]
    /\ triggers' = [i \in DOMAIN triggers |->
         IF triggers[i].event = e /\ triggers[i].type = t
            /\ o \notin tables[t][e]
           THEN [triggers[i] EXCEPT !.inserted = TRUE, !.spoiled = TRUE,
                                    !.owed = @ \ {o}]
           ELSE triggers[i]]

\* RegisterCallback: the owner's callback for the event is replaced.
PutCallback(t, e, o) ==
    /\ tables' = [u \in CallbackType |-> [tables[u] EXCEPT
                    ![e] = IF u = t THEN @ \cup {o} ELSE @ \ {o}]]
    /\ triggers' = [i \in DOMAIN triggers |->
         IF triggers[i].event # e THEN triggers[i]
         ELSE IF triggers[i].type = t /\ o \notin tables[t][e]
           THEN [triggers[i] EXCEPT !.inserted = TRUE, !.spoiled = TRUE,
                                    !.seen = @ \ {o}, !.owed = @ \ {o}]
         ELSE [triggers[i] EXCEPT
                 !.seen = IF o \in tables[t][e] THEN @ ELSE @ \ {o},
                 !.owed = @ \ {o}]]

\* Both callback tables without the owner's callback for the event.
Without(e, o) ==
    [t \in CallbackType |-> [tables[t] EXCEPT ![e] = @ \ {o}]]

\* RegisterFrameEventAndCallback, with or without a handle.  Arguments to
\* bind make it a closure.  Any owner may register again, or another way.
RegisterFrameEventAndCallback(t, e, o) ==
    /\ LuaCall
    /\ RegisterFrameEvents({e})
    /\ PutCallback(t, e, o)
    /\ UNCHANGED <<received, used, fired>>

\* RegisterOnceFrameEventAndCallback: a new owner ID each time.
RegisterOnce(e, o) ==
    /\ o \notin used
    /\ used' = used \cup {o}
    /\ LuaCall
    /\ RegisterFrameEvents({e})
    /\ PutCallback("Function", e, o)
    /\ UNCHANGED <<received, fired>>

\* ContinueAfterAllEvents: one object on several events.  Objects are made
\* outside callbacks, as the walk is not modelled under several insertions.
ContinueAfterAllEvents(o) ==
    /\ triggers = <<>>
    /\ o \notin used
    /\ used' = used \cup {o}
    /\ LuaCall
    /\ RegisterFrameEvents(Events)
    /\ tables' = [tables EXCEPT !["Function"] = [e \in Events |-> @[e] \cup {o}]]
    /\ UNCHANGED <<triggers, received, fired>>

\* UnregisterFrameEventAndCallback, or the handle's Unregister.
UnregisterFrameEventAndCallback(e, o) ==
    /\ LuaCall
    /\ HandlesTwice \/ o \in Registered(e)
    /\ UnregisterFrameEvent(e)
    /\ tables' = Without(e, o)
    /\ UNCHANGED <<triggers, received, used, fired>>

-----------------------------------------------------------------------------
(* TriggerEvent.                                                           *)

Walk(e, t) ==
    [event |-> e, type |-> t, todo |-> tables[t][e], inserted |-> FALSE,
     running |-> Nobody, seen |-> {}, owed |-> Registered(e), spoiled |-> FALSE]

\* From Lua, for any event; from frameEventFrame's OnEvent, for one it
\* listens to (a Lua call is not needed then).
TriggerEvent(e) ==
    /\ Len(triggers) < MaxDepth
    /\ IF triggers = <<>> /\ e \in listening
         THEN UNCHANGED luaCalls
         ELSE LuaCall
    /\ triggers' = Append(triggers, Walk(e, "Closure"))
    /\ UNCHANGED <<registry, received, used, fired>>

\* What pairs may give next: a key it has not come to and that still has a
\* value; after an insertion, any key again.
NextKeys ==
    LET keys == tables[Top.type][Top.event]
    IN  IF Top.inserted THEN keys ELSE Top.todo \cap keys

Walking == triggers # <<>> /\ Top.running = Nobody

WithTop(trigger) == Front(triggers) \o <<trigger>>

Called(o) ==
    [Top EXCEPT !.todo = @ \ {o}, !.running = o, !.seen = @ \cup {o}]

\* An ordinary callback; its Lua is any of the calls above.  So is a once
\* callback whose event arguments do not match.
CallPlain(o) ==
    /\ Walking
    /\ o \in NextKeys \cap (Plain \cup Once)
    /\ triggers' = WithTop(Called(o))
    /\ UNCHANGED <<registry, received, used, fired, luaCalls>>

\* Mutant: the wrapper does not unregister.
OnceStays(o) ==
    /\ Walking
    /\ o \in NextKeys \cap Once
    /\ triggers' = WithTop(Called(o))
    /\ fired' = [fired EXCEPT ![o] = @ + 1]
    /\ UNCHANGED <<registry, received, used, luaCalls>>

\* The once wrapper: it unregisters, and then runs the callback.
CallOnce(o) ==
    /\ Walking
    /\ o \in NextKeys \cap Once
    /\ UnregisterFrameEvent(Top.event)
    /\ tables' = Without(Top.event, o)
    /\ triggers' = WithTop(Called(o))
    /\ fired' = [fired EXCEPT ![o] = @ + 1]
    /\ UNCHANGED <<received, used, luaCalls>>

\* OnEventReceived of a ContinueAfterAllEvents object.
CallAll(o) ==
    /\ Walking
    /\ o \in NextKeys \cap All
    /\ received' = [received EXCEPT ![o] = @ \cup {Top.event}]
    /\ UnregisterFrameEvent(Top.event)
    /\ tables' = Without(Top.event, o)
    /\ triggers' = WithTop(Called(o))
    /\ fired' = IF received'[o] = Events
                  THEN [fired EXCEPT ![o] = @ + 1] ELSE fired
    /\ UNCHANGED <<used, luaCalls>>

CallbackReturns ==
    /\ triggers # <<>> /\ Top.running # Nobody
    /\ triggers' = WithTop([Top EXCEPT !.running = Nobody])
    /\ UNCHANGED <<registry, received, used, fired, luaCalls>>

\* TriggerEvent calls without pcall: an error ends the walks it passes, and
\* whom they had still to call is not called.  It stops at the OnEvent
\* script, or in a callback that called with pcall and goes on (the registry
\* stays as it is: a once wrapper has unregistered before its callback runs).
Unwinds ==
    /\ \E n \in 0..(Len(triggers) - 1) : triggers' = SubSeq(triggers, 1, n)
    /\ UNCHANGED <<registry, received, used, fired, luaCalls>>

CallbackRaises ==
    /\ triggers # <<>> /\ Top.running # Nobody
    /\ Unwinds

\* A cleared key that the insertion moved: "invalid key to 'next'".
NextFails ==
    /\ Walking
    /\ Top.inserted
    /\ Unwinds

\* Mutant: the functions are walked only if there was no closure.
ClosuresOrFunctions ==
    /\ Walking
    /\ Top.inserted \/ NextKeys = {}
    /\ triggers' =
         IF Top.type = "Closure" /\ Top.seen = {}
           THEN WithTop([Top EXCEPT !.type = "Function", !.inserted = FALSE,
                                    !.todo = tables["Function"][Top.event]])
           ELSE Front(triggers)
    /\ UNCHANGED <<registry, received, used, fired, luaCalls>>

\* The end of a walk: the functions after the closures, then return.
WalkEnds ==
    /\ Walking
    /\ Top.inserted \/ NextKeys = {}
    /\ triggers' =
         IF Top.type = "Closure"
           THEN WithTop([Top EXCEPT !.type = "Function", !.inserted = FALSE,
                                    !.todo = tables["Function"][Top.event]])
           ELSE Front(triggers)
    /\ UNCHANGED <<registry, received, used, fired, luaCalls>>

Next ==
    \/ \E t \in CallbackType, e \in Events, o \in Plain :
         RegisterFrameEventAndCallback(t, e, o)
    \/ \E e \in Events, o \in Once : RegisterOnce(e, o)
    \/ \E o \in All : ContinueAfterAllEvents(o)
    \/ \E e \in Events, o \in Plain : UnregisterFrameEventAndCallback(e, o)
    \/ \E e \in Events : TriggerEvent(e)
    \/ \E o \in Owners : CallPlain(o) \/ CallOnce(o) \/ CallAll(o)
    \/ CallbackReturns
    \/ CallbackRaises
    \/ NextFails
    \/ WalkEnds

Spec == Init /\ [][Next]_vars

-----------------------------------------------------------------------------
(* Properties.                                                             *)

\* Nobody is cut off: while a callback is registered with an engine event,
\* the registry's frame listens to that event, whoever else unregisters.
ListenersHear ==
    \A e \in Events : Registered(e) # {} => e \in listening

\* A once callback runs once, and ContinueAfterAllEvents continues once,
\* after all of its events, also when a callback triggers the event again or
\* an error ends a walk.
OnceOnly ==
    /\ \A o \in Once : fired[o] <= 1
    /\ \A o \in All : fired[o] = (IF received[o] = Events THEN 1 ELSE 0)

\* Whoever is registered for an engine event hears it, and a once callback once.
CallbacksHear == ListenersHear /\ OnceOnly

\* A TriggerEvent that returns reached every callback that was registered
\* before it and stayed so, also when callbacks of it caught the errors of
\* triggers of their own, unless a callback registered a new owner for the
\* event under it.  One that an error ends (Top runs a callback then, or
\* `next` failed, which spoils) has left callbacks out, and promises nothing.
ReachedAll ==
    Len(triggers') < Len(triggers) /\ Walking /\ ~Top.spoiled
      => Top.owed \cap Registered(Top.event) \subseteq Top.seen

ReachesEveryCallback == [][ReachedAll]_vars

\* A TriggerEvent calls no registration twice, with the same proviso.
CalledAnew ==
    \A i \in DOMAIN triggers :
      i \in DOMAIN triggers' /\ i = Len(triggers)
        /\ triggers'[i].running # Nobody /\ triggers[i].running = Nobody
        /\ ~triggers[i].spoiled
      => triggers'[i].running \notin triggers[i].seen

CallsOnce == [][CalledAnew]_vars

-----------------------------------------------------------------------------
(* CallbacksHear for every set of events and owners, and any depth of       *)
(* triggers.  An event's count is never below the number of its owners      *)
(* (Counted), so the frame listens while there is one.  A once callback is  *)
(* in the tables of one event, before it ran; a ContinueAfterAllEvents      *)
(* object of those it has not received (OnceKnown, AllKnown).               *)

Careful ==
    /\ RegistryAssumption /\ ~HandlesTwice
    /\ Events # {} /\ IsFiniteSet(Owners)

TablesOK ==
    /\ tables \in [CallbackType -> [Events -> SUBSET Owners]]
    /\ \A e \in Events : tables["Closure"][e] \cap tables["Function"][e] = {}

CountsOK == counts \in [Events -> Nat] /\ listening = {e \in Events : counts[e] > 0}

Counted == \A e \in Events : Cardinality(Registered(e)) <= counts[e]

OnceKnown ==
    \A o \in Once :
        /\ o \notin used => fired[o] = 0
        /\ fired[o] <= 1
        /\ \A e \in Events : o \in Registered(e) =>
              o \in used /\ fired[o] = 0 /\ \A d \in Events : o \in Registered(d) => d = e

AllKnown ==
    \A a \in All :
        /\ a \notin used => received[a] = {}
        /\ fired[a] = IF received[a] = Events THEN 1 ELSE 0
        /\ \A e \in Events : a \in Registered(e) => a \in used /\ e \notin received[a]

OthersOK ==
    /\ triggers \in Seq(Trigger)
    /\ received \in [All -> SUBSET Events]
    /\ used \subseteq Once \cup All
    /\ fired \in [Once \cup All -> Nat]
    /\ luaCalls \in 0..MaxCalls

RegistryInv ==
    /\ TablesOK /\ CountsOK /\ OthersOK
    /\ Counted /\ OnceKnown /\ AllKnown

\* What a walk's frame is, and what taking it off or changing it leaves.
LEMMA TopIs ==
  ASSUME triggers \in Seq(Trigger), triggers # <<>>
  PROVE  /\ Top \in Trigger /\ Front(triggers) \in Seq(Trigger)
         /\ \A t \in Trigger : WithTop(t) \in Seq(Trigger)
  <1>1. Len(triggers) \in Nat \ {0} /\ DOMAIN triggers = 1..Len(triggers)
    BY EmptySeq
  <1>2. Top \in Trigger  BY <1>1 DEF Top, Last
  <1>3. Front(triggers) \in Seq(Trigger)  BY <1>1, SubSeqProperties DEF Front
  <1>4. ASSUME NEW t \in Trigger  PROVE WithTop(t) \in Seq(Trigger)
    <2>1. <<t>> \in Seq(Trigger)  OBVIOUS
    <2> QED  BY <1>3, <2>1, ConcatProperties DEF WithTop
  <1> QED  BY <1>2, <1>3, <1>4

\* A callback that is put adds its owner to the event's, whatever it was before.
LEMMA Putting ==
  ASSUME TablesOK, triggers \in Seq(Trigger), NEW t \in CallbackType, NEW e \in Events,
         NEW o \in Owners, PutCallback(t, e, o)
  PROVE  /\ TablesOK' /\ triggers' \in Seq(Trigger)
         /\ \A d \in Events :
              Registered(d)' = IF d = e THEN Registered(d) \cup {o} ELSE Registered(d)
  <1>1. tables' = [u \in CallbackType |-> [tables[u] EXCEPT
                     ![e] = IF u = t THEN @ \cup {o} ELSE @ \ {o}]]
    BY DEF PutCallback
  <1>2. \A u \in CallbackType, d \in Events :
          tables'[u][d] = IF d # e THEN tables[u][d]
                          ELSE IF u = t THEN tables[u][d] \cup {o} ELSE tables[u][d] \ {o}
    BY <1>1 DEF TablesOK
  <1>3. tables' \in [CallbackType -> [Events -> SUBSET Owners]]
    BY <1>1 DEF TablesOK
  <1>4. t = "Closure" \/ t = "Function"  BY DEF CallbackType
  <1>5. TablesOK'  BY <1>2, <1>3, <1>4 DEF TablesOK, CallbackType
  <1>6. \A d \in Events :
          Registered(d)' = IF d = e THEN Registered(d) \cup {o} ELSE Registered(d)
    BY <1>2, <1>4 DEF Registered, CallbackType
  <1>7. triggers' \in Seq(Trigger)
    <2> DEFINE Changed(r) ==
                 IF r.event # e THEN r
                 ELSE IF r.type = t /\ o \notin tables[t][e]
                   THEN [r EXCEPT !.inserted = TRUE, !.spoiled = TRUE,
                                  !.seen = @ \ {o}, !.owed = @ \ {o}]
                 ELSE [r EXCEPT !.seen = IF o \in tables[t][e] THEN @ ELSE @ \ {o},
                                !.owed = @ \ {o}]
    <2>1. triggers' = [i \in DOMAIN triggers |-> Changed(triggers[i])]
      BY DEF PutCallback
    <2>2. ASSUME NEW r \in Trigger  PROVE Changed(r) \in Trigger
      <3> USE DEF Trigger
      <3>1. CASE r.event # e  BY <3>1
      <3>2. CASE r.event = e /\ r.type = t /\ o \notin tables[t][e]  BY <3>2
      <3>3. CASE r.event = e /\ ~(r.type = t /\ o \notin tables[t][e])
        BY <3>3
      <3> QED  BY <3>1, <3>2, <3>3
    <2> HIDE DEF Changed
    <2>3. DOMAIN triggers = 1..Len(triggers) /\ Len(triggers) \in Nat
          /\ \A i \in 1..Len(triggers) : triggers[i] \in Trigger
      OBVIOUS
    <2>4. triggers' \in [1..Len(triggers) -> Trigger]  BY <2>1, <2>2, <2>3
    <2> QED  BY <2>3, <2>4, SeqDef, SMTT(60)
  <1> QED  BY <1>5, <1>6, <1>7, SMTT(60)

\* A callback that goes takes its owner from the event's.
LEMMA Removing ==
  ASSUME TablesOK, NEW e \in Events, NEW o, tables' = Without(e, o)
  PROVE  /\ TablesOK'
         /\ \A d \in Events :
              Registered(d)' = IF d = e THEN Registered(d) \ {o} ELSE Registered(d)
  <1>1. \A u \in CallbackType, d \in Events :
          tables'[u][d] = IF d = e THEN tables[u][d] \ {o} ELSE tables[u][d]
    BY DEF TablesOK, Without
  <1>2. tables' \in [CallbackType -> [Events -> SUBSET Owners]]
    BY DEF TablesOK, Without
  <1>3. TablesOK'  BY <1>1, <1>2 DEF TablesOK, CallbackType
  <1>4. \A d \in Events :
          Registered(d)' = IF d = e THEN Registered(d) \ {o} ELSE Registered(d)
    BY <1>1 DEF Registered, CallbackType
  <1> QED  BY <1>3, <1>4

LEMMA RegisteredFinite ==
  ASSUME Careful, TablesOK, NEW e \in Events
  PROVE  /\ IsFiniteSet(Registered(e)) /\ Registered(e) \subseteq Owners
         /\ Cardinality(Registered(e)) \in Nat
  <1>1. Registered(e) \subseteq Owners  BY DEF Registered, TablesOK, CallbackType
  <1>2. IsFiniteSet(Owners)  BY DEF Careful
  <1>3. IsFiniteSet(Registered(e))  BY <1>1, <1>2, FS_Subset
  <1> QED  BY <1>1, <1>3, FS_CardinalityType

\* Each registration counts, one that replaces a callback too.
LEMMA CountingUp ==
  ASSUME Careful, TablesOK, CountsOK, Counted, NEW E \in SUBSET Events, NEW o,
         RegisterFrameEvents(E),
         \A d \in Events : Registered(d)' = IF d \in E THEN Registered(d) \cup {o} ELSE Registered(d)
  PROVE  CountsOK' /\ Counted'
  <1>1. \A d \in Events : counts'[d] = IF d \in E THEN counts[d] + 1 ELSE counts[d]
    BY DEF RegisterFrameEvents
  <1>2. CountsOK'
    <2>1. counts' \in [Events -> Nat]  BY DEF RegisterFrameEvents, CountsOK
    <2>2. listening' = listening \cup E  BY DEF RegisterFrameEvents
    <2>3. \A d \in Events : counts'[d] > 0 <=> counts[d] > 0 \/ d \in E
      BY <1>1 DEF CountsOK
    <2> QED  BY <2>1, <2>2, <2>3 DEF CountsOK
  <1>3. ASSUME NEW d \in Events  PROVE Cardinality(Registered(d))' <= counts'[d]
    <2>1. IsFiniteSet(Registered(d)) /\ Cardinality(Registered(d)) \in Nat
      BY RegisteredFinite
    <2>2. Cardinality(Registered(d) \cup {o}) <= Cardinality(Registered(d)) + 1
      <3>1. Cardinality(Registered(d) \cup {o}) =
              IF o \in Registered(d) THEN Cardinality(Registered(d))
                                    ELSE Cardinality(Registered(d)) + 1
        BY <2>1, FS_AddElement
      <3> QED  BY <2>1, <3>1
    <2>3. Cardinality(Registered(d) \cup {o}) \in Nat
      BY <2>1, FS_AddElement, FS_CardinalityType
    <2>4. Cardinality(Registered(d)) <= counts[d] /\ counts[d] \in Nat
      BY DEF Counted, CountsOK
    <2>5. CASE d \in E  BY <1>1, <2>1, <2>2, <2>3, <2>4, <2>5
    <2>6. CASE d \notin E  BY <1>1, <2>4, <2>6
    <2> QED  BY <2>5, <2>6
  <1> QED  BY <1>2, <1>3 DEF Counted

\* A removal counts down; it takes an owner with it, and there is a count for each.
LEMMA CountingDown ==
  ASSUME Careful, TablesOK, CountsOK, Counted, NEW e \in Events, NEW o \in Registered(e),
         UnregisterFrameEvent(e),
         \A d \in Events : Registered(d)' = IF d = e THEN Registered(d) \ {o} ELSE Registered(d)
  PROVE  CountsOK' /\ Counted'
  <1>1. /\ IsFiniteSet(Registered(e)) /\ Cardinality(Registered(e)) \in Nat
        /\ Cardinality(Registered(e) \ {o}) = Cardinality(Registered(e)) - 1
        /\ Cardinality(Registered(e)) # 0
    BY RegisteredFinite, FS_RemoveElement, FS_EmptySet
  <1>2. Cardinality(Registered(e)) <= counts[e] /\ counts[e] \in Nat /\ counts[e] > 0
    BY <1>1 DEF Counted, CountsOK
  <1>3. counts' = [counts EXCEPT ![e] = counts[e] - 1]  BY <1>2 DEF UnregisterFrameEvent
  <1>4. \A d \in Events : counts'[d] = IF d = e THEN counts[e] - 1 ELSE counts[d]
    BY <1>3 DEF CountsOK
  <1>5. CountsOK'
    <2>1. counts' \in [Events -> Nat]  BY <1>2, <1>3 DEF CountsOK
    <2>2. listening' = IF counts[e] = 1 THEN listening \ {e} ELSE listening
      BY DEF UnregisterFrameEvent
    <2>3. listening' = {d \in Events : counts'[d] > 0}
      <3>1. \A d \in Events : d # e => (counts'[d] > 0 <=> d \in listening)
        BY <1>4 DEF CountsOK
      <3>2. counts'[e] > 0 <=> counts[e] # 1  BY <1>2, <1>4
      <3>3. e \in listening /\ listening \subseteq Events  BY <1>2 DEF CountsOK
      <3> QED  BY <2>2, <3>1, <3>2, <3>3
    <2> QED  BY <2>1, <2>3 DEF CountsOK
  <1>6. ASSUME NEW d \in Events  PROVE Cardinality(Registered(d))' <= counts'[d]
    <2>1. CASE d = e
      <3>1. Registered(d)' = Registered(e) \ {o}  BY <2>1
      <3>2. Cardinality(Registered(d))' = Cardinality(Registered(e)) - 1  BY <1>1, <3>1
      <3>3. counts'[d] = counts[e] - 1  BY <1>4, <2>1
      <3> QED  BY <1>1, <1>2, <3>2, <3>3
    <2>2. CASE d # e  BY <1>4, <2>2 DEF Counted
    <2> QED  BY <2>1, <2>2
  <1> QED  BY <1>5, <1>6 DEF Counted

LEMMA LuaCallCounts ==
  ASSUME Careful, RegistryInv, LuaCall
  PROVE  luaCalls' \in 0..MaxCalls
  BY DEF Careful, RegistryAssumption, RegistryInv, OthersOK, LuaCall

\* What is known of the once callbacks and the objects while only others come and go.
LEMMA OnceAndAllStay ==
  ASSUME OnceKnown, AllKnown, UNCHANGED <<received, used, fired>>,
         \A d \in Events, o \in Once \cup All : o \in Registered(d)' => o \in Registered(d)
  PROVE  OnceKnown' /\ AllKnown'
  BY DEF OnceKnown, AllKnown

LEMMA RegistersPlain ==
  ASSUME Careful, RegistryInv, NEW t \in CallbackType, NEW e \in Events, NEW o \in Plain,
         RegisterFrameEventAndCallback(t, e, o)
  PROVE  RegistryInv'
  <1> USE DEF RegisterFrameEventAndCallback
  <1>1. o \in Owners /\ o \notin Once \cup All
    BY DEF Owners, Careful, RegistryAssumption
  <1>2. /\ TablesOK' /\ triggers' \in Seq(Trigger)
        /\ \A d \in Events :
             Registered(d)' = IF d = e THEN Registered(d) \cup {o} ELSE Registered(d)
    BY <1>1, Putting DEF RegistryInv, OthersOK
  <1>3. CountsOK' /\ Counted'
    <2>1. \A d \in Events :
            Registered(d)' = IF d \in {e} THEN Registered(d) \cup {o} ELSE Registered(d)
      BY <1>2
    <2>2. {e} \in SUBSET Events  OBVIOUS
    <2> QED  BY <2>1, <2>2, CountingUp DEF RegistryInv
  <1>4. OnceKnown' /\ AllKnown'
    BY <1>1, <1>2, OnceAndAllStay DEF RegistryInv
  <1>5. OthersOK'  BY <1>2, LuaCallCounts DEF RegistryInv, OthersOK
  <1> QED  BY <1>2, <1>3, <1>4, <1>5 DEF RegistryInv

LEMMA RegistersOnce ==
  ASSUME Careful, RegistryInv, NEW e \in Events, NEW o \in Once, RegisterOnce(e, o)
  PROVE  RegistryInv'
  <1> USE DEF RegisterOnce
  <1>1. o \in Owners /\ o \notin All /\ "Function" \in CallbackType
    BY DEF Owners, Careful, RegistryAssumption, CallbackType
  <1>2. /\ TablesOK' /\ triggers' \in Seq(Trigger)
        /\ \A d \in Events :
             Registered(d)' = IF d = e THEN Registered(d) \cup {o} ELSE Registered(d)
    BY <1>1, Putting DEF RegistryInv, OthersOK
  <1>3. CountsOK' /\ Counted'
    <2>1. \A d \in Events :
            Registered(d)' = IF d \in {e} THEN Registered(d) \cup {o} ELSE Registered(d)
      BY <1>2
    <2>2. {e} \in SUBSET Events  OBVIOUS
    <2> QED  BY <2>1, <2>2, CountingUp DEF RegistryInv
  <1>4. OnceKnown'
    <2>1. \A d \in Events : o \notin Registered(d)  BY DEF RegistryInv, OnceKnown
    <2>2. fired[o] = 0  BY DEF RegistryInv, OnceKnown
    <2> QED  BY <1>2, <2>1, <2>2 DEF RegistryInv, OnceKnown
  <1>5. AllKnown'  BY <1>1, <1>2 DEF RegistryInv, AllKnown
  <1>6. OthersOK'  BY <1>2, LuaCallCounts DEF RegistryInv, OthersOK
  <1> QED  BY <1>2, <1>3, <1>4, <1>5, <1>6 DEF RegistryInv

LEMMA RegistersAll ==
  ASSUME Careful, RegistryInv, NEW o \in All, ContinueAfterAllEvents(o)
  PROVE  RegistryInv'
  <1> USE DEF ContinueAfterAllEvents
  <1>1. o \in Owners /\ o \notin Once  BY DEF Owners, Careful, RegistryAssumption
  <1>2. TablesOK /\ \A d \in Events : o \notin Registered(d)
    BY DEF RegistryInv, AllKnown
  <1>3. \A u \in CallbackType, d \in Events :
          tables'[u][d] = IF u = "Function" THEN tables[u][d] \cup {o} ELSE tables[u][d]
    BY <1>2 DEF TablesOK
  <1>4. tables' \in [CallbackType -> [Events -> SUBSET Owners]]
    BY <1>1, <1>2 DEF TablesOK
  <1>5. TablesOK'
    BY <1>2, <1>3, <1>4 DEF TablesOK, CallbackType, Registered
  <1>6. \A d \in Events : Registered(d)' = Registered(d) \cup {o}
    BY <1>3 DEF Registered, CallbackType
  <1>7. CountsOK' /\ Counted'
    <2>1. \A d \in Events :
            Registered(d)' = IF d \in Events THEN Registered(d) \cup {o} ELSE Registered(d)
      BY <1>6
    <2> QED  BY <2>1, CountingUp DEF RegistryInv
  <1>8. OnceKnown'  BY <1>1, <1>6 DEF RegistryInv, OnceKnown
  <1>9. AllKnown'  BY <1>6 DEF RegistryInv, AllKnown
  <1>10. OthersOK'  BY LuaCallCounts DEF RegistryInv, OthersOK
  <1> QED  BY <1>5, <1>7, <1>8, <1>9, <1>10 DEF RegistryInv

LEMMA UnregistersPlain ==
  ASSUME Careful, RegistryInv, NEW e \in Events, NEW o \in Plain,
         UnregisterFrameEventAndCallback(e, o)
  PROVE  RegistryInv'
  <1> USE DEF UnregisterFrameEventAndCallback
  <1>1. o \in Registered(e)  BY DEF Careful
  <1>2. /\ TablesOK'
        /\ \A d \in Events : Registered(d)' = IF d = e THEN Registered(d) \ {o} ELSE Registered(d)
    BY Removing DEF RegistryInv
  <1>3. CountsOK' /\ Counted'  BY <1>1, <1>2, CountingDown DEF RegistryInv
  <1>4. OnceKnown' /\ AllKnown'  BY <1>2, OnceAndAllStay DEF RegistryInv
  <1>5. OthersOK'  BY LuaCallCounts DEF RegistryInv, OthersOK
  <1> QED  BY <1>2, <1>3, <1>4, <1>5 DEF RegistryInv

\* The steps of a walk that call nothing that changes the registry.
LEMMA StackMoves ==
  ASSUME RegistryInv, UNCHANGED <<registry, received, used, fired>>,
         triggers' \in Seq(Trigger), luaCalls' \in 0..MaxCalls
  PROVE  RegistryInv'
  <1> USE DEF registry, RegistryInv
  <1>1. TablesOK' /\ CountsOK' /\ OthersOK'  BY DEF TablesOK, CountsOK, OthersOK
  <1>2. \A d : Registered(d)' = Registered(d)  BY DEF Registered
  <1>3. Counted'  BY <1>2 DEF Counted
  <1>4. OnceKnown' /\ AllKnown'  BY <1>2, OnceAndAllStay
  <1> QED  BY <1>1, <1>3, <1>4

LEMMA NextKeyIs ==
  ASSUME RegistryInv, Walking, NEW o \in NextKeys
  PROVE  /\ Top.event \in Events /\ o \in Registered(Top.event)
         /\ WithTop(Called(o)) \in Seq(Trigger)
  <1>1. triggers \in Seq(Trigger) /\ triggers # <<>> /\ TablesOK
    BY DEF RegistryInv, OthersOK, Walking
  <1>2. Top \in Trigger  BY <1>1, TopIs
  <1>3. Top.event \in Events /\ Top.type \in CallbackType  BY <1>2 DEF Trigger
  <1>4. o \in tables[Top.type][Top.event]  BY DEF NextKeys
  <1>5. o \in Registered(Top.event)  BY <1>3, <1>4 DEF Registered, CallbackType
  <1>6. o \in Owners  BY <1>1, <1>3, <1>4 DEF TablesOK
  <1>7. Called(o) \in Trigger  BY <1>2, <1>6 DEF Called, Trigger
  <1> QED  BY <1>1, <1>3, <1>5, <1>7, TopIs

LEMMA CallsPlain ==
  ASSUME RegistryInv, NEW o, CallPlain(o)
  PROVE  RegistryInv'
  <1>1. triggers' \in Seq(Trigger)  BY NextKeyIs DEF CallPlain
  <1> QED  BY <1>1, StackMoves DEF CallPlain, RegistryInv, OthersOK

\* The wrapper's callback was in one event's tables and has not run.
LEMMA CallsOnceCallback ==
  ASSUME Careful, RegistryInv, NEW o, CallOnce(o)
  PROVE  RegistryInv'
  <1> DEFINE e0 == Top.event
  <1>1. /\ o \in Once /\ e0 \in Events /\ o \in Registered(e0) /\ triggers' \in Seq(Trigger)
        /\ tables' = Without(e0, o) /\ UnregisterFrameEvent(e0)
        /\ fired' = [fired EXCEPT ![o] = @ + 1] /\ UNCHANGED <<received, used, luaCalls>>
    BY NextKeyIs DEF CallOnce
  <1>2. PICK e \in Events :
        /\ o \in Registered(e) /\ tables' = Without(e, o) /\ UnregisterFrameEvent(e)
    BY <1>1
  <1>3. /\ TablesOK'
        /\ \A d \in Events : Registered(d)' = IF d = e THEN Registered(d) \ {o} ELSE Registered(d)
    BY <1>2, Removing DEF RegistryInv
  <1>4. CountsOK' /\ Counted'  BY <1>2, <1>3, CountingDown DEF RegistryInv
  <1>5. fired[o] = 0 /\ o \in used /\ \A d \in Events : o \in Registered(d) => d = e
    BY <1>1, <1>2 DEF RegistryInv, OnceKnown
  <1>6. fired \in [Once \cup All -> Nat]  BY DEF RegistryInv, OthersOK
  <1>7. OnceKnown'
    <2> SUFFICES ASSUME NEW p \in Once
                 PROVE  /\ p \notin used' => fired'[p] = 0
                        /\ fired'[p] <= 1
                        /\ \A d \in Events : p \in Registered(d)' =>
                              p \in used' /\ fired'[p] = 0
                              /\ \A c \in Events : p \in Registered(c)' => c = d
      BY DEF OnceKnown
    <2>1. CASE p = o
      <3>1. fired'[p] = 1  BY <1>1, <1>5, <1>6, <2>1
      <3>2. \A d \in Events : p \notin Registered(d)'  BY <1>3, <1>5, <2>1
      <3> QED  BY <1>1, <1>5, <2>1, <3>1, <3>2
    <2>2. CASE p # o
      <3>1. fired'[p] = fired[p]  BY <1>1, <1>6, <2>2
      <3>2. \A d \in Events : p \in Registered(d)' <=> p \in Registered(d)
        BY <1>3, <2>2
      <3> QED  BY <1>1, <3>1, <3>2 DEF RegistryInv, OnceKnown
    <2> QED  BY <2>1, <2>2
  <1>8. AllKnown'
    <2>1. \A a \in All : a # o  BY <1>1 DEF Careful, RegistryAssumption
    <2>2. \A a \in All : fired'[a] = fired[a]  BY <1>1, <1>6, <2>1
    <2>3. \A a \in All, d \in Events : a \in Registered(d)' <=> a \in Registered(d)
      BY <1>3, <2>1
    <2> QED  BY <1>1, <2>2, <2>3 DEF RegistryInv, AllKnown
  <1>9. OthersOK'
    <2>1. fired' \in [Once \cup All -> Nat]  BY <1>1, <1>6
    <2> QED  BY <1>1, <2>1 DEF RegistryInv, OthersOK
  <1> QED  BY <1>3, <1>4, <1>7, <1>8, <1>9 DEF RegistryInv

\* The object was still waiting for the event; it continues at the last one.
LEMMA CallsAllCallback ==
  ASSUME Careful, RegistryInv, NEW o, CallAll(o)
  PROVE  RegistryInv'
  <1>1. PICK e \in Events :
        /\ o \in All /\ o \in Registered(e) /\ triggers' \in Seq(Trigger)
        /\ tables' = Without(e, o) /\ UnregisterFrameEvent(e)
        /\ received' = [received EXCEPT ![o] = @ \cup {e}]
        /\ fired' = (IF received'[o] = Events THEN [fired EXCEPT ![o] = @ + 1] ELSE fired)
        /\ UNCHANGED <<used, luaCalls>>
    <2>1. Top.event \in Events /\ o \in Registered(Top.event) /\ triggers' \in Seq(Trigger)
      BY NextKeyIs DEF CallAll
    <2> QED  BY <2>1 DEF CallAll
  <1>2. /\ TablesOK'
        /\ \A d \in Events : Registered(d)' = IF d = e THEN Registered(d) \ {o} ELSE Registered(d)
    BY <1>1, Removing DEF RegistryInv
  <1>3. CountsOK' /\ Counted'  BY <1>1, <1>2, CountingDown DEF RegistryInv
  <1>4. fired \in [Once \cup All -> Nat] /\ received \in [All -> SUBSET Events]
    BY DEF RegistryInv, OthersOK
  <1>5. /\ e \notin received[o] /\ o \in used
        /\ fired[o] = IF received[o] = Events THEN 1 ELSE 0
    BY <1>1 DEF RegistryInv, AllKnown
  <1>6. fired[o] = 0 /\ received'[o] = received[o] \cup {e}
    BY <1>1, <1>4, <1>5
  <1>7. fired'[o] = IF received'[o] = Events THEN 1 ELSE 0
    BY <1>1, <1>4, <1>6
  <1>8. \A a \in Once \cup All : a # o => fired'[a] = fired[a]  BY <1>1, <1>4
  <1>9. AllKnown'
    <2> SUFFICES ASSUME NEW a \in All
                 PROVE  /\ a \notin used' => received'[a] = {}
                        /\ fired'[a] = IF received'[a] = Events THEN 1 ELSE 0
                        /\ \A d \in Events : a \in Registered(d)' => a \in used' /\ d \notin received'[a]
      BY DEF AllKnown
    <2>1. CASE a = o
      <3>1. \A d \in Events : a \in Registered(d)' => d # e /\ d \notin received[o]
        BY <1>1, <1>2, <2>1 DEF RegistryInv, AllKnown
      <3> QED  BY <1>1, <1>5, <1>6, <1>7, <2>1, <3>1
    <2>2. CASE a # o
      <3>1. received'[a] = received[a] /\ fired'[a] = fired[a]  BY <1>1, <1>4, <1>8, <2>2
      <3>2. \A d \in Events : a \in Registered(d)' <=> a \in Registered(d)  BY <1>2, <2>2
      <3> QED  BY <1>1, <3>1, <3>2 DEF RegistryInv, AllKnown
    <2> QED  BY <2>1, <2>2
  <1>10. OnceKnown'
    <2>1. \A p \in Once : p # o  BY <1>1 DEF Careful, RegistryAssumption
    <2>2. \A p \in Once : fired'[p] = fired[p]  BY <1>8, <2>1
    <2>3. \A p \in Once, d \in Events : p \in Registered(d)' <=> p \in Registered(d)
      BY <1>2, <2>1
    <2> QED  BY <1>1, <2>2, <2>3 DEF RegistryInv, OnceKnown
  <1>11. OthersOK'
    <2>1. fired' \in [Once \cup All -> Nat]  BY <1>1, <1>4
    <2>2. received' \in [All -> SUBSET Events]  BY <1>1, <1>4
    <2> QED  BY <1>1, <2>1, <2>2 DEF RegistryInv, OthersOK
  <1> QED  BY <1>2, <1>3, <1>9, <1>10, <1>11 DEF RegistryInv

LEMMA Triggering ==
  ASSUME Careful, RegistryInv, NEW e \in Events, TriggerEvent(e)
  PROVE  RegistryInv'
  <1>1. Walk(e, "Closure") \in Trigger
    <2>1. tables["Closure"][e] \subseteq Owners /\ "Closure" \in CallbackType
      BY DEF RegistryInv, TablesOK, CallbackType
    <2>2. Registered(e) \subseteq Owners  BY RegisteredFinite DEF RegistryInv
    <2> QED  BY <2>1, <2>2 DEF Walk, Trigger
  <1>2. triggers' \in Seq(Trigger)
    BY <1>1, AppendProperties DEF TriggerEvent, RegistryInv, OthersOK
  <1>3. luaCalls' \in 0..MaxCalls
    BY LuaCallCounts DEF TriggerEvent, RegistryInv, OthersOK
  <1> QED  BY <1>2, <1>3, StackMoves DEF TriggerEvent

\* An error leaves the outer walks as they are.
LEMMA UnwindsTo ==
  ASSUME triggers \in Seq(Trigger), Unwinds
  PROVE  /\ triggers' \in Seq(Trigger)
         /\ Len(triggers') \in Nat /\ Len(triggers') < Len(triggers)
         /\ DOMAIN triggers' = 1..Len(triggers')
         /\ \A i \in 1..Len(triggers') : triggers'[i] = triggers[i]
  <1>1. PICK n \in 0..(Len(triggers) - 1) : triggers' = SubSeq(triggers, 1, n)
    BY DEF Unwinds
  <1>2. Len(triggers) \in Nat  OBVIOUS
  <1>3. n \in Nat /\ n < Len(triggers)  BY <1>2
  <1>4. \A i \in 1..n : triggers[i] \in Trigger  BY <1>2, <1>3
  <1>5. /\ triggers' \in Seq(Trigger) /\ Len(triggers') = n
        /\ \A i \in 1..n : triggers'[i] = triggers[i]
    <2>1. /\ SubSeq(triggers, 1, n) \in Seq(Trigger)
          /\ Len(SubSeq(triggers, 1, n)) = IF 1 <= n THEN n - 1 + 1 ELSE 0
          /\ \A i \in 1..(n - 1 + 1) : SubSeq(triggers, 1, n)[i] = triggers[1 + i - 1]
      BY <1>2, <1>3, <1>4, SubSeqProperties
    <2>2. (IF 1 <= n THEN n - 1 + 1 ELSE 0) = n /\ n - 1 + 1 = n  BY <1>3
    <2>3. \A i \in 1..n : 1 + i - 1 = i  BY <1>3
    <2> QED  BY <1>1, <2>1, <2>2, <2>3
  <1> QED  BY <1>3, <1>5

LEMMA WalkGoesOn ==
  ASSUME RegistryInv, CallbackReturns \/ CallbackRaises \/ NextFails \/ WalkEnds
  PROVE  RegistryInv'
  <1>0. triggers \in Seq(Trigger) /\ TablesOK  BY DEF RegistryInv, OthersOK
  <1>1. CASE CallbackReturns
    <2>1. Top \in Trigger  BY <1>0, <1>1, TopIs DEF CallbackReturns
    <2>2. [Top EXCEPT !.running = Nobody] \in Trigger  BY <2>1 DEF Trigger
    <2>3. triggers' \in Seq(Trigger)  BY <1>0, <1>1, <2>2, TopIs DEF CallbackReturns
    <2> QED  BY <1>1, <2>3, StackMoves DEF CallbackReturns, RegistryInv, OthersOK
  <1>2. CASE CallbackRaises \/ NextFails
    <2>1. Unwinds  BY <1>2 DEF CallbackRaises, NextFails
    <2>2. triggers' \in Seq(Trigger)  BY <1>0, <2>1, UnwindsTo
    <2> QED  BY <2>1, <2>2, StackMoves DEF Unwinds, RegistryInv, OthersOK
  <1>3. CASE WalkEnds
    <2> DEFINE next == [Top EXCEPT !.type = "Function", !.inserted = FALSE,
                                   !.todo = tables["Function"][Top.event]]
    <2>1. Top \in Trigger /\ Front(triggers) \in Seq(Trigger)
      BY <1>0, <1>3, TopIs DEF WalkEnds, Walking
    <2>2. tables["Function"][Top.event] \subseteq Owners
      BY <1>0, <2>1 DEF TablesOK, CallbackType, Trigger
    <2>3. next \in Trigger  BY <2>1, <2>2 DEF Trigger, CallbackType
    <2>4. triggers' = WithTop(next) \/ triggers' = Front(triggers)
      BY <1>3 DEF WalkEnds
    <2> HIDE DEF next
    <2>5. triggers' \in Seq(Trigger)
      BY <1>0, <1>3, <2>1, <2>3, <2>4, TopIs DEF WalkEnds, Walking
    <2> QED  BY <1>3, <2>5, StackMoves DEF WalkEnds, RegistryInv, OthersOK
  <1> QED  BY <1>1, <1>2, <1>3

LEMMA RegistryStepIsSafe ==
  ASSUME Careful, RegistryInv, [Next]_vars
  PROVE  RegistryInv'
  <1>1. CASE UNCHANGED vars
    <2>1. UNCHANGED <<registry, received, used, fired, triggers, luaCalls>>  BY <1>1 DEF vars
    <2> QED  BY <2>1, StackMoves DEF RegistryInv, OthersOK
  <1>2. CASE \E t \in CallbackType, e \in Events, o \in Plain :
               RegisterFrameEventAndCallback(t, e, o)
    BY <1>2, RegistersPlain
  <1>3. CASE \E e \in Events, o \in Once : RegisterOnce(e, o)
    BY <1>3, RegistersOnce
  <1>4. CASE \E o \in All : ContinueAfterAllEvents(o)
    BY <1>4, RegistersAll
  <1>5. CASE \E e \in Events, o \in Plain : UnregisterFrameEventAndCallback(e, o)
    BY <1>5, UnregistersPlain
  <1>6. CASE \E e \in Events : TriggerEvent(e)
    BY <1>6, Triggering
  <1>7. CASE \E o \in Owners : CallPlain(o) \/ CallOnce(o) \/ CallAll(o)
    BY <1>7, CallsPlain, CallsOnceCallback, CallsAllCallback
  <1>8. CASE CallbackReturns \/ CallbackRaises \/ NextFails \/ WalkEnds
    BY <1>8, WalkGoesOn
  <1> QED  BY <1>1, <1>2, <1>3, <1>4, <1>5, <1>6, <1>7, <1>8 DEF Next

LEMMA RegistryStartsEmpty == Careful /\ Init => RegistryInv
  <1> SUFFICES ASSUME Careful, Init PROVE RegistryInv  OBVIOUS
  <1> USE DEF Init
  <1>1. TablesOK /\ CountsOK  BY DEF TablesOK, CountsOK, CallbackType
  <1>2. OthersOK  BY EmptySeq DEF OthersOK, Careful, RegistryAssumption
  <1>3. \A e \in Events : Registered(e) = {}  BY DEF Registered, CallbackType
  <1>4. Counted
    <2>1. \A e \in Events : Cardinality(Registered(e)) = 0  BY <1>3, FS_EmptySet
    <2>2. \A e \in Events : counts[e] = 0  OBVIOUS
    <2> QED  BY <2>1, <2>2 DEF Counted
  <1>5. OnceKnown /\ AllKnown  BY <1>3 DEF OnceKnown, AllKnown, Careful
  <1> QED  BY <1>1, <1>2, <1>4, <1>5 DEF RegistryInv

\* Nobody who is registered is cut off from the engine's event, and a once callback and a
\* ContinueAfterAllEvents run once: the counting of GlobalCallbackRegistry.lua, the tables of
\* CallbackRegistry.lua and the wrappers of EventUtil.lua, nested triggers and errors included.
THEOREM CallbacksAreHeard == Careful => (Spec => []CallbacksHear)
  <1> SUFFICES ASSUME Careful PROVE Spec => []CallbacksHear  OBVIOUS
  <1>1. Init => RegistryInv  BY RegistryStartsEmpty
  <1>2. RegistryInv /\ [Next]_vars => RegistryInv'  BY RegistryStepIsSafe
  <1>3. RegistryInv => CallbacksHear
    <2> SUFFICES ASSUME RegistryInv PROVE CallbacksHear  OBVIOUS
    <2>1. ASSUME NEW e \in Events, Registered(e) # {}  PROVE e \in listening
      <3>1. Cardinality(Registered(e)) # 0 /\ Cardinality(Registered(e)) \in Nat
        BY <2>1, RegisteredFinite, FS_EmptySet DEF RegistryInv
      <3> QED  BY <3>1 DEF RegistryInv, Counted, CountsOK
    <2>2. OnceOnly  BY DEF RegistryInv, OnceKnown, AllKnown, OnceOnly
    <2> QED  BY <2>1, <2>2 DEF CallbacksHear, ListenersHear
  <1> QED  BY <1>1, <1>2, <1>3, PTL DEF Spec

\* The variables keep their types, whatever the callbacks do.
THEOREM RegistryTypes == Careful => (Spec => []TypeOK)
  <1> SUFFICES ASSUME Careful PROVE Spec => []TypeOK  OBVIOUS
  <1>1. Init => RegistryInv  BY RegistryStartsEmpty
  <1>2. RegistryInv /\ [Next]_vars => RegistryInv'  BY RegistryStepIsSafe
  <1>3. RegistryInv => TypeOK
    BY DEF RegistryInv, TablesOK, CountsOK, OthersOK, TypeOK
  <1> QED  BY <1>1, <1>2, <1>3, PTL DEF Spec

-----------------------------------------------------------------------------
(* Each walk under way, not the innermost alone, has seen or has still to   *)
(* come to what it owes, and comes to nothing it has seen: pairs over the   *)
(* closures must not leave one to be met again among the functions.         *)

WalkOK(r, closures, functions) ==
    /\ r.inserted => r.spoiled
    /\ ~r.spoiled =>
         /\ r.seen \cap r.todo = {}
         /\ r.type = "Closure" => /\ r.owed \cap closures \subseteq r.seen \cup r.todo
                                  /\ r.seen \cap functions = {}
         /\ r.type = "Function" => /\ r.owed \cap closures \subseteq r.seen
                                   /\ r.owed \cap functions \subseteq r.seen \cup r.todo

Walks == \A i \in 1..Len(triggers) :
    LET r == triggers[i] IN WalkOK(r, tables["Closure"][r.event], tables["Function"][r.event])

\* What a step may leave of the walks: none ends, and nobody is called.
NoneEnds == Len(triggers') >= Len(triggers) /\ CalledAnew

LEMMA StackIs ==
  ASSUME triggers \in Seq(Trigger)
  PROVE  /\ Len(triggers) \in Nat /\ DOMAIN triggers = 1..Len(triggers)
         /\ \A i \in 1..Len(triggers) : triggers[i] \in Trigger
         /\ triggers # <<>> => Len(triggers) > 0 /\ Top = triggers[Len(triggers)]
  <1>1. triggers # <<>> => Len(triggers) > 0 /\ Top = triggers[Len(triggers)]
    BY EmptySeq DEF Top, Last
  <1> QED  BY <1>1

LEMMA FrontIs ==
  ASSUME triggers \in Seq(Trigger), triggers # <<>>
  PROVE  /\ Len(Front(triggers)) = Len(triggers) - 1
         /\ \A i \in 1..(Len(triggers) - 1) : Front(triggers)[i] = triggers[i]
  <1>1. Len(triggers) \in Nat /\ Len(triggers) > 0
        /\ \A i \in 1..(Len(triggers) - 1) : triggers[i] \in Trigger
    BY StackIs
  <1>2. /\ Len(Front(triggers)) = IF 1 <= Len(triggers) - 1 THEN Len(triggers) - 1 ELSE 0
        /\ \A i \in 1..(Len(triggers) - 1) : Front(triggers)[i] = triggers[1 + i - 1]
    BY <1>1, SubSeqProperties DEF Front
  <1>3. Len(Front(triggers)) = Len(triggers) - 1
    <2>1. ASSUME NEW n \in Nat, n > 0
          PROVE  (IF 1 <= n - 1 THEN n - 1 ELSE 0) = n - 1
      BY <2>1
    <2>2. Len(triggers) \in Nat /\ Len(triggers) > 0  BY <1>1, Zenon
    <2>3. (IF 1 <= Len(triggers) - 1 THEN Len(triggers) - 1 ELSE 0) = Len(triggers) - 1
      BY <2>1, <2>2, Zenon
    <2> QED  BY <1>2, <2>3, Zenon
  <1>4. ASSUME NEW i \in 1..(Len(triggers) - 1)  PROVE Front(triggers)[i] = triggers[i]
    <2>1. 1 + i - 1 = i  BY <1>1, <1>4
    <2> QED  BY <1>2, <1>4, <2>1
  <1> QED  BY <1>3, <1>4

LEMMA WithTopIs ==
  ASSUME triggers \in Seq(Trigger), triggers # <<>>, NEW r \in Trigger
  PROVE  /\ Len(WithTop(r)) = Len(triggers) /\ WithTop(r)[Len(triggers)] = r
         /\ \A i \in 1..(Len(triggers) - 1) : WithTop(r)[i] = triggers[i]
  <1>1. Len(triggers) \in Nat /\ Len(triggers) > 0  BY StackIs
  <1>2. Front(triggers) \in Seq(Trigger) /\ <<r>> \in Seq(Trigger)  BY TopIs
  <1>3. Len(Front(triggers)) = Len(triggers) - 1
        /\ \A i \in 1..(Len(triggers) - 1) : Front(triggers)[i] = triggers[i]
    BY FrontIs
  <1>4. Len(<<r>>) = 1 /\ <<r>>[1] = r  OBVIOUS
  <1> HIDE DEF WithTop
  <1>5. /\ Len(WithTop(r)) = Len(Front(triggers)) + 1
        /\ \A i \in 1..(Len(Front(triggers)) + 1) :
             WithTop(r)[i] = IF i <= Len(Front(triggers)) THEN Front(triggers)[i]
                             ELSE <<r>>[i - Len(Front(triggers))]
    BY <1>2, <1>4, ConcatProperties DEF WithTop
  <1> QED  BY <1>1, <1>3, <1>4, <1>5

\* While callbacks only go and the stack stays, the walks stay right.
LEMMA GoingIsSafe ==
  ASSUME RegistryInv, Walks, triggers' = triggers,
         \A t \in CallbackType, e \in Events : tables'[t][e] \subseteq tables[t][e]
  PROVE  Walks' /\ NoneEnds
  <1>1. triggers \in Seq(Trigger)  BY DEF RegistryInv, OthersOK
  <1>2. ASSUME NEW i \in 1..Len(triggers)
        PROVE  LET r == triggers[i]
               IN  WalkOK(r, tables'["Closure"][r.event], tables'["Function"][r.event])
    <2>1. triggers[i].event \in Events  BY <1>1, <1>2, StackIs DEF Trigger
    <2>2. WalkOK(triggers[i], tables["Closure"][triggers[i].event],
                              tables["Function"][triggers[i].event])
      BY DEF Walks
    <2> QED  BY <2>1, <2>2 DEF WalkOK, CallbackType
  <1>3. Len(triggers) \in Nat  BY <1>1, StackIs
  <1> QED  BY <1>2, <1>3 DEF Walks, NoneEnds, CalledAnew

\* The innermost walk goes on under what is left of the tables.
LEMMA TopGoesOn ==
  ASSUME RegistryInv, Walks, triggers # <<>>, NEW r \in Trigger, triggers' = WithTop(r),
         \A t \in CallbackType, e \in Events : tables'[t][e] \subseteq tables[t][e],
         WalkOK(r, tables'["Closure"][r.event], tables'["Function"][r.event]),
         r.running # Nobody /\ Top.running = Nobody /\ ~Top.spoiled => r.running \notin Top.seen
  PROVE  Walks' /\ NoneEnds
  <1>1. triggers \in Seq(Trigger)  BY DEF RegistryInv, OthersOK
  <1>2. /\ Len(triggers) \in Nat /\ Len(triggers) > 0 /\ Top = triggers[Len(triggers)]
        /\ DOMAIN triggers = 1..Len(triggers)
    BY <1>1, StackIs
  <1>3. /\ Len(triggers') = Len(triggers) /\ triggers'[Len(triggers)] = r
        /\ \A i \in 1..(Len(triggers) - 1) : triggers'[i] = triggers[i]
    BY <1>1, WithTopIs
  <1>4. ASSUME NEW i \in 1..Len(triggers)
        PROVE  WalkOK(triggers'[i], tables'["Closure"][triggers'[i].event],
                                    tables'["Function"][triggers'[i].event])
    <2>1. CASE i = Len(triggers)  BY <1>3, <2>1
    <2>2. CASE i # Len(triggers)
      <3>1. triggers'[i] = triggers[i] /\ triggers[i].event \in Events
        BY <1>1, <1>2, <1>3, <2>2, StackIs DEF Trigger
      <3>2. WalkOK(triggers[i], tables["Closure"][triggers[i].event],
                                tables["Function"][triggers[i].event])
        BY DEF Walks
      <3> QED  BY <3>1, <3>2 DEF WalkOK, CallbackType
    <2> QED  BY <2>1, <2>2
  <1>5. CalledAnew  BY <1>2, <1>3 DEF CalledAnew
  <1> QED  BY <1>2, <1>3, <1>4, <1>5 DEF Walks, NoneEnds

\* A new registration under walks: each either is spoiled or owes the owner nothing.
LEMMA PuttingIsSafe ==
  ASSUME RegistryInv, Walks, NEW t \in CallbackType, NEW e \in Events, NEW o \in Owners,
         PutCallback(t, e, o)
  PROVE  Walks' /\ NoneEnds
  <1> DEFINE Changed(r) ==
               IF r.event # e THEN r
               ELSE IF r.type = t /\ o \notin tables[t][e]
                 THEN [r EXCEPT !.inserted = TRUE, !.spoiled = TRUE,
                                !.seen = @ \ {o}, !.owed = @ \ {o}]
               ELSE [r EXCEPT !.seen = IF o \in tables[t][e] THEN @ ELSE @ \ {o},
                              !.owed = @ \ {o}]
  <1>1. triggers' = [i \in DOMAIN triggers |-> Changed(triggers[i])]
    BY DEF PutCallback
  <1>2. triggers \in Seq(Trigger) /\ triggers' \in Seq(Trigger) /\ TablesOK
    BY Putting DEF RegistryInv, OthersOK
  <1>3. \A u \in CallbackType, d \in Events :
          tables'[u][d] = IF d # e THEN tables[u][d]
                          ELSE IF u = t THEN tables[u][d] \cup {o} ELSE tables[u][d] \ {o}
    BY <1>2 DEF PutCallback, TablesOK
  <1>4. ASSUME NEW r \in Trigger,
               WalkOK(r, tables["Closure"][r.event], tables["Function"][r.event])
        PROVE  LET n == Changed(r)
               IN  /\ WalkOK(n, tables'["Closure"][n.event], tables'["Function"][n.event])
                   /\ n.running = r.running
    <2> DEFINE C == tables["Closure"][e]
               F == tables["Function"][e]
    <2>0. /\ r.event \in Events /\ r.type \in CallbackType /\ C \cap F = {}
          /\ "Closure" \in CallbackType /\ "Function" \in CallbackType
      BY <1>2, <1>4 DEF Trigger, TablesOK, CallbackType
    <2>1. CASE r.event # e  BY <1>3, <1>4, <2>0, <2>1
    <2>2. CASE r.event = e /\ r.type = t /\ o \notin tables[t][e]
      <3>1. Changed(r) = [r EXCEPT !.inserted = TRUE, !.spoiled = TRUE,
                                   !.seen = @ \ {o}, !.owed = @ \ {o}]
        BY <2>2
      <3>2. Changed(r).spoiled = TRUE /\ Changed(r).running = r.running
        BY <1>4, <3>1 DEF Trigger
      <3> QED  BY <3>2 DEF WalkOK
    <2>3. CASE r.event = e /\ ~(r.type = t /\ o \notin tables[t][e])
      <3> DEFINE n == Changed(r)
                 D == tables'["Closure"][e]
                 G == tables'["Function"][e]
      <3>1. n = [r EXCEPT !.seen = IF o \in tables[t][e] THEN @ ELSE @ \ {o},
                          !.owed = @ \ {o}]
        BY <2>3
      <3>2. /\ n.event = e /\ n.type = r.type /\ n.todo = r.todo /\ n.inserted = r.inserted
            /\ n.spoiled = r.spoiled /\ n.running = r.running
            /\ n.seen = (IF o \in tables[t][e] THEN r.seen ELSE r.seen \ {o})
            /\ n.owed = r.owed \ {o}
        BY <1>4, <2>3, <3>1 DEF Trigger
      <3>3. WalkOK(r, C, F)  BY <1>4, <2>3
      <3> HIDE DEF Changed, n
      <3>4. CASE t = "Closure"
        <4>1. D = C \cup {o} /\ G = F \ {o}  BY <1>3, <2>0, <3>4
        <4> HIDE DEF D, G
        <4>2. r.type = "Closure" => o \in C  BY <2>3, <3>4
        <4>3. WalkOK(n, D, G)
          BY <2>0, <3>2, <3>3, <3>4, <4>1, <4>2 DEF WalkOK, CallbackType
        <4> QED  BY <3>2, <4>3 DEF D, G, n
      <3>5. CASE t = "Function"
        <4>1. D = C \ {o} /\ G = F \cup {o}  BY <1>3, <2>0, <3>5
        <4> HIDE DEF D, G
        <4>2. r.type = "Function" => o \in F  BY <2>3, <3>5
        <4>3. WalkOK(n, D, G)
          BY <2>0, <3>2, <3>3, <3>5, <4>1, <4>2 DEF WalkOK, CallbackType
        <4> QED  BY <3>2, <4>3 DEF D, G, n
      <3> QED  BY <3>4, <3>5 DEF CallbackType
    <2> QED  BY <2>1, <2>2, <2>3
  <1> HIDE DEF Changed
  <1>5. /\ Len(triggers) \in Nat /\ DOMAIN triggers = 1..Len(triggers)
        /\ \A i \in 1..Len(triggers) : triggers[i] \in Trigger
    BY <1>2, StackIs
  <1>6. Len(triggers') = Len(triggers)  BY <1>1, <1>2, <1>5
  <1>7. \A i \in 1..Len(triggers) : triggers'[i] = Changed(triggers[i])  BY <1>1, <1>5
  <1>8. Walks'  BY <1>4, <1>5, <1>6, <1>7 DEF Walks
  <1>9. CalledAnew
    <2>1. \A i \in 1..Len(triggers) : triggers'[i].running = triggers[i].running
      BY <1>4, <1>5, <1>7 DEF Walks
    <2> QED  BY <1>5, <2>1 DEF CalledAnew
  <1> QED  BY <1>5, <1>6, <1>8, <1>9, SMTT(60) DEF NoneEnds

\* A new walk owes what is registered now, and has seen nothing.
LEMMA StartingIsSafe ==
  ASSUME RegistryInv, Walks, NEW e \in Events, TriggerEvent(e)
  PROVE  Walks' /\ NoneEnds
  <1> DEFINE w == Walk(e, "Closure")
  <1>1. triggers' = Append(triggers, w) /\ tables' = tables
    BY DEF TriggerEvent, registry
  <1>2. /\ Len(triggers) \in Nat /\ DOMAIN triggers = 1..Len(triggers)
        /\ \A i \in 1..Len(triggers) : triggers[i] \in Trigger
    BY StackIs DEF RegistryInv, OthersOK
  <1>3. w \in Trigger
    <2>1. tables["Closure"][e] \subseteq Owners /\ tables["Function"][e] \subseteq Owners
      BY DEF RegistryInv, TablesOK, CallbackType
    <2> QED  BY <2>1 DEF Walk, Trigger, Registered, CallbackType
  <1>4. w.event = e /\ WalkOK(w, tables["Closure"][e], tables["Function"][e])
    BY DEF Walk, WalkOK, Registered
  <1> HIDE DEF w
  <1>5. /\ Len(triggers') = Len(triggers) + 1 /\ triggers'[Len(triggers) + 1] = w
        /\ \A i \in 1..Len(triggers) : triggers'[i] = triggers[i]
    BY <1>1, <1>2, <1>3, AppendProperties DEF RegistryInv, OthersOK
  <1>6. Walks'
    <2> SUFFICES ASSUME NEW i \in 1..(Len(triggers) + 1)
                 PROVE  WalkOK(triggers'[i], tables["Closure"][triggers'[i].event],
                                             tables["Function"][triggers'[i].event])
      BY <1>1, <1>5 DEF Walks
    <2>1. CASE i = Len(triggers) + 1  BY <1>4, <1>5, <2>1
    <2>2. CASE i # Len(triggers) + 1
      <3>1. i \in 1..Len(triggers)  BY <1>2, <2>2
      <3> QED  BY <1>5, <3>1 DEF Walks
    <2> QED  BY <2>1, <2>2
  <1>7. CalledAnew  BY <1>2, <1>5 DEF CalledAnew
  <1> QED  BY <1>2, <1>5, <1>6, <1>7 DEF NoneEnds

\* What is known of the innermost walk.
LEMMA TopWalk ==
  ASSUME RegistryInv, Walks, triggers # <<>>
  PROVE  /\ Top \in Trigger /\ tables["Closure"][Top.event] \cap tables["Function"][Top.event] = {}
         /\ WalkOK(Top, tables["Closure"][Top.event], tables["Function"][Top.event])
  <1>1. triggers \in Seq(Trigger) /\ TablesOK  BY DEF RegistryInv, OthersOK
  <1>2. Len(triggers) \in 1..Len(triggers) /\ Top = triggers[Len(triggers)]  BY <1>1, StackIs
  <1>3. Top \in Trigger  BY <1>1, TopIs
  <1>4. Top.event \in Events  BY <1>3 DEF Trigger
  <1> QED  BY <1>1, <1>2, <1>3, <1>4 DEF Walks, TablesOK

\* pairs gives a key that the walk has not seen.
LEMMA CallingIsSafe ==
  ASSUME RegistryInv, Walks, Walking, NEW o \in NextKeys, triggers' = WithTop(Called(o)),
         \A t \in CallbackType, e \in Events : tables'[t][e] \subseteq tables[t][e]
  PROVE  Walks' /\ NoneEnds
  <1> DEFINE C == tables["Closure"][Top.event]
             F == tables["Function"][Top.event]
             D == tables'["Closure"][Top.event]
             G == tables'["Function"][Top.event]
             r == Called(o)
  <1>1. triggers # <<>> /\ Top.running = Nobody  BY DEF Walking
  <1>2. Top \in Trigger /\ C \cap F = {} /\ WalkOK(Top, C, F)  BY <1>1, TopWalk
  <1>3. /\ Top.event \in Events /\ "Closure" \in CallbackType /\ "Function" \in CallbackType
        /\ Top.type \in CallbackType
    BY <1>2 DEF Trigger, CallbackType
  <1>4. D \subseteq C /\ G \subseteq F  BY <1>3
  <1>5. o \in Owners
    BY <1>3 DEF NextKeys, RegistryInv, TablesOK
  <1>6. /\ r.event = Top.event /\ r.type = Top.type /\ r.todo = Top.todo \ {o} /\ r.running = o
        /\ r.seen = Top.seen \cup {o} /\ r.owed = Top.owed /\ r.inserted = Top.inserted
        /\ r.spoiled = Top.spoiled
    BY <1>2 DEF Called, Trigger
  <1>7. r \in Trigger  BY <1>2, <1>5 DEF Called, Trigger
  <1>8. ~Top.spoiled => /\ o \in Top.todo /\ o \notin Top.seen
                        /\ Top.type = "Closure" => o \in C /\ o \notin F
    BY <1>2 DEF NextKeys, WalkOK
  <1> HIDE DEF C, F, D, G, r
  <1>9. WalkOK(r, D, G)  BY <1>2, <1>3, <1>4, <1>6, <1>8 DEF WalkOK, CallbackType
  <1>10. WalkOK(r, tables'["Closure"][r.event], tables'["Function"][r.event])
    BY <1>6, <1>9 DEF D, G
  <1> QED  BY <1>1, <1>6, <1>7, <1>8, <1>10, TopGoesOn DEF r

\* A walk over the closures that ends has met all it owes of them; one over the functions too,
\* and returns.
LEMMA EndingIsSafe ==
  ASSUME RegistryInv, Walks, WalkEnds
  PROVE  Walks' /\ ReachedAll /\ CalledAnew
  <1> DEFINE C == tables["Closure"][Top.event]
             F == tables["Function"][Top.event]
             r == [Top EXCEPT !.type = "Function", !.inserted = FALSE, !.todo = F]
  <1>1. /\ triggers # <<>> /\ Top.running = Nobody /\ (Top.inserted \/ NextKeys = {})
        /\ tables' = tables /\ triggers \in Seq(Trigger)
    BY DEF WalkEnds, Walking, registry, RegistryInv, OthersOK
  <1>2. Top \in Trigger /\ C \cap F = {} /\ WalkOK(Top, C, F)  BY <1>1, TopWalk
  <1>3. /\ Top.event \in Events /\ Top.type \in CallbackType /\ Top.running = Nobody
        /\ "Function" \in CallbackType
    BY <1>1, <1>2 DEF Trigger, CallbackType
  <1>4. CASE Top.type = "Closure"
    <2>1. triggers' = WithTop(r)  BY <1>4 DEF WalkEnds
    <2>2. F \subseteq Owners  BY <1>3 DEF RegistryInv, TablesOK
    <2>3. r \in Trigger  BY <1>2, <1>3, <2>2 DEF Trigger
    <2>4. /\ r.event = Top.event /\ r.type = "Function" /\ r.todo = F /\ r.inserted = FALSE
          /\ r.seen = Top.seen /\ r.owed = Top.owed /\ r.spoiled = Top.spoiled
          /\ r.running = Nobody
      BY <1>2, <1>3 DEF Trigger
    <2>5. ~Top.spoiled => Top.todo \cap C = {}  BY <1>1, <1>2, <1>4 DEF NextKeys, WalkOK
    <2> HIDE DEF r, C, F
    <2>6. WalkOK(r, C, F)  BY <1>2, <1>4, <2>4, <2>5 DEF WalkOK
    <2>7. WalkOK(r, tables'["Closure"][r.event], tables'["Function"][r.event])
      BY <1>1, <2>4, <2>6 DEF C, F
    <2>8. \A t \in CallbackType, e \in Events : tables'[t][e] \subseteq tables[t][e]
      BY <1>1
    <2>9. Walks' /\ NoneEnds  BY <1>1, <2>1, <2>3, <2>4, <2>7, <2>8, TopGoesOn
    <2>10. Len(triggers) \in Nat /\ Len(triggers') = Len(triggers)
      BY <1>1, <2>1, <2>3, StackIs, WithTopIs
    <2> QED  BY <2>9, <2>10 DEF NoneEnds, ReachedAll
  <1>5. CASE Top.type # "Closure"
    <2>1. triggers' = Front(triggers) /\ Top.type = "Function"
      BY <1>3, <1>5, SMTT(60) DEF WalkEnds, CallbackType
    <2>2. /\ Len(triggers) \in Nat /\ Len(triggers') = Len(triggers) - 1
          /\ \A i \in 1..(Len(triggers) - 1) : triggers'[i] = triggers[i]
      BY <1>1, <2>1, StackIs, FrontIs, Zenon
    <2>3. Walks'  BY <1>1, <2>2 DEF Walks
    <2>4. triggers' \in Seq(Trigger)  BY <1>1, <2>1, TopIs
    <2>5. Len(triggers) \notin DOMAIN triggers'  BY <2>2, <2>4
    <2>6. CalledAnew  BY <2>5 DEF CalledAnew
    <2>7. ~Top.spoiled => Top.todo \cap F = {}  BY <1>1, <1>2, <2>1 DEF NextKeys, WalkOK
    <2>8. ~Top.spoiled => Top.owed \cap Registered(Top.event) \subseteq Top.seen
      BY <1>2, <2>1, <2>7 DEF WalkOK, Registered
    <2> QED  BY <2>3, <2>6, <2>8 DEF ReachedAll
  <1> QED  BY <1>4, <1>5

LEMMA WalksStep ==
  ASSUME Careful, RegistryInv, Walks, [Next]_vars
  PROVE  Walks' /\ ReachedAll /\ CalledAnew
  <1>0. triggers \in Seq(Trigger) /\ Len(triggers) \in Nat /\ TablesOK /\ TypeOK'
    <2>1. RegistryInv'  BY RegistryStepIsSafe
    <2> QED  BY <2>1, StackIs DEF RegistryInv, TablesOK, CountsOK, OthersOK, TypeOK
  <1>1. ASSUME NoneEnds  PROVE ReachedAll /\ CalledAnew
    <2>1. Len(triggers') \in Nat  BY <1>0 DEF TypeOK
    <2> QED  BY <1>0, <1>1, <2>1 DEF NoneEnds, ReachedAll
  <1>2. ASSUME NEW e, NEW o, tables' = Without(e, o)
        PROVE  \A t \in CallbackType, d \in Events : tables'[t][d] \subseteq tables[t][d]
    BY <1>0, <1>2 DEF Without, TablesOK
  <1>3. CASE UNCHANGED vars
    <2>1. tables' = tables /\ triggers' = triggers  BY <1>3 DEF vars, registry
    <2> QED  BY <1>1, <2>1, GoingIsSafe
  <1>4. ASSUME NEW t \in CallbackType, NEW e \in Events, NEW o \in Plain,
               RegisterFrameEventAndCallback(t, e, o)
        PROVE  Walks' /\ NoneEnds
    <2>1. o \in Owners  BY DEF Owners
    <2> QED  BY <1>4, <2>1, PuttingIsSafe DEF RegisterFrameEventAndCallback
  <1>5. ASSUME NEW e \in Events, NEW o \in Once, RegisterOnce(e, o)
        PROVE  Walks' /\ NoneEnds
    <2>1. o \in Owners /\ "Function" \in CallbackType  BY DEF Owners, CallbackType
    <2> QED  BY <1>5, <2>1, PuttingIsSafe DEF RegisterOnce
  <1>6. ASSUME NEW o \in All, ContinueAfterAllEvents(o)
        PROVE  Walks' /\ NoneEnds
    <2>1. triggers = <<>> /\ triggers' = <<>>  BY <1>6 DEF ContinueAfterAllEvents
    <2> QED  BY <2>1 DEF Walks, NoneEnds, CalledAnew
  <1>7. ASSUME NEW e \in Events, NEW o \in Plain, UnregisterFrameEventAndCallback(e, o)
        PROVE  Walks' /\ NoneEnds
    <2>1. tables' = Without(e, o) /\ triggers' = triggers
      BY <1>7 DEF UnregisterFrameEventAndCallback
    <2> QED  BY <1>2, <2>1, GoingIsSafe
  <1>8. ASSUME NEW o \in Owners, CallPlain(o) \/ CallOnce(o) \/ CallAll(o)
        PROVE  Walks' /\ NoneEnds
    <2>1. /\ Walking /\ o \in NextKeys /\ triggers' = WithTop(Called(o))
          /\ tables' = tables \/ tables' = Without(Top.event, o)
      BY <1>8 DEF CallPlain, CallOnce, CallAll, registry
    <2>2. \A t \in CallbackType, d \in Events : tables'[t][d] \subseteq tables[t][d]
      BY <1>2, <2>1
    <2> QED  BY <2>1, <2>2, CallingIsSafe
  <1>9. ASSUME CallbackReturns  PROVE Walks' /\ NoneEnds
    <2> DEFINE r == [Top EXCEPT !.running = Nobody]
    <2>1. triggers # <<>> /\ triggers' = WithTop(r) /\ tables' = tables
      BY <1>9 DEF CallbackReturns, registry
    <2>2. Top \in Trigger /\ WalkOK(Top, tables["Closure"][Top.event],
                                         tables["Function"][Top.event])
      BY <2>1, TopWalk
    <2>3. r \in Trigger /\ r.running = Nobody  BY <2>2 DEF Trigger
    <2>4. WalkOK(r, tables'["Closure"][r.event], tables'["Function"][r.event])
      BY <2>1, <2>2 DEF WalkOK, Trigger
    <2> HIDE DEF r
    <2>5. \A t \in CallbackType, d \in Events : tables'[t][d] \subseteq tables[t][d]
      BY <2>1
    <2> QED  BY <2>1, <2>3, <2>4, <2>5, TopGoesOn
  <1>10. CASE CallbackRaises \/ NextFails
    <2>1. Unwinds /\ triggers # <<>>  BY <1>10 DEF CallbackRaises, NextFails, Walking
    <2>2. /\ Len(triggers') \in Nat /\ Len(triggers') < Len(triggers)
          /\ DOMAIN triggers' = 1..Len(triggers')
          /\ \A i \in 1..Len(triggers') : triggers'[i] = triggers[i]
      BY <1>0, <2>1, UnwindsTo
    <2>3. tables' = tables  BY <2>1 DEF Unwinds, registry
    <2>4. Walks'  BY <1>0, <2>2, <2>3 DEF Walks
    <2>5. CalledAnew
      <3>1. Len(triggers) \notin DOMAIN triggers'  BY <1>0, <2>2
      <3> QED  BY <3>1 DEF CalledAnew
    <2>6. ReachedAll
      <3>1. CASE CallbackRaises  BY <3>1 DEF CallbackRaises, ReachedAll, Walking
      <3>2. CASE NextFails
        <4>1. Top.spoiled  BY <2>1, <3>2, TopWalk DEF NextFails, WalkOK
        <4> QED  BY <4>1 DEF ReachedAll
      <3> QED  BY <1>10, <3>1, <3>2
    <2> QED  BY <2>4, <2>5, <2>6
  <1>11. CASE WalkEnds  BY <1>11, EndingIsSafe
  <1> QED  BY <1>1, <1>3, <1>4, <1>5, <1>6, <1>7, <1>8, <1>9, <1>10, <1>11, StartingIsSafe DEF Next

\* A TriggerEvent that returns normally has called all that was registered before it and stayed
\* so, and none calls anything twice: Lua's pairs over the two tables of CallbackRegistry.lua,
\* for callbacks that unregister, register one another again, move between the tables, trigger
\* events and raise errors.  An error ends the walks it unwinds: what these had still to call
\* is not called, for TriggerEvent calls its callbacks without pcall.
THEOREM TriggersReachEach == Careful => (Spec => ReachesEveryCallback /\ CallsOnce)
  <1> SUFFICES ASSUME Careful PROVE Spec => ReachesEveryCallback /\ CallsOnce  OBVIOUS
  <1>1. Init => RegistryInv /\ Walks
    <2>1. Init => Walks  BY DEF Init, Walks
    <2> QED  BY <2>1, RegistryStartsEmpty
  <1>2. RegistryInv /\ Walks /\ [Next]_vars
          => RegistryInv' /\ Walks' /\ [ReachedAll]_vars /\ [CalledAnew]_vars
    BY RegistryStepIsSafe, WalksStep
  <1> QED  BY <1>1, <1>2, PTL DEF Spec, ReachesEveryCallback, CallsOnce
=============================================================================

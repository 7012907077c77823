--------------------------- MODULE ItemData_proofs ---------------------------
(***************************************************************************)
(* Proofs about ItemData, and about QuestData, which differs from it in    *)
(* how OnTick goes on: for every set of items, whichever of them the       *)
(* server knows, and any number of loading screens and reloads.            *)
(***************************************************************************)
EXTENDS QuestData, TLAPS

\* A sent request is owed; the backlog OnTick walks is owed; an entry whose
\* failure is being announced is one the server has no record of.
SentAreOwed == sent \subseteq OwedItems
BacklogIsOwed == pc = "send" => todo \subseteq OwedItems
FailingAreUnknown == \A i \in Items : entry[i] = "failing" => i \notin Exists

IInv == /\ TypeOK
        /\ SentAreOwed
        /\ BacklogIsOwed
        /\ FailingAreUnknown
        /\ SentCanComplete

-----------------------------------------------------------------------------
(* Type correctness.                                                       *)

LEMMA TypeInit == Init => TypeOK
  <1> SUFFICES ASSUME Init PROVE TypeOK  OBVIOUS
  <1>1. CacheTypeOK  BY DEF Init, CacheInit, CacheTypeOK, EntryStates
  <1>2. owed \in [Items -> Kinds \cup {"none"}]  BY DEF Init
  <1> QED  BY <1>1, <1>2 DEF Init, TypeOK, Stages

LEMMA AttachType ==
  ASSUME TypeOK, NEW i \in Items, Attach(i)
  PROVE  /\ entry' \in [Items -> EntryStates] /\ attached' \in SUBSET Items
         /\ held' \in SUBSET Items
         /\ wire' \in [Items -> Nat] /\ resp' \in [Items -> Nat]
  BY DEF TypeOK, CacheTypeOK, EntryStates, Attach, NewEntry, SendQuery

LEMMA FireType ==
  ASSUME NEW k \in Kinds, NEW i \in Items, NEW s \in BOOLEAN, Fire(k, i, s)
  PROVE  handler' \in BOOLEAN /\ fired' \in SUBSET (Kinds \X Items \X BOOLEAN)
  <1>1. <<k, i, s>> \in Kinds \X Items \X BOOLEAN  OBVIOUS
  <1>2. handler' \in BOOLEAN  BY DEF Fire
  <1>3. fired' = {<<k, i, s>>}  BY DEF Fire
  <1>4. fired' \in SUBSET (Kinds \X Items \X BOOLEAN)
    <2> HIDE DEF Kinds
    <2> QED  BY <1>1, <1>3
  <1> QED  BY <1>2, <1>4

LEMMA CompleteType ==
  ASSUME TypeOK, NEW i \in Items, NEW s \in BOOLEAN, CompleteOwed(i, s)
  PROVE  /\ owed' \in [Items -> Kinds \cup {"none"}]
         /\ sent' \in SUBSET Items
         /\ handler' \in BOOLEAN
         /\ fired' \in SUBSET (Kinds \X Items \X BOOLEAN)
  <1>1. CASE owed[i] = "none"
    BY <1>1 DEF TypeOK, CompleteOwed, Silent, reqVars
  <1>2. CASE owed[i] # "none"
    <2>1. owed[i] \in Kinds  BY <1>2 DEF TypeOK
    <2>2. Fire(owed[i], i, s)  BY <1>2 DEF CompleteOwed
    <2>3. /\ owed' \in [Items -> Kinds \cup {"none"}]
          /\ sent' \in SUBSET Items
      BY <1>2 DEF TypeOK, CompleteOwed
    <2> QED  BY <2>1, <2>2, <2>3, FireType
  <1> QED  BY <1>1, <1>2

LEMMA TrackType ==
  ASSUME TypeOK, NEW i \in Items, NEW m \in BOOLEAN, TrackItem(i, m)
  PROVE  /\ owed' \in [Items -> Kinds \cup {"none"}]
         /\ sent' \in SUBSET Items
         /\ handler' \in BOOLEAN
         /\ fired' \in SUBSET (Kinds \X Items \X BOOLEAN)
         /\ entry' \in [Items -> EntryStates] /\ attached' \in SUBSET Items
         /\ held' \in SUBSET Items
         /\ wire' \in [Items -> Nat] /\ resp' \in [Items -> Nat]
  <1>1. CASE Loaded(i)
    <2>1. /\ handler' \in BOOLEAN
          /\ fired' \in SUBSET (Kinds \X Items \X BOOLEAN)
      <3>1. CASE m
        BY <1>1, <3>1 DEF TrackItem, Silent, TypeOK
      <3>2. CASE ~m
        <4>1. Fire("explicit", i, TRUE)  BY <1>1, <3>2 DEF TrackItem
        <4> QED  BY <4>1, FireType DEF Kinds
      <3> QED  BY <3>1, <3>2
    <2> QED
      BY <1>1, <2>1 DEF TrackItem, TypeOK, CacheTypeOK, reqVars, cacheVars
  <1>2. CASE ~Loaded(i)
    <2>1. Record(i, m) /\ Silent  BY <1>2 DEF TrackItem
    <2>2. owed' \in [Items -> Kinds \cup {"none"}]
      BY <2>1 DEF Record, Upgraded, TypeOK, Kinds
    <2>3. CASE i \notin sent /\ inWorld
      <3>1. Attach(i) /\ sent' = sent \cup {i}  BY <2>1, <2>3 DEF Record
      <3> QED  BY <2>1, <2>2, <3>1, AttachType DEF Silent, TypeOK
    <2>4. CASE ~(i \notin sent /\ inWorld)
      BY <2>1, <2>2, <2>4 DEF Record, Silent, TypeOK, CacheTypeOK, cacheVars
    <2> QED  BY <2>3, <2>4
  <1> QED  BY <1>1, <1>2

LEMMA TypeStep == TypeOK /\ [Next]_vars => TypeOK'
  <1> SUFFICES ASSUME TypeOK, [Next]_vars PROVE TypeOK'  OBVIOUS
  <1>1. ASSUME NEW i \in Items, NEW m \in BOOLEAN, Track(i, m) PROVE TypeOK'
    BY <1>1, TrackType DEF Track, TypeOK, CacheTypeOK, worldVars, tickVars
  <1>2. CASE HandlerReturns
    BY <1>2 DEF HandlerReturns, DeleteFailed, TypeOK, CacheTypeOK, EntryStates,
                worldVars, reqVars, tickVars
  <1>3. ASSUME NEW i \in Items, Deliver(i) PROVE TypeOK'
    <2>1. /\ entry' \in [Items -> EntryStates]
          /\ resp' \in [Items -> Nat]
          /\ UNCHANGED <<held, wire>>
      <3>1. FillOrFail(i, i \in attached /\ owed[i] # "none")
        BY <1>3 DEF Deliver
      <3>2. PICK e \in EntryStates : entry' = [entry EXCEPT ![i] = e]
        BY <3>1 DEF FillOrFail, TypeOK, CacheTypeOK, EntryStates
      <3>3. entry' \in [Items -> EntryStates]
        BY <3>2 DEF TypeOK, CacheTypeOK
      <3> QED  BY <3>1, <3>3 DEF FillOrFail, TypeOK, CacheTypeOK
    <2>2. attached' \in SUBSET Items
      BY <1>3 DEF Deliver, TypeOK, CacheTypeOK
    <2>3. /\ owed' \in [Items -> Kinds \cup {"none"}]
          /\ sent' \in SUBSET Items
          /\ handler' \in BOOLEAN
          /\ fired' \in SUBSET (Kinds \X Items \X BOOLEAN)
      <3>1. CASE entry[i] = "pending" /\ i \in attached
        <4>1. CompleteOwed(i, i \in Exists)  BY <1>3, <3>1 DEF Deliver
        <4>2. (i \in Exists) \in BOOLEAN  OBVIOUS
        <4> HIDE DEF TypeOK, CompleteOwed
        <4> QED  BY <4>1, <4>2, CompleteType
      <3>2. CASE ~(entry[i] = "pending" /\ i \in attached)
        BY <1>3, <3>2 DEF Deliver, Silent, TypeOK, reqVars
      <3> QED  BY <3>1, <3>2
    <2> QED  BY <1>3, <2>1, <2>2, <2>3
             DEF Deliver, TypeOK, CacheTypeOK, worldVars, tickVars
  <1>4. CASE TickStarts
    BY <1>4 DEF TickStarts, Silent, TypeOK, CacheTypeOK, Stages, cacheVars,
                worldVars, reqVars
  <1>5. ASSUME NEW i \in Items, ResendLost(i) PROVE TypeOK'
    <2>1. CASE Loaded(i)
      <3>1. CompleteOwed(i, TRUE) /\ UNCHANGED cacheVars
        BY <1>5, <2>1 DEF ResendLost
      <3> QED  BY <1>5, <3>1, CompleteType
               DEF ResendLost, TypeOK, CacheTypeOK, cacheVars, worldVars
    <2>2. CASE ~Loaded(i)
      BY <1>5, <2>2 DEF ResendLost, BareQuery, SendQuery, Silent, TypeOK,
                        CacheTypeOK, worldVars, reqVars
    <2> QED  BY <2>1, <2>2
  <1>6. CASE EnterPrefetch \/ PrefetchStarts
    BY <1>6, ItemAssumption
       DEF EnterPrefetch, PrefetchStarts, Silent, TypeOK, CacheTypeOK, Stages,
           cacheVars, worldVars, reqVars
  <1>7. ASSUME NEW i \in Items, PrefetchOwned(i) PROVE TypeOK'
    <2>1. TrackItem(i, TRUE)  BY <1>7 DEF PrefetchOwned
    <2> QED  BY <1>7, <2>1, TrackType
             DEF PrefetchOwned, TypeOK, CacheTypeOK, worldVars
  <1>8. CASE EnterSend
    BY <1>8 DEF EnterSend, OwedItems, Silent, TypeOK, CacheTypeOK, Stages,
                cacheVars, worldVars, reqVars
  <1>9. ASSUME NEW i \in Items, SendWaiting(i) PROVE TypeOK'
    <2> DEFINE kind == Upgraded(owed[i], owed[i] = "implicit")
    <2>1. kind \in Kinds  BY DEF Upgraded, Kinds
    <2>2. CASE Loaded(i)
      <3>1. Fire(kind, i, TRUE)  BY <1>9, <2>2 DEF SendWaiting
      <3>2. fired' \in SUBSET (Kinds \X Items \X BOOLEAN) /\ handler' \in BOOLEAN
        BY <2>1, <3>1, FireType
      <3> QED  BY <1>9, <2>2, <3>2
               DEF SendWaiting, TypeOK, CacheTypeOK, cacheVars, worldVars
    <2>3. CASE ~Loaded(i)
      <3>1. Attach(i) /\ owed' = [owed EXCEPT ![i] = kind]
        BY <1>9, <2>3 DEF SendWaiting
      <3>2. owed' \in [Items -> Kinds \cup {"none"}]  BY <2>1, <3>1 DEF TypeOK
      <3> HIDE DEF kind
      <3> QED  BY <1>9, <2>3, <3>1, <3>2, AttachType
               DEF SendWaiting, Silent, TypeOK, CacheTypeOK, worldVars
    <2> QED  BY <2>2, <2>3
  <1>10. CASE TickEnds
    BY <1>10 DEF TickEnds, Silent, TypeOK, CacheTypeOK, Stages, cacheVars,
                 worldVars, reqVars
  <1>11. CASE PrepareForReload
    <2>1. owed' \in [Items -> Kinds \cup {"none"}]
      BY <1>11 DEF PrepareForReload
    <2>2. CacheTypeOK'
      BY <1>11 DEF PrepareForReload, TypeOK, CacheTypeOK, cacheVars, worldVars
    <2>3. sent' \in SUBSET Items /\ prefetched' \in BOOLEAN
      BY <1>11 DEF PrepareForReload
    <2>4. reloads' \in Nat  BY <1>11 DEF PrepareForReload, TypeOK
    <2>5. /\ fired' \in SUBSET (Kinds \X Items \X BOOLEAN)
          /\ handler' \in BOOLEAN
      BY <1>11 DEF PrepareForReload, Silent, TypeOK
    <2> QED  BY <1>11, <2>1, <2>2, <2>3, <2>4, <2>5 DEF PrepareForReload, TypeOK
  <1>12. CASE Network
    BY <1>12 DEF Network, ServerAnswers, ServerDrops, Silent, TypeOK,
                 CacheTypeOK, worldVars, reqVars, tickVars
  <1>13. CASE Pump
    BY <1>13 DEF Pump, PumpHeld, SendQuery, Silent, TypeOK, CacheTypeOK,
                 worldVars, reqVars, tickVars
  <1>14. CASE EngineLookup
    BY <1>14 DEF EngineLookup, EngineFetches, NewEntry, SendQuery, Silent,
                 TypeOK, CacheTypeOK, EntryStates, worldVars, reqVars, tickVars
  <1>15. CASE World
    <2>1. inWorld' \in BOOLEAN /\ serverIn' \in BOOLEAN
      <3>1. CASE ServerTakesOut
        BY <3>1 DEF ServerTakesOut, TypeOK, CacheTypeOK
      <3>2. CASE ClientLeaves
        BY <3>2 DEF ClientLeaves, TypeOK, CacheTypeOK
      <3>3. CASE ServerPutsIn
        BY <3>3 DEF ServerPutsIn, TypeOK, CacheTypeOK
      <3>4. CASE ClientEnters
        BY <3>4 DEF ClientEnters, TypeOK, CacheTypeOK
      <3> QED  BY <1>15, <3>1, <3>2, <3>3, <3>4 DEF World
    <2>2. transfers' \in Nat
      BY <1>15 DEF World, ServerTakesOut, ClientLeaves, ServerPutsIn,
                   ClientEnters, TypeOK, CacheTypeOK
    <2> QED  BY <1>15, <2>1, <2>2 DEF World, Silent, TypeOK, CacheTypeOK,
                                      cacheVars, reqVars, tickVars
  <1>16. CASE UNCHANGED vars
    BY <1>16 DEF vars, TypeOK, CacheTypeOK, cacheVars, worldVars, reqVars, tickVars
  <1> QED
    BY <1>1, <1>2, <1>3, <1>4, <1>5, <1>6, <1>7, <1>8, <1>9, <1>10, <1>11, <1>12,
       <1>13, <1>14, <1>15, <1>16 DEF Next, OnTick

\* The variables of the model have their types in every reachable state.
THEOREM TypeCorrect == Spec => []TypeOK
  BY TypeInit, TypeStep, PTL DEF Spec

-----------------------------------------------------------------------------
(* A sent request can complete.  SentCanComplete is not inductive by itself: *)
(* the step that fills an entry settles the request only if it is owed, so   *)
(* SentAreOwed is needed beside it, and a failing entry must be one the      *)
(* server does not know.                                                     *)

LEMMA AttachEffect ==
  ASSUME TypeOK, NEW i \in Items, Attach(i)
  PROVE  /\ attached' = attached \cup {i}
         /\ \A j \in Items : j # i => entry'[j] = entry[j]
         /\ entry'[i] = IF entry[i] = "absent" THEN "pending" ELSE entry[i]
  BY DEF TypeOK, CacheTypeOK, Attach, NewEntry

LEMMA DeliverEffect ==
  ASSUME TypeOK, NEW i \in Items, Deliver(i)
  PROVE  /\ \A j \in Items : j # i => entry'[j] = entry[j]
         /\ entry[i] # "pending" => entry'[i] = entry[i]
         /\ entry[i] = "pending" /\ i \in Exists => entry'[i] = "loaded"
         /\ entry[i] = "pending" /\ i \notin Exists
              => entry'[i] \in {"failing", "absent"}
  <1>1. FillOrFail(i, i \in attached /\ owed[i] # "none")  BY DEF Deliver
  <1> QED  BY <1>1 DEF FillOrFail, TypeOK, CacheTypeOK

LEMMA SettleEffect ==
  ASSUME TypeOK, NEW i \in Items, NEW s, CompleteOwed(i, s)
  PROVE  /\ owed' = [owed EXCEPT ![i] = "none"]
         /\ owed[i] # "none" => sent' = sent \ {i}
         /\ owed[i] = "none" => sent' = sent
  BY DEF TypeOK, CompleteOwed, reqVars

LEMMA TrackEffect ==
  ASSUME TypeOK, NEW i \in Items, NEW m \in BOOLEAN, TrackItem(i, m)
  PROVE  \/ UNCHANGED <<reqVars, cacheVars>>
         \/ /\ ~Loaded(i)
            /\ owed' = [owed EXCEPT ![i] = Upgraded(@, m)]
            /\ \/ sent' = sent /\ UNCHANGED cacheVars
               \/ sent' = sent \cup {i} /\ Attach(i)
  BY DEF TrackItem, Record

Core == SentAreOwed /\ FailingAreUnknown /\ SentCanComplete

LEMMA AttachKeepsCore ==
  ASSUME TypeOK, Core, NEW i \in Items, ~Loaded(i), Attach(i),
         sent' = sent \cup {i},
         \A j \in Items : owed[j] # "none" => owed'[j] # "none",
         owed'[i] # "none"
  PROVE  Core'
  <1>1. SentAreOwed'
    BY DEF Core, SentAreOwed, OwedItems, TypeOK
  <1>2. FailingAreUnknown'
    BY AttachEffect DEF Core, FailingAreUnknown
  <1>3. SentCanComplete'
    <2> SUFFICES ASSUME NEW j \in sent' \cap Exists
                 PROVE  entry'[j] = "pending" /\ j \in attached'
      BY DEF SentCanComplete
    <2>1. CASE j = i
      <3>1. entry[i] \in {"absent", "pending"}
        BY <2>1 DEF Loaded, Core, FailingAreUnknown, TypeOK, CacheTypeOK,
                    EntryStates
      <3> QED  BY <2>1, <3>1, AttachEffect
    <2>2. CASE j # i
      BY <2>2, AttachEffect DEF Core, SentCanComplete, TypeOK
    <2> QED  BY <2>1, <2>2
  <1> QED  BY <1>1, <1>2, <1>3 DEF Core

LEMMA TrackKeepsCore ==
  ASSUME TypeOK, Core, NEW i \in Items, NEW m \in BOOLEAN, TrackItem(i, m)
  PROVE  Core' /\ \A j \in Items : owed[j] # "none" => owed'[j] # "none"
  <1>1. CASE UNCHANGED <<reqVars, cacheVars>>
    BY <1>1 DEF Core, SentAreOwed, OwedItems, FailingAreUnknown,
                SentCanComplete, reqVars, cacheVars
  <1>2. CASE /\ ~Loaded(i)
             /\ owed' = [owed EXCEPT ![i] = Upgraded(@, m)]
             /\ \/ sent' = sent /\ UNCHANGED cacheVars
                \/ sent' = sent \cup {i} /\ Attach(i)
    <2>1. \A j \in Items : owed[j] # "none" => owed'[j] # "none"
      BY <1>2 DEF Upgraded, TypeOK
    <2>2. owed'[i] # "none"  BY <1>2 DEF Upgraded, TypeOK
    <2>3. CASE sent' = sent /\ UNCHANGED cacheVars
      BY <2>1, <2>3 DEF Core, SentAreOwed, OwedItems, FailingAreUnknown,
                        SentCanComplete, cacheVars
    <2>4. CASE sent' = sent \cup {i} /\ Attach(i)
      BY <1>2, <2>1, <2>2, <2>4, AttachKeepsCore
    <2> QED  BY <1>2, <2>1, <2>3, <2>4
  <1> QED  BY <1>1, <1>2, TrackEffect

LEMMA CoreStep == IInv /\ [Next]_vars => Core' /\ BacklogIsOwed'
  <1> SUFFICES ASSUME IInv, [Next]_vars PROVE Core' /\ BacklogIsOwed'
    OBVIOUS
  <1> USE DEF IInv
  <1>a. Core  BY DEF Core
  <1>1. ASSUME NEW i \in Items, NEW m \in BOOLEAN, Track(i, m)
        PROVE  Core' /\ BacklogIsOwed'
    <2>1. TrackItem(i, m) /\ UNCHANGED tickVars  BY <1>1 DEF Track
    <2> QED  BY <1>a, <2>1, TrackKeepsCore
             DEF BacklogIsOwed, OwedItems, tickVars, TypeOK
  <1>2. CASE HandlerReturns
    BY <1>2 DEF HandlerReturns, DeleteFailed, Core, SentAreOwed, OwedItems,
                FailingAreUnknown, SentCanComplete, BacklogIsOwed, TypeOK,
                CacheTypeOK, reqVars, tickVars
  <1>3. ASSUME NEW i \in Items, Deliver(i) PROVE Core' /\ BacklogIsOwed'
    <2>1. BacklogIsOwed'
      BY <1>3 DEF Deliver, Idle, BacklogIsOwed, tickVars
    <2>2. CASE entry[i] = "pending" /\ i \in attached
      <3>1. CompleteOwed(i, i \in Exists) /\ attached' = attached \ {i}
        BY <1>3, <2>2 DEF Deliver
      <3>2. sent' = sent \ {i} /\ owed' = [owed EXCEPT ![i] = "none"]
        BY <3>1, SettleEffect DEF SentAreOwed, OwedItems
      <3> QED  BY <1>3, <2>1, <2>2, <3>1, <3>2, DeliverEffect
               DEF Core, SentAreOwed, OwedItems, FailingAreUnknown,
                   SentCanComplete, TypeOK
    <2>3. CASE ~(entry[i] = "pending" /\ i \in attached)
      <3>1. UNCHANGED reqVars /\ attached' \in {attached, attached \ {i}}
        BY <1>3, <2>3 DEF Deliver
      <3>2. i \notin sent \cap Exists  BY <2>3 DEF SentCanComplete
      <3> QED  BY <1>3, <2>1, <3>1, <3>2, DeliverEffect
               DEF Core, SentAreOwed, OwedItems, FailingAreUnknown,
                   SentCanComplete, TypeOK, reqVars
    <2> QED  BY <2>2, <2>3
  <1>4. CASE TickStarts \/ EnterPrefetch \/ PrefetchStarts \/ TickEnds
    BY <1>4, <1>a DEF TickStarts, EnterPrefetch, PrefetchStarts, TickEnds,
                InStage, Core, SentAreOwed, OwedItems, FailingAreUnknown,
                SentCanComplete, BacklogIsOwed, cacheVars, reqVars
  <1>5. ASSUME NEW i \in Items, ResendLost(i) PROVE Core' /\ BacklogIsOwed'
    <2>1. BacklogIsOwed'  BY <1>5 DEF ResendLost, InStage, BacklogIsOwed
    <2>2. CASE Loaded(i)
      <3>1. CompleteOwed(i, TRUE) /\ UNCHANGED cacheVars
        BY <1>5, <2>2 DEF ResendLost
      <3>2. sent' = sent \ {i} /\ owed' = [owed EXCEPT ![i] = "none"]
        BY <3>1, SettleEffect DEF SentAreOwed, OwedItems
      <3> QED  BY <2>1, <3>1, <3>2
               DEF Core, SentAreOwed, OwedItems, FailingAreUnknown,
                   SentCanComplete, TypeOK, cacheVars
    <2>3. CASE ~Loaded(i)
      BY <1>5, <2>1, <2>3
         DEF ResendLost, BareQuery, Core, SentAreOwed, OwedItems,
             FailingAreUnknown, SentCanComplete, reqVars
    <2> QED  BY <2>2, <2>3
  <1>6. ASSUME NEW i \in Items, PrefetchOwned(i) PROVE Core' /\ BacklogIsOwed'
    <2>1. TrackItem(i, TRUE)  BY <1>6 DEF PrefetchOwned
    <2>2. BacklogIsOwed'  BY <1>6 DEF PrefetchOwned, InStage, BacklogIsOwed
    <2> QED  BY <1>a, <2>1, <2>2, TrackKeepsCore
  <1>7. CASE EnterSend
    BY <1>7 DEF EnterSend, InStage, Core, SentAreOwed, OwedItems,
                FailingAreUnknown, SentCanComplete, BacklogIsOwed, cacheVars,
                reqVars
  <1>8. ASSUME NEW i \in Items, SendWaiting(i) PROVE Core' /\ BacklogIsOwed'
    <2> DEFINE kind == Upgraded(owed[i], owed[i] = "implicit")
    <2>1. kind # "none"  BY DEF Upgraded
    <2>2. todo' = todo \ {i} /\ pc = "send" /\ pc' = pc
      BY <1>8 DEF SendWaiting, InStage
    <2>3. CASE Loaded(i)
      <3>1. /\ owed' = [owed EXCEPT ![i] = "none"] /\ sent' = sent \ {i}
            /\ UNCHANGED cacheVars
        BY <1>8, <2>3 DEF SendWaiting
      <3> QED  BY <2>2, <3>1
               DEF Core, SentAreOwed, OwedItems, FailingAreUnknown,
                   SentCanComplete, BacklogIsOwed, TypeOK, cacheVars
    <2>4. CASE ~Loaded(i)
      <3>1. /\ owed' = [owed EXCEPT ![i] = kind] /\ sent' = sent \cup {i}
            /\ Attach(i)
        BY <1>8, <2>4 DEF SendWaiting
      <3> HIDE DEF kind
      <3>2. \A j \in Items : owed[j] # "none" => owed'[j] # "none"
        BY <2>1, <3>1 DEF TypeOK
      <3>3. owed'[i] # "none"  BY <2>1, <3>1 DEF TypeOK
      <3>4. Core'  BY <1>a, <2>4, <3>1, <3>2, <3>3, AttachKeepsCore
      <3>5. BacklogIsOwed'
        BY <2>2, <3>2 DEF BacklogIsOwed, OwedItems, TypeOK
      <3> QED  BY <3>4, <3>5
    <2> QED  BY <2>3, <2>4
  <1>9. CASE PrepareForReload
    BY <1>9 DEF PrepareForReload, Idle, Core, SentAreOwed, FailingAreUnknown,
                SentCanComplete, BacklogIsOwed, cacheVars
  <1>10. CASE Network
    BY <1>10 DEF Network, ServerAnswers, ServerDrops, Core, SentAreOwed,
                 OwedItems, FailingAreUnknown, SentCanComplete, BacklogIsOwed,
                 reqVars, tickVars
  <1>11. CASE Pump
    BY <1>11 DEF Pump, PumpHeld, Core, SentAreOwed, OwedItems,
                 FailingAreUnknown, SentCanComplete, BacklogIsOwed, reqVars,
                 tickVars
  <1>12. CASE EngineLookup
    BY <1>12 DEF EngineLookup, EngineFetches, NewEntry, Core, SentAreOwed,
                 OwedItems, FailingAreUnknown, SentCanComplete, BacklogIsOwed,
                 TypeOK, CacheTypeOK, reqVars, tickVars
  <1>13. CASE World \/ UNCHANGED vars
    BY <1>13 DEF World, Core, SentAreOwed, OwedItems, FailingAreUnknown,
                 SentCanComplete, BacklogIsOwed, cacheVars, reqVars, tickVars,
                 vars
  <1> QED
    BY <1>1, <1>2, <1>3, <1>4, <1>5, <1>6, <1>7, <1>8, <1>9, <1>10, <1>11,
       <1>12, <1>13 DEF Next, OnTick

LEMMA InductiveInvariant == Spec => []IInv
  <1>1. Init => IInv
    <2>1. Init => TypeOK  BY TypeInit
    <2> QED  BY <2>1 DEF IInv, Init, CacheInit, SentAreOwed, BacklogIsOwed,
                         FailingAreUnknown, SentCanComplete
  <1>2. IInv /\ [Next]_vars => IInv'
    BY TypeStep, CoreStep DEF IInv, Core
  <1> QED  BY <1>1, <1>2, PTL DEF Spec

\* Whatever the loading screens, reloads and handlers do, a request that was
\* sent for a record the server has keeps its callback on an unloaded entry.
THEOREM SentRequestsCanComplete == Spec => []SentCanComplete
  BY InductiveInvariant, PTL DEF IInv

-----------------------------------------------------------------------------
(* Requests made out of the world are sent in it, and no others wait.      *)

Waiting == OwedItems \ sent

\* OnTick works in the world only; what waits when it gets there is what its walk over the
\* backlog has still to visit.
WaitInv == /\ pc # "idle" => inWorld /\ wasInWorld
           /\ pc = "idle" => ~entered
           /\ inWorld /\ wasInWorld /\ ~entered => Waiting = {}
           /\ pc = "send" => Waiting \subseteq todo

LEMMA TrackLeavesNone ==
  ASSUME TypeOK, inWorld, NEW i \in Items, NEW m \in BOOLEAN, TrackItem(i, m)
  PROVE  Waiting' \subseteq Waiting
  <1>1. CASE Loaded(i)  BY <1>1 DEF TrackItem, Waiting, OwedItems, reqVars
  <1>2. CASE ~Loaded(i)
    <2>1. owed' = [owed EXCEPT ![i] = Upgraded(@, m)]
      BY <1>2 DEF TrackItem, Record
    <2>2. sent' = sent \cup {i}
      BY <1>2 DEF TrackItem, Record
    <2> QED  BY <2>1, <2>2 DEF Waiting, OwedItems, TypeOK
  <1> QED  BY <1>1, <1>2

LEMMA CompleteLeavesNone ==
  ASSUME TypeOK, NEW i \in Items, NEW s \in BOOLEAN, CompleteOwed(i, s)
  PROVE  Waiting' \subseteq Waiting
  BY DEF CompleteOwed, Waiting, OwedItems, TypeOK, reqVars

LEMMA WaitStep == TypeOK /\ WaitInv /\ [Next]_vars => WaitInv'
  <1> SUFFICES ASSUME TypeOK, WaitInv, [Next]_vars PROVE WaitInv'  OBVIOUS
  <1>a. ASSUME Waiting' \subseteq Waiting,
               UNCHANGED <<inWorld, wasInWorld, entered, pc, todo>>
        PROVE  WaitInv'
    BY <1>a DEF WaitInv
  <1>b. ASSUME UNCHANGED reqVars PROVE Waiting' = Waiting
    BY <1>b DEF reqVars, Waiting, OwedItems
  <1>1. ASSUME NEW i \in Items, NEW m \in BOOLEAN, Track(i, m) PROVE WaitInv'
    <2>1. TrackItem(i, m) /\ UNCHANGED <<worldVars, tickVars>>  BY <1>1 DEF Track
    <2>2. CASE inWorld
      BY <2>1, <2>2, <1>a, TrackLeavesNone DEF worldVars, tickVars
    <2>3. CASE ~inWorld
      BY <2>1, <2>3 DEF WaitInv, worldVars, tickVars
    <2> QED  BY <2>2, <2>3
  <1>2. CASE HandlerReturns
    BY <1>2, <1>a, <1>b DEF HandlerReturns, worldVars, tickVars
  <1>3. ASSUME NEW i \in Items, Deliver(i) PROVE WaitInv'
    <2>1. CompleteOwed(i, i \in Exists) \/ UNCHANGED reqVars  BY <1>3 DEF Deliver
    <2>2. (i \in Exists) \in BOOLEAN  OBVIOUS
    <2>3. Waiting' \subseteq Waiting  BY <2>1, <2>2, <1>b, CompleteLeavesNone
    <2> QED  BY <1>3, <2>3, <1>a DEF Deliver, worldVars, tickVars
  <1>4. CASE TickStarts
    <2>1. Waiting' = Waiting  BY <1>4, <1>b DEF TickStarts
    <2> QED  BY <1>4, <2>1 DEF TickStarts, Idle, WaitInv, worldVars, TypeOK, CacheTypeOK
  <1>5. ASSUME NEW i \in Items, ResendLost(i) PROVE WaitInv'
    <2>1. Waiting' \subseteq Waiting
      BY <1>5, <1>b, CompleteLeavesNone DEF ResendLost
    <2> QED  BY <1>5, <2>1 DEF ResendLost, InStage, WaitInv, worldVars
  <1>6. CASE EnterPrefetch \/ PrefetchStarts
    <2>1. Waiting' = Waiting  BY <1>6, <1>b DEF EnterPrefetch, PrefetchStarts
    <2> QED  BY <1>6, <2>1 DEF EnterPrefetch, PrefetchStarts, InStage, WaitInv, worldVars
  <1>7. ASSUME NEW i \in Items, PrefetchOwned(i) PROVE WaitInv'
    <2>1. InStage("prefetch") /\ TrackItem(i, TRUE)  BY <1>7 DEF PrefetchOwned
    <2>2. inWorld  BY <2>1 DEF InStage, WaitInv
    <2>3. Waiting' \subseteq Waiting  BY <2>1, <2>2, TrackLeavesNone
    <2> QED  BY <1>7, <2>1, <2>3 DEF PrefetchOwned, InStage, WaitInv, worldVars
  <1>8. CASE EnterSend
    <2>1. Waiting' = Waiting  BY <1>8, <1>b DEF EnterSend
    <2> QED  BY <1>8, <2>1 DEF EnterSend, InStage, WaitInv, Waiting, worldVars
  <1>9. ASSUME NEW i \in Items, SendWaiting(i) PROVE WaitInv'
    <2>1. Waiting' \subseteq Waiting \ {i}
      <3>1. CASE Loaded(i)
        BY <1>9, <3>1 DEF SendWaiting, Waiting, OwedItems, TypeOK
      <3>2. CASE ~Loaded(i)
        BY <1>9, <3>2 DEF SendWaiting, Waiting, OwedItems, TypeOK
      <3> QED  BY <3>1, <3>2
    <2> QED  BY <1>9, <2>1 DEF SendWaiting, InStage, WaitInv, worldVars
  <1>10. CASE TickEnds
    <2>1. Waiting' = Waiting  BY <1>10, <1>b DEF TickEnds
    <2> QED  BY <1>10, <2>1 DEF TickEnds, InStage, WaitInv, worldVars
  <1>11. CASE PrepareForReload
    <2>1. Waiting' = {}  BY <1>11 DEF PrepareForReload, Waiting, OwedItems
    <2> QED  BY <1>11, <2>1 DEF PrepareForReload, WaitInv, worldVars
  <1>12. CASE Network \/ Pump \/ EngineLookup
    BY <1>12, <1>a, <1>b DEF Network, Pump, EngineLookup, worldVars, tickVars
  <1>13. CASE World
    <2>1. Waiting' = Waiting  BY <1>13, <1>b DEF World
    <2> QED  BY <1>13, <2>1 DEF World, ServerTakesOut, ClientLeaves, ServerPutsIn,
                                 ClientEnters, Idle, WaitInv, tickVars
  <1>14. CASE UNCHANGED vars
    BY <1>14, <1>a, <1>b DEF vars, worldVars, tickVars
  <1> QED  BY <1>1, <1>2, <1>3, <1>4, <1>5, <1>6, <1>7, <1>8, <1>9, <1>10,
              <1>11, <1>12, <1>13, <1>14
           DEF Next, OnTick

LEMMA WaitInit == Init => WaitInv
  BY DEF Init, CacheInit, WaitInv

\* Once OnTick has seen the player in the world, every request made is sent, the ones made
\* in its own events too.
THEOREM NoneWaits == Spec => []NoneWaitsInWorld
  <1>1. WaitInv => NoneWaitsInWorld
    BY DEF WaitInv, Waiting, NoneWaitsInWorld
  <1> QED  BY <1>1, WaitInit, WaitStep, TypeCorrect, PTL DEF Spec

-----------------------------------------------------------------------------
(* ItemData implements LoadPromise, its records being the loaded entries.  *)

known == {i \in Items : Loaded(i)}

LEMMA AttachKeepsLoaded ==
  ASSUME TypeOK, NEW i \in Items, Attach(i)
  PROVE  known \subseteq known'
  BY AttachEffect DEF known, Loaded

LEMMA LoadedStays ==
  ASSUME IInv, [Next]_vars
  PROVE  known \subseteq known'
  <1> USE DEF IInv
  <1> SUFFICES ASSUME NEW j \in Items, entry[j] = "loaded"
               PROVE  entry'[j] = "loaded"
    BY DEF known, Loaded
  <1>1. ASSUME NEW i \in Items, NEW m \in BOOLEAN, TrackItem(i, m)
        PROVE  entry'[j] = "loaded"
    BY <1>1, TrackEffect, AttachEffect DEF cacheVars
  <1>2. ASSUME NEW i \in Items, NEW m \in BOOLEAN,
               Track(i, m) \/ PrefetchOwned(i)
        PROVE  entry'[j] = "loaded"
    BY <1>1, <1>2 DEF Track, PrefetchOwned
  <1>3. CASE HandlerReturns
    BY <1>3 DEF HandlerReturns, DeleteFailed
  <1>4. ASSUME NEW i \in Items, Deliver(i) PROVE entry'[j] = "loaded"
    BY <1>4, DeliverEffect
  <1>5. CASE TickStarts \/ EnterPrefetch \/ PrefetchStarts \/ EnterSend
             \/ TickEnds \/ PrepareForReload \/ World \/ UNCHANGED vars
    BY <1>5 DEF TickStarts, EnterPrefetch, PrefetchStarts, EnterSend, TickEnds,
                PrepareForReload, World, vars, cacheVars
  <1>6. ASSUME NEW i \in Items, ResendLost(i) PROVE entry'[j] = "loaded"
    BY <1>6 DEF ResendLost, BareQuery, cacheVars
  <1>7. ASSUME NEW i \in Items, SendWaiting(i) PROVE entry'[j] = "loaded"
    <2>1. Attach(i) \/ UNCHANGED cacheVars  BY <1>7 DEF SendWaiting
    <2> QED  BY <2>1, AttachEffect DEF cacheVars
  <1>8. CASE Network \/ Pump
    BY <1>8 DEF Network, ServerAnswers, ServerDrops, Pump, PumpHeld
  <1>9. CASE EngineLookup
    BY <1>9 DEF EngineLookup, EngineFetches, NewEntry, TypeOK, CacheTypeOK
  <1> QED
    BY <1>2, <1>3, <1>4, <1>5, <1>6, <1>7, <1>8, <1>9 DEF Next, OnTick

LEMMA PromiseTrack ==
  ASSUME TypeOK, NEW i \in Items, NEW m \in BOOLEAN, TrackItem(i, m)
  PROVE  Promise!Quiet \/ Promise!Ask(i) \/ Promise!AnswerAtOnce(i)
  <1>1. CASE Loaded(i)
    BY <1>1 DEF TrackItem, Silent, Fire, reqVars, Promise!Quiet,
                Promise!AnswerAtOnce
  <1>2. CASE ~Loaded(i)
    <2>1. fired' = {} /\ owed' = [owed EXCEPT ![i] = Upgraded(@, m)]
      BY <1>2 DEF TrackItem, Record, Silent
    <2>2. CASE ~m
      <3>1. Upgraded(owed[i], m) = "explicit"  BY <2>2 DEF Upgraded
      <3> QED  BY <2>1, <3>1 DEF Promise!Ask
    <2>3. CASE m /\ owed[i] = "none"
      BY <2>1, <2>3 DEF Upgraded, Promise!Ask
    <2>4. CASE m /\ owed[i] # "none"
      <3>1. Upgraded(owed[i], m) = owed[i]  BY <2>4 DEF Upgraded
      <3> QED  BY <2>1, <3>1 DEF TypeOK, Promise!Quiet
    <2> QED  BY <2>2, <2>3, <2>4
  <1> QED  BY <1>1, <1>2

LEMMA PromiseStep == IInv /\ [Next]_vars => [Promise!Next]_(Promise!pvars)
  <1> SUFFICES ASSUME IInv, [Next]_vars PROVE [Promise!Next]_(Promise!pvars)
    OBVIOUS
  <1> USE DEF IInv
  <1>a. known \subseteq known'  BY LoadedStays
  <1>b. ASSUME \/ Promise!Quiet \/ Promise!ForgetAll
               \/ \E i \in Items : \/ Promise!Ask(i) \/ Promise!AnswerAtOnce(i)
                                   \/ Promise!Settle(i)
        PROVE  [Promise!Next]_(Promise!pvars)
    BY <1>a, <1>b DEF Promise!Next, known
  <1>1. ASSUME NEW i \in Items, NEW m \in BOOLEAN, Track(i, m)
        PROVE  [Promise!Next]_(Promise!pvars)
    <2>1. TrackItem(i, m)  BY <1>1 DEF Track
    <2> QED  BY <1>b, <2>1, PromiseTrack
  <1>2. ASSUME NEW i \in Items, Deliver(i)
        PROVE  [Promise!Next]_(Promise!pvars)
    <2>1. CASE entry[i] = "pending" /\ i \in attached /\ owed[i] # "none"
      <3>1. CompleteOwed(i, i \in Exists)  BY <1>2, <2>1 DEF Deliver
      <3>2. /\ owed' = [owed EXCEPT ![i] = "none"]
            /\ fired' = {<<owed[i], i, i \in Exists>>}
        BY <2>1, <3>1 DEF CompleteOwed, Fire
      <3>3. (i \in Exists) <=> (i \in known')
        BY <1>2, <2>1, DeliverEffect DEF known, Loaded
      <3>4. (i \in Exists) = (i \in known')  BY <3>3
      <3>5. owed[i] \in {"implicit", "explicit"}
        BY <2>1 DEF TypeOK, Kinds
      <3>6. fired' = {<<owed[i], i, i \in known'>>}  BY <3>2, <3>4
      <3>7. Promise!Settle(i)
        BY <3>2, <3>5, <3>6 DEF Promise!Settle, Promise!Requests, known
      <3> QED  BY <1>b, <3>7
    <2>2. CASE ~(entry[i] = "pending" /\ i \in attached /\ owed[i] # "none")
      <3>1. Promise!Quiet
        BY <1>2, <2>2 DEF Deliver, CompleteOwed, Silent, reqVars, Promise!Quiet
      <3> QED  BY <1>b, <3>1
    <2> QED  BY <2>1, <2>2
  <1>3. ASSUME NEW i \in Items, ResendLost(i)
        PROVE  [Promise!Next]_(Promise!pvars)
    <2>1. CASE Loaded(i) /\ owed[i] # "none"
      <3>1. CompleteOwed(i, TRUE) /\ UNCHANGED cacheVars
        BY <1>3, <2>1 DEF ResendLost
      <3>2. i \in known' /\ i \in known
        BY <2>1, <3>1 DEF known, Loaded, cacheVars
      <3>3. (i \in known') = TRUE  BY <3>2
      <3>4. Promise!Settle(i)
        BY <2>1, <3>1, <3>3 DEF CompleteOwed, Fire, TypeOK, Kinds, known,
                                Promise!Settle, Promise!Requests
      <3> QED  BY <1>b, <3>4
    <2>2. CASE ~(Loaded(i) /\ owed[i] # "none")
      <3>1. Promise!Quiet
        BY <1>3, <2>2 DEF ResendLost, CompleteOwed, Silent, reqVars,
                          Promise!Quiet
      <3> QED  BY <1>b, <3>1
    <2> QED  BY <2>1, <2>2
  <1>4. ASSUME NEW i \in Items, PrefetchOwned(i)
        PROVE  [Promise!Next]_(Promise!pvars)
    <2>1. TrackItem(i, TRUE)  BY <1>4 DEF PrefetchOwned
    <2> QED  BY <1>b, <2>1, PromiseTrack
  <1>5. ASSUME NEW i \in Items, SendWaiting(i)
        PROVE  [Promise!Next]_(Promise!pvars)
    <2>1. owed[i] # "none"
      BY <1>5 DEF SendWaiting, InStage, BacklogIsOwed, OwedItems
    <2>2. Upgraded(owed[i], owed[i] = "implicit") = owed[i]
      BY <2>1 DEF Upgraded, TypeOK, Kinds
    <2>3. CASE Loaded(i)
      <3>1. /\ owed' = [owed EXCEPT ![i] = "none"]
            /\ fired' = {<<owed[i], i, TRUE>>}
            /\ UNCHANGED cacheVars
        BY <1>5, <2>2, <2>3 DEF SendWaiting, Fire
      <3>2. (i \in known') = TRUE
        BY <2>3, <3>1 DEF known, Loaded, cacheVars
      <3>3. Promise!Settle(i)
        BY <2>1, <3>1, <3>2 DEF TypeOK, Kinds, known, Promise!Settle,
                                Promise!Requests
      <3> QED  BY <1>b, <3>3
    <2>4. CASE ~Loaded(i)
      <3>1. Promise!Quiet
        BY <1>5, <2>2, <2>4 DEF SendWaiting, Silent, TypeOK, Promise!Quiet
      <3> QED  BY <1>b, <3>1
    <2> QED  BY <2>3, <2>4
  <1>6. CASE PrepareForReload
    <2>1. Promise!ForgetAll
      BY <1>6 DEF PrepareForReload, Silent, Promise!ForgetAll
    <2> QED  BY <1>b, <2>1
  <1>7. CASE \/ HandlerReturns \/ TickStarts \/ EnterPrefetch \/ PrefetchStarts
             \/ EnterSend \/ TickEnds \/ Network \/ Pump \/ EngineLookup \/ World
    <2>1. Promise!Quiet
      BY <1>7 DEF HandlerReturns, TickStarts, EnterPrefetch, PrefetchStarts,
                  EnterSend, TickEnds, Network, Pump, EngineLookup, World,
                  Silent, reqVars, Promise!Quiet
    <2> QED  BY <1>b, <2>1
  <1>8. CASE UNCHANGED vars
    BY <1>8 DEF vars, reqVars, cacheVars, Promise!pvars, Loaded
  <1> QED
    BY <1>1, <1>2, <1>3, <1>4, <1>5, <1>6, <1>7, <1>8 DEF Next, OnTick

\* ItemData implements the promise the library makes to Lua: one event per
\* request, of the kind asked for, with an honest success flag.
THEOREM KeepsPromise == Spec => PromiseKept
  <1>1. Init => Promise!Init
    BY DEF Init, CacheInit, Loaded, Promise!Init
  <1> QED
    BY <1>1, InductiveInvariant, PromiseStep, PTL
       DEF Spec, PromiseKept, Promise!Spec

-----------------------------------------------------------------------------
(* QuestData: all its steps but two are steps of ItemData, and those two   *)
(* only move OnTick on.                                                    *)

LEMMA QuestSteps ==
  ASSUME [QuestNext]_vars
  PROVE  [Next]_vars \/ QuestTickStarts \/ WaitingNext
  <1>1. ASSUME NEW q \in Items,
               Request(q) \/ OnQuestLoaded(q) \/ AskAgain(q) \/ Send(q)
        PROVE  Next
    BY <1>1 DEF Request, OnQuestLoaded, AskAgain, Send, Next, OnTick
  <1> QED  BY <1>1 DEF QuestNext, Next, OnTick

LEMMA QuestMovesOn ==
  ASSUME IInv, QuestTickStarts \/ WaitingNext
  PROVE  IInv' /\ Promise!Quiet /\ known' = known
  <1> USE DEF IInv
  <1>1. /\ UNCHANGED <<cacheVars, worldVars, reqVars, prefetched, reloads>>
        /\ fired' = {} /\ handler' = handler
    BY DEF QuestTickStarts, WaitingNext, Silent
  <1>2. /\ pc' \in Stages /\ todo' \in SUBSET Items
        /\ wasInWorld' \in BOOLEAN /\ entered' \in BOOLEAN
    <2>1. CASE QuestTickStarts
      BY <2>1 DEF QuestTickStarts, TypeOK, CacheTypeOK, Stages
    <2>2. CASE WaitingNext
      BY <2>2 DEF WaitingNext, OwedItems, TypeOK, Stages
    <2> QED  BY <2>1, <2>2
  <1>3. TypeOK'
    BY <1>1, <1>2 DEF TypeOK, CacheTypeOK, cacheVars, worldVars, reqVars
  <1>4. SentAreOwed' /\ FailingAreUnknown' /\ SentCanComplete'
    BY <1>1 DEF SentAreOwed, OwedItems, FailingAreUnknown, SentCanComplete,
                cacheVars, reqVars
  <1>5. BacklogIsOwed'
    <2>1. CASE QuestTickStarts
      BY <2>1, <1>1 DEF QuestTickStarts, Idle, BacklogIsOwed, OwedItems, reqVars
    <2>2. CASE WaitingNext
      BY <2>2, <1>1 DEF WaitingNext, BacklogIsOwed, OwedItems, reqVars
    <2> QED  BY <2>1, <2>2
  <1>6. Promise!Quiet  BY <1>1 DEF Promise!Quiet, reqVars
  <1>7. known' = known  BY <1>1 DEF known, Loaded, cacheVars
  <1> QED  BY <1>3, <1>4, <1>5, <1>6, <1>7

LEMMA QuestInvariant == QuestSpec => []IInv
  <1>1. Init => IInv
    <2>1. Init => TypeOK  BY TypeInit
    <2> QED  BY <2>1 DEF IInv, Init, CacheInit, SentAreOwed, BacklogIsOwed,
                         FailingAreUnknown, SentCanComplete
  <1>2. IInv /\ [QuestNext]_vars => IInv'
    <2>1. IInv /\ [Next]_vars => IInv'
      BY TypeStep, CoreStep DEF IInv, Core
    <2> QED  BY <2>1, QuestSteps, QuestMovesOn
  <1> QED  BY <1>1, <1>2, PTL DEF QuestSpec

\* A quest that was asked for and sent can still be answered, if the server has it.
THEOREM QuestRequestsCanComplete == QuestSpec => []SentCanComplete
  BY QuestInvariant, PTL DEF IInv

LEMMA QuestWaitStep == IInv /\ WaitInv /\ [QuestNext]_vars => WaitInv'
  <1> SUFFICES ASSUME IInv, WaitInv, [QuestNext]_vars PROVE WaitInv'  OBVIOUS
  <1>1. CASE [Next]_vars  BY <1>1, WaitStep DEF IInv
  <1>2. CASE QuestTickStarts
    BY <1>2 DEF QuestTickStarts, Idle, WaitInv, Waiting, OwedItems, worldVars, reqVars,
                IInv, TypeOK, CacheTypeOK
  <1>3. CASE WaitingNext
    BY <1>3 DEF WaitingNext, InStage, WaitInv, Waiting, OwedItems, worldVars, reqVars
  <1> QED  BY <1>1, <1>2, <1>3, QuestSteps

\* No quest asked for waits in the world either.
THEOREM NoQuestWaits == QuestSpec => []NoneWaitsInWorld
  <1>1. WaitInv => NoneWaitsInWorld
    BY DEF WaitInv, Waiting, NoneWaitsInWorld
  <1> QED  BY <1>1, WaitInit, QuestWaitStep, QuestInvariant, PTL DEF QuestSpec

LEMMA QuestPromiseStep == IInv /\ [QuestNext]_vars => [Promise!Next]_(Promise!pvars)
  <1> SUFFICES ASSUME IInv, [QuestNext]_vars PROVE [Promise!Next]_(Promise!pvars)
    OBVIOUS
  <1>1. CASE [Next]_vars  BY <1>1, PromiseStep
  <1>2. CASE QuestTickStarts \/ WaitingNext
    <2>1. Promise!Quiet /\ known \subseteq known'  BY <1>2, QuestMovesOn
    <2> QED  BY <2>1 DEF Promise!Next, known
  <1> QED  BY <1>1, <1>2, QuestSteps

\* QuestData implements the same promise: one QUEST_DATA_LOAD_RESULT per request, with an
\* honest success flag.
THEOREM QuestKeepsPromise == QuestSpec => QuestPromiseKept
  <1>1. Init => Promise!Init
    BY DEF Init, CacheInit, Loaded, Promise!Init
  <1> QED
    BY <1>1, QuestInvariant, QuestPromiseStep, PTL
       DEF QuestSpec, QuestPromiseKept, Promise!Spec
=============================================================================

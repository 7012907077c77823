------------------------------- MODULE Services -------------------------------
(***************************************************************************)
(* The three parts of the library whose steps are interleaved with the     *)
(* callbacks of scripts, and which share no state: the subscribers of the  *)
(* frame tick (tick/), the session cvars (CVarTemp) and the        *)
(* callback registry (EventRegistry).  `part` says which one a behaviour   *)
(* is about; the others stand still.                                       *)
(***************************************************************************)
EXTENDS Integers, Sequences, FiniteSets, SequencesExt, FiniteSetTheorems, FunctionTheorems,
        SequenceTheorems, TLAPS

CONSTANTS
    TheParts,
    MaxSounds, HandlersPlay, Stacks, Amounts, ItemOf, Quests, MaxRebuilds, MaxStimuli,
    CVars, Values, Refused, Default, MaxSetting, Coincidences, Reentrant,
    Events, Plain, Once, All, MaxTriggers, MaxCount, MaxCalls, HandlesTwice

VARIABLES
    part,
    playing, nextSound, tracked, capacity, walk, finished, wanted,
    cursorType, itemGuid, money, items, lastRaw, lastState, cursorHandler, moved, event,
    inWorld, pending, bagHandler, unseen,
    questLog, snapshot, rebuilds, shownLog, left, told, todo, stimuli,
    exists, live, entries, landing, file, user,
    tables, counts, listening, triggers, received, used, fired, luaCalls

Sound    == INSTANCE SoundPlay
Cursor   == INSTANCE CursorChanged
Bag      == INSTANCE BagUpdateDelayed
Quest    == INSTANCE QuestRemoved WITH MaxDepth <- MaxRebuilds
CVar     == INSTANCE CVarTemp WITH MaxDepth <- MaxSetting
Registry == INSTANCE EventRegistry WITH MaxDepth <- MaxTriggers

-----------------------------------------------------------------------------
(* The event modules on the one Lua thread.  FireOnUpdate_h (src/src/tick/ *)
(* FrameTick.cpp) calls the subscribers after the engine's own OnUpdate,   *)
(* in an order nothing fixes; each may run event handlers, and a handler   *)
(* of one module calls into the others: it plays sounds, moves the cursor, *)
(* makes the quest log rebuild.  The audio thread runs beside all of it.   *)

FrameAssumption ==
    /\ Sound!SoundAssumption /\ Cursor!CursorAssumption
    /\ Quest!QuestAssumption
    /\ MaxStimuli \in Nat

sound  == <<playing, nextSound, tracked, capacity, walk, finished, wanted>>
cursor == <<cursorType, itemGuid, money, items, lastRaw, lastState,
            cursorHandler, moved, event>>
bag    == <<inWorld, pending, bagHandler, unseen>>
quest  == <<questLog, snapshot, rebuilds, shownLog, left, told>>
frameVars == <<sound, cursor, bag, quest, todo, stimuli>>

Subscribers == {"sound", "cursor", "bag"}

FrameTypeOK ==
    /\ Sound!SoundTypeOK /\ Cursor!CursorTypeOK /\ Bag!BagTypeOK
    /\ Quest!QuestTypeOK
    /\ todo \subseteq Subscribers
    /\ stimuli \in 0..MaxStimuli

FrameInit ==
    /\ Sound!Init /\ Cursor!Init /\ Bag!Init /\ Quest!Init
    /\ todo = {}
    /\ stimuli = 0

-----------------------------------------------------------------------------
(* Who is running.                                                         *)

InSubscriber == walk.at # "idle" \/ cursorHandler \/ bagHandler
InFrame == todo # {} \/ InSubscriber
SubscriberHandler == Sound!InHandler \/ cursorHandler \/ bagHandler

\* Lua runs: in the innermost handler, or between frames.
LuaRuns ==
    IF Quest!QuestActive THEN Quest!Firing
    ELSE IF InFrame THEN SubscriberHandler
    ELSE TRUE

\* The engine's own work: packets, clicks, its OnUpdate dispatch.
EngineRuns == ~InFrame /\ ~Quest!QuestActive

OnlySound  == UNCHANGED <<cursor, bag, quest>>
OnlyCursor == UNCHANGED <<sound, bag, quest>>
OnlyBag    == UNCHANGED <<sound, cursor, quest>>
OnlyQuest  == UNCHANGED <<sound, cursor, bag>>

Stimulus ==
    stimuli < MaxStimuli /\ stimuli' = stimuli + 1 /\ UNCHANGED todo
NoStimulus == UNCHANGED <<stimuli, todo>>

-----------------------------------------------------------------------------
(* Steps.                                                                  *)

LuaCalls ==
    /\ LuaRuns
    /\ \/ Stimulus /\ OnlySound /\ \E ask, starts \in BOOLEAN : Sound!Play(ask, starts)
       \/ Stimulus /\ OnlyCursor /\ \E guid \in Stacks : Cursor!PickUpItem(guid)
       \/ Stimulus /\ OnlyCursor /\ \E amount \in Amounts : Cursor!PickUpMoney(amount)
       \/ Stimulus /\ OnlyCursor /\ Cursor!ClearCursor
       \/ Stimulus /\ OnlyBag /\ Bag!BagUpdate
       \/ NoStimulus /\ OnlyQuest /\ Quest!Rebuild

EngineSteps ==
    /\ EngineRuns
    /\ \/ Stimulus /\ OnlyBag /\ Bag!ChangeWorld
       \/ Stimulus /\ OnlyCursor /\ Cursor!ItemGone
       \/ Stimulus /\ OnlyQuest
          /\ \E log \in SUBSET Quests : Quest!QuestLogChanges(log)
       \/ Stimulus /\ OnlySound /\ Sound!PrepareForReload

AudioThread ==
    \E id \in Sound!Handles : Sound!SoundEnds(id) /\ OnlySound /\ NoStimulus

\* FireOnUpdate_h: the engine's dispatch is over, the subscribers' turn.
FrameEnds ==
    /\ EngineRuns
    /\ todo' = Subscribers
    /\ UNCHANGED <<sound, cursor, bag, quest, stimuli>>

CallSubscriber(s) ==
    /\ s \in todo
    /\ ~InSubscriber
    /\ todo' = todo \ {s}
    /\ \/ s = "sound" /\ Sound!OnFrame /\ OnlySound
       \/ s = "cursor" /\ Cursor!OnTick /\ OnlyCursor
       \/ s = "bag" /\ Bag!OnFrame /\ OnlyBag
    /\ UNCHANGED stimuli

\* The subscriber in its turn goes on, or its handler returns.
SubscriberSteps ==
    /\ ~Quest!QuestActive
    /\ NoStimulus
    /\ \/ Sound!Visit /\ OnlySound
       \/ Sound!HandlerReturns /\ OnlySound
       \/ Sound!Resize /\ OnlySound
       \/ Cursor!HandlerReturns /\ OnlyCursor
       \/ Bag!HandlerReturns /\ OnlyBag

QuestHook ==
    /\ NoStimulus
    /\ OnlyQuest
    /\ Quest!Compare \/ Quest!HandlerReturns \/ Quest!TakeSnapshot

FrameNext ==
    \/ LuaCalls
    \/ EngineSteps
    \/ AudioThread
    \/ FrameEnds
    \/ \E s \in Subscribers : CallSubscriber(s)
    \/ SubscriberSteps
    \/ QuestHook

FrameSpec == FrameInit /\ [][FrameNext]_frameVars

-----------------------------------------------------------------------------
(* The three parts side by side.                                           *)

ASSUME ServicesAssumption ==
    /\ TheParts \subseteq {"frame", "cvars", "registry"}
    /\ FrameAssumption /\ CVar!CVarAssumption /\ Registry!RegistryAssumption

cvarVars     == <<exists, live, entries, landing, file, user>>
registryVars == <<tables, counts, listening, triggers, received, used, fired, luaCalls>>

vars == <<part, frameVars, cvarVars, registryVars>>

Init == part \in TheParts /\ FrameInit /\ CVar!Init /\ Registry!Init

Next ==
    \/ part = "frame" /\ FrameNext /\ UNCHANGED <<part, cvarVars, registryVars>>
    \/ part = "cvars" /\ CVar!Next /\ UNCHANGED <<part, frameVars, registryVars>>
    \/ part = "registry" /\ Registry!Next /\ UNCHANGED <<part, frameVars, cvarVars>>

Spec == Init /\ [][Next]_vars

-----------------------------------------------------------------------------
(* Properties; each is stated in its module.                               *)

\* The variables keep their types, and no cvar has two entries.
TypeOK == FrameTypeOK /\ CVar!TypeOK /\ Registry!TypeOK

\* A sound whose end was asked for is watched until its event fires (SoundPlay).
NoSoundForgotten == Sound!NoSoundForgotten

\* What changed since its last event is owed one: the cursor's content, a bag, the quest log
\* (CursorChanged, BagUpdateDelayed, QuestRemoved).
CursorShown == Cursor!CursorShown
NoBagUpdateLost == Bag!NoBagUpdateLost
ToldOfEachRemoval == Quest!ToldOfEachRemoval
ChangesAreTold == CursorShown /\ NoBagUpdateLost /\ ToldOfEachRemoval

\* An event that fires is true and new: a sound that ended, once; a cursor that held what
\* the last event said; bags in the world; a quest that is gone (the same modules).
FinishedOnce == Sound!FinishedOnce
CursorEventsChain == Cursor!CursorEventsChain
SettledBagsOnly == Bag!SettledBagsOnly
RemovedIsGone == Quest!RemovedIsGone
FrameEventsAreTrue == FinishedOnce /\ CursorEventsChain /\ SettledBagsOnly /\ RemovedIsGone

\* A session value is never written to the config file (CVarTemp).
NoTempLeaks == CVar!NoTempLeaks

\* The user's own choice is what is saved, and what RemoveTempCVar puts back (CVarTemp).
KeepsTheChoice == CVar!KeepsTheChoice

\* Whoever is registered for an engine event hears it, and a once callback once
\* (EventRegistry).
CallbacksHear == Registry!CallbacksHear

\* A trigger that returns normally reaches each callback, and any reaches each once at most
\* (EventRegistry).
TriggersReachOnce == Registry!ReachesEveryCallback /\ Registry!CallsOnce

-----------------------------------------------------------------------------
(* Of the frame, for any sounds, items and quests and any number of calls, *)
(* where handlers ask for no SOUNDKIT_FINISHED and rebuild no quest log:   *)
(* one subscriber is at work at a time, and a rebuild waits in a handler    *)
(* (TurnsKept), so a sound is never played inside the walk itself.          *)

TurnsKept ==
    /\ walk.at # "idle" => ~cursorHandler /\ ~bagHandler
    /\ ~(cursorHandler /\ bagHandler)
    /\ Quest!QuestActive => walk.at # "walk" /\ (InFrame => SubscriberHandler)

Settled ==
    /\ FrameAssumption /\ ~HandlersPlay /\ MaxRebuilds = 1
    /\ IsFiniteSet(Quests)

SoundStep ==
    \/ UNCHANGED sound
    \/ \E ask, starts \in BOOLEAN : Sound!Play(ask, starts) /\ walk.at # "walk"
    \/ \E id \in Sound!Handles : Sound!SoundEnds(id)
    \/ Sound!OnFrame \/ Sound!Visit \/ Sound!HandlerReturns \/ Sound!Resize
    \/ Sound!PrepareForReload

CursorStep ==
    \/ UNCHANGED cursor
    \/ \E guid \in Stacks : Cursor!PickUpItem(guid)
    \/ \E amount \in Amounts : Cursor!PickUpMoney(amount)
    \/ Cursor!ClearCursor \/ Cursor!ItemGone \/ Cursor!OnTick \/ Cursor!HandlerReturns

BagStep ==
    \/ UNCHANGED bag
    \/ Bag!BagUpdate \/ Bag!ChangeWorld \/ Bag!OnFrame \/ Bag!HandlerReturns

QuestStep ==
    \/ UNCHANGED quest
    \/ \E log \in SUBSET Quests : Quest!QuestLogChanges(log)
    \/ Quest!Rebuild \/ Quest!Compare \/ Quest!HandlerReturns \/ Quest!TakeSnapshot

\* Each step is a step of one part, and of the others none.
LEMMA StepsOfParts ==
  ASSUME TurnsKept, [FrameNext]_frameVars
  PROVE  SoundStep /\ CursorStep /\ BagStep /\ QuestStep
  <1> USE DEF SoundStep, CursorStep, BagStep, QuestStep, OnlySound, OnlyCursor, OnlyBag, OnlyQuest
  <1>1. CASE LuaCalls
    <2>1. walk.at # "walk"
      BY <1>1 DEF LuaCalls, LuaRuns, InFrame, InSubscriber, SubscriberHandler, TurnsKept,
         Sound!InHandler
    <2> QED  BY <1>1, <2>1 DEF LuaCalls
  <1>2. CASE EngineSteps  BY <1>2 DEF EngineSteps
  <1>3. CASE AudioThread  BY <1>3 DEF AudioThread
  <1>4. CASE FrameEnds  BY <1>4 DEF FrameEnds
  <1>5. CASE \E s \in Subscribers : CallSubscriber(s)  BY <1>5 DEF CallSubscriber
  <1>6. CASE SubscriberSteps  BY <1>6 DEF SubscriberSteps
  <1>7. CASE QuestHook  BY <1>7 DEF QuestHook
  <1>8. CASE UNCHANGED frameVars  BY <1>8 DEF frameVars
  <1> QED  BY <1>1, <1>2, <1>3, <1>4, <1>5, <1>6, <1>7, <1>8 DEF FrameNext

-----------------------------------------------------------------------------
(* The tracked sounds.  Active are the places whose ids are owed an event:  *)
(* all of them between frames, and in the walk those kept and those to come. *)

Active ==
    IF walk.at = "idle" THEN 1..Len(tracked)
    ELSE 1..walk.keep \cup walk.i..walk.n

Walks == [at: {"idle", "walk", "handler"}, i: Nat, n: Nat, keep: Nat, stale: BOOLEAN]

SoundInv ==
    /\ nextSound \in Nat
    /\ tracked \in Seq(Nat) /\ \A j \in 1..Len(tracked) : tracked[j] < nextSound
    /\ walk \in Walks
    /\ walk.at # "idle" =>
          /\ ~walk.stale
          /\ walk.n = Len(tracked) /\ walk.keep < walk.i /\ walk.i <= walk.n + 1
    /\ wanted = {tracked[j] : j \in Active}
    /\ \A j, k \in Active : tracked[j] = tracked[k] => j = k

LEMMA SoundStays ==
  ASSUME ~HandlersPlay, SoundInv, SoundStep
  PROVE  SoundInv'
  <1> USE DEF SoundInv
  <1> DEFINE L == Len(tracked)
  <1>a. L \in Nat /\ DOMAIN tracked = 1..L  OBVIOUS
  <1>1. CASE UNCHANGED sound  BY <1>1, SMTT(30) DEF sound, Active
  <1>2. CASE \E ask, starts \in BOOLEAN : Sound!Play(ask, starts) /\ walk.at # "walk"
    <2>1. PICK ask \in BOOLEAN, starts \in BOOLEAN : Sound!Play(ask, starts) /\ walk.at # "walk"
      BY <1>2
    <2>2. CASE ~(starts /\ ask)
      <3>1. UNCHANGED <<tracked, walk, wanted>> /\ (nextSound' = nextSound \/ nextSound' = nextSound + 1)
        BY <2>1, <2>2 DEF Sound!Play
      <3> QED  BY <3>1 DEF Active
    <2>3. CASE starts /\ ask
      <3>1. walk.at = "idle"  BY <2>1, <2>3 DEF Sound!Play, Sound!InHandler, Walks
      <3>2. /\ tracked' = Append(tracked, nextSound) /\ nextSound' = nextSound + 1
            /\ walk' = [walk EXCEPT !.stale = walk.stale]
            /\ wanted' = wanted \cup {nextSound}
        BY <2>1, <2>3, <3>1 DEF Sound!Play, Sound!InHandler, Walks
      <3>3. walk' = walk  BY <3>2 DEF Walks
      <3>4. /\ tracked' \in Seq(Nat) /\ Len(tracked') = L + 1
            /\ \A j \in 1..L : tracked'[j] = tracked[j]
            /\ tracked'[L + 1] = nextSound
        BY <3>2
      <3>5. Active = 1..L /\ Active' = 1..L \cup {L + 1}
        BY <1>a, <3>1, <3>3, <3>4 DEF Active
      <3>6. wanted' = {tracked'[j] : j \in Active'}  BY <1>a, <3>2, <3>4, <3>5
      <3>7. \A j \in 1..Len(tracked') : tracked'[j] < nextSound'  BY <1>a, <3>2, <3>4
      <3>8. \A j, k \in Active' : tracked'[j] = tracked'[k] => j = k
        BY <1>a, <3>4, <3>5, SMTT(30)
      <3>9. nextSound' \in Nat /\ tracked' \in Seq(Nat) /\ walk' \in Walks /\ walk'.at = "idle"
        BY <3>1, <3>2, <3>3, <3>4
      <3> QED  BY <3>6, <3>7, <3>8, <3>9
    <2> QED  BY <2>2, <2>3
  <1>3. CASE \E id \in Sound!Handles : Sound!SoundEnds(id)
    BY <1>3 DEF Sound!SoundEnds, Active
  <1>4. CASE Sound!OnFrame
    <2>0. UNCHANGED <<nextSound, tracked, wanted>> /\ walk.at = "idle"  BY <1>4 DEF Sound!OnFrame
    <2>1. CASE tracked = <<>>
      <3>1. walk' = walk  BY <1>4, <2>1 DEF Sound!OnFrame
      <3> QED  BY <2>0, <3>1 DEF Active
    <2>2. CASE tracked # <<>>
      <3>1. walk' = [at |-> "walk", i |-> 1, n |-> L, keep |-> 0, stale |-> FALSE]
        BY <1>4, <2>2 DEF Sound!OnFrame, Sound!Idle
      <3>2. Active = 1..L /\ Active' = 1..L  BY <1>a, <2>0, <3>1 DEF Active
      <3>3. walk' \in Walks  BY <1>a, <3>1 DEF Walks
      <3> QED  BY <1>a, <2>0, <3>1, <3>2, <3>3
    <2> QED  BY <2>1, <2>2
  <1>5. CASE Sound!Visit
    <2>0. walk.at = "walk" /\ walk.i <= walk.n /\ nextSound' = nextSound  BY <1>5 DEF Sound!Visit
    <2> DEFINE id == tracked[walk.i]
    <2>1. /\ walk.i \in 1..L /\ walk.keep \in Nat /\ walk.keep + 1 \in 1..L /\ walk.n = L
          /\ walk.keep < walk.i
      BY <1>a, <2>0 DEF Walks
    <2>2. id \in Nat /\ id < nextSound  BY <2>1, SMTT(30)
    <2>3. Active = 1..walk.keep \cup walk.i..L  BY <2>0, <2>1 DEF Active
    <2>4. Sound!Read(walk.i) = {id}  BY <2>0 DEF Sound!Read
    <2>5. CASE Sound!IsPlaying(id)
      <3>1. /\ tracked' = [tracked EXCEPT ![walk.keep + 1] = id]
            /\ walk' = [walk EXCEPT !.i = walk.i + 1, !.keep = walk.keep + 1]
            /\ wanted' = wanted
        BY <1>5, <2>4, <2>5 DEF Sound!Visit
      <3>2. /\ tracked' \in Seq(Nat) /\ Len(tracked') = L
            /\ \A j \in 1..L : tracked'[j] = IF j = walk.keep + 1 THEN id ELSE tracked[j]
        BY <2>1, <2>2, <3>1, ExceptSeq, SMTT(60)
      <3>3. /\ walk' \in Walks /\ walk'.at = "walk" /\ walk'.i = walk.i + 1
            /\ walk'.keep = walk.keep + 1 /\ walk'.n = L /\ ~walk'.stale
        <4>1. walk' = [at |-> "walk", i |-> walk.i + 1, n |-> L, keep |-> walk.keep + 1,
                       stale |-> FALSE]
          BY <2>0, <2>1, <3>1 DEF Walks
        <4>2. walk.i + 1 \in Nat /\ walk.keep + 1 \in Nat  BY <2>1, <1>a, SMTT(30)
        <4> QED  BY <1>a, <4>1, <4>2 DEF Walks
      <3>4. Active' = 1..(walk.keep + 1) \cup (walk.i + 1)..L  BY <3>3 DEF Active
      <3>5. \A j \in Active' : tracked'[j] = tracked[IF j = walk.keep + 1 THEN walk.i ELSE j]
                              /\ (IF j = walk.keep + 1 THEN walk.i ELSE j) \in Active
        <4> SUFFICES ASSUME NEW j \in Active'
                     PROVE  /\ tracked'[j] = tracked[IF j = walk.keep + 1 THEN walk.i ELSE j]
                            /\ (IF j = walk.keep + 1 THEN walk.i ELSE j) \in Active
          OBVIOUS
        <4>1. j \in 1..L  BY <1>a, <2>1, <3>4, SMTT(30)
        <4>2. CASE j = walk.keep + 1
          <5>1. walk.i \in Active  BY <1>a, <2>1, <2>3
          <5> QED  BY <3>2, <4>1, <4>2, <5>1
        <4>3. CASE j # walk.keep + 1
          <5>1. j \in Active  BY <1>a, <2>1, <2>3, <3>4, <4>1, <4>3, SMTT(60)
          <5> QED  BY <3>2, <4>1, <4>3, <5>1
        <4> QED  BY <4>2, <4>3
      <3>6. \A j \in Active : \E k \in Active' : tracked'[k] = tracked[j]
        <4> SUFFICES ASSUME NEW j \in Active  PROVE \E k \in Active' : tracked'[k] = tracked[j]
          OBVIOUS
        <4>1. CASE j = walk.i
          <5>1. walk.keep + 1 \in Active'  BY <2>1, <3>4
          <5> QED  BY <2>1, <3>2, <4>1, <5>1
        <4>2. CASE j # walk.i
          <5> HIDE DEF SoundInv, L
          <5>a. walk.i \in Nat /\ walk.keep \in Nat /\ walk.i <= L /\ walk.keep < walk.i /\ L \in Nat
            BY <1>a, <2>1
          <5>b. j \in 1..walk.keep \/ j \in walk.i..L  BY <2>3
          <5>c. j \in Nat /\ 1 <= j /\ j <= L /\ (j <= walk.keep \/ walk.i + 1 <= j)
            BY <4>2, <5>a, <5>b
          <5>1. j \in Active' /\ j # walk.keep + 1 /\ j \in 1..L  BY <3>4, <5>a, <5>c
          <5> QED  BY <3>2, <5>1
        <4> QED  BY <4>1, <4>2
      <3>7. wanted' = {tracked'[j] : j \in Active'}  BY <3>1, <3>5, <3>6, SMTT(30)
      <3>8. \A j, k \in Active' : tracked'[j] = tracked'[k] => j = k
        <4> SUFFICES ASSUME NEW j \in Active', NEW k \in Active', tracked'[j] = tracked'[k]
                     PROVE  j = k
          OBVIOUS
        <4>1. (IF j = walk.keep + 1 THEN walk.i ELSE j) = (IF k = walk.keep + 1 THEN walk.i ELSE k)
          BY <3>5
        <4>2. j # walk.keep + 1 => j # walk.i  BY <1>a, <2>1, <3>4, SMTT(60)
        <4>3. k # walk.keep + 1 => k # walk.i  BY <1>a, <2>1, <3>4, SMTT(60)
        <4> QED  BY <4>1, <4>2, <4>3
      <3>9. \A j \in 1..Len(tracked') : tracked'[j] < nextSound'
        BY <1>a, <2>0, <2>1, <2>2, <3>2
      <3>10. walk'.keep < walk'.i /\ walk'.i <= walk'.n + 1  BY <1>a, <2>1, <3>3, SMTT(60)
      <3> QED  BY <2>0, <3>2, <3>3, <3>7, <3>8, <3>9, <3>10
    <2>6. CASE ~Sound!IsPlaying(id)
      <3>1. /\ tracked' = tracked /\ wanted' = wanted \ {id}
            /\ walk' = [walk EXCEPT !.i = walk.i + 1, !.at = "handler"]
        BY <1>5, <2>4, <2>6 DEF Sound!Visit
      <3>2. /\ walk' \in Walks /\ walk'.at = "handler" /\ walk'.i = walk.i + 1
            /\ walk'.keep = walk.keep /\ walk'.n = L /\ ~walk'.stale
        <4>1. walk' = [at |-> "handler", i |-> walk.i + 1, n |-> L, keep |-> walk.keep,
                       stale |-> FALSE]
          BY <2>0, <2>1, <3>1 DEF Walks
        <4>2. walk.i + 1 \in Nat  BY <2>1, <1>a
        <4> QED  BY <1>a, <2>1, <4>1, <4>2 DEF Walks
      <3>3. Active' = 1..walk.keep \cup (walk.i + 1)..L  BY <3>2 DEF Active
      <3>4. Active' = Active \ {walk.i} /\ walk.i \in Active  BY <1>a, <2>1, <2>3, <3>3, SMTT(60)
      <3>5. wanted' = {tracked'[j] : j \in Active'}  BY <3>1, <3>4
      <3>6. walk'.keep < walk'.i /\ walk'.i <= walk'.n + 1  BY <1>a, <2>1, <3>2, SMTT(30)
      <3> QED  BY <2>0, <3>1, <3>2, <3>4, <3>5, <3>6
    <2> QED  BY <2>5, <2>6
  <1>6. CASE Sound!HandlerReturns
    <2>1. /\ walk.at = "handler" /\ walk' = [walk EXCEPT !.at = "walk"]
          /\ UNCHANGED <<nextSound, tracked, wanted>>
      BY <1>6 DEF Sound!HandlerReturns
    <2>2. walk' \in Walks /\ walk'.at = "walk" /\ walk'.i = walk.i /\ walk'.n = walk.n
          /\ walk'.keep = walk.keep /\ walk'.stale = walk.stale
      BY <2>1 DEF Walks
    <2>3. Active' = Active  BY <2>1, <2>2 DEF Active
    <2> QED  BY <2>1, <2>2, <2>3
  <1>7. CASE Sound!Resize
    <2>1. /\ walk.at = "walk" /\ walk.i > walk.n /\ walk' = Sound!Idle
          /\ tracked' = SubSeq(tracked, 1, walk.keep)
          /\ UNCHANGED <<nextSound, wanted>>
      BY <1>7 DEF Sound!Resize
    <2>2. walk.keep \in 0..L /\ walk.n = L /\ walk.i = L + 1  BY <1>a, <2>1 DEF Walks
    <2>3. /\ tracked' \in Seq(Nat) /\ Len(tracked') = walk.keep
          /\ \A j \in 1..walk.keep : tracked'[j] = tracked[j]
      BY <1>a, <2>1, <2>2, SMTT(30)
    <2>4. walk' \in Walks /\ walk'.at = "idle"  BY <2>1 DEF Walks, Sound!Idle
    <2>5. Active = 1..walk.keep /\ Active' = 1..walk.keep
      BY <1>a, <2>1, <2>2, <2>3, <2>4 DEF Active
    <2> QED  BY <2>1, <2>2, <2>3, <2>4, <2>5, SMTT(60)
  <1>8. CASE Sound!PrepareForReload
    <2>1. /\ walk.at = "idle" /\ walk' = walk /\ nextSound' = nextSound
          /\ tracked' = <<>> /\ wanted' = {}
      BY <1>8 DEF Sound!PrepareForReload
    <2>2. tracked' \in Seq(Nat) /\ Len(tracked') = 0  BY <2>1
    <2>3. Active' = {}  BY <2>1, <2>2 DEF Active
    <2> QED  BY <2>1, <2>2, <2>3
  <1> QED  BY <1>1, <1>2, <1>3, <1>4, <1>5, <1>6, <1>7, <1>8 DEF SoundStep

\* A sound that ends is in the walk, and its event is owed.
LEMMA SoundsEndOnce ==
  ASSUME SoundInv, SoundStep, walk.at = "walk", walk'.at = "handler"
  PROVE  \E id \in wanted \ playing : wanted' = wanted \ {id}
  <1>1. Sound!Visit
    <2>1. walk'.at # walk.at  OBVIOUS
    <2>2. ~UNCHANGED sound  BY <2>1 DEF sound
    <2>3. ~(\E ask, starts \in BOOLEAN : Sound!Play(ask, starts) /\ walk.at # "walk")  OBVIOUS
    <2>4. ~(\E id \in Sound!Handles : Sound!SoundEnds(id))  BY <2>1 DEF Sound!SoundEnds
    <2>5. ~Sound!OnFrame  BY DEF Sound!OnFrame
    <2>6. ~Sound!HandlerReturns  BY DEF Sound!HandlerReturns
    <2>7. ~Sound!Resize  BY DEF Sound!Resize, Sound!Idle
    <2>8. ~Sound!PrepareForReload  BY <2>1 DEF Sound!PrepareForReload
    <2> QED  BY <2>2, <2>3, <2>4, <2>5, <2>6, <2>7, <2>8 DEF SoundStep
  <1> DEFINE id == tracked[walk.i]
  <1>2. Sound!Read(walk.i) = {id}  BY DEF SoundInv, Sound!Read
  <1>3. ~Sound!IsPlaying(id)
    <2> SUFFICES ASSUME Sound!IsPlaying(id)  PROVE FALSE  OBVIOUS
    <2>1. walk' = [walk EXCEPT !.i = walk.i + 1, !.keep = walk.keep + 1]
      BY <1>1, <1>2 DEF Sound!Visit
    <2>2. walk'.at = walk.at  BY <2>1 DEF SoundInv, Walks
    <2> QED  BY <2>2
  <1>4. wanted' = wanted \ {id}  BY <1>1, <1>2, <1>3 DEF Sound!Visit
  <1>5. walk.i \in Active  BY <1>1 DEF Sound!Visit, SoundInv, Walks, Active
  <1>6. id \in wanted  BY <1>5 DEF SoundInv
  <1> QED  BY <1>3, <1>4, <1>6 DEF Sound!IsPlaying

-----------------------------------------------------------------------------
(* The cursor: g_lastRaw is what the last event really showed, g_lastState  *)
(* how it named it.                                                         *)

CursorInv ==
    /\ cursorType \in Cursor!Types
    /\ lastRaw = event.held /\ lastState = event.new
    /\ ~moved => Cursor!ReadRaw = lastRaw

LEMMA ReadIsHeld ==
  ASSUME cursorType \in Cursor!Types
  PROVE  Cursor!ReadRaw = Cursor!Held
  <1>1. CASE cursorType = "item"  BY <1>1 DEF Cursor!ReadRaw, Cursor!Held
  <1>2. CASE cursorType = "money"  BY <1>2 DEF Cursor!ReadRaw, Cursor!Held
  <1>3. CASE cursorType = "none"  BY <1>3 DEF Cursor!ReadRaw, Cursor!Held, Cursor!Nothing
  <1> QED  BY <1>1, <1>2, <1>3 DEF Cursor!Types

LEMMA CursorStays ==
  ASSUME CursorInv, CursorStep
  PROVE  CursorInv' /\ (event' # event => event'.old = event.new)
  <1> USE DEF CursorInv
  <1> DEFINE Same == UNCHANGED <<lastRaw, lastState, event>>
  <1>1. CASE UNCHANGED cursor  BY <1>1 DEF cursor, Cursor!ReadRaw
  <1>2. CASE \/ \E guid \in Stacks : Cursor!PickUpItem(guid)
             \/ \E amount \in Amounts : Cursor!PickUpMoney(amount)
             \/ Cursor!ClearCursor \/ Cursor!ItemGone
    <2>1. Same /\ moved' = TRUE /\ cursorType' \in Cursor!Types
      BY <1>2 DEF Cursor!PickUpItem, Cursor!PickUpMoney, Cursor!ClearCursor, Cursor!ItemGone,
         Cursor!Set, Cursor!Types
    <2> QED  BY <2>1
  <1>3. CASE Cursor!OnTick
    <2>1. UNCHANGED cursorType /\ Cursor!ReadRaw' = Cursor!ReadRaw
      BY <1>3 DEF Cursor!OnTick, Cursor!ReadRaw
    <2>2. CASE Cursor!ReadRaw = lastRaw  BY <1>3, <2>1, <2>2 DEF Cursor!OnTick
    <2>3. CASE Cursor!ReadRaw # lastRaw
      <3>1. /\ lastRaw' = Cursor!ReadRaw /\ lastState' = Cursor!Decode(Cursor!ReadRaw)
            /\ event' = [old |-> lastState, new |-> Cursor!Decode(Cursor!ReadRaw),
                         held |-> Cursor!Held]
        BY <1>3, <2>3 DEF Cursor!OnTick, Cursor!Previous
      <3> QED  BY <2>1, <3>1, ReadIsHeld
    <2> QED  BY <2>2, <2>3
  <1>4. CASE Cursor!HandlerReturns  BY <1>4 DEF Cursor!HandlerReturns, Cursor!ReadRaw
  <1> QED  BY <1>1, <1>2, <1>3, <1>4 DEF CursorStep

-----------------------------------------------------------------------------
(* The bags: g_pending is set just while an update is unseen.               *)

BagInv == unseen \in BOOLEAN /\ pending = unseen

LEMMA BagStays ==
  ASSUME BagInv, BagStep
  PROVE  BagInv' /\ (~bagHandler /\ bagHandler' => inWorld /\ unseen)
  <1> USE DEF BagInv
  <1>1. CASE UNCHANGED bag  BY <1>1 DEF bag
  <1>2. CASE Bag!BagUpdate  BY <1>2 DEF Bag!BagUpdate
  <1>3. CASE Bag!ChangeWorld  BY <1>3 DEF Bag!ChangeWorld
  <1>4. CASE Bag!OnFrame  BY <1>4 DEF Bag!OnFrame
  <1>5. CASE Bag!HandlerReturns  BY <1>5 DEF Bag!HandlerReturns
  <1> QED  BY <1>1, <1>2, <1>3, <1>4, <1>5 DEF BagStep

-----------------------------------------------------------------------------
(* The quest log.  The snapshot is the log last shown; during the loop, a   *)
(* quest whose removal is not yet told is still to come in the snapshot.    *)

Distinct(s) == \A i, j \in 1..Len(s) : i # j => s[i] # s[j]

Names(s, q) == \E i \in 1..Len(s) : s[i] = q

Untold(q) ==
    /\ q \notin shownLog
    /\ \E j \in 1..Len(snapshot) : j >= rebuilds[1].i /\ snapshot[j] = q

QuestInv ==
    /\ questLog \subseteq Quests /\ shownLog \subseteq Quests
    /\ snapshot \in Seq(Quests) /\ Distinct(snapshot)
    /\ left \in [Quests -> Nat] /\ told \in [Quests -> Nat]
    /\ \/ /\ rebuilds = <<>> /\ told = left
          /\ \A q \in Quests : Names(snapshot, q) <=> q \in shownLog
       \/ /\ rebuilds = <<rebuilds[1]>> /\ rebuilds # <<>>
          /\ rebuilds[1] \in [current: Seq(Quests), i: Nat \ {0}, firing: BOOLEAN]
          /\ Distinct(rebuilds[1].current)
          /\ \A q \in Quests : Names(rebuilds[1].current, q) <=> q \in shownLog
          /\ \A q \in Quests : left[q] = IF Untold(q) THEN told[q] + 1 ELSE told[q]

\* The rebuilt log lists each quest once and leaves none out.
LEMMA OrdersListAll ==
  ASSUME NEW S \in SUBSET Quests, IsFiniteSet(Quests), NEW f \in Quest!Orders(S)
  PROVE  f \in Seq(Quests) /\ Distinct(f) /\ \A q \in Quests : Names(f, q) <=> q \in S
  <1>1. IsFiniteSet(S) /\ Cardinality(S) \in Nat  BY FS_Subset, FS_CardinalityType
  <1> DEFINE D == 1..Cardinality(S)
  <1>2. f \in [D -> S] /\ \A i, j \in D : i # j => f[i] # f[j]
    BY DEF Quest!Orders, Quest!SetToSeqs, Quest!Cardinality, Cardinality
  <1>3. f \in Seq(S) /\ Len(f) = Cardinality(S)  BY <1>1, <1>2
  <1>4. f \in Injection(D, S)  BY <1>2, Fun_IsInj
  <1>5. Cardinality(D) = Cardinality(S)  BY <1>1, FS_Interval
  <1>6. f \in Surjection(D, S)  BY <1>1, <1>4, <1>5, FS_Injection
  <1>7. \A q \in S : \E i \in D : f[i] = q  BY <1>6 DEF Surjection
  <1>8. \A i \in D : f[i] \in S  BY <1>2
  <1>9. f \in Seq(Quests)  BY <1>3, SeqMonotonic
  <1> QED  BY <1>2, <1>3, <1>7, <1>8, <1>9 DEF Distinct, Names

\* The one call of the hook that is on the stack.
LEMMA OneCall ==
  ASSUME NEW c \in [current: Seq(Quests), i: Nat \ {0}, firing: BOOLEAN],
         NEW i \in Nat \ {0}, NEW firing \in BOOLEAN
  PROVE  /\ Len(<<c>>) = 1 /\ <<c>> # <<>> /\ <<c>>[1] = c
         /\ [<<c>> EXCEPT ![1].i = i]
              = <<[current |-> c.current, i |-> i, firing |-> c.firing]>>
         /\ [<<c>> EXCEPT ![1].firing = firing]
              = <<[current |-> c.current, i |-> c.i, firing |-> firing]>>
         /\ Quest!Front(<<c>>) = <<>>
  <1> DEFINE d == [c EXCEPT !.firing = firing]
             e == [c EXCEPT !.i = i]
  <1>1. Len(<<c>>) = 1 /\ <<c>> # <<>> /\ <<c>>[1] = c  OBVIOUS
  <1>2. \A x, y : [<<x>> EXCEPT ![1] = y] = <<y>>  OBVIOUS
  <1>3. d = [current |-> c.current, i |-> c.i, firing |-> firing]  OBVIOUS
  <1>4. e = [current |-> c.current, i |-> i, firing |-> c.firing]  OBVIOUS
  <1>5. [<<c>> EXCEPT ![1].firing = firing] = <<d>>
    <2>1. [<<c>> EXCEPT ![1].firing = firing] = [<<c>> EXCEPT ![1] = d]  OBVIOUS
    <2> QED  BY <2>1, <1>2
  <1>6. [<<c>> EXCEPT ![1].i = i] = <<e>>
    <2>1. [<<c>> EXCEPT ![1].i = i] = [<<c>> EXCEPT ![1] = e]  OBVIOUS
    <2> QED  BY <2>1, <1>2
  <1>8. Quest!Front(<<c>>) = <<>>  BY <1>1 DEF Quest!Front
  <1> QED  BY <1>1, <1>3, <1>4, <1>5, <1>6, <1>8

LEMMA QuestStays ==
  ASSUME MaxRebuilds = 1, IsFiniteSet(Quests), QuestInv, QuestStep
  PROVE  QuestInv' /\ \A q \in Quests : told'[q] > told[q] => q \notin shownLog
  <1> USE DEF QuestInv
  <1> DEFINE Calls == [current: Seq(Quests), i: Nat \ {0}, firing: BOOLEAN]
             NoneTold == \A q \in Quests : ~(told'[q] > told[q])
  <1>0. ASSUME told' = told  PROVE NoneTold
    BY <1>0
  <1>1. CASE UNCHANGED quest
    BY <1>1, <1>0 DEF quest, Distinct, Names, Untold
  <1>2. CASE \E log \in SUBSET Quests : Quest!QuestLogChanges(log)
    BY <1>2, <1>0 DEF Quest!QuestLogChanges, Distinct, Names, Untold
  <1>3. CASE Quest!Rebuild
    <2>1. Len(rebuilds) < 1  BY <1>3 DEF Quest!Rebuild, Quest!Depth
    <2>2. rebuilds = <<>> /\ told = left /\ \A q \in Quests : Names(snapshot, q) <=> q \in shownLog
      BY <2>1
    <2>3. PICK current \in Quest!Orders(questLog) :
             rebuilds' = Append(rebuilds, [current |-> current, i |-> 1, firing |-> FALSE])
      BY <1>3 DEF Quest!Rebuild
    <2>4. /\ left' = [q \in Quests |-> IF q \in shownLog \ questLog THEN left[q] + 1 ELSE left[q]]
          /\ shownLog' = questLog /\ UNCHANGED <<questLog, snapshot, told>>
      BY <1>3 DEF Quest!Rebuild
    <2>5. /\ current \in Seq(Quests) /\ Distinct(current)
          /\ \A q \in Quests : Names(current, q) <=> q \in questLog
      BY OrdersListAll
    <2> DEFINE call == [current |-> current, i |-> 1, firing |-> FALSE]
    <2>6. call \in Calls  BY <2>5
    <2>7. rebuilds' = <<rebuilds'[1]>> /\ rebuilds'[1] = call /\ rebuilds' # <<>>
      BY <2>2, <2>3, <2>6
    <2>8. ASSUME NEW q \in Quests
          PROVE  left'[q] = IF Untold(q)' THEN told'[q] + 1 ELSE told'[q]
      <3>1. Untold(q)' <=> q \notin questLog /\ Names(snapshot, q)
        BY <2>4, <2>7 DEF Untold, Names
      <3> QED  BY <2>2, <2>4, <3>1
    <2>9. rebuilds'[1].current = current  BY <2>7
    <2>10. left' \in [Quests -> Nat]  BY <2>4
    <2>11. \A q \in Quests : Names(current, q) <=> q \in shownLog'  BY <2>4, <2>5
    <2>12. Distinct(rebuilds'[1].current) /\ \A q \in Quests : Names(rebuilds'[1].current, q) <=> q \in shownLog'
      BY <2>5, <2>9, <2>11
    <2>13. Distinct(snapshot)'  BY <2>4 DEF Distinct
    <2>14. /\ questLog' \subseteq Quests /\ shownLog' \subseteq Quests /\ snapshot' \in Seq(Quests)
           /\ told' \in [Quests -> Nat] /\ told' = told
      BY <2>4
    <2>15. (Distinct(rebuilds[1].current))' /\ \A q \in Quests : (Names(rebuilds[1].current, q))' <=> q \in shownLog'
      BY <2>12 DEF Distinct, Names
    <2> QED  BY <1>0, <2>6, <2>7, <2>8, <2>10, <2>13, <2>14, <2>15
  <1>4. CASE Quest!Compare \/ Quest!HandlerReturns \/ Quest!TakeSnapshot
    <2>1. rebuilds # <<>>  BY <1>4 DEF Quest!Compare, Quest!HandlerReturns, Quest!TakeSnapshot, Quest!QuestActive, Quest!Firing
    <2> DEFINE c == rebuilds[1]
    <2>2. rebuilds = <<c>> /\ c \in Calls /\ Len(rebuilds) = 1  BY <2>1, OneCall
    <2>3. Quest!Depth = 1 /\ Quest!Current = c  BY <2>2 DEF Quest!Depth, Quest!Current
    <2>4. CASE Quest!Compare
      <3>1. c.i <= Len(snapshot) /\ UNCHANGED <<questLog, snapshot, shownLog, left>>
        BY <2>3, <2>4 DEF Quest!Compare
      <3> DEFINE q == snapshot[c.i]
                 gone == ~Quest!Contains(c.current, q)
      <3>2. /\ rebuilds' = [rebuilds EXCEPT ![1].i = c.i + 1, ![1].firing = gone]
            /\ told' = IF gone THEN [told EXCEPT ![q] = told[q] + 1] ELSE told
        BY <2>3, <2>4 DEF Quest!Compare
      <3>3. c.i \in 1..Len(snapshot) /\ q \in Quests  BY <2>2, <3>1
      <3>4. gone <=> q \notin shownLog  BY <2>1, <3>3 DEF Quest!Contains, Names
      <3> DEFINE d == [current |-> c.current, i |-> c.i + 1, firing |-> gone]
      <3>5. c.i + 1 \in Nat \ {0} /\ gone \in BOOLEAN  BY <2>2 DEF Quest!Contains
      <3>6. d \in Calls
        <4> HIDE DEF gone
        <4> QED  BY <2>2, <3>5
      <3>7. rebuilds' = <<d>> /\ rebuilds' = <<rebuilds'[1]>> /\ rebuilds'[1] = d /\ rebuilds' # <<>>
        <4>1. rebuilds' = <<d>>
          <5> HIDE DEF gone, c
          <5> DEFINE k == c.i + 1
                     e == [current |-> c.current, i |-> k, firing |-> c.firing]
          <5>1. k \in Nat \ {0} /\ e \in Calls /\ gone \in BOOLEAN  BY <2>2, <3>5
          <5>2. [<<c>> EXCEPT ![1].i = k] = <<e>>
            <6> HIDE DEF k
            <6> QED  BY <2>2, <5>1, OneCall
          <5>3. rebuilds' = [<<c>> EXCEPT ![1].i = k, ![1].firing = gone]  BY <2>2, <3>2
          <5>4. rebuilds' = [<<e>> EXCEPT ![1].firing = gone]
            <6> HIDE DEF k, e
            <6> QED  BY <5>2, <5>3
          <5>5. [<<e>> EXCEPT ![1].firing = gone]
                  = <<[current |-> e.current, i |-> e.i, firing |-> gone]>>
            <6> HIDE DEF e
            <6> QED  BY <5>1, OneCall
          <5>6. [current |-> e.current, i |-> e.i, firing |-> gone] = d  OBVIOUS
          <5> QED  BY <5>4, <5>5, <5>6
        <4> HIDE DEF d
        <4> QED  BY <4>1
      <3>8. rebuilds'[1].current = c.current /\ rebuilds'[1].i = c.i + 1  BY <3>7
      <3>9. told' \in [Quests -> Nat]
        <4>1. told[q] + 1 \in Nat  BY <3>3, SMTT(30)
        <4> HIDE DEF gone, q
        <4> QED  BY <3>2, <3>3, <4>1
      <3>10. ASSUME NEW p \in Quests
             PROVE  left'[p] = IF Untold(p)' THEN told'[p] + 1 ELSE told'[p]
        <4>1. CASE p = q
          <5>1. ~Untold(p)'  BY <3>1, <3>3, <3>8, <4>1, SMTT(60) DEF Untold, Distinct
          <5>2. Untold(p) <=> q \notin shownLog  BY <3>3, <4>1, SMTT(30) DEF Untold
          <5>3. told'[p] = IF gone THEN told[p] + 1 ELSE told[p]
            <6> HIDE DEF gone, q
            <6> QED  BY <3>2, <3>3, <4>1
          <5>4. left[p] = IF Untold(p) THEN told[p] + 1 ELSE told[p]  BY <2>1
          <5> HIDE DEF gone
          <5> QED  BY <3>1, <3>4, <4>1, <5>1, <5>2, <5>3, <5>4
        <4>2. CASE p # q
          <5>1. \A j \in 1..Len(snapshot) :
                   j >= c.i /\ snapshot[j] = p <=> j >= c.i + 1 /\ snapshot[j] = p
            <6> SUFFICES ASSUME NEW j \in 1..Len(snapshot)
                         PROVE  j >= c.i /\ snapshot[j] = p <=> j >= c.i + 1 /\ snapshot[j] = p
              OBVIOUS
            <6>1. j \in Int /\ c.i \in Int  BY <3>3, SMTT(30)
            <6>2. j = c.i => snapshot[j] # p  BY <4>2
            <6> HIDE DEF c, q
            <6> QED  BY <6>1, <6>2, SMTT(60)
          <5>1a. Untold(p)' <=> Untold(p)  BY <3>1, <3>8, <5>1, SMTT(60) DEF Untold
          <5>2. told'[p] = told[p]
            <6> HIDE DEF gone, q
            <6> QED  BY <3>2, <3>3, <4>2
          <5>4. left[p] = IF Untold(p) THEN told[p] + 1 ELSE told[p]  BY <2>1
          <5> QED  BY <3>1, <5>1a, <5>2, <5>4
        <4> QED  BY <4>1, <4>2
      <3>11. \A p \in Quests : told'[p] > told[p] => p \notin shownLog
        <4> HIDE DEF gone, q
        <4> QED  BY <3>2, <3>3, <3>4
      <3>12. (Distinct(rebuilds[1].current))' /\ \A p \in Quests : (Names(rebuilds[1].current, p))' <=> p \in shownLog'
        BY <2>1, <3>1, <3>8 DEF Distinct, Names
      <3>13. Distinct(snapshot)'  BY <3>1, SMTT(30) DEF Distinct
      <3> HIDE DEF gone, q, d
      <3> QED  BY <3>1, <3>6, <3>7, <3>9, <3>10, <3>11, <3>12, <3>13
    <2>5. CASE Quest!HandlerReturns
      <3>1. rebuilds' = [rebuilds EXCEPT ![1].firing = FALSE] /\ UNCHANGED <<questLog, snapshot, shownLog, left, told>>
        BY <2>3, <2>5 DEF Quest!HandlerReturns
      <3> DEFINE d == [current |-> c.current, i |-> c.i, firing |-> FALSE]
      <3>2. d \in Calls  BY <2>2
      <3>3. rebuilds' = <<rebuilds'[1]>> /\ rebuilds'[1] = d /\ rebuilds' # <<>>
        <4>1. rebuilds' = <<d>>  BY <2>2, <3>1, OneCall
        <4> HIDE DEF d
        <4> QED  BY <4>1
      <3>4. rebuilds'[1].current = c.current /\ rebuilds'[1].i = c.i  BY <3>3
      <3>5. \A q \in Quests : Untold(q)' <=> Untold(q)  BY <3>1, <3>4 DEF Untold
      <3>6. (Distinct(rebuilds[1].current))' /\ \A p \in Quests : (Names(rebuilds[1].current, p))' <=> p \in shownLog'
        BY <2>1, <3>1, <3>4 DEF Distinct, Names
      <3>7. Distinct(snapshot)'  BY <3>1 DEF Distinct
      <3>8. \A q \in Quests : left'[q] = IF Untold(q)' THEN told'[q] + 1 ELSE told'[q]
        BY <2>1, <3>1, <3>5
      <3> QED  BY <1>0, <3>1, <3>2, <3>3, <3>6, <3>7, <3>8
    <2>6. CASE Quest!TakeSnapshot
      <3>1. /\ c.i > Len(snapshot) /\ snapshot' = c.current /\ rebuilds' = Quest!Front(rebuilds)
            /\ UNCHANGED <<questLog, shownLog, left, told>>
        BY <2>3, <2>6 DEF Quest!TakeSnapshot
      <3>2. rebuilds' = <<>>  BY <2>2, <3>1, OneCall
      <3>3. \A q \in Quests : ~Untold(q)  BY <2>2, <3>1 DEF Untold
      <3>4. told = left  BY <2>1, <3>3
      <3>5. Distinct(snapshot)' /\ \A q \in Quests : Names(snapshot, q)' <=> q \in shownLog'
        BY <2>1, <3>1 DEF Distinct, Names
      <3>6. snapshot' \in Seq(Quests)  BY <2>2, <3>1
      <3> QED  BY <1>0, <3>1, <3>2, <3>4, <3>5, <3>6
    <2> QED  BY <1>4, <2>4, <2>5, <2>6
  <1> QED  BY <1>1, <1>2, <1>3, <1>4 DEF QuestStep

-----------------------------------------------------------------------------
(* All of it together.                                                      *)

FrameInv ==
    /\ TurnsKept
    /\ SoundInv /\ CursorInv /\ BagInv /\ QuestInv

\* A call of Lua's and a round of the audio thread leave the walk where it is.
LEMMA WalkWaits ==
  ASSUME walk \in Walks,
         \/ \E ask, starts \in BOOLEAN : Sound!Play(ask, starts)
         \/ \E id \in Sound!Handles : Sound!SoundEnds(id)
  PROVE  walk'.at = walk.at
  <1>1. CASE \E ask, starts \in BOOLEAN : Sound!Play(ask, starts)
    <2>1. PICK ask \in BOOLEAN, starts \in BOOLEAN : Sound!Play(ask, starts)  BY <1>1
    <2>2. \/ walk' = walk
          \/ walk' = [walk EXCEPT !.stale = walk.stale \/ (Sound!InHandler /\ Len(tracked) = capacity)]
      BY <2>1 DEF Sound!Play
    <2> QED  BY <2>2 DEF Walks
  <1>2. CASE \E id \in Sound!Handles : Sound!SoundEnds(id)  BY <1>2 DEF Sound!SoundEnds
  <1> QED  BY <1>1, <1>2

LEMMA TurnsStay ==
  ASSUME TurnsKept, walk \in Walks, FrameNext
  PROVE  TurnsKept'
  <1> DEFINE SoundOnly == UNCHANGED <<cursorHandler, bagHandler, rebuilds, todo>>
             SameTurns == SoundOnly /\ walk'.at = walk.at
  <1>0. ASSUME SameTurns  PROVE TurnsKept'
    BY <1>0 DEF TurnsKept, Quest!QuestActive, InFrame, InSubscriber, SubscriberHandler, Sound!InHandler
  <1>1. CASE LuaCalls
    <2>1. CASE NoStimulus /\ OnlyQuest /\ Quest!Rebuild
      <3>1. UNCHANGED <<walk, cursorHandler, bagHandler, todo>>
        BY <2>1 DEF NoStimulus, OnlyQuest, sound, cursor, bag
      <3>2. InFrame => SubscriberHandler
        BY <1>1 DEF LuaCalls, LuaRuns, TurnsKept
      <3>3. walk.at # "walk"
        BY <3>2 DEF TurnsKept, InFrame, InSubscriber, SubscriberHandler, Sound!InHandler
      <3>4. InFrame' = InFrame /\ SubscriberHandler' = SubscriberHandler
        BY <3>1 DEF InFrame, InSubscriber, SubscriberHandler, Sound!InHandler
      <3> QED  BY <3>1, <3>2, <3>3, <3>4 DEF TurnsKept
    <2>2. CASE ~(NoStimulus /\ OnlyQuest /\ Quest!Rebuild)
      <3>1. SoundOnly
        BY <1>1, <2>2 DEF LuaCalls, Stimulus, OnlySound, OnlyCursor, OnlyBag, sound, cursor, bag, quest,
           Cursor!PickUpItem, Cursor!PickUpMoney, Cursor!ClearCursor, Cursor!Set, Bag!BagUpdate
      <3>2. walk' = walk \/ \E ask, starts \in BOOLEAN : Sound!Play(ask, starts)
        BY <1>1, <2>2 DEF LuaCalls, OnlyCursor, OnlyBag, sound
      <3> QED  BY <1>0, <3>1, <3>2, WalkWaits
    <2> QED  BY <2>1, <2>2
  <1>2. CASE EngineSteps
    <2>1. SameTurns
      BY <1>2 DEF EngineSteps, Stimulus, OnlySound, OnlyCursor, OnlyBag, OnlyQuest, sound, cursor,
         bag, quest, Bag!ChangeWorld, Cursor!ItemGone, Cursor!Set, Quest!QuestLogChanges,
         Sound!PrepareForReload
    <2> QED  BY <1>0, <2>1
  <1>3. CASE AudioThread
    <2>1. SameTurns
      BY <1>3, WalkWaits DEF AudioThread, OnlySound, NoStimulus, cursor, bag, quest
    <2> QED  BY <1>0, <2>1
  <1>4. CASE FrameEnds
    <2>1. UNCHANGED <<walk, cursorHandler, bagHandler, rebuilds>> /\ ~Quest!QuestActive
      BY <1>4 DEF FrameEnds, EngineRuns, sound, cursor, bag, quest
    <2> QED  BY <2>1 DEF TurnsKept, Quest!QuestActive
  <1>5. CASE \E s \in Subscribers : CallSubscriber(s)
    <2>1. PICK s \in Subscribers : CallSubscriber(s)  BY <1>5
    <2>2. ~InSubscriber /\ InFrame  BY <2>1 DEF CallSubscriber, InFrame
    <2>3. ~Quest!QuestActive
      BY <2>2 DEF TurnsKept, InSubscriber, SubscriberHandler, Sound!InHandler
    <2>4. /\ rebuilds' = rebuilds
          /\ \/ cursorHandler' = cursorHandler /\ bagHandler' = bagHandler
             \/ walk' = walk /\ bagHandler' = bagHandler
             \/ walk' = walk /\ cursorHandler' = cursorHandler
      BY <2>1 DEF CallSubscriber, OnlySound, OnlyCursor, OnlyBag, sound, cursor, bag, quest
    <2> QED  BY <2>2, <2>3, <2>4 DEF TurnsKept, Quest!QuestActive, InSubscriber
  <1>6. CASE SubscriberSteps
    <2>1. ~Quest!QuestActive /\ rebuilds' = rebuilds
      BY <1>6 DEF SubscriberSteps, OnlySound, OnlyCursor, OnlyBag, quest
    <2>2. \/ /\ Sound!Visit \/ Sound!HandlerReturns \/ Sound!Resize
             /\ cursorHandler' = cursorHandler /\ bagHandler' = bagHandler
          \/ cursorHandler' = FALSE /\ walk' = walk /\ bagHandler' = bagHandler
          \/ bagHandler' = FALSE /\ walk' = walk /\ cursorHandler' = cursorHandler
      BY <1>6 DEF SubscriberSteps, OnlySound, OnlyCursor, OnlyBag, sound, cursor, bag,
         Cursor!HandlerReturns, Bag!HandlerReturns
    <2>3. Sound!Visit \/ Sound!HandlerReturns \/ Sound!Resize => walk.at # "idle"
      BY DEF Sound!Visit, Sound!HandlerReturns, Sound!Resize
    <2> QED  BY <2>1, <2>2, <2>3 DEF TurnsKept, Quest!QuestActive
  <1>7. CASE QuestHook
    <2>1. Quest!QuestActive /\ UNCHANGED <<walk, cursorHandler, bagHandler, todo>>
      BY <1>7 DEF QuestHook, NoStimulus, OnlyQuest, sound, cursor, bag, Quest!Compare,
         Quest!HandlerReturns, Quest!TakeSnapshot, Quest!Firing
    <2>2. InFrame' = InFrame /\ SubscriberHandler' = SubscriberHandler
      BY <2>1 DEF InFrame, InSubscriber, SubscriberHandler, Sound!InHandler
    <2> QED  BY <2>1, <2>2 DEF TurnsKept
  <1> QED  BY <1>1, <1>2, <1>3, <1>4, <1>5, <1>6, <1>7 DEF FrameNext

LEMMA FrameInvHolds ==
  ASSUME Settled
  PROVE  FrameSpec => []FrameInv
  <1>1. FrameInit => FrameInv
    <2> SUFFICES ASSUME FrameInit  PROVE FrameInv  OBVIOUS
    <2>1. TurnsKept
      BY DEF FrameInit, Sound!Init, Sound!Idle, Cursor!Init, Bag!Init, Quest!Init, TurnsKept, Quest!QuestActive
    <2>2. SoundInv
      BY DEF FrameInit, Sound!Init, Sound!Idle, SoundInv, Walks, Active
    <2>3. CursorInv
      BY DEF FrameInit, Cursor!Init, CursorInv, Cursor!ReadRaw, Cursor!Types, Cursor!Nothing
    <2>4. BagInv  BY DEF FrameInit, Bag!Init, BagInv
    <2>5. QuestInv  BY DEF FrameInit, Quest!Init, QuestInv, Distinct, Names
    <2> QED  BY <2>1, <2>2, <2>3, <2>4, <2>5 DEF FrameInv
  <1>2. FrameInv /\ [FrameNext]_frameVars => FrameInv'
    <2> SUFFICES ASSUME FrameInv, [FrameNext]_frameVars  PROVE FrameInv'  OBVIOUS
    <2>1. SoundStep /\ CursorStep /\ BagStep /\ QuestStep  BY StepsOfParts DEF FrameInv
    <2>2. SoundInv'  BY <2>1, SoundStays DEF FrameInv, Settled
    <2>3. CursorInv'  BY <2>1, CursorStays DEF FrameInv
    <2>4. BagInv'  BY <2>1, BagStays DEF FrameInv
    <2>5. QuestInv'  BY <2>1, QuestStays DEF FrameInv, Settled
    <2>6. TurnsKept'
      <3>1. CASE FrameNext  BY <3>1, TurnsStay DEF FrameInv, SoundInv
      <3>2. CASE UNCHANGED frameVars
        BY <3>2 DEF FrameInv, frameVars, sound, cursor, bag, quest, TurnsKept, Quest!QuestActive, InFrame,
           InSubscriber, SubscriberHandler, Sound!InHandler
      <3> QED  BY <3>1, <3>2
    <2> QED  BY <2>2, <2>3, <2>4, <2>5, <2>6 DEF FrameInv
  <1> QED  BY <1>1, <1>2, PTL DEF FrameSpec

-----------------------------------------------------------------------------
(* The types, beyond those the invariant gives: ids stay within the bound   *)
(* and below the next one, what events name is content.                     *)

LEMMA SoundTypes ==
  ASSUME FrameAssumption, ~HandlersPlay, SoundInv, SoundInv', Sound!SoundTypeOK, SoundStep
  PROVE  Sound!SoundTypeOK'
  <1> USE DEF Sound!SoundTypeOK, Sound!Handles
  <1>0. /\ MaxSounds \in Nat /\ tracked \in Seq(1..MaxSounds) /\ walk' \in Walks
        /\ tracked' \in Seq(Nat)
    BY DEF FrameAssumption, Sound!SoundAssumption, SoundInv
  <1>1. SUFFICES /\ playing' \subseteq 1..MaxSounds /\ nextSound' \in 1..(MaxSounds + 1)
                 /\ tracked' \in Seq(1..MaxSounds) /\ capacity' \in Nat
                 /\ finished' \subseteq 0..MaxSounds /\ wanted' \subseteq 1..MaxSounds
    BY <1>0 DEF Walks
  <1>2. CASE UNCHANGED sound  BY <1>0, <1>2 DEF sound
  <1>3. CASE \E ask, starts \in BOOLEAN : Sound!Play(ask, starts) /\ walk.at # "walk"
    <2>1. PICK ask \in BOOLEAN, starts \in BOOLEAN : Sound!Play(ask, starts)  BY <1>3
    <2>2. nextSound \in 1..MaxSounds /\ UNCHANGED finished  BY <1>0, <2>1 DEF Sound!Play
    <2>3. Sound!Grown \in Nat  BY DEF Sound!Grown
    <2>4. CASE starts /\ ask
      <3>1. /\ playing' = playing \cup {nextSound} /\ nextSound' = nextSound + 1
            /\ tracked' = Append(tracked, nextSound) /\ wanted' = wanted \cup {nextSound}
            /\ capacity' \in {Sound!Grown, capacity}
        BY <2>1, <2>4 DEF Sound!Play
      <3>2. tracked' \in Seq(1..MaxSounds)
        <4> DEFINE S == 1..MaxSounds
        <4>1. tracked \in Seq(S) /\ nextSound \in S  BY <1>0, <2>2
        <4> HIDE DEF S
        <4>2. Append(tracked, nextSound) \in Seq(S)  BY <4>1
        <4> QED  BY <3>1, <4>2 DEF S
      <3>3. playing' \subseteq 1..MaxSounds /\ wanted' \subseteq 1..MaxSounds
        BY <2>2, <3>1
      <3>4. nextSound' \in 1..(MaxSounds + 1)  BY <1>0, <2>2, <3>1
      <3>5. capacity' \in Nat  BY <2>3, <3>1
      <3>6. finished' \subseteq 0..MaxSounds  BY <2>2
      <3> QED  BY <3>2, <3>3, <3>4, <3>5, <3>6
    <2>5. CASE ~(starts /\ ask)
      <3>1. /\ UNCHANGED <<tracked, capacity, wanted>>
            /\ \/ playing' = playing \cup {nextSound} /\ nextSound' = nextSound + 1
               \/ UNCHANGED <<playing, nextSound>>
        BY <2>1, <2>5 DEF Sound!Play
      <3>2. playing' \subseteq 1..MaxSounds
        <4>1. playing' \subseteq playing \cup {nextSound}  BY <3>1
        <4> QED  BY <2>2, <4>1
      <3>3. nextSound' \in 1..(MaxSounds + 1)
        <4>1. nextSound' = nextSound \/ nextSound' = nextSound + 1  BY <3>1
        <4> QED  BY <1>0, <2>2, <4>1
      <3>4. /\ tracked' \in Seq(1..MaxSounds) /\ capacity' \in Nat
            /\ wanted' \subseteq 1..MaxSounds /\ finished' \subseteq 0..MaxSounds
        BY <1>0, <2>2, <3>1
      <3> QED  BY <3>2, <3>3, <3>4
    <2> QED  BY <2>4, <2>5
  <1>4. CASE \E id \in Sound!Handles : Sound!SoundEnds(id)
    BY <1>0, <1>4 DEF Sound!SoundEnds
  <1>5. CASE Sound!OnFrame  BY <1>0, <1>5 DEF Sound!OnFrame
  <1>6. CASE Sound!Visit
    <2>1. /\ walk.at = "walk" /\ walk.i <= walk.n /\ UNCHANGED <<playing, nextSound, capacity>>
      BY <1>6 DEF Sound!Visit
    <2>2. ~walk.stale /\ walk.i \in 1..Len(tracked) /\ walk.keep + 1 \in 1..Len(tracked)
      BY <2>1, SMTT(60) DEF SoundInv, Walks
    <2> DEFINE id == tracked[walk.i]
    <2>3. id \in 1..MaxSounds  BY <1>0, <2>2, SMTT(30)
    <2>4. Sound!Read(walk.i) = {id}  BY <2>2 DEF Sound!Read
    <2>5. \/ /\ tracked' = [tracked EXCEPT ![walk.keep + 1] = id]
             /\ UNCHANGED <<finished, wanted>>
          \/ finished' = finished \cup {id} /\ wanted' = wanted \ {id} /\ UNCHANGED tracked
      BY <1>6, <2>4 DEF Sound!Visit
    <2>6. [tracked EXCEPT ![walk.keep + 1] = id] \in Seq(1..MaxSounds)
      <3> DEFINE S == 1..MaxSounds
      <3>1. tracked \in Seq(S) /\ id \in S  BY <1>0, <2>3
      <3> HIDE DEF S, id
      <3>2. [tracked EXCEPT ![walk.keep + 1] = id] \in Seq(S)  BY <2>2, <3>1, ExceptSeq
      <3> QED  BY <3>2 DEF S
    <2> HIDE DEF id
    <2>7. finished' \subseteq 0..MaxSounds /\ wanted' \subseteq 1..MaxSounds
      <3>1. id \in 0..MaxSounds  BY <1>0, <2>3
      <3>2. finished' \subseteq finished \cup {id} /\ wanted' \subseteq wanted  BY <2>5
      <3> QED  BY <3>1, <3>2
    <2>8. tracked' \in Seq(1..MaxSounds)  BY <1>0, <2>5, <2>6
    <2> QED  BY <2>1, <2>7, <2>8
  <1>7. CASE Sound!HandlerReturns  BY <1>0, <1>7 DEF Sound!HandlerReturns
  <1>8. CASE Sound!Resize
    <2>1. /\ tracked' = SubSeq(tracked, 1, walk.keep) /\ walk.at = "walk"
          /\ UNCHANGED <<playing, nextSound, capacity, finished, wanted>>
      BY <1>8 DEF Sound!Resize
    <2>2. walk.keep \in 0..Len(tracked)  BY <2>1 DEF SoundInv, Walks
    <2>3. SubSeq(tracked, 1, walk.keep) \in Seq(1..MaxSounds)
      <3> DEFINE S == 1..MaxSounds
      <3>1. tracked \in Seq(S) /\ \A j \in 1..walk.keep : tracked[j] \in S  BY <1>0, <2>2, SMTT(30)
      <3> HIDE DEF S
      <3>2. SubSeq(tracked, 1, walk.keep) \in Seq(S)  BY <2>2, <3>1
      <3> QED  BY <3>2 DEF S
    <2> QED  BY <1>0, <2>1, <2>3
  <1>9. CASE Sound!PrepareForReload
    BY <1>0, <1>9 DEF Sound!PrepareForReload
  <1> QED  BY <1>2, <1>3, <1>4, <1>5, <1>6, <1>7, <1>8, <1>9 DEF SoundStep

LEMMA CursorTypes ==
  ASSUME FrameAssumption, Cursor!CursorTypeOK, CursorStep
  PROVE  Cursor!CursorTypeOK'
  <1> USE DEF Cursor!CursorTypeOK
  <1>0. ItemOf \in [Stacks -> Nat \ {0}] /\ Amounts \subseteq Nat
    BY DEF FrameAssumption, Cursor!CursorAssumption
  <1>1. CASE UNCHANGED cursor  BY <1>1 DEF cursor
  <1>2. CASE \/ \E guid \in Stacks : Cursor!PickUpItem(guid)
             \/ \E amount \in Amounts : Cursor!PickUpMoney(amount)
             \/ Cursor!ClearCursor \/ Cursor!ItemGone
    BY <1>2 DEF Cursor!PickUpItem, Cursor!PickUpMoney, Cursor!ClearCursor, Cursor!ItemGone,
       Cursor!Set, Cursor!Types
  <1>3. CASE Cursor!OnTick
    <2>1. Cursor!ReadRaw \in Cursor!Raws
      <3>1. CASE cursorType = "item"  BY <3>1 DEF Cursor!ReadRaw, Cursor!Raws, Cursor!Types
      <3>2. CASE cursorType = "money"  BY <3>2 DEF Cursor!ReadRaw, Cursor!Raws, Cursor!Types
      <3>3. CASE cursorType = "none"  BY <3>3 DEF Cursor!ReadRaw, Cursor!Raws, Cursor!Types
      <3> QED  BY <3>1, <3>2, <3>3 DEF Cursor!Types
    <2>2. Cursor!Decode(Cursor!ReadRaw) \in Cursor!Contents
      <3>1. CASE cursorType = "item"
        <4>1. Cursor!ReadRaw.type = "item"  BY <3>1 DEF Cursor!ReadRaw
        <4>2. \A k \in items : ItemOf[k] \in Nat  BY <1>0
        <4> QED  BY <4>1, <4>2 DEF Cursor!Decode, Cursor!Contents, Cursor!Types
      <3>2. CASE cursorType = "money"
        <4>1. Cursor!ReadRaw.type = "money" /\ Cursor!ReadRaw.key \in Nat
          BY <1>0, <3>2 DEF Cursor!ReadRaw
        <4> QED  BY <4>1 DEF Cursor!Decode, Cursor!Contents, Cursor!Types
      <3>3. CASE cursorType = "none"
        <4>1. Cursor!ReadRaw.type = "none"  BY <3>3 DEF Cursor!ReadRaw
        <4> QED  BY <4>1 DEF Cursor!Decode, Cursor!Contents, Cursor!Types
      <3> QED  BY <3>1, <3>2, <3>3 DEF Cursor!Types
    <2>3. Cursor!Held \in Cursor!Raws  BY <2>1, ReadIsHeld
    <2>4. /\ UNCHANGED <<cursorType, itemGuid, money, items>> /\ moved' = FALSE
          /\ \/ UNCHANGED <<lastRaw, lastState, cursorHandler, event>>
             \/ /\ lastRaw' = Cursor!ReadRaw /\ lastState' = Cursor!Decode(Cursor!ReadRaw)
                /\ event' = [old |-> lastState, new |-> Cursor!Decode(Cursor!ReadRaw),
                             held |-> Cursor!Held]
                /\ cursorHandler' = TRUE
      BY <1>3 DEF Cursor!OnTick, Cursor!Previous
    <2>5. lastRaw' \in Cursor!Raws  BY <2>1, <2>4
    <2>6. lastState' \in Cursor!Contents  BY <2>2, <2>4
    <2>7. event' \in [old: Cursor!Contents, new: Cursor!Contents, held: Cursor!Raws]
      <3> HIDE DEF Cursor!CursorTypeOK
      <3>1. /\ lastState \in Cursor!Contents
            /\ event \in [old: Cursor!Contents, new: Cursor!Contents, held: Cursor!Raws]
        BY DEF Cursor!CursorTypeOK
      <3> QED  BY <2>2, <2>3, <2>4, <3>1
    <2> QED  BY <2>4, <2>5, <2>6, <2>7
  <1>4. CASE Cursor!HandlerReturns  BY <1>4 DEF Cursor!HandlerReturns
  <1> QED  BY <1>1, <1>2, <1>3, <1>4 DEF CursorStep

LEMMA BagTypes ==
  ASSUME Bag!BagTypeOK, BagStep
  PROVE  Bag!BagTypeOK'
  BY DEF Bag!BagTypeOK, BagStep, bag, Bag!BagUpdate, Bag!ChangeWorld, Bag!OnFrame,
     Bag!HandlerReturns

LEMMA QuestTypes ==
  ASSUME QuestInv
  PROVE  Quest!QuestTypeOK
  <1> DEFINE R == [current: Seq(Quests), i: Nat, firing: BOOLEAN]
  <1>1. rebuilds \in Seq(R)
    <2>1. CASE rebuilds = <<>>  BY <2>1
    <2>2. CASE rebuilds # <<>>
      <3>1. rebuilds = <<rebuilds[1]>> /\ rebuilds[1] \in R  BY <2>2 DEF QuestInv
      <3> HIDE DEF R
      <3>2. \A x \in R : <<x>> \in Seq(R)  OBVIOUS
      <3> QED  BY <3>1, <3>2
    <2> QED  BY <2>1, <2>2
  <1> QED  BY <1>1 DEF QuestInv, Quest!QuestTypeOK

LEMMA TypesStay ==
  ASSUME Settled, FrameInv, FrameInv', FrameTypeOK, [FrameNext]_frameVars
  PROVE  FrameTypeOK'
  <1>1. SoundStep /\ CursorStep /\ BagStep /\ QuestStep  BY StepsOfParts DEF FrameInv
  <1>2. Sound!SoundTypeOK'  BY <1>1, SoundTypes DEF FrameInv, Settled, FrameTypeOK
  <1>3. Cursor!CursorTypeOK'  BY <1>1, CursorTypes DEF Settled, FrameTypeOK
  <1>4. Bag!BagTypeOK'  BY <1>1, BagTypes DEF FrameTypeOK
  <1>5. Quest!QuestTypeOK'
    <2>1. QuestInv'  BY DEF FrameInv
    <2> QED  BY <2>1, QuestTypes, PTL
  <1>6. todo' \subseteq Subscribers /\ stimuli' \in 0..MaxStimuli
    <2>1. MaxStimuli \in Nat  BY DEF Settled, FrameAssumption
    <2>2. \/ Stimulus \/ NoStimulus
          \/ stimuli' = stimuli /\ (todo' = Subscribers \/ \E s \in Subscribers : todo' = todo \ {s})
      BY DEF FrameNext, LuaCalls, EngineSteps, AudioThread, FrameEnds, CallSubscriber, SubscriberSteps,
         QuestHook, frameVars, NoStimulus
    <2> QED  BY <2>1, <2>2 DEF FrameTypeOK, Stimulus, NoStimulus
  <1> QED  BY <1>2, <1>3, <1>4, <1>5, <1>6 DEF FrameTypeOK

\* Every variable keeps its type: an id in g_tracked is one the engine gave out, and a
\* decoded cursor has an itemID or an amount.
THEOREM FrameTypes == Settled => (FrameSpec => []FrameTypeOK)
  <1> SUFFICES ASSUME Settled  PROVE FrameSpec => []FrameTypeOK  OBVIOUS
  <1>1. FrameInit => FrameTypeOK
    <2> SUFFICES ASSUME FrameInit  PROVE FrameTypeOK  OBVIOUS
    <2>1. Sound!SoundTypeOK
      BY DEF Settled, FrameAssumption, Sound!SoundAssumption, FrameInit, Sound!Init, Sound!Idle,
         Sound!SoundTypeOK, Sound!Handles
    <2>2. Cursor!CursorTypeOK
      BY DEF FrameInit, Cursor!Init, Cursor!CursorTypeOK, Cursor!Types, Cursor!Raws, Cursor!Contents,
         Cursor!Nothing, Cursor!NoContent
    <2>3. Bag!BagTypeOK  BY DEF FrameInit, Bag!Init, Bag!BagTypeOK
    <2>4. Quest!QuestTypeOK  BY DEF FrameInit, Quest!Init, Quest!QuestTypeOK
    <2>5. todo \subseteq Subscribers /\ stimuli \in 0..MaxStimuli
      BY DEF FrameInit, Settled, FrameAssumption
    <2> QED  BY <2>1, <2>2, <2>3, <2>4, <2>5 DEF FrameTypeOK
  <1>2. FrameInv /\ FrameInv' /\ FrameTypeOK /\ [FrameNext]_frameVars => FrameTypeOK'  BY TypesStay
  <1> QED  BY <1>1, <1>2, FrameInvHolds, PTL DEF FrameSpec

\* Between frames, every sound whose SOUNDKIT_FINISHED is owed is still in
\* g_tracked: the walk that fires events in its middle loses no id.
THEOREM SoundsAreNotForgotten == Settled => (FrameSpec => []NoSoundForgotten)
  <1> SUFFICES ASSUME Settled  PROVE FrameSpec => []NoSoundForgotten  OBVIOUS
  <1>1. FrameInv => NoSoundForgotten
    BY DEF FrameInv, SoundInv, Active, NoSoundForgotten, Sound!NoSoundForgotten, Sound!ToSet
  <1> QED  BY <1>1, FrameInvHolds, PTL

\* The cursor's content, the bags and the quest log: what changed since the
\* last event will be told, or has been.
THEOREM ChangesAreToldOf == Settled => (FrameSpec => []ChangesAreTold)
  <1> SUFFICES ASSUME Settled  PROVE FrameSpec => []ChangesAreTold  OBVIOUS
  <1>1. FrameInv => CursorShown
    BY ReadIsHeld DEF FrameInv, CursorInv, CursorShown, Cursor!CursorShown
  <1>2. FrameInv => NoBagUpdateLost
    BY DEF FrameInv, BagInv, NoBagUpdateLost, Bag!NoBagUpdateLost
  <1>3. FrameInv => ToldOfEachRemoval
    BY DEF FrameInv, QuestInv, ToldOfEachRemoval, Quest!ToldOfEachRemoval, Quest!QuestActive
  <1>4. FrameInv => ChangesAreTold  BY <1>1, <1>2, <1>3 DEF ChangesAreTold
  <1> QED  BY <1>4, FrameInvHolds, PTL

\* And an event that fires is true and new: SOUNDKIT_FINISHED, CURSOR_CHANGED,
\* BAG_UPDATE_DELAYED and QUEST_REMOVED.
THEOREM FrameEventsTrue == Settled => (FrameSpec => FrameEventsAreTrue)
  <1> SUFFICES ASSUME Settled  PROVE FrameSpec => FrameEventsAreTrue  OBVIOUS
  <1> DEFINE Ends == walk.at = "walk" /\ walk'.at = "handler" =>
                       \E id \in wanted \ playing : wanted' = wanted \ {id}
             Chains == event' # event => event'.old = event.new
             Settles == ~bagHandler /\ bagHandler' => inWorld /\ unseen
             Gone == \A q \in Quests : told'[q] > told[q] => q \notin shownLog
  <1>1. FrameInv /\ [FrameNext]_frameVars => Ends /\ Chains /\ Settles /\ Gone
    <2> SUFFICES ASSUME FrameInv, [FrameNext]_frameVars  PROVE Ends /\ Chains /\ Settles /\ Gone
      OBVIOUS
    <2>1. SoundStep /\ CursorStep /\ BagStep /\ QuestStep  BY StepsOfParts DEF FrameInv
    <2>2. Ends  BY <2>1, SoundsEndOnce DEF FrameInv
    <2>3. Chains  BY <2>1, CursorStays DEF FrameInv
    <2>4. Settles  BY <2>1, BagStays DEF FrameInv
    <2>5. Gone  BY <2>1, QuestStays DEF FrameInv, Settled
    <2> QED  BY <2>2, <2>3, <2>4, <2>5
  <1>2. FrameSpec => [][Ends]_Sound!soundVars /\ [][Chains]_Cursor!cursorVars
             /\ [][Settles]_Bag!bagVars /\ [][Gone]_Quest!questVars
    <2>1. FrameInv /\ [FrameNext]_frameVars => [Ends]_Sound!soundVars /\ [Chains]_Cursor!cursorVars
                                       /\ [Settles]_Bag!bagVars /\ [Gone]_Quest!questVars
      BY <1>1
    <2> QED  BY <2>1, FrameInvHolds, PTL DEF FrameSpec
  <1> QED
    BY <1>2, PTL DEF FrameEventsAreTrue, FinishedOnce, CursorEventsChain, SettledBagsOnly,
       RemovedIsGone, Sound!FinishedOnce, Cursor!CursorEventsChain, Bag!SettledBagsOnly,
       Quest!RemovedIsGone

-----------------------------------------------------------------------------
(* Of the session cvars: CVarInv holds in every state, and with it what     *)
(* CVarTemp promises.  (EventRegistry holds the proofs about itself.)      *)

LEMMA EntryFound ==
  ASSUME NEW c, CVar!HasEntry(c)
  PROVE  CVar!FindEntry(c) \in entries /\ CVar!FindEntry(c).name = c
  BY DEF CVar!HasEntry, CVar!FindEntry

LEMMA OneEntry ==
  ASSUME CVar!TypeOK, NEW e \in entries
  PROVE  CVar!HasEntry(e.name) /\ CVar!FindEntry(e.name) = e
  <1>1. CVar!HasEntry(e.name)  BY DEF CVar!HasEntry
  <1>2. CVar!FindEntry(e.name) \in entries /\ CVar!FindEntry(e.name).name = e.name  BY <1>1, EntryFound
  <1> QED  BY <1>1, <1>2 DEF CVar!TypeOK

\* A new entry for a cvar takes the place of the old one, and no other's.
LEMMA PuttingKeepsOne ==
  ASSUME CVar!TypeOK, NEW e \in CVar!Entries
  PROVE  /\ CVar!PutEntry(e) \subseteq CVar!Entries
         /\ \A f, g \in CVar!PutEntry(e) : f.name = g.name => f = g
         /\ \A f \in CVar!PutEntry(e) : f.name = e.name => f = e
         /\ e \in CVar!PutEntry(e)
         /\ \A f : f.name # e.name => (f \in CVar!PutEntry(e) <=> f \in entries)
  BY DEF CVar!TypeOK, CVar!PutEntry

\* What is known of a cvar that a step leaves alone.
LEMMA OthersKnown ==
  ASSUME NEW d, CVar!ChoiceKnown(d),
         \A f : f.name = d => (f \in entries' <=> f \in entries),
         live'[d] = live[d], user'[d] = user[d], CVar!InFlight(d)' <=> CVar!InFlight(d)
  PROVE  CVar!ChoiceKnown(d)'
  BY DEF CVar!ChoiceKnown, CVar!Matches

LEMMA LandingGrows ==
  ASSUME landing \in Seq(CVars), NEW c \in CVars
  PROVE  /\ Append(landing, c) \in Seq(CVars)
         /\ CVar!ToSet(Append(landing, c)) = CVar!ToSet(landing) \cup {c}
         /\ Append(landing, c) # <<>>
  <1>1. /\ Append(landing, c) \in Seq(CVars)
        /\ Len(Append(landing, c)) = Len(landing) + 1
        /\ \A i \in 1..Len(landing) : Append(landing, c)[i] = landing[i]
        /\ Append(landing, c)[Len(landing) + 1] = c
    BY AppendProperties
  <1>2. Len(landing) \in Nat  OBVIOUS
  <1>3. DOMAIN Append(landing, c) = 1..(Len(landing) + 1) /\ DOMAIN landing = 1..Len(landing)
    BY <1>1
  <1>4. CVar!ToSet(Append(landing, c)) = CVar!ToSet(landing) \cup {c}
    BY <1>1, <1>2, <1>3 DEF CVar!ToSet
  <1> QED  BY <1>1, <1>2, <1>4

LEMMA LandingShrinks ==
  ASSUME landing \in Seq(CVars), landing # <<>>
  PROVE  /\ CVar!Front(landing) \in Seq(CVars) /\ CVar!Last(landing) \in CVars
         /\ CVar!ToSet(landing) = CVar!ToSet(CVar!Front(landing)) \cup {CVar!Last(landing)}
  <1>1. Len(landing) \in Nat \ {0} /\ DOMAIN landing = 1..Len(landing)
    BY EmptySeq
  <1>2. /\ CVar!Front(landing) \in Seq(CVars) /\ Len(CVar!Front(landing)) = Len(landing) - 1
        /\ \A i \in 1..(Len(landing) - 1) : CVar!Front(landing)[i] = landing[i]
    BY <1>1, SubSeqProperties DEF CVar!Front
  <1>3. DOMAIN CVar!Front(landing) = 1..(Len(landing) - 1)  BY <1>1, <1>2
  <1>4. CVar!Last(landing) = landing[Len(landing)]  BY DEF CVar!Last
  <1>5. CVar!Last(landing) \in CVars  BY <1>1, <1>4
  <1>6. CVar!ToSet(landing) = CVar!ToSet(CVar!Front(landing)) \cup {CVar!Last(landing)}
    BY <1>1, <1>2, <1>3, <1>4 DEF CVar!ToSet
  <1> QED  BY <1>2, <1>5, <1>6

\* Into the callback: whatever entry the cvar has now, it has the user's value.
LEMMA SetTempCVarIsSafe ==
  ASSUME CVar!Orderly, CVar!CVarInv, NEW c \in CVars, NEW value \in Values, CVar!SetTempCVar(c, value)
  PROVE  CVar!CVarInv'
  <1> USE DEF CVar!SetTempCVar
  <1>1. CVar!TypeOK /\ CVar!ChoiceKnown(c) /\ ~CVar!InFlight(c)
    BY DEF CVar!CVarInv, CVar!Orderly, CVar!MayReenter, CVar!InFlight
  <1>2. live \in [CVars -> Values] /\ live[c] \in Values /\ CVar!Landed(c, value) \in Values
    BY <1>1 DEF CVar!TypeOK, CVar!Landed
  <1>3. /\ landing' \in Seq(CVars) /\ \A d : CVar!InFlight(d)' <=> d = c \/ CVar!InFlight(d)
    BY <1>1, LandingGrows DEF CVar!TypeOK, CVar!InFlight
  <1>4. /\ entries' \subseteq CVar!Entries
        /\ \A e, f \in entries' : e.name = f.name => e = f
        /\ \A f : f.name # c => (f \in entries' <=> f \in entries)
        /\ \E e \in entries' : e.name = c /\ e.saved = user[c]
    <2>1. CASE ~CVar!HasEntry(c)
      <3>1. CVar!NewEntry(c) \in CVar!Entries /\ CVar!NewEntry(c).name = c /\ CVar!NewEntry(c).saved = live[c]
        BY <1>2 DEF CVar!NewEntry, CVar!Entries
      <3>2. entries' = CVar!PutEntry(CVar!NewEntry(c))  BY <2>1 DEF CVar!EntryFor
      <3>3. live[c] = user[c]  BY <1>1, <2>1 DEF CVar!ChoiceKnown, CVar!Matches, CVar!HasEntry
      <3> QED  BY <1>1, <3>1, <3>2, <3>3, PuttingKeepsOne
    <2>2. CASE CVar!HasEntry(c) /\ ~CVar!StillTemp(CVar!FindEntry(c))
      <3> DEFINE old == CVar!FindEntry(c)  new == [old EXCEPT !.saved = live[c]]
      <3>1. old \in entries /\ old.name = c  BY <2>2, EntryFound
      <3>2. new \in CVar!Entries /\ new.name = c /\ new.saved = live[c]
        BY <1>1, <1>2, <3>1 DEF CVar!TypeOK, CVar!Entries
      <3>3. entries' = CVar!PutEntry(new)  BY <2>2 DEF CVar!EntryFor
      <3>4. live[c] = user[c]
        <4>1. old.temp # live[c]  BY <2>2, <3>1 DEF CVar!StillTemp
        <4>2. \A e \in entries : e.name = c => e = old  BY <1>1, <3>1 DEF CVar!TypeOK
        <4> QED  BY <1>1, <4>1, <4>2 DEF CVar!ChoiceKnown, CVar!Matches
      <3> HIDE DEF new, old
      <3> QED  BY <1>1, <3>2, <3>3, <3>4, PuttingKeepsOne
    <2>3. CASE CVar!HasEntry(c) /\ CVar!StillTemp(CVar!FindEntry(c))
      <3>1. entries' = entries  BY <2>3 DEF CVar!EntryFor
      <3>2. CVar!FindEntry(c) \in entries /\ CVar!FindEntry(c).name = c  BY <2>3, EntryFound
      <3>3. CVar!FindEntry(c).saved = user[c]
        BY <1>1, <2>3, <3>2 DEF CVar!ChoiceKnown, CVar!Matches, CVar!StillTemp
      <3> QED  BY <1>1, <3>1, <3>2, <3>3 DEF CVar!TypeOK
    <2> QED  BY <2>1, <2>2, <2>3
  <1>5. CVar!TypeOK'  BY <1>1, <1>2, <1>3, <1>4 DEF CVar!TypeOK
  <1>6. CVar!ChoiceKnown(c)'  BY <1>3, <1>4 DEF CVar!ChoiceKnown
  <1>7. ASSUME NEW d \in exists', d # c  PROVE CVar!ChoiceKnown(d)'
    <2>1. CVar!ChoiceKnown(d) /\ d \in CVars  BY <1>1, <1>7 DEF CVar!CVarInv, CVar!TypeOK
    <2>2. live'[d] = live[d]  BY <1>2, <1>7, <2>1
    <2> QED  BY <1>3, <1>4, <1>7, <2>1, <2>2, OthersKnown
  <1> QED  BY <1>5, <1>6, <1>7 DEF CVar!CVarInv

\* Out of it: the entry takes what landed.
LEMMA LandsIsSafe ==
  ASSUME CVar!CVarInv, CVar!Lands
  PROVE  CVar!CVarInv'
  <1>0. landing # <<>> /\ landing' = CVar!Front(landing) /\ UNCHANGED <<exists, live, file, user>>
    BY DEF CVar!Lands
  <1>1. CVar!TypeOK  BY DEF CVar!CVarInv
  <1>2. PICK c \in CVars :
          /\ landing' \in Seq(CVars)
          /\ \A d : CVar!InFlight(d) <=> d = c \/ CVar!InFlight(d)'
          /\ entries' = IF c \in exists /\ CVar!HasEntry(c)
                          THEN CVar!PutEntry([CVar!FindEntry(c) EXCEPT !.temp = live[c]]) ELSE entries
    <2>1. /\ landing' \in Seq(CVars) /\ CVar!Last(landing) \in CVars
          /\ \A d : CVar!InFlight(d) <=> d = CVar!Last(landing) \/ CVar!InFlight(d)'
      BY <1>0, <1>1, LandingShrinks DEF CVar!TypeOK, CVar!InFlight
    <2> QED  BY <2>1 DEF CVar!Lands
  <1>3. CASE c \in exists /\ CVar!HasEntry(c)
    <2> DEFINE old == CVar!FindEntry(c)  new == [old EXCEPT !.temp = live[c]]
    <2>1. old \in entries /\ old.name = c  BY <1>3, EntryFound
    <2>2. live[c] \in Values  BY <1>1, <1>2 DEF CVar!TypeOK
    <2>3. /\ new \in CVar!Entries /\ new.name = c /\ new.temp = live[c] /\ new.saved = old.saved
      BY <1>1, <2>1, <2>2 DEF CVar!TypeOK, CVar!Entries
    <2>4. entries' = CVar!PutEntry(new)  BY <1>2, <1>3
    <2>5. old.saved = user[c]
      <3>1. CVar!ChoiceKnown(c) /\ CVar!InFlight(c)  BY <1>2, <1>3 DEF CVar!CVarInv
      <3>2. \A e \in entries : e.name = c => e = old  BY <1>1, <2>1 DEF CVar!TypeOK
      <3> QED  BY <3>1, <3>2 DEF CVar!ChoiceKnown
    <2> HIDE DEF new, old
    <2>6. /\ entries' \subseteq CVar!Entries
          /\ \A e, f \in entries' : e.name = f.name => e = f
          /\ \A f : f.name # c => (f \in entries' <=> f \in entries)
          /\ \E e \in entries' : e.name = c /\ e.temp = live[c] /\ e.saved = user[c]
          /\ \A f \in entries' : f.name = c => f.saved = user[c]
      BY <1>1, <2>3, <2>4, <2>5, PuttingKeepsOne
    <2>7. CVar!TypeOK'  BY <1>0, <1>1, <1>2, <2>6 DEF CVar!TypeOK
    <2>8. CVar!ChoiceKnown(c)'
      BY <1>0, <2>6 DEF CVar!ChoiceKnown, CVar!Matches
    <2>9. ASSUME NEW d \in exists', d # c  PROVE CVar!ChoiceKnown(d)'
      <3>1. CVar!ChoiceKnown(d)  BY <1>0, <2>9 DEF CVar!CVarInv
      <3> QED  BY <1>0, <1>2, <2>6, <2>9, <3>1, OthersKnown
    <2> QED  BY <1>0, <2>7, <2>8, <2>9 DEF CVar!CVarInv
  <1>4. CASE ~(c \in exists /\ CVar!HasEntry(c))
    <2>1. entries' = entries  BY <1>2, <1>4
    <2>2. CVar!TypeOK'  BY <1>0, <1>1, <1>2, <2>1 DEF CVar!TypeOK
    <2>3. ASSUME NEW d \in exists'  PROVE CVar!ChoiceKnown(d)'
      <3>1. CVar!ChoiceKnown(d)  BY <1>0, <2>3 DEF CVar!CVarInv
      <3>2. d # c
        <4>1. d = c => CVar!InFlight(d) /\ ~CVar!HasEntry(d)  BY <1>0, <1>2, <1>4, <2>3
        <4> QED  BY <3>1, <4>1 DEF CVar!ChoiceKnown, CVar!HasEntry
      <3> QED  BY <1>0, <1>2, <2>1, <3>1, <3>2, OthersKnown
    <2> QED  BY <1>0, <2>2, <2>3 DEF CVar!CVarInv
  <1> QED  BY <1>3, <1>4

\* The value put back is the user's, which no callback refuses.
LEMMA RemoveTempCVarIsSafe ==
  ASSUME CVar!Orderly, CVar!CVarInv, NEW c \in CVars, CVar!RemoveTempCVar(c)
  PROVE  CVar!CVarInv'
  <1> DEFINE e == CVar!FindEntry(c)
  <1>0. /\ c \in exists /\ ~CVar!InFlight(c) /\ CVar!HasEntry(c)
        /\ UNCHANGED <<exists, landing, file, user>>
        /\ live' = IF CVar!StillTemp(e) THEN [live EXCEPT ![c] = CVar!Landed(c, e.saved)] ELSE live
        /\ entries' = entries \ {e}
    BY DEF CVar!RemoveTempCVar, CVar!Orderly, CVar!MayReenter, CVar!InFlight
  <1>1. CVar!TypeOK /\ CVar!ChoiceKnown(c) /\ user[c] \notin Refused  BY <1>0 DEF CVar!CVarInv
  <1>2. e \in entries /\ e.name = c /\ \A f \in entries : f.name = c => f = e
    BY <1>0, <1>1, EntryFound DEF CVar!TypeOK
  <1>3. live' \in [CVars -> Values] /\ live'[c] = user[c] /\ \A d \in CVars : d # c => live'[d] = live[d]
    <2>1. CASE CVar!StillTemp(e)
      <3>1. e.saved = user[c]  BY <1>0, <1>1, <1>2, <2>1 DEF CVar!ChoiceKnown, CVar!Matches, CVar!StillTemp
      <3>2. live' = [live EXCEPT ![c] = user[c]]  BY <1>0, <1>1, <2>1, <3>1 DEF CVar!Landed
      <3> QED  BY <1>1, <3>2 DEF CVar!TypeOK
    <2>2. CASE ~CVar!StillTemp(e)
      <3>1. live[c] = user[c]
        BY <1>0, <1>1, <1>2, <2>2 DEF CVar!ChoiceKnown, CVar!Matches, CVar!StillTemp
      <3> QED  BY <1>0, <1>1, <2>2, <3>1 DEF CVar!TypeOK
    <2> QED  BY <2>1, <2>2
  <1> HIDE DEF e
  <1>4. CVar!TypeOK'  BY <1>0, <1>1, <1>3 DEF CVar!TypeOK
  <1>5. \A d : CVar!InFlight(d)' <=> CVar!InFlight(d)  BY <1>0 DEF CVar!InFlight
  <1>6. ASSUME NEW d \in exists'  PROVE CVar!ChoiceKnown(d)'
    <2>1. CASE d = c  BY <1>0, <1>2, <1>3, <1>5, <2>1 DEF CVar!ChoiceKnown, CVar!Matches
    <2>2. CASE d # c
      <3>1. CVar!ChoiceKnown(d) /\ d \in CVars  BY <1>0, <1>1, <1>6 DEF CVar!CVarInv, CVar!TypeOK
      <3> QED  BY <1>0, <1>2, <1>3, <1>5, <2>2, <3>1, OthersKnown
    <2> QED  BY <2>1, <2>2
  <1> QED  BY <1>0, <1>4, <1>6 DEF CVar!CVarInv

\* The user's value, by a plain set or another character's config, is not the entry's.
LEMMA UserSetsAreSafe ==
  ASSUME CVar!Orderly, CVar!CVarInv, NEW c \in CVars, NEW value \in Values,
         CVar!SetCVar(c, value) \/ CVar!CreateCVar(c, value)
  PROVE  CVar!CVarInv'
  <1>1. CVar!TypeOK  BY DEF CVar!CVarInv
  <1>2. /\ ~CVar!InFlight(c) /\ value \notin Refused /\ ~CVar!Coincides(c, value)
        /\ UNCHANGED <<entries, landing, file>>
        /\ live' = [live EXCEPT ![c] = value] /\ user' = [user EXCEPT ![c] = value]
        /\ exists' \in SUBSET (exists \cup {c})
    <2>1. CASE CVar!SetCVar(c, value)
      BY <2>1 DEF CVar!SetCVar, CVar!Orderly, CVar!MayReenter, CVar!InFlight
    <2>2. CASE CVar!CreateCVar(c, value)
      <3>1. landing = <<>>  BY <2>2 DEF CVar!CreateCVar
      <3>2. ~CVar!InFlight(c)  BY <3>1 DEF CVar!InFlight, CVar!ToSet
      <3> QED  BY <2>2, <3>2 DEF CVar!CreateCVar, CVar!Orderly
    <2> QED  BY <2>1, <2>2
  <1>3. CVar!TypeOK'  BY <1>1, <1>2 DEF CVar!TypeOK
  <1>4. \A d : CVar!InFlight(d)' <=> CVar!InFlight(d)  BY <1>2 DEF CVar!InFlight
  <1>5. live'[c] = value /\ user'[c] = value
        /\ \A d \in CVars : d # c => live'[d] = live[d] /\ user'[d] = user[d]
    BY <1>1, <1>2 DEF CVar!TypeOK
  <1>6. \A d \in CVars : user'[d] \notin Refused  BY <1>2, <1>5 DEF CVar!CVarInv
  <1>7. ASSUME NEW d \in exists'  PROVE CVar!ChoiceKnown(d)'
    <2>1. CASE d = c
      BY <1>2, <1>4, <1>5, <2>1 DEF CVar!ChoiceKnown, CVar!Matches, CVar!Coincides
    <2>2. CASE d # c
      <3>1. CVar!ChoiceKnown(d) /\ d \in CVars  BY <1>1, <1>2, <1>7, <2>2 DEF CVar!CVarInv, CVar!TypeOK
      <3> QED  BY <1>2, <1>4, <1>5, <2>2, <3>1, OthersKnown
    <2> QED  BY <2>1, <2>2
  <1> QED  BY <1>3, <1>6, <1>7 DEF CVar!CVarInv

\* A character's cvars go; their entries wait for the next sweep.
LEMMA DeleteCVarIsSafe ==
  ASSUME CVar!CVarInv, NEW c \in CVars, CVar!DeleteCVar(c)
  PROVE  CVar!CVarInv'
  <1> USE DEF CVar!DeleteCVar
  <1>1. CVar!TypeOK'  BY DEF CVar!CVarInv, CVar!TypeOK
  <1>2. ASSUME NEW d \in exists'  PROVE CVar!ChoiceKnown(d)'
    <2>1. CVar!ChoiceKnown(d)  BY <1>2 DEF CVar!CVarInv
    <2>2. CVar!InFlight(d)' <=> CVar!InFlight(d)  BY DEF CVar!InFlight
    <2> QED  BY <2>1, <2>2, OthersKnown
  <1> QED  BY <1>1, <1>2 DEF CVar!CVarInv

\* What the write-out sweeps away does not match, and what it writes is known.
LEMMA ArchiveIsSafe ==
  ASSUME CVar!CVarInv, CVar!IterateForArchive
  PROVE  CVar!CVarInv' /\ \A c \in exists : file'[c] = user[c]
  <1> USE DEF CVar!IterateForArchive
  <1>1. CVar!TypeOK /\ \A d : ~CVar!InFlight(d) /\ ~CVar!InFlight(d)'
    BY DEF CVar!CVarInv, CVar!InFlight, CVar!ToSet
  <1>2. \A e, c : e \in CVar!Kept /\ e.name = c /\ c \in exists <=> e \in entries /\ CVar!Matches(e, c) /\ c \in exists
    BY DEF CVar!Kept, CVar!StillTemp, CVar!Matches
  <1>3. ASSUME NEW c \in exists
        PROVE  /\ (\E e \in CVar!Kept : e.name = c) => (CHOOSE e \in CVar!Kept : e.name = c).saved = user[c]
               /\ ~(\E e \in CVar!Kept : e.name = c) => live[c] = user[c]
    <2>1. CVar!ChoiceKnown(c)  BY DEF CVar!CVarInv
    <2>2. \A e \in CVar!Kept : e.name = c => e.saved = user[c]
      BY <1>1, <1>2, <2>1 DEF CVar!ChoiceKnown
    <2>3. ~(\E e \in CVar!Kept : e.name = c) => live[c] = user[c]
      BY <1>1, <1>2, <2>1 DEF CVar!ChoiceKnown
    <2> QED  BY <2>2, <2>3
  <1>4. \A c \in exists : file'[c] = user[c]
    <2>1. exists \subseteq CVars  BY <1>1 DEF CVar!TypeOK
    <2> QED  BY <1>3, <2>1
  <1>5. file' \in [CVars -> Values]
    <2>1. \A c \in exists : file'[c] \in Values  BY <1>1, <1>4 DEF CVar!TypeOK
    <2>2. \A c \in CVars : c \notin exists => file'[c] \in Values  BY <1>1 DEF CVar!TypeOK
    <2> QED  BY <2>1, <2>2
  <1>6. CVar!Kept \subseteq entries  BY DEF CVar!Kept
  <1>7. CVar!TypeOK'  BY <1>1, <1>5, <1>6 DEF CVar!TypeOK
  <1>8. ASSUME NEW d \in exists'  PROVE CVar!ChoiceKnown(d)'
    <2>1. CVar!ChoiceKnown(d)  BY <1>8 DEF CVar!CVarInv
    <2>2. \A e : e \in entries' /\ CVar!Matches(e, d)' <=> e \in entries /\ CVar!Matches(e, d)
      BY <1>2, <1>6, <1>8 DEF CVar!Matches
    <2> QED  BY <1>1, <2>1, <2>2 DEF CVar!ChoiceKnown
  <1> QED  BY <1>4, <1>7, <1>8 DEF CVar!CVarInv

LEMMA CVarStepIsSafe ==
  ASSUME CVar!Orderly, CVar!CVarInv, [CVar!Next]_CVar!vars
  PROVE  CVar!CVarInv'
  <1>1. ASSUME NEW c \in CVars, NEW value \in Values,
               CVar!SetTempCVar(c, value) \/ CVar!SetCVar(c, value) \/ CVar!CreateCVar(c, value)
        PROVE  CVar!CVarInv'
    BY <1>1, SetTempCVarIsSafe, UserSetsAreSafe
  <1>2. ASSUME NEW c \in CVars, CVar!RemoveTempCVar(c) \/ CVar!DeleteCVar(c)  PROVE CVar!CVarInv'
    BY <1>2, RemoveTempCVarIsSafe, DeleteCVarIsSafe
  <1>3. CASE CVar!Lands  BY <1>3, LandsIsSafe
  <1>4. CASE CVar!IterateForArchive  BY <1>4, ArchiveIsSafe
  <1>5. CASE UNCHANGED CVar!vars
    BY <1>5 DEF CVar!vars, CVar!CVarInv, CVar!TypeOK, CVar!ChoiceKnown, CVar!Matches, CVar!InFlight
  <1> QED  BY <1>1, <1>2, <1>3, <1>4, <1>5 DEF CVar!Next

LEMMA NoLeakNow == CVar!CVarInv => CVar!NoTempLeaks
  <1> SUFFICES ASSUME CVar!CVarInv, landing = <<>>, NEW c \in exists, live[c] # user[c]
               PROVE  CVar!HasEntry(c) /\ CVar!FindEntry(c).temp = live[c] /\ CVar!FindEntry(c).saved = user[c]
    BY DEF CVar!NoTempLeaks
  <1>1. CVar!ChoiceKnown(c) /\ CVar!TypeOK  BY DEF CVar!CVarInv
  <1>2. ~CVar!InFlight(c)  BY DEF CVar!InFlight, CVar!ToSet
  <1>3. PICK e \in entries : e.name = c /\ e.temp = live[c] /\ e.saved = user[c]
    BY <1>1, <1>2 DEF CVar!ChoiceKnown, CVar!Matches
  <1> QED  BY <1>1, <1>3, OneEntry

\* When an entry goes, by RemoveTempCVar or in a write-out's sweep, its cvar has the
\* user's value.
LEMMA RemovalRestores ==
  ASSUME CVar!CVarInv, CVar!CVarInv', CVar!Next, NEW c \in exists, CVar!HasEntry(c), ~CVar!HasEntry(c)'
  PROVE  live'[c] = user'[c]
  <1>1. c \in exists' \/ entries' = entries
    BY DEF CVar!Next, CVar!SetTempCVar, CVar!SetCVar, CVar!RemoveTempCVar, CVar!DeleteCVar, CVar!CreateCVar, CVar!Lands,
       CVar!IterateForArchive
  <1>2. c \in exists'  BY <1>1 DEF CVar!HasEntry
  <1>3. CVar!ChoiceKnown(c)'  BY <1>2 DEF CVar!CVarInv
  <1> QED  BY <1>3 DEF CVar!ChoiceKnown, CVar!Matches, CVar!HasEntry

LEMMA StartsKnown == CVar!Orderly /\ CVar!Init => CVar!CVarInv
  <1> SUFFICES ASSUME CVar!Orderly, CVar!Init PROVE CVar!CVarInv  OBVIOUS
  <1> USE DEF CVar!Init
  <1>1. Default \in Values /\ Default \notin Refused  BY DEF CVar!Orderly, CVar!CVarAssumption
  <1>2. CVar!TypeOK  BY <1>1, EmptySeq DEF CVar!TypeOK
  <1>3. \A c : ~CVar!InFlight(c)  BY DEF CVar!InFlight, CVar!ToSet
  <1> QED  BY <1>1, <1>2, <1>3 DEF CVar!CVarInv, CVar!ChoiceKnown

\* The variables keep their types, and no cvar gets a second entry.
THEOREM CVarTypes == CVar!Orderly => (CVar!Spec => []CVar!TypeOK)
  <1> SUFFICES ASSUME CVar!Orderly PROVE CVar!Spec => []CVar!TypeOK  OBVIOUS
  <1>1. CVar!Init => CVar!CVarInv  BY StartsKnown
  <1>2. CVar!CVarInv /\ [CVar!Next]_CVar!vars => CVar!CVarInv'  BY CVarStepIsSafe
  <1>3. CVar!CVarInv => CVar!TypeOK  BY DEF CVar!CVarInv
  <1> QED  BY <1>1, <1>2, <1>3, PTL DEF CVar!Spec

\* No session value is left without an entry that knows the user's: SetTempCVar,
\* RemoveTempCVar, plain sets, deleted and created cvars (cvar/Temp.cpp).
THEOREM TempCVarsAreKnown == CVar!Orderly => (CVar!Spec => []CVar!NoTempLeaks)
  <1> SUFFICES ASSUME CVar!Orderly PROVE CVar!Spec => []CVar!NoTempLeaks  OBVIOUS
  <1>1. CVar!Init => CVar!CVarInv  BY StartsKnown
  <1>2. CVar!CVarInv /\ [CVar!Next]_CVar!vars => CVar!CVarInv'  BY CVarStepIsSafe
  <1> QED  BY <1>1, <1>2, NoLeakNow, PTL DEF CVar!Spec

\* Write-outs save the user's choice, and RemoveTempCVar puts it back: the co-hook on
\* IterateForArchive and Script_RemoveTempCVar.
THEOREM TempCVarsAreNotSaved == CVar!Orderly => (CVar!Spec => CVar!KeepsTheChoice)
  <1> SUFFICES ASSUME CVar!Orderly PROVE CVar!Spec => CVar!KeepsTheChoice  OBVIOUS
  <1>1. CVar!Init => CVar!CVarInv  BY StartsKnown
  <1>2. CVar!CVarInv /\ [CVar!Next]_CVar!vars => CVar!CVarInv'  BY CVarStepIsSafe
  <1>3. CVar!CVarInv /\ [CVar!Next]_CVar!vars
          => [file' # file => \A c \in exists : file'[c] = user[c]]_CVar!vars
    <2> SUFFICES ASSUME CVar!CVarInv, CVar!Next, file' # file, NEW c \in exists
                 PROVE  file'[c] = user[c]
      BY DEF CVar!vars
    <2>1. CVar!IterateForArchive
      BY DEF CVar!Next, CVar!SetTempCVar, CVar!SetCVar, CVar!RemoveTempCVar, CVar!DeleteCVar, CVar!CreateCVar, CVar!Lands
    <2> QED  BY <2>1, ArchiveIsSafe
  <1>4. CVar!CVarInv /\ CVar!CVarInv' /\ [CVar!Next]_CVar!vars
          => [\A c \in exists : CVar!HasEntry(c) /\ ~CVar!HasEntry(c)' => live'[c] = user'[c]]_CVar!vars
    BY RemovalRestores
  <1> QED
    BY <1>1, <1>2, <1>3, <1>4, PTL
    DEF CVar!Spec, CVar!KeepsTheChoice, CVar!SavesTheUsersChoice, CVar!RemoveRestoresTheChoice

-----------------------------------------------------------------------------
(* What is proved of each part holds of the three side by side: a behaviour *)
(* of Services is one of each part, which moves or stands still.            *)

LEMMA PartsRun == Spec => FrameSpec /\ CVar!Spec /\ Registry!Spec
  <1>1. Init => FrameInit /\ CVar!Init /\ Registry!Init  BY DEF Init
  <1>2. [Next]_vars => /\ [FrameNext]_frameVars
                       /\ [CVar!Next]_CVar!vars
                       /\ [Registry!Next]_Registry!vars
    <2> SUFFICES ASSUME [Next]_vars
                 PROVE  /\ FrameNext \/ UNCHANGED frameVars
                        /\ CVar!Next \/ UNCHANGED CVar!vars
                        /\ Registry!Next \/ UNCHANGED Registry!vars
      OBVIOUS
    <2>2. UNCHANGED cvarVars => UNCHANGED CVar!vars  BY DEF cvarVars, CVar!vars
    <2>3. UNCHANGED registryVars => UNCHANGED Registry!vars
      BY DEF registryVars, Registry!vars, Registry!registry
    <2>4. CASE part = "frame" /\ FrameNext /\ UNCHANGED <<part, cvarVars, registryVars>>
      BY <2>2, <2>3, <2>4
    <2>5. CASE part = "cvars" /\ CVar!Next /\ UNCHANGED <<part, frameVars, registryVars>>
      BY <2>3, <2>5
    <2>6. CASE part = "registry" /\ Registry!Next /\ UNCHANGED <<part, frameVars, cvarVars>>
      BY <2>2, <2>6
    <2>7. CASE UNCHANGED vars
      <3>1. UNCHANGED frameVars /\ UNCHANGED cvarVars /\ UNCHANGED registryVars  BY <2>7 DEF vars
      <3> QED  BY <2>2, <2>3, <3>1
    <2> QED  BY <2>4, <2>5, <2>6, <2>7 DEF Next
  <1> QED  BY <1>1, <1>2, PTL DEF Spec, FrameSpec, CVar!Spec, Registry!Spec

\* The variables of all three parts keep their types, for any constants under the
\* conditions of the theorems that follow.
THEOREM TypesHold ==
  Settled /\ CVar!Orderly /\ Registry!Careful => (Spec => []TypeOK)
  <1>2. CVar!Orderly => (CVar!Spec => []CVar!TypeOK)  BY CVarTypes
  <1>3. Registry!Careful => (Registry!Spec => []Registry!TypeOK)  BY Registry!RegistryTypes
  <1> QED  BY FrameTypes, <1>2, <1>3, PartsRun, PTL DEF TypeOK

\* Between frames, every sound whose SOUNDKIT_FINISHED is owed is still in g_tracked,
\* for any sounds and calls, where handlers play no tracked sound (sound/Play.cpp).
THEOREM SoundsAreKept == Settled => (Spec => []NoSoundForgotten)
  BY SoundsAreNotForgotten, PartsRun, PTL

\* For any stacks, amounts, quests and calls, where handlers rebuild no quest log: what the
\* cursor, the bags and the quest log hold was told of, or an event for it is still to come.
THEOREM ChangesStayTold == Settled => (Spec => []ChangesAreTold)
  BY ChangesAreToldOf, PartsRun, PTL

\* Nor does an event of theirs fire that is false or was fired before.
THEOREM FrameEventsStayTrue == Settled => (Spec => FrameEventsAreTrue)
  BY FrameEventsTrue, PartsRun, PTL

\* A cvar with a session value has an entry that knows the user's, for any cvars, values and
\* nesting of calls, where a change callback leaves its own cvar alone (cvar/Temp.cpp).
THEOREM SessionValuesAreKnown == CVar!Orderly => (Spec => []NoTempLeaks)
  <1>1. CVar!Orderly => (CVar!Spec => []CVar!NoTempLeaks)  BY TempCVarsAreKnown
  <1> QED  BY <1>1, PartsRun, PTL DEF NoTempLeaks

\* The write-out saves the user's choice and RemoveTempCVar puts it back, where nobody sets
\* the very value that a session entry put there.
THEOREM ChoicesAreKept == CVar!Orderly => (Spec => KeepsTheChoice)
  <1>1. CVar!Orderly => (CVar!Spec => CVar!KeepsTheChoice)  BY TempCVarsAreNotSaved
  <1> QED  BY <1>1, PartsRun, PTL DEF KeepsTheChoice

\* Nobody who is registered for an engine event is cut off from it, and once is once, for any
\* owners and events, where nobody unregisters twice (GlobalCallbackRegistry.lua).
THEOREM CallbacksStayHeard == Registry!Careful => (Spec => []CallbacksHear)
  <1>1. Registry!Careful => (Registry!Spec => []Registry!CallbacksHear)  BY Registry!CallbacksAreHeard
  <1> QED  BY <1>1, PartsRun, PTL DEF CallbacksHear

\* A TriggerEvent that returns normally reaches what is registered throughout it, and none calls
\* anything twice, in the running client too, whatever callbacks do to one another's
\* registrations; a callback's error ends the walk before the rest (CallbackRegistry.lua).
THEOREM TriggersStillReachOnce == Registry!Careful => (Spec => TriggersReachOnce)
  <1>1. Registry!Careful
          => (Registry!Spec => Registry!ReachesEveryCallback /\ Registry!CallsOnce)
    BY Registry!TriggersReachEach
  <1> QED  BY <1>1, PartsRun, PTL DEF TriggersReachOnce
=============================================================================

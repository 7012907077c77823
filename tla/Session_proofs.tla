---------------------------- MODULE Session_proofs ----------------------------
(***************************************************************************)
(* Proofs about Session: what holds of the installation of the hooks, of   *)
(* unit events, of the masks, of the add-on registry and of the add-ons'   *)
(* loads in any life of the client, that PLAYER_ENTERING_WORLD says what   *)
(* led to it, that a module's slots fire its own events, and the client's  *)
(* types.                                                                  *)
(***************************************************************************)
EXTENDS Session, SequenceTheorems, FiniteSetTheorems, FunctionTheorems, TLAPS

-----------------------------------------------------------------------------
(* The installation.                                                       *)

LEMMA TargetsAre ==
  ASSUME features \in Seq(Hooks!Range(features))
  PROVE  /\ Len(Hooks!Targets) \in Nat /\ Len(Hooks!Targets) >= 3
         /\ DOMAIN Hooks!Targets = 1..Len(Hooks!Targets)
         /\ Hooks!Range(Hooks!Targets) = {Hooks!Targets[j] : j \in 1..Len(Hooks!Targets)}
         /\ Hooks!Range(Hooks!Targets) # {}
  <1> DEFINE S == {"UIBINDINGS_INIT", "FRAMESCRIPT_SHUTDOWN", "CGLUEMGR_INITIALIZE"}
                 \cup Hooks!Range(features)
  <1>0. Hooks!Core \in Seq(S) /\ Len(Hooks!Core) = 3  BY DEF Hooks!Core
  <1>1. features \in Seq(S)
    <2>1. Hooks!Range(features) \subseteq S  OBVIOUS
    <2> HIDE DEF S
    <2> QED  BY <2>1
  <1> HIDE DEF S
  <1>2. Hooks!Targets \in Seq(S) /\ Len(Hooks!Targets) = Len(Hooks!Core) + Len(features)
    BY <1>0, <1>1, ConcatProperties DEF Hooks!Targets
  <1>3. Len(features) \in Nat  BY <1>1
  <1>4. DOMAIN Hooks!Targets = 1..Len(Hooks!Targets)  BY <1>2
  <1>5. Hooks!Range(Hooks!Targets) = {Hooks!Targets[j] : j \in 1..Len(Hooks!Targets)}
    BY <1>4 DEF Hooks!Range
  <1>6. Hooks!Targets[1] \in Hooks!Range(Hooks!Targets)  BY <1>0, <1>2, <1>3, <1>5, SMTT(30)
  <1> QED  BY <1>0, <1>2, <1>3, <1>4, <1>5, <1>6

\* A step that leaves the result, the threads and the claim alone.
LEMMA ThreadsStay ==
  ASSUME Hooks!InstallInv, Hooks!Goes, features' = features, installer' = installer,
         Hooks!InstallTypeOK',
         enabled' = enabled, Hooks!QueuedSoFar'
  PROVE  Hooks!InstallInv'
  <1>1. Hooks!OneInstaller' /\ Hooks!ToldTheResult'
    BY DEF Hooks!InstallInv, Hooks!Goes, Hooks!OneInstaller, Hooks!ToldTheResult,
       Hooks!Installing,
       Hooks!ToldOf, Hooks!Told0
  <1>2. Hooks!AllLive' <=> Hooks!AllLive  BY DEF Hooks!AllLive, Hooks!Targets, Hooks!Core
  <1>3. Hooks!ResultIsTrue'  BY <1>2 DEF Hooks!InstallInv, Hooks!Goes, Hooks!ResultIsTrue
  <1> QED  BY <1>1, <1>3 DEF Hooks!InstallInv

\* The installer's last step: it must return what is so.
LEMMA ReturnsTheTruth ==
  ASSUME Hooks!InstallInv, NEW t \in Hooks!Threads, Hooks!Installing(t), NEW ok \in BOOLEAN,
         Hooks!InstallReturns(ok),
         features' = features, installer' = installer, Hooks!InstallTypeOK', ok <=> Hooks!AllLive'
  PROVE  Hooks!InstallInv'
  <1>1. installer = t /\ ~initDone  BY DEF Hooks!InstallInv, Hooks!OneInstaller
  <1>2. initDone' /\ initResult' \in {0, 1} /\ (initResult' = 0 <=> ok)
    BY DEF Hooks!InstallReturns
  <1>3. thread' = [thread EXCEPT ![t] = IF initResult' = 0 THEN "told success"
                   ELSE "told failure"]
    BY <1>1 DEF Hooks!InstallReturns, Hooks!Told
  <1>4. thread \in [Hooks!Threads -> {"absent", "ready", "in install", "waiting", "told success",
                                "told failure"}]
    BY DEF Hooks!InstallInv, Hooks!InstallTypeOK
  <1>5. Hooks!OneInstaller'
    <2>1. installer' # "nobody"  BY <1>1 DEF Hooks!Threads
    <2>2. ASSUME NEW u \in Hooks!Threads PROVE ~Hooks!Installing(u)'
      <3>1. Hooks!Installing(u) => u = t  BY <1>1 DEF Hooks!InstallInv, Hooks!OneInstaller
      <3> QED  BY <3>1, <1>3, <1>4 DEF Hooks!Installing
    <2> QED  BY <2>1, <2>2 DEF Hooks!OneInstaller
  <1>6. Hooks!ToldTheResult'
    <2> SUFFICES ASSUME NEW u \in Hooks!Threads, Hooks!ToldOf(u)'
                 PROVE Hooks!Told0(u)' <=> initResult' = 0
      BY <1>2 DEF Hooks!ToldTheResult
    <2>1. ~Hooks!ToldOf(u)  BY <1>1 DEF Hooks!InstallInv, Hooks!ToldTheResult
    <2>2. u = t  BY <2>1, <1>3, <1>4 DEF Hooks!ToldOf
    <2> QED  BY <2>2, <1>3, <1>4 DEF Hooks!Told0
  <1>7. Hooks!ResultIsTrue' /\ Hooks!QueuedSoFar'
    BY <1>2 DEF Hooks!ResultIsTrue, Hooks!QueuedSoFar
  <1> QED  BY <1>5, <1>6, <1>7 DEF Hooks!InstallInv

\* An install that fails on the way has made nothing live.
LEMMA FailsTruly ==
  ASSUME Hooks!InstallInv, NEW t \in Hooks!Threads, Hooks!Installing(t),
         Hooks!InstallReturns(FALSE),
         features' = features, installer' = installer, Hooks!InstallTypeOK', enabled' = enabled
  PROVE  Hooks!InstallInv'
  <1>1. enabled = {}  BY DEF Hooks!InstallInv, Hooks!OneInstaller, Hooks!QueuedSoFar
  <1>2. Hooks!Range(Hooks!Targets) # {}  BY TargetsAre DEF Hooks!InstallInv
  <1>3. Hooks!Targets' = Hooks!Targets  BY DEF Hooks!Targets, Hooks!Core
  <1>4. ~Hooks!AllLive'  BY <1>1, <1>2, <1>3 DEF Hooks!AllLive
  <1> QED  BY <1>4, ReturnsTheTruth

\* DLL_PROCESS_ATTACH, and a process that starts, find nobody asking.
LEMMA AttachStarts ==
  ASSUME NEW thr \in Hooks!Callers
  PROVE  /\ thr \in [Hooks!Threads -> {"absent", "ready", "in install", "waiting", "told success",
                                 "told failure"}]
         /\ \A t \in Hooks!Threads : thr[t] \in {"absent", "ready"}
  BY DEF Hooks!Callers, Hooks!Threads

\* The first to ask claims the installation, another waits.
LEMMA AskingIsSafe ==
  ASSUME Hooks!InstallInv, NEW t \in Hooks!Threads, Hooks!EnsureInitialized(t)
  PROVE  Hooks!InstallInv'
  <1> USE DEF Hooks!EnsureInitialized
  <1>1. Hooks!Targets' = Hooks!Targets  BY DEF Hooks!Targets, Hooks!Core
  <1>2. thread \in [Hooks!Threads -> {"absent", "ready", "in install", "waiting", "told success",
                                "told failure"}]
    BY DEF Hooks!InstallInv, Hooks!InstallTypeOK
  <1>3. thread[t] = "ready"  OBVIOUS
  <1>4. \E w \in {"in install", "waiting"} : thread' = [thread EXCEPT ![t] = w]
    BY DEF Hooks!Claim
  <1>5. Hooks!InstallTypeOK'
    <2>1. installer' \in Hooks!Threads \cup {"nobody"}
      BY DEF Hooks!Claim, Hooks!InstallInv, Hooks!InstallTypeOK
    <2> QED  BY <2>1, <1>1, <1>2, <1>4 DEF Hooks!InstallInv, Hooks!InstallTypeOK
  <1>6. Hooks!OneInstaller'
    <2>1. CASE installer = "nobody"
      <3>1. installer' = t /\ t # "nobody" /\ ~initDone
            /\ (\A u \in Hooks!Threads : ~Hooks!Installing(u))
        BY <2>1 DEF Hooks!Claim, Hooks!InstallInv, Hooks!OneInstaller, Hooks!Installing,
           Hooks!Threads
      <3>2. \A u \in Hooks!Threads : Hooks!Installing(u)' => u = t
        BY <3>1, <1>2, <1>4 DEF Hooks!Installing
      <3> QED  BY <3>1, <3>2 DEF Hooks!OneInstaller
    <2>2. CASE installer # "nobody"
      <3>1. thread' = [thread EXCEPT ![t] = "waiting"] /\ installer' = installer
        BY <2>2 DEF Hooks!Claim
      <3>2. \A u \in Hooks!Threads : Hooks!Installing(u)' => Hooks!Installing(u)
        BY <3>1, <1>2 DEF Hooks!Installing
      <3> QED  BY <3>1, <3>2, <2>2 DEF Hooks!OneInstaller, Hooks!InstallInv
    <2> QED  BY <2>1, <2>2
  <1>7. Hooks!ToldTheResult'
    <2>1. \A u \in Hooks!Threads :
            /\ (Hooks!ToldOf(u)' => Hooks!ToldOf(u))
            /\ (Hooks!ToldOf(u)' => (Hooks!Told0(u)' <=> Hooks!Told0(u)))
      BY <1>2, <1>4 DEF Hooks!ToldOf, Hooks!Told0
    <2> QED  BY <2>1 DEF Hooks!ToldTheResult, Hooks!InstallInv
  <1>8. Hooks!ResultIsTrue' /\ Hooks!QueuedSoFar'
    BY <1>1 DEF Hooks!InstallInv, Hooks!ResultIsTrue, Hooks!QueuedSoFar, Hooks!AllLive
  <1> QED  BY <1>5, <1>6, <1>7, <1>8 DEF Hooks!InstallInv

LEMMA StartingMinHookIsSafe ==
  ASSUME Hooks!InstallInv, NEW t \in Hooks!Threads, Hooks!MH_Initialize(t)
  PROVE  Hooks!InstallInv'
  <1> USE DEF Hooks!MH_Initialize
  <1>1. Hooks!Targets' = Hooks!Targets  BY DEF Hooks!Targets, Hooks!Core
  <1>2. ~initDone  BY DEF Hooks!InstallInv, Hooks!OneInstaller
  <1>3. CASE mhInitialized' = TRUE /\ step' = 1 /\ Hooks!Goes
    <2>1. Len(Hooks!Targets) \in Nat  BY TargetsAre DEF Hooks!InstallInv
    <2>2. Hooks!InstallTypeOK'
      <3>1. step' \in 0..(Len(Hooks!Targets) + 1)  BY <1>3, <2>1
      <3>2. mhInitialized' \in BOOLEAN  BY <1>3, Zenon
      <3> QED  BY <1>1, <1>3, <3>1, <3>2 DEF Hooks!InstallInv, Hooks!InstallTypeOK, Hooks!Goes
    <2>3. Hooks!QueuedSoFar'
      BY <1>1, <1>2, <1>3 DEF Hooks!InstallInv, Hooks!QueuedSoFar, Hooks!Goes
    <2> QED  BY <1>3, <2>2, <2>3, ThreadsStay
  <1>4. CASE Hooks!InstallReturns(FALSE) /\ UNCHANGED <<mhInitialized, step>>
    <2>1. Hooks!InstallTypeOK'
      <3>1. thread' \in [Hooks!Threads -> {"absent", "ready", "in install", "waiting",
                                           "told success",
                                     "told failure"}]
        BY <1>4 DEF Hooks!InstallReturns, Hooks!Told, Hooks!InstallInv, Hooks!InstallTypeOK
      <3> QED  BY <1>1, <1>4, <3>1 DEF Hooks!InstallReturns, Hooks!InstallInv, Hooks!InstallTypeOK
    <2> QED  BY <1>4, <2>1, FailsTruly
  <1> QED  BY <1>3, <1>4

\* A hook that is queued is at a target that none of the queue's is at.
LEMMA QueueingIsSafe ==
  ASSUME Hooks!InstallInv, NEW t \in Hooks!Threads, Hooks!InstallHook(t)
  PROVE  Hooks!InstallInv'
  <1> USE DEF Hooks!InstallHook
  <1>1. Hooks!Targets' = Hooks!Targets  BY DEF Hooks!Targets, Hooks!Core
  <1>2. ~initDone  BY DEF Hooks!InstallInv, Hooks!OneInstaller
  <1>0. /\ Len(Hooks!Targets) \in Nat
        /\ Hooks!Range(Hooks!Targets) = {Hooks!Targets[j] : j \in 1..Len(Hooks!Targets)}
    BY TargetsAre DEF Hooks!InstallInv
  <1>3. CASE /\ Hooks!Targets[step] \notin queued /\ queued' = queued \cup {Hooks!Targets[step]}
             /\ step' = step + 1 /\ Hooks!Goes
    <2>1. step \in 1..Len(Hooks!Targets)  OBVIOUS
    <2>2. Hooks!InstallTypeOK'
      <3>1. Hooks!Targets[step] \in Hooks!Range(Hooks!Targets)  BY <1>0, <2>1
      <3>2. step' \in 0..(Len(Hooks!Targets) + 1)  BY <1>0, <1>3, <2>1
      <3> QED  BY <1>1, <1>3, <3>1, <3>2 DEF Hooks!InstallInv, Hooks!InstallTypeOK, Hooks!Goes
    <2>3. Hooks!QueuedSoFar'
      <3>1. queued = {Hooks!Targets[j] : j \in 1..(step - 1)} /\ enabled = {}
            /\ \A i, j \in 1..(step - 1) : Hooks!Targets[i] = Hooks!Targets[j] => i = j
        BY <1>2 DEF Hooks!InstallInv, Hooks!QueuedSoFar
      <3>2. 1..(step' - 1) = 1..(step - 1) \cup {step} /\ step \in Int
        BY <1>0, <1>3, <2>1
      <3>3. queued' = {Hooks!Targets[j] : j \in 1..(step' - 1)}  BY <1>3, <3>1, <3>2
      <3>4. \A i, j \in 1..(step' - 1) : Hooks!Targets[i] = Hooks!Targets[j] => i = j
        BY <1>3, <3>1, <3>2
      <3> QED  BY <1>1, <3>1, <3>3, <3>4 DEF Hooks!QueuedSoFar
    <2> QED  BY <1>3, <2>2, <2>3, ThreadsStay
  <1>4. CASE Hooks!InstallReturns(FALSE) /\ UNCHANGED <<queued, step>>
    <2>1. Hooks!InstallTypeOK'
      <3>1. thread' \in [Hooks!Threads -> {"absent", "ready", "in install", "waiting",
                                           "told success",
                                     "told failure"}]
        BY <1>4 DEF Hooks!InstallReturns, Hooks!Told, Hooks!InstallInv, Hooks!InstallTypeOK
      <3> QED  BY <1>1, <1>4, <3>1 DEF Hooks!InstallReturns, Hooks!InstallInv, Hooks!InstallTypeOK
    <2> QED  BY <1>4, <2>1, FailsTruly
  <1> QED  BY <1>3, <1>4

\* With the whole list queued, all is live just when the queue is.
LEMMA CommittingIsSafe ==
  ASSUME Hooks!InstallInv, NEW t \in Hooks!Threads, Hooks!Commit(t)
  PROVE  Hooks!InstallInv'
  <1> USE DEF Hooks!Commit
  <1>1. Hooks!Targets' = Hooks!Targets  BY DEF Hooks!Targets, Hooks!Core
  <1>2. ~initDone  BY DEF Hooks!InstallInv, Hooks!OneInstaller
  <1>0. /\ Len(Hooks!Targets) \in Nat
        /\ Hooks!Range(Hooks!Targets) = {Hooks!Targets[j] : j \in 1..Len(Hooks!Targets)}
        /\ DOMAIN Hooks!Targets = 1..Len(Hooks!Targets)
    BY TargetsAre DEF Hooks!InstallInv
  <1>3. step - 1 = Len(Hooks!Targets)  BY <1>0
  <1>4. queued = Hooks!Range(Hooks!Targets) /\ Hooks!IsInjective(Hooks!Targets)
    BY <1>0, <1>2, <1>3 DEF Hooks!InstallInv, Hooks!QueuedSoFar, Hooks!IsInjective
  <1>5. (enabled' = queued) <=> Hooks!AllLive'  BY <1>1, <1>4 DEF Hooks!AllLive
  <1>6. Hooks!InstallTypeOK'
    <2>1. thread' \in [Hooks!Threads -> {"absent", "ready", "in install", "waiting",
                                         "told success",
                                   "told failure"}]
      BY DEF Hooks!InstallReturns, Hooks!Told, Hooks!InstallInv, Hooks!InstallTypeOK
    <2>2. initResult' \in {0, 1} /\ initDone' \in BOOLEAN  BY DEF Hooks!InstallReturns
    <2> QED  BY <1>1, <2>1, <2>2 DEF Hooks!InstallInv, Hooks!InstallTypeOK
  <1>7. (enabled' = queued) \in BOOLEAN  OBVIOUS
  <1> QED  BY <1>5, <1>6, <1>7, ReturnsTheTruth

LEMMA SpinningIsSafe ==
  ASSUME Hooks!InstallInv, NEW t \in Hooks!Threads, Hooks!SpinEnds(t)
  PROVE  Hooks!InstallInv'
  <1> USE DEF Hooks!SpinEnds
  <1>1. Hooks!Targets' = Hooks!Targets  BY DEF Hooks!Targets, Hooks!Core
  <1>2. thread \in [Hooks!Threads -> {"absent", "ready", "in install", "waiting", "told success",
                                "told failure"}]
    BY DEF Hooks!InstallInv, Hooks!InstallTypeOK
  <1>3. thread' = [thread EXCEPT ![t] = IF initResult = 0 THEN "told success" ELSE "told failure"]
    BY DEF Hooks!Told
  <1>4. Hooks!InstallTypeOK'  BY <1>1, <1>2, <1>3 DEF Hooks!InstallInv, Hooks!InstallTypeOK
  <1>5. Hooks!OneInstaller'
    BY <1>2, <1>3 DEF Hooks!InstallInv, Hooks!OneInstaller, Hooks!Installing
  <1>6. Hooks!ToldTheResult'
    <2> SUFFICES ASSUME NEW u \in Hooks!Threads, Hooks!ToldOf(u)'
                 PROVE  initDone /\ (Hooks!Told0(u)' <=> initResult = 0)
      BY DEF Hooks!ToldTheResult
    <2>1. CASE u = t  BY <2>1, <1>2, <1>3 DEF Hooks!Told0
    <2>2. CASE u # t
      <3>1. Hooks!ToldOf(u) /\ (Hooks!Told0(u)' <=> Hooks!Told0(u))
        BY <2>2, <1>2, <1>3 DEF Hooks!ToldOf, Hooks!Told0
      <3> QED  BY <3>1 DEF Hooks!InstallInv, Hooks!ToldTheResult
    <2> QED  BY <2>1, <2>2
  <1>7. Hooks!ResultIsTrue' /\ Hooks!QueuedSoFar'
    BY <1>1 DEF Hooks!InstallInv, Hooks!ResultIsTrue, Hooks!QueuedSoFar, Hooks!AllLive
  <1> QED  BY <1>4, <1>5, <1>6, <1>7 DEF Hooks!InstallInv

LEMMA FreshIsSafe == Hooks!Fresh => Hooks!InstallInv
  <1> SUFFICES ASSUME Hooks!Fresh PROVE Hooks!InstallInv  OBVIOUS
  <1> USE DEF Hooks!Fresh
  <1>1. /\ thread \in [Hooks!Threads -> {"absent", "ready", "in install", "waiting",
                                         "told success",
                                   "told failure"}]
        /\ \A t \in Hooks!Threads : thread[t] \in {"absent", "ready"}
    BY AttachStarts
  <1>2. Hooks!InstallTypeOK
    <2>1. Len(Hooks!Targets) \in Nat  BY TargetsAre
    <2>2. step \in 0..(Len(Hooks!Targets) + 1)  BY <2>1
    <2>3. mhInitialized \in BOOLEAN /\ initDone \in BOOLEAN  OBVIOUS
    <2> QED  BY <1>1, <2>2, <2>3 DEF Hooks!InstallTypeOK
  <1>3. Hooks!OneInstaller /\ Hooks!ToldTheResult
    BY <1>1 DEF Hooks!OneInstaller, Hooks!ToldTheResult, Hooks!Installing, Hooks!ToldOf
  <1>4. Hooks!ResultIsTrue /\ Hooks!QueuedSoFar  BY DEF Hooks!ResultIsTrue, Hooks!QueuedSoFar
  <1> QED  BY <1>2, <1>3, <1>4 DEF Hooks!InstallInv

\* Each step of the installation, of any thread, and a new process keep the invariant.
LEMMA InstallStaysSafe ==
  ASSUME Hooks!InstallInv, [Hooks!InstallNext]_Hooks!installVars
  PROVE  Hooks!InstallInv'
  <1>1. ASSUME NEW t \in Hooks!Threads, Hooks!InstallStep(t)  PROVE Hooks!InstallInv'
    BY <1>1, AskingIsSafe, StartingMinHookIsSafe, QueueingIsSafe, CommittingIsSafe,
       SpinningIsSafe DEF Hooks!InstallStep
  <1>2. CASE Hooks!Attach /\ UNCHANGED features
    <2>1. features' \in Seq(Hooks!Range(features'))  BY <1>2 DEF Hooks!InstallInv
    <2>2. Hooks!Fresh'  BY <1>2, <2>1 DEF Hooks!Fresh, Hooks!Attach, Hooks!Callers, Hooks!Threads
    <2> QED  BY <2>2, FreshIsSafe, PTL
  <1>3. CASE UNCHANGED Hooks!installVars
    <2> USE <1>3 DEF Hooks!installVars
    <2>1. Hooks!Targets' = Hooks!Targets  BY DEF Hooks!Targets, Hooks!Core
    <2>2. Hooks!InstallTypeOK' /\ (features \in Seq(Hooks!Range(features)))'
      BY <2>1 DEF Hooks!InstallInv, Hooks!InstallTypeOK
    <2>3. Hooks!OneInstaller' /\ Hooks!ToldTheResult'
      BY DEF Hooks!InstallInv, Hooks!OneInstaller, Hooks!ToldTheResult, Hooks!Installing,
         Hooks!ToldOf, Hooks!Told0
    <2>4. Hooks!ResultIsTrue' /\ Hooks!QueuedSoFar'
      BY <2>1 DEF Hooks!InstallInv, Hooks!ResultIsTrue, Hooks!QueuedSoFar, Hooks!AllLive
    <2> QED  BY <2>2, <2>3, <2>4 DEF Hooks!InstallInv
  <1> QED  BY <1>1, <1>2, <1>3 DEF Hooks!InstallNext

\* So the invariant holds however often the process starts.
LEMMA InstallRuns == Hooks!InstallAssumption => (Hooks!InstallSpec => []Hooks!InstallInv)
  <1>1. Hooks!InstallAssumption /\ Hooks!InstallInit => Hooks!InstallInv
    BY FreshIsSafe DEF Hooks!Fresh, Hooks!InstallAssumption, Hooks!InstallInit
  <1>2. Hooks!InstallInv /\ [Hooks!InstallNext]_Hooks!installVars => Hooks!InstallInv'
    BY InstallStaysSafe
  <1> QED  BY <1>1, <1>2, PTL DEF Hooks!InstallSpec

\* Load tells the truth in every build, whatever its features hook, with either thread or
\* both asking, and whichever of MinHook's calls fails: EnsureInitialized and
\* InstallCoreHooks of Bootstrap.cpp, RunHookRegistrations of Game.cpp.
THEOREM LoadIsTruthful ==
  Hooks!InstallAssumption => (Hooks!InstallSpec => []Hooks!LoadTellsTheTruth)
  <1>1. Hooks!InstallInv => Hooks!LoadTellsTheTruth
    BY DEF Hooks!InstallInv, Hooks!ToldTheResult, Hooks!ResultIsTrue, Hooks!AllLive,
       Hooks!LoadTellsTheTruth, Hooks!ToldOf, Hooks!Told0
  <1> QED  BY <1>1, InstallRuns, PTL

-----------------------------------------------------------------------------
(* Unit events: KeepsNodeKinds of UnitEvent, for every set of frames,        *)
(* events and units.                                                         *)

\* After the engine's RegisterScriptEvent the pair is registered, and no other has changed.
LEMMA EngineRegisters ==
  ASSUME UnitEv!UnitEventInv, NEW p \in Pairs, UnitEv!EngineRegister(p), dispatch' = dispatch
  PROVE  /\ UnitEv!ListsAgree' /\ UnitEv!DispatchAgrees'
         /\ \A q \in Pairs : UnitEv!IsRegistered(q)' <=> q = p \/ UnitEv!IsRegistered(q)
  <1> USE DEF UnitEv!UnitEventInv, UnitEv!EngineRegister, UnitEv!MidDispatch
  <1>1. UnitEv!ListsAgree'  BY DEF UnitEv!ListsAgree
  <1>2. UnitEv!DispatchAgrees'
    BY DEF UnitEv!DispatchAgrees, UnitEv!Nodes!Idle, UnitEv!Nodes!NoUnit
  <1>3. \A q \in Pairs : UnitEv!IsRegistered(q)' <=> q = p \/ UnitEv!IsRegistered(q)
    BY DEF UnitEv!ListsAgree, UnitEv!IsRegistered
  <1> QED  BY <1>1, <1>2, <1>3

\* After UnregisterScriptEvent the pairs are not, and no other has changed.
LEMMA EngineUnregisters ==
  ASSUME UnitEv!UnitEventInv, NEW ps \in SUBSET Pairs, UnitEv!EngineUnregister(ps),
     dispatch' = dispatch
  PROVE  /\ UnitEv!ListsAgree' /\ UnitEv!DispatchAgrees'
         /\ \A q \in Pairs : UnitEv!IsRegistered(q)' <=> q \notin ps /\ UnitEv!IsRegistered(q)
  <1> USE DEF UnitEv!UnitEventInv, UnitEv!EngineUnregister, UnitEv!MidDispatch
  <1>1. UnitEv!ListsAgree'  BY DEF UnitEv!ListsAgree
  <1>2. UnitEv!DispatchAgrees'
    BY DEF UnitEv!DispatchAgrees, UnitEv!ListsAgree, UnitEv!Nodes!Idle, UnitEv!Nodes!NoUnit
  <1>3. \A q \in Pairs : UnitEv!IsRegistered(q)' <=> q \notin ps /\ UnitEv!IsRegistered(q)
    BY DEF UnitEv!ListsAgree, UnitEv!IsRegistered
  <1> QED  BY <1>1, <1>2, <1>3

LEMMA RegisteredOrNot == \A p : UnitEv!IsRegistered(p) \in BOOLEAN
      /\ UnitEv!IsRegistered(p)' \in BOOLEAN
  BY DEF UnitEv!IsRegistered

LEMMA PlainRegisters ==
  ASSUME UnitEv!UnitEventInv, NEW p \in Pairs, UnitEv!RegisterEvent(p)
  PROVE  UnitEv!UnitEventInv' /\ UnitEv!Nodes!Register(p)
  <1> USE DEF UnitEv!RegisterEvent
  <1>1. /\ UnitEv!ListsAgree' /\ UnitEv!DispatchAgrees'
        /\ \A q \in Pairs : UnitEv!IsRegistered(q)' <=> q = p \/ UnitEv!IsRegistered(q)
    BY EngineRegisters
  <1>2. UnitEv!FiltersAgree'  BY <1>1 DEF UnitEv!UnitEventInv, UnitEv!FiltersAgree
  <1>3. UnitEv!NodesRead' = [UnitEv!NodesRead EXCEPT ![p] = IF @.on THEN @
                             ELSE UnitEv!Nodes!Plain]
    <2>1. ~UnitEv!IsRegistered(p) => p \notin DOMAIN filters
      BY DEF UnitEv!UnitEventInv, UnitEv!FiltersAgree
    <2> QED
      BY <1>1, <2>1, RegisteredOrNot DEF UnitEv!NodesRead, UnitEv!NodeOf, UnitEv!Nodes!Plain,
         UnitEv!Nodes!Node
  <1> QED  BY <1>1, <1>2, <1>3 DEF UnitEv!UnitEventInv, UnitEv!Nodes!Register, UnitEv!NodesRead

LEMMA FilteredRegisters ==
  ASSUME UnitEv!UnitEventInv, NEW p \in Pairs, NEW units \in SUBSET Units,
     UnitEv!RegisterUnitEvent(p, units)
  PROVE  UnitEv!UnitEventInv' /\ (UnitEv!Nodes!Register(p) \/ UnitEv!Nodes!RegisterUnits(p,
     units))
  <1> USE DEF UnitEv!RegisterUnitEvent
  <1>1. /\ UnitEv!ListsAgree' /\ UnitEv!DispatchAgrees'
        /\ \A q \in Pairs : UnitEv!IsRegistered(q)' <=> q = p \/ UnitEv!IsRegistered(q)
    BY EngineRegisters
  <1>2. UnitEv!FiltersAgree  BY DEF UnitEv!UnitEventInv
  <1>3. p \in DOMAIN filters => UnitEv!IsRegistered(p)  BY <1>2 DEF UnitEv!FiltersAgree
  <1>4. CASE units = {}
    <2>1. filters' = filters  BY <1>4 DEF UnitEv!SetUnits
    <2>2. UnitEv!RegisterEvent(p)  BY <2>1 DEF UnitEv!RegisterEvent
    <2> QED  BY <2>2, PlainRegisters
  <1>5. CASE units # {} /\ (UnitEv!FindFilter(p) \/ ~UnitEv!IsRegistered(p))
    <2>1. filters' = [q \in DOMAIN filters \cup {p} |-> IF q = p THEN units ELSE filters[q]]
      BY <1>5 DEF UnitEv!SetUnits
    <2>2. UnitEv!FiltersAgree'  BY <1>1, <1>2, <1>5, <2>1 DEF UnitEv!FiltersAgree
    <2>3. UnitEv!NodesRead[p] # UnitEv!Nodes!Plain
      <3>1. p \in DOMAIN filters => filters[p] # {}  BY <1>2 DEF UnitEv!FiltersAgree
      <3> QED
        BY <1>3, <1>5, <3>1 DEF UnitEv!NodesRead, UnitEv!NodeOf, UnitEv!FindFilter,
           UnitEv!Nodes!Plain, UnitEv!Nodes!Node
    <2>4. UnitEv!NodesRead' = [UnitEv!NodesRead EXCEPT ![p] = UnitEv!Nodes!Node(units)]
      <3>1. DOMAIN filters' = DOMAIN filters \cup {p} /\ filters'[p] = units
            /\ \A q \in DOMAIN filters : q # p => filters'[q] = filters[q]
        BY <2>1
      <3>2. UnitEv!NodeOf(p)' = UnitEv!Nodes!Node(units)
        BY <1>1, <3>1, RegisteredOrNot DEF UnitEv!NodeOf, UnitEv!Nodes!Node
      <3>3. ASSUME NEW q \in Pairs, q # p  PROVE UnitEv!NodeOf(q)' = UnitEv!NodeOf(q)
        <4>1. UnitEv!IsRegistered(q)' = UnitEv!IsRegistered(q)  BY <1>1, <3>3, RegisteredOrNot
        <4>2. q \in DOMAIN filters' <=> q \in DOMAIN filters  BY <3>1, <3>3
        <4>3. q \in DOMAIN filters => filters'[q] = filters[q]  BY <3>1, <3>3
        <4> QED  BY <4>1, <4>2, <4>3 DEF UnitEv!NodeOf
      <3> QED  BY <3>2, <3>3 DEF UnitEv!NodesRead
    <2>5. UnitEv!Nodes!RegisterUnits(p, units)
      BY <1>5, <2>3, <2>4 DEF UnitEv!Nodes!RegisterUnits, UnitEv!NodesRead
    <2> QED  BY <1>1, <2>2, <2>5 DEF UnitEv!UnitEventInv
  <1>6. CASE units # {} /\ ~UnitEv!FindFilter(p) /\ UnitEv!IsRegistered(p)
    <2>1. filters' = filters  BY <1>6 DEF UnitEv!SetUnits
    <2>2. UnitEv!FiltersAgree'  BY <1>1, <1>2, <2>1 DEF UnitEv!FiltersAgree
    <2>3. UnitEv!NodesRead[p] = UnitEv!Nodes!Plain
      BY <1>6 DEF UnitEv!NodesRead, UnitEv!NodeOf, UnitEv!FindFilter, UnitEv!Nodes!Plain,
         UnitEv!Nodes!Node
    <2>4. UnitEv!NodesRead' = UnitEv!NodesRead
      BY <1>1, <1>6, <2>1, RegisteredOrNot DEF UnitEv!NodesRead, UnitEv!NodeOf
    <2>5. UnitEv!Nodes!RegisterUnits(p, units)
      BY <1>6, <2>3, <2>4 DEF UnitEv!Nodes!RegisterUnits, UnitEv!NodesRead
    <2> QED  BY <1>1, <2>2, <2>5 DEF UnitEv!UnitEventInv
  <1> QED  BY <1>4, <1>5, <1>6

LEMMA Unregisters ==
  ASSUME UnitEv!UnitEventInv, NEW ps \in SUBSET Pairs, UnitEv!UnregisterScriptEvent(ps)
  PROVE  UnitEv!UnitEventInv' /\ UnitEv!Nodes!Unregister(ps)
  <1> USE DEF UnitEv!UnregisterScriptEvent
  <1>1. /\ UnitEv!ListsAgree' /\ UnitEv!DispatchAgrees'
        /\ \A q \in Pairs : UnitEv!IsRegistered(q)' <=> q \notin ps /\ UnitEv!IsRegistered(q)
    BY EngineUnregisters
  <1>2. filters' = [q \in DOMAIN filters \ ps |-> filters[q]]
    BY DEF UnitEv!EraseFilter, UnitEv!Restrict
  <1>3. UnitEv!FiltersAgree'  BY <1>1, <1>2 DEF UnitEv!UnitEventInv, UnitEv!FiltersAgree
  <1>4. UnitEv!NodesRead' =
          [q \in Pairs |-> IF q \in ps THEN UnitEv!Nodes!None ELSE UnitEv!NodesRead[q]]
    <2>1. DOMAIN filters' = DOMAIN filters \ ps
          /\ \A q \in DOMAIN filters \ ps : filters'[q] = filters[q]
      BY <1>2
    <2>2. ASSUME NEW q \in Pairs, q \in ps  PROVE UnitEv!NodeOf(q)' = UnitEv!Nodes!None
      BY <1>1, <2>2, RegisteredOrNot DEF UnitEv!NodeOf, UnitEv!Nodes!None
    <2>3. ASSUME NEW q \in Pairs, q \notin ps  PROVE UnitEv!NodeOf(q)' = UnitEv!NodeOf(q)
      <3>1. UnitEv!IsRegistered(q)' = UnitEv!IsRegistered(q)  BY <1>1, <2>3, RegisteredOrNot
      <3>2. q \in DOMAIN filters' <=> q \in DOMAIN filters  BY <2>1, <2>3
      <3>3. q \in DOMAIN filters => filters'[q] = filters[q]  BY <2>1, <2>3
      <3> QED  BY <3>1, <3>2, <3>3 DEF UnitEv!NodeOf
    <2> QED  BY <2>2, <2>3 DEF UnitEv!NodesRead
  <1> QED  BY <1>1, <1>3, <1>4 DEF UnitEv!UnitEventInv, UnitEv!Nodes!Unregister, UnitEv!NodesRead

\* A dispatch starts with nothing queued: the listeners are the pairs that are on.
LEMMA Signals ==
  ASSUME UnitEv!UnitEventAssumption, UnitEv!UnitEventInv, NEW event \in {p[2] : p \in Pairs},
         NEW arg \in Units \cup {UnitEv!Nodes!NoUnit}, UnitEv!SignalEvent(event, arg)
  PROVE  UnitEv!UnitEventInv' /\ UnitEv!Nodes!Signal(event, arg)
  <1> USE DEF UnitEv!SignalEvent
  <1>1. event # "none"  BY DEF UnitEv!UnitEventAssumption
  <1>2. registers = {} /\ unregisters = {}
    BY DEF UnitEv!UnitEventAssumption, UnitEv!UnitEventInv, UnitEv!ListsAgree,
       UnitEv!MidDispatch, UnitEv!Nodes!Idle
  <1>3. dispatch' = [event |-> event, arg |-> arg, heard |-> {},
                     todo |-> {p \in listeners : p[2] = event}]
    OBVIOUS
  <1>4. listeners \subseteq Pairs  BY DEF UnitEv!UnitEventInv, UnitEv!ListsAgree
  <1>5. UnitEv!ListsAgree' /\ UnitEv!FiltersAgree'
    BY <1>2 DEF UnitEv!UnitEventInv, UnitEv!ListsAgree, UnitEv!FiltersAgree,
       UnitEv!engineLists, UnitEv!IsRegistered, UnitEv!MidDispatch
  <1>6. UnitEv!DispatchAgrees'
    <2>1. dispatch' \in [event : {"none"} \cup {p[2] : p \in Pairs},
                         arg : Units \cup {UnitEv!Nodes!NoUnit}, todo : SUBSET Pairs,
                            heard : SUBSET Pairs]
      BY <1>3, <1>4
    <2>2. listeners' = listeners  BY DEF UnitEv!engineLists
    <2> QED  BY <1>1, <1>3, <2>1, <2>2 DEF UnitEv!DispatchAgrees, UnitEv!MidDispatch
  <1>7. \A p \in Pairs : UnitEv!NodesRead[p].on <=> p \in listeners
    BY <1>2 DEF UnitEv!NodesRead, UnitEv!NodeOf, UnitEv!IsRegistered
  <1>8. UnitEv!NodesRead' = UnitEv!NodesRead
    BY DEF UnitEv!NodesRead, UnitEv!NodeOf, UnitEv!IsRegistered, UnitEv!engineLists
  <1>9. {p \in listeners : p[2] = event} = {p \in Pairs : p[2] = event /\ UnitEv!NodesRead[p].on}
    BY <1>4, <1>7
  <1> QED
    BY <1>3, <1>5, <1>6, <1>8, <1>9 DEF UnitEv!UnitEventInv, UnitEv!Nodes!Signal,
       UnitEv!Nodes!Quiet, UnitEv!NodesRead

\* In a listener's turn the removal queue and the filter say together what its node says.
LEMMA Turns ==
  ASSUME UnitEv!UnitEventInv, NEW p \in Pairs, UnitEv!Execute(p)
  PROVE  UnitEv!UnitEventInv' /\ UnitEv!Nodes!Turn(p)
  <1> DEFINE heard == p \notin unregisters /\ ~UnitEv!Rejects(p, dispatch.arg)
  <1>1. /\ p \in dispatch.todo
        /\ dispatch' = [dispatch EXCEPT !.todo = @ \ {p},
                                        !.heard = IF heard THEN @ \cup {p} ELSE @]
        /\ UNCHANGED <<listeners, unregisters, registers, filters>>
    BY DEF UnitEv!Execute, UnitEv!engineLists
  <1>2. p \in listeners /\ p \notin registers
    BY <1>1 DEF UnitEv!UnitEventInv, UnitEv!DispatchAgrees, UnitEv!ListsAgree
  <1>3. \A q : UnitEv!NodeOf(q)' = UnitEv!NodeOf(q)
    BY <1>1 DEF UnitEv!NodeOf, UnitEv!IsRegistered
  <1>4. UnitEv!NodesRead' = UnitEv!NodesRead  BY <1>3 DEF UnitEv!NodesRead
  <1>5. heard <=> UnitEv!Nodes!Wants(UnitEv!NodesRead[p], dispatch.arg)
    <2>1. UnitEv!NodesRead[p].on <=> p \notin unregisters
      BY <1>2 DEF UnitEv!NodesRead, UnitEv!NodeOf, UnitEv!IsRegistered
    <2>2. p \in DOMAIN filters => filters[p] # {}  BY DEF UnitEv!UnitEventInv, UnitEv!FiltersAgree
    <2>3. UnitEv!NodesRead[p].on /\ p \in DOMAIN filters => UnitEv!NodesRead[p].units = filters[p]
      BY DEF UnitEv!NodesRead, UnitEv!NodeOf
    <2>4. UnitEv!NodesRead[p].on /\ p \notin DOMAIN filters => UnitEv!NodesRead[p].units = {}
      BY DEF UnitEv!NodesRead, UnitEv!NodeOf
    <2> QED
      BY <2>1, <2>2, <2>3, <2>4 DEF UnitEv!Rejects, UnitEv!FindFilter, UnitEv!Nodes!Wants,
         UnitEv!Nodes!Filtered
  <1> HIDE DEF heard
  <1>6. UnitEv!Nodes!Turn(p)
    <2>1. dispatch' = [dispatch EXCEPT !.todo = @ \ {p},
                !.heard = IF UnitEv!Nodes!Wants(UnitEv!NodesRead[p],
                   dispatch.arg) THEN @ \cup {p} ELSE @]
      BY <1>1, <1>5
    <2> QED  BY <1>1, <1>4, <2>1 DEF UnitEv!Nodes!Turn, UnitEv!NodesRead
  <1>7. UnitEv!ListsAgree' /\ UnitEv!FiltersAgree' /\ UnitEv!DispatchAgrees'
    <2> USE DEF UnitEv!UnitEventInv, UnitEv!DispatchAgrees
    <2>1. dispatch'.event = dispatch.event /\ dispatch'.todo = dispatch.todo \ {p}
          /\ dispatch'.arg = dispatch.arg /\ dispatch'.heard \in SUBSET Pairs
      BY <1>1
    <2>2. dispatch' \in [event : {"none"} \cup {q[2] : q \in Pairs},
                         arg : Units \cup {UnitEv!Nodes!NoUnit}, todo : SUBSET Pairs,
                            heard : SUBSET Pairs]
      BY <1>1, <2>1
    <2>3. dispatch.event # "none"
      BY <1>1 DEF UnitEv!Nodes!Idle
    <2>4. UnitEv!DispatchAgrees'  BY <1>1, <2>1, <2>2, <2>3 DEF UnitEv!MidDispatch
    <2>5. UnitEv!ListsAgree'  BY <1>1, <2>1 DEF UnitEv!ListsAgree, UnitEv!MidDispatch
    <2>6. UnitEv!FiltersAgree'  BY <1>1 DEF UnitEv!FiltersAgree, UnitEv!IsRegistered
    <2> QED  BY <2>4, <2>5, <2>6
  <1> QED  BY <1>6, <1>7 DEF UnitEv!UnitEventInv

\* Applying the queues changes no node.
LEMMA Settles ==
  ASSUME UnitEv!UnitEventInv, UnitEv!DispatchEnds
  PROVE  UnitEv!UnitEventInv' /\ UnitEv!Nodes!Settle
  <1> USE DEF UnitEv!DispatchEnds
  <1>1. \A q : UnitEv!IsRegistered(q)' = UnitEv!IsRegistered(q)  BY DEF UnitEv!IsRegistered
  <1>2. UnitEv!NodesRead' = UnitEv!NodesRead  BY <1>1 DEF UnitEv!NodesRead, UnitEv!NodeOf
  <1>3. UnitEv!Nodes!Settle  BY <1>2 DEF UnitEv!Nodes!Settle, UnitEv!Nodes!Quiet, UnitEv!NodesRead
  <1>4. UnitEv!ListsAgree'  BY DEF UnitEv!UnitEventInv, UnitEv!ListsAgree
  <1>5. UnitEv!FiltersAgree'  BY <1>1 DEF UnitEv!UnitEventInv, UnitEv!FiltersAgree
  <1>6. UnitEv!DispatchAgrees'
    BY DEF UnitEv!DispatchAgrees, UnitEv!Nodes!Idle, UnitEv!Nodes!NoUnit
  <1> QED  BY <1>3, <1>4, <1>5, <1>6 DEF UnitEv!UnitEventInv

LEMMA Discards ==
  ASSUME UnitEv!UnitEventShutdown
  PROVE  UnitEv!UnitEventInv' /\ UnitEv!Nodes!Discard
  <1> USE DEF UnitEv!UnitEventShutdown, UnitEv!PrepareForReload
  <1>1. \A q : ~UnitEv!IsRegistered(q)'  BY DEF UnitEv!IsRegistered
  <1>2. UnitEv!NodesRead' = [p \in Pairs |-> UnitEv!Nodes!None]
    BY <1>1, RegisteredOrNot DEF UnitEv!NodesRead, UnitEv!NodeOf, UnitEv!Nodes!None
  <1>3. UnitEv!Nodes!Discard  BY <1>2 DEF UnitEv!Nodes!Discard, UnitEv!NodesRead
  <1>4. UnitEv!ListsAgree' /\ UnitEv!FiltersAgree'  BY DEF UnitEv!ListsAgree, UnitEv!FiltersAgree
  <1>5. UnitEv!DispatchAgrees'
    BY DEF UnitEv!DispatchAgrees, UnitEv!Nodes!Idle, UnitEv!Nodes!NoUnit
  <1> QED  BY <1>3, <1>4, <1>5 DEF UnitEv!UnitEventInv

\* Each step of the engine's lists and the library's filters is a step of the nodes.
LEMMA StepsAreNodeSteps ==
  ASSUME UnitEv!UnitEventAssumption, UnitEv!UnitEventInv,
         [UnitEv!UnitEventNext]_UnitEv!unitEventVars
  PROVE  /\ UnitEv!UnitEventInv' /\ [UnitEv!Nodes!NodesNext]_<<UnitEv!NodesRead, dispatch>>
         /\ [\A p \in Pairs : UnitEv!RegisterEvent(p)
             => UnitEv!Nodes!Register(p)]_UnitEv!unitEventVars
  <1>0. \A p \in Pairs : UnitEv!RegisterEvent(p) => UnitEv!Nodes!Register(p)  BY PlainRegisters
  <1>1. ASSUME NEW p \in Pairs, UnitEv!RegisterEvent(p)
        PROVE  UnitEv!UnitEventInv' /\ UnitEv!Nodes!NodesNext
    BY <1>1, PlainRegisters DEF UnitEv!Nodes!NodesNext
  <1>2. ASSUME NEW p \in Pairs, NEW units \in SUBSET Units, UnitEv!RegisterUnitEvent(p, units)
        PROVE  UnitEv!UnitEventInv' /\ UnitEv!Nodes!NodesNext
    BY <1>2, FilteredRegisters DEF UnitEv!Nodes!NodesNext
  <1>3. ASSUME NEW ps \in SUBSET Pairs, UnitEv!UnregisterScriptEvent(ps)
        PROVE  UnitEv!UnitEventInv' /\ UnitEv!Nodes!NodesNext
    BY <1>3, Unregisters DEF UnitEv!Nodes!NodesNext
  <1>4. CASE UnitEv!UnitEventCall
    <2>1. \A p \in Pairs : {p} \in SUBSET Pairs  OBVIOUS
    <2>2. \A frame : {p \in Pairs : p[1] = frame} \in SUBSET Pairs  OBVIOUS
    <2> QED  BY <1>0, <1>1, <1>2, <1>3, <1>4, <2>1, <2>2 DEF UnitEv!UnitEventCall
  <1>5. CASE UnitEv!UnitEventFires
    <2>1. PICK p \in Pairs, arg \in Units \cup {UnitEv!Nodes!NoUnit} :
            UnitEv!SignalEvent(p[2], arg)
      BY <1>5 DEF UnitEv!UnitEventFires
    <2>2. p[2] \in {q[2] : q \in Pairs}  OBVIOUS
    <2> QED  BY <1>0, <2>1, <2>2, Signals DEF UnitEv!Nodes!NodesNext
  <1>6. CASE UnitEv!UnitEventRuns
    BY <1>0, <1>6, Turns, Settles DEF UnitEv!UnitEventRuns, UnitEv!Nodes!NodesNext
  <1>7. CASE UnitEv!UnitEventShutdown
    BY <1>0, <1>7, Discards DEF UnitEv!Nodes!NodesNext
  <1>8. CASE UNCHANGED UnitEv!unitEventVars
    <2> USE <1>8 DEF UnitEv!unitEventVars, UnitEv!engineLists
    <2>1. UnitEv!NodesRead' = UnitEv!NodesRead
      BY DEF UnitEv!NodesRead, UnitEv!NodeOf, UnitEv!IsRegistered
    <2>2. UnitEv!UnitEventInv'
      BY DEF UnitEv!UnitEventInv, UnitEv!ListsAgree, UnitEv!FiltersAgree,
         UnitEv!DispatchAgrees, UnitEv!IsRegistered, UnitEv!MidDispatch
    <2> QED  BY <2>1, <2>2
  <1> QED  BY <1>0, <1>4, <1>5, <1>6, <1>7, <1>8 DEF UnitEv!UnitEventNext

\* Nothing is registered yet.
LEMMA UnitEventsStart ==
  ASSUME UnitEv!UnitEventInit
  PROVE  UnitEv!UnitEventInv /\ UnitEv!Nodes!NodesInit
  <1> USE DEF UnitEv!UnitEventInit
  <1>1. \A p : ~UnitEv!IsRegistered(p)  BY DEF UnitEv!IsRegistered
  <1>2. [p \in Pairs |-> UnitEv!NodeOf(p)] = [p \in Pairs |-> UnitEv!Nodes!None]
    BY <1>1 DEF UnitEv!NodeOf, UnitEv!IsRegistered, UnitEv!Nodes!None
  <1>3. UnitEv!ListsAgree /\ UnitEv!FiltersAgree  BY DEF UnitEv!ListsAgree, UnitEv!FiltersAgree
  <1>4. UnitEv!DispatchAgrees
    BY DEF UnitEv!DispatchAgrees, UnitEv!Nodes!Idle, UnitEv!Nodes!NoUnit
  <1> QED  BY <1>2, <1>3, <1>4 DEF UnitEv!UnitEventInv, UnitEv!Nodes!NodesInit

\* So lists, filters and dispatch always agree.
LEMMA UnitEventsRun == UnitEv!UnitEventAssumption
      => (UnitEv!UnitEventSpec => []UnitEv!UnitEventInv)
  <1> SUFFICES ASSUME UnitEv!UnitEventAssumption
               PROVE  UnitEv!UnitEventSpec => []UnitEv!UnitEventInv
    OBVIOUS
  <1>1. UnitEv!UnitEventInit => UnitEv!UnitEventInv  BY UnitEventsStart
  <1>2. UnitEv!UnitEventInv /\ [UnitEv!UnitEventNext]_UnitEv!unitEventVars => UnitEv!UnitEventInv'
    BY StepsAreNodeSteps
  <1> QED  BY <1>1, <1>2, PTL DEF UnitEv!UnitEventSpec

\* RegisterUnitEvent over the engine's lists is the nodes' of the later client, for calls in
\* mid-dispatch too: frame/UnitEvent.cpp's filters, its co-hook and its gate.
THEOREM UnitEventsAreNodes ==
  UnitEv!UnitEventAssumption => (UnitEv!UnitEventSpec => UnitEv!KeepsNodeKinds)
  <1> SUFFICES ASSUME UnitEv!UnitEventAssumption
               PROVE  UnitEv!UnitEventSpec => UnitEv!KeepsNodeKinds
    OBVIOUS
  <1>1. UnitEv!UnitEventInit => UnitEv!UnitEventInv /\ UnitEv!Nodes!NodesInit
    BY UnitEventsStart
  <1>2. UnitEv!UnitEventInv /\ [UnitEv!UnitEventNext]_UnitEv!unitEventVars
        => /\ UnitEv!UnitEventInv' /\ [UnitEv!Nodes!NodesNext]_<<UnitEv!NodesRead, dispatch>>
           /\ [\A p \in Pairs : UnitEv!RegisterEvent(p)
               => UnitEv!Nodes!Register(p)]_UnitEv!unitEventVars
    BY StepsAreNodeSteps
  <1>3. UnitEv!UnitEventInv /\ [UnitEv!UnitEventNext]_UnitEv!unitEventVars
        => [UnitEv!Nodes!NodesNext]_UnitEv!Nodes!nodeVars
    BY <1>2 DEF UnitEv!Nodes!nodeVars, UnitEv!NodesRead
  <1> QED
    BY <1>1, <1>2, <1>3, PTL DEF UnitEv!UnitEventSpec, UnitEv!KeepsNodeKinds,
       UnitEv!Nodes!NodesSpec

-----------------------------------------------------------------------------
(* The client takes no other steps in the two parts than theirs.           *)

LEMMA HooksAndUnitsStep ==
  ASSUME [Next]_vars
  PROVE  /\ [Hooks!InstallNext]_Hooks!installVars
         /\ [UnitEv!UnitEventNext]_UnitEv!unitEventVars
  <1>1. UNCHANGED hookVars => UNCHANGED Hooks!installVars
    BY DEF hookVars, Hooks!installVars
  <1>2. UNCHANGED unitVars => UNCHANGED UnitEv!unitEventVars
    BY DEF unitVars, UnitEv!unitEventVars, UnitEv!engineLists
  <1>3. UNCHANGED partVars => UNCHANGED unitVars  BY DEF partVars
  <1>4. FrameScriptShutdown => UnitEv!UnitEventNext
    BY DEF FrameScriptShutdown, UnitEv!UnitEventNext
  <1>5. CASE GlueInit  BY <1>1, <1>2, <1>3, <1>5 DEF GlueInit
  <1>6. ASSUME NEW t \in Hooks!Threads, InstallStep(t)
        PROVE  Hooks!InstallNext /\ UNCHANGED unitVars
    BY <1>3, <1>6 DEF InstallStep, Hooks!InstallNext
  <1>7. CASE Login  BY <1>1, <1>2, <1>7 DEF Login
  <1>8. CASE ReloadUI  BY <1>1, <1>4, <1>8 DEF ReloadUI
  <1>9. ASSUME NEW f \in Chain, RunsModule(f)
        PROVE  UNCHANGED hookVars /\ UNCHANGED unitVars
    BY <1>9 DEF RunsModule
  <1>10. CASE RescanRuns  BY <1>1, <1>2, <1>10 DEF RescanRuns
  <1>11. CASE LoadBegins  BY <1>1, <1>2, <1>11 DEF LoadBegins
  <1>12. CASE PlayerLogin  BY <1>1, <1>2, <1>3, <1>12 DEF PlayerLogin
  <1>13. CASE EnteringWorld  BY <1>1, <1>2, <1>3, <1>13 DEF EnteringWorld
  <1>14. CASE LoadingScreen  BY <1>1, <1>2, <1>3, <1>14 DEF LoadingScreen
  <1>15. CASE Logout  BY <1>1, <1>4, <1>15 DEF Logout
  <1>16. CASE Restart
    BY <1>16 DEF Restart, Hooks!InstallNext, UnitEv!UnitEventNext
  <1>17. CASE UnitEvents  BY <1>1, <1>17 DEF UnitEvents, UnitEv!UnitEventNext
  <1>18. CASE Edits  BY <1>1, <1>2, <1>18 DEF Edits
  <1>19. CASE AddonsLoad  BY <1>1, <1>2, <1>19 DEF AddonsLoad
  <1>20. CASE LibraryReplaced  BY <1>1, <1>2, <1>20 DEF LibraryReplaced
  <1>21. CASE MasksUsed  BY <1>1, <1>2, <1>21 DEF MasksUsed
  <1>22. CASE UNCHANGED vars  BY <1>1, <1>2, <1>3, <1>22 DEF vars
  <1> QED
    BY <1>1, <1>2, <1>5, <1>6, <1>7, <1>8, <1>9, <1>10, <1>11, <1>12, <1>13, <1>14, <1>15,
       <1>16, <1>17, <1>18, <1>19, <1>20, <1>21, <1>22 DEF Next

LEMMA HooksAndUnitsRun == Spec => Hooks!InstallSpec /\ UnitEv!UnitEventSpec
  <1>1. Init => Hooks!InstallInit /\ UnitEv!UnitEventInit  BY DEF Init
  <1>2. [Next]_vars => /\ [Hooks!InstallNext]_Hooks!installVars
                       /\ [UnitEv!UnitEventNext]_UnitEv!unitEventVars
    BY HooksAndUnitsStep
  <1> QED  BY <1>1, <1>2, PTL DEF Spec, Hooks!InstallSpec, UnitEv!UnitEventSpec

\* Through logins, reloads, logouts and restarts of the client: whoever asked for the
\* installation is told success just when each hook of the build is live.
THEOREM LoadStaysTruthful == Spec => []LoadTellsTheTruth
  <1>1. Hooks!InstallSpec => []Hooks!LoadTellsTheTruth
    BY LoadIsTruthful, SessionAssumption
  <1> QED  BY <1>1, HooksAndUnitsRun, PTL DEF LoadTellsTheTruth

\* ... and unit events are heard as from the nodes of the later client.
THEOREM UnitEventsStayNodes == Spec => KeepsNodeKinds
  <1>1. UnitEv!UnitEventSpec => UnitEv!KeepsNodeKinds
    BY UnitEventsAreNodes, SessionAssumption
  <1> QED  BY <1>1, HooksAndUnitsRun, PTL DEF KeepsNodeKinds

-----------------------------------------------------------------------------
(* PayloadRight.  The flags remember what they say: loginFired only between *)
(* PLAYER_LOGIN and the event that follows it, reloading from a /reload to  *)
(* the end of its UI's build; and both hold only if the two events' IDs,    *)
(* which are looked up in the middle of the chain, are those the engine     *)
(* fires (IdsRight), whatever was put behind the engine's events.           *)

TableNames == Range(EngineEvents) \cup Range(Declared) \cup {"foreign"}

\* The engine's names are distinct, the modules reserve others, and the login screen has no
\* more of them than the game.  (That the fold in Reserved takes its names from Declared would
\* be an induction.)
EventsApart ==
    /\ EngineEvents \in Seq(Range(EngineEvents)) /\ Hooks!IsInjective(EngineEvents)
    /\ GlueEvents \in Seq(Range(GlueEvents)) /\ Len(GlueEvents) <= Len(EngineEvents)
    /\ Reserved \in Seq(Range(Declared))
    /\ Range(Declared) \cap (Range(EngineEvents) \cup Range(GlueEvents) \cup {"foreign"}) = {}

Building == phase \in {"build", "load", "entering"}
Built == phase \in {"load", "entering", "world", "loading screen"}

EnginesFirst == \E rest \in Seq(TableNames) : table = EngineEvents \o rest

IdsRight == ids = [login |-> EnginesIdOf("PLAYER_LOGIN"),
                   enteringWorld |-> EnginesIdOf("PLAYER_ENTERING_WORLD")]

LifeInv ==
    /\ foreign \in Nat
    /\ loginFired = (phase = "entering")
    /\ reloading = (Building /\ via = "reload")
    /\ Building => via \in {"login", "reload"}
    /\ phase = "loading screen" => via = "loading screen"
    /\ phase = "build" => EnginesFirst
    /\ Built \/ (phase = "build" /\ "ResolveEventIDs" \notin chain) => IdsRight
    /\ PayloadRight

\* A name of the engine's is looked up where the engine has it.
LEMMA LooksUpEngines ==
  ASSUME EventsApart, EnginesFirst, NEW name \in {"PLAYER_LOGIN", "PLAYER_ENTERING_WORLD"}
  PROVE  Lookup(name) = EnginesIdOf(name)
  <1>1. PICK rest \in Seq(TableNames) : table = EngineEvents \o rest  BY DEF EnginesFirst
  <1>2. /\ EngineEvents \in Seq(Range(EngineEvents))
        /\ \A i, j \in DOMAIN EngineEvents : EngineEvents[i] = EngineEvents[j] => i = j
    BY DEF EventsApart, Hooks!IsInjective
  <1>3. PICK k \in DOMAIN EngineEvents : EngineEvents[k] = name
    BY SessionAssumption DEF Range
  <1>4. EnginesIdOf(name) = k  BY <1>2, <1>3 DEF EnginesIdOf
  <1>5. {i \in DOMAIN Reserved : Reserved[i] = name} = {}
    <2>1. \A i \in DOMAIN Reserved : Reserved[i] \in Range(Declared)
      <3> HIDE DEF Reserved
      <3> QED  BY DEF EventsApart
    <2>2. name \notin Range(Declared)  BY SessionAssumption DEF EventsApart
    <2> QED  BY <2>1, <2>2
  <1>6. /\ k \in DOMAIN table /\ table[k] = name
        /\ \A j \in DOMAIN table : table[j] = name => k <= j
    <2>1. /\ Len(EngineEvents) \in Nat /\ DOMAIN EngineEvents = 1..Len(EngineEvents)
          /\ Len(rest) \in Nat
          /\ DOMAIN table = 1..(Len(EngineEvents) + Len(rest))
          /\ \A i \in DOMAIN EngineEvents : table[i] = EngineEvents[i]
      BY <1>1, <1>2
    <2> QED  BY <1>2, <1>3, <2>1
  <1>7. DOMAIN table \subseteq Int  BY <1>1, <1>2
  <1>8. Lookup(name) = CHOOSE i \in {j \in DOMAIN table : table[j] = name} :
                         \A j \in {l \in DOMAIN table : table[l] = name} : i <= j
    BY <1>5, <1>6 DEF Lookup
  <1>9. ASSUME NEW i \in {j \in DOMAIN table : table[j] = name},
               \A j \in {l \in DOMAIN table : table[l] = name} : i <= j
        PROVE  i = k
    BY <1>6, <1>7, <1>9
  <1> QED  BY <1>4, <1>6, <1>8, <1>9

LEMMA FillsEnginesFirst ==
  ASSUME EventsApart, foreign \in Nat, EngineFills
  PROVE  EnginesFirst'
  <1>1. [i \in 1..foreign |-> "foreign"] \in Seq(TableNames)
    <2>1. [i \in 1..foreign |-> "foreign"] \in [1..foreign -> TableNames]  BY DEF TableNames
    <2> QED  BY <2>1, SeqDef
  <1> QED  BY <1>1 DEF EngineFills, EnginesFirst

LEMMA ReservingKeepsEnginesFirst ==
  ASSUME EventsApart, EnginesFirst, RegisterReservedEvents
  PROVE  EnginesFirst'
  <1>1. PICK rest \in Seq(TableNames) : table = EngineEvents \o rest  BY DEF EnginesFirst
  <1>2. table' = table \/ table' = table \o Reserved
    BY DEF RegisterReservedEvents, eventVars
  <1>3. EngineEvents \in Seq(Range(EngineEvents)) /\ Reserved \in Seq(TableNames)
    <2> HIDE DEF Reserved
    <2>1. Range(Declared) \subseteq TableNames  BY DEF TableNames
    <2> QED  BY <2>1 DEF EventsApart
  <1>4. CASE table' = table \o Reserved
    <2> HIDE DEF Reserved
    <2>1. table' = EngineEvents \o (rest \o Reserved)  BY <1>1, <1>3, <1>4, SMTT(30)
    <2>2. rest \o Reserved \in Seq(TableNames)  BY <1>3
    <2> QED  BY <2>1, <2>2 DEF EnginesFirst
  <1> QED  BY <1>1, <1>2, <1>4 DEF EnginesFirst

\* The engine signals the two events under different IDs.
LEMMA IdsDiffer ==
  EventsApart => EnginesIdOf("PLAYER_LOGIN") # EnginesIdOf("PLAYER_ENTERING_WORLD")
  <1>1. \A name \in {"PLAYER_LOGIN", "PLAYER_ENTERING_WORLD"} :
           EngineEvents[EnginesIdOf(name)] = name
    BY SessionAssumption DEF EnginesIdOf, Range
  <1> QED  BY <1>1

LEMMA LifeInit == EventsApart /\ Init => LifeInv
  <1> SUFFICES ASSUME Init PROVE LifeInv  OBVIOUS
  <1>1. foreign \in Nat  BY SessionAssumption DEF Init
  <1> QED  BY <1>1 DEF Init, LifeInv, Building, Built, PayloadRight

\* The two events, signalled when the IDs are right.
LEMMA PlayerLoginIsRemembered ==
  ASSUME EventsApart, LifeInv, PlayerLogin
  PROVE  LifeInv'
  <1> USE DEF PlayerLogin
  <1>1. IdsRight  BY DEF LifeInv, Built
  <1>2. loginFired' = TRUE /\ payload' = payload
    BY <1>1 DEF SignalEvent, IdsRight
  <1>3. IdsRight'  BY <1>1 DEF IdsRight, EnginesIdOf
  <1> QED  BY <1>2, <1>3 DEF LifeInv, Building, Built, PayloadRight

LEMMA EnteringWorldTells ==
  ASSUME EventsApart, LifeInv, EnteringWorld
  PROVE  LifeInv'
  <1> USE DEF EnteringWorld
  <1>1. IdsRight  BY DEF LifeInv, Built
  <1>2. /\ loginFired' = FALSE
        /\ payload' = [isInitialLogin |-> loginFired /\ ~reloading, isReloadingUi |-> reloading]
    BY <1>1, IdsDiffer DEF SignalEvent, IdsRight, LoginForgotten
  <1>3. IdsRight'  BY <1>1 DEF IdsRight, EnginesIdOf
  <1>4. (loginFired /\ ~reloading) = (via = "login") /\ reloading = (via = "reload")
    BY DEF LifeInv, Building
  <1>5. PayloadRight'  BY <1>2, <1>4 DEF PayloadRight
  <1> QED  BY <1>2, <1>3, <1>5 DEF LifeInv, Building, Built

LEMMA ChainKeepsLife ==
  ASSUME EventsApart, LifeInv, NEW f \in Chain, RunsModule(f)
  PROVE  LifeInv'
  <1> USE DEF RunsModule
  <1>1. EnginesFirst  BY DEF LifeInv
  <1>2. EnginesFirst'
    <2>1. CASE f = "RegisterReservedEvents" /\ RegisterReservedEvents
      BY <1>1, <2>1, ReservingKeepsEnginesFirst
    <2>2. CASE table' = table  BY <1>1, <2>2 DEF EnginesFirst
    <2> QED  BY <2>1, <2>2 DEF eventVars
  <1>3. "ResolveEventIDs" \notin chain' => IdsRight'
    <2>1. CASE f = "ResolveEventIDs" /\ ResolveEventIDs
      BY <1>1, <2>1, LooksUpEngines DEF ResolveEventIDs, IdsRight, EnginesIdOf
    <2>2. CASE ids' = ids /\ f # "ResolveEventIDs"
      BY <2>2 DEF LifeInv, IdsRight, EnginesIdOf
    <2> QED  BY <2>1, <2>2
  <1> QED  BY <1>2, <1>3 DEF LifeInv, Building, Built, PayloadRight

LEMMA LifeStep ==
  ASSUME EventsApart, LifeInv, [Next]_vars
  PROVE  LifeInv'
  <1> USE DEF Building, Built, PayloadRight
  <1>1. ASSUME UNCHANGED <<phase, lifeVars>>  PROVE LifeInv'
    <2>1. UNCHANGED <<foreign, table, ids, loginFired, via, payload, reloading, chain>>
      BY <1>1 DEF lifeVars, eventVars, enteringVars
    <2>2. (EnginesFirst' <=> EnginesFirst) /\ (IdsRight' <=> IdsRight)
      BY <2>1 DEF EnginesFirst, IdsRight, EnginesIdOf
    <2> QED  BY <1>1, <2>1, <2>2 DEF LifeInv
  <1>2. CASE GlueInit  BY <1>2 DEF GlueInit, LifeInv, enteringVars
  <1>3. ASSUME NEW t \in Hooks!Threads, InstallStep(t)  PROVE LifeInv'
    <2>1. UNCHANGED <<phase, foreign, table, ids, loginFired, via, payload, reloading, chain>>
      BY <1>3 DEF InstallStep, eventVars, enteringVars
    <2>2. (EnginesFirst' <=> EnginesFirst) /\ (IdsRight' <=> IdsRight)
      BY <2>1 DEF EnginesFirst, IdsRight, EnginesIdOf
    <2> QED  BY <2>1, <2>2 DEF LifeInv
  <1>4. CASE Login
    <2>1. EnginesFirst'  BY <1>4, FillsEnginesFirst DEF Login, LifeInv
    <2> QED  BY <1>4, <2>1 DEF Login, LifeInv, Chain
  <1>5. CASE ReloadUI
    <2>1. EnginesFirst'  BY <1>5, FillsEnginesFirst DEF ReloadUI, LifeInv
    <2> QED  BY <1>5, <2>1 DEF ReloadUI, LifeInv, Chain
  <1>6. ASSUME NEW f \in Chain, RunsModule(f)  PROVE LifeInv'  BY <1>6, ChainKeepsLife
  <1>7. CASE RescanRuns \/ UnitEvents \/ Edits \/ AddonsLoad \/ LibraryReplaced \/ MasksUsed
    BY <1>1, <1>7 DEF RescanRuns, UnitEvents, Edits, AddonsLoad, LibraryReplaced, MasksUsed
  <1>8. CASE LoadBegins
    <2>1. UNCHANGED <<foreign, table, ids, loginFired, via, payload, reloading, chain>>
      BY <1>8 DEF LoadBegins, lifeVars, eventVars, enteringVars
    <2>2. IdsRight  BY <1>8 DEF LoadBegins, LifeInv
    <2>3. IdsRight'  BY <2>1, <2>2 DEF IdsRight, EnginesIdOf
    <2> QED  BY <1>8, <2>1, <2>3 DEF LoadBegins, LifeInv
  <1>9. CASE PlayerLogin  BY <1>9, PlayerLoginIsRemembered
  <1>10. CASE EnteringWorld  BY <1>10, EnteringWorldTells
  <1>11. CASE LoadingScreen
    <2>1. IdsRight'  BY <1>11 DEF LoadingScreen, LifeInv, IdsRight, EnginesIdOf
    <2> QED  BY <1>11, <2>1 DEF LoadingScreen, LifeInv
  <1>12. CASE Logout
    <2>1. UNCHANGED <<foreign, loginFired, reloading>>
      BY <1>12 DEF Logout, lifeVars, enteringVars
    <2> QED  BY <1>12, <2>1 DEF Logout, LifeInv
  <1>13. CASE Restart  BY <1>13 DEF Restart, LifeInv
  <1>14. CASE UNCHANGED vars  BY <1>1, <1>14 DEF vars
  <1> QED
    BY <1>2, <1>3, <1>4, <1>5, <1>6, <1>7, <1>8, <1>9, <1>10, <1>11, <1>12, <1>13, <1>14
       DEF Next

\* PLAYER_ENTERING_WORLD tells a login, a /reload and a loading screen apart, in any sequence
\* of them, for any order of the module chain and any names behind the engine's in its table.
THEOREM PayloadStaysRight == EventsApart => (Spec => []PayloadRight)
  <1> SUFFICES ASSUME EventsApart PROVE Spec => []PayloadRight  OBVIOUS
  <1>1. Init => LifeInv  BY LifeInit
  <1>2. LifeInv /\ [Next]_vars => LifeInv'  BY LifeStep
  <1>3. LifeInv => PayloadRight  BY DEF LifeInv
  <1> QED  BY <1>1, <1>2, <1>3, PTL DEF Spec

-----------------------------------------------------------------------------
(* FiresItsOwnEvent.  In game a slot is right because the table is the      *)
(* engine's with the reserved names behind it (or the slots are none); at   *)
(* the login screen and before, because a slot of an earlier UI lies behind *)
(* all that is in the table.                                                *)

EnginesTable == EngineEvents \o [i \in 1..foreign |-> "foreign"]
Room == Len(EngineEvents) + foreign + Len(Reserved) <= MaxTable

NoSlots == [i \in DOMAIN Reserved |-> -1]
OwnSlots == [i \in DOMAIN Reserved |-> Len(EngineEvents) + foreign + i]

NamesReserved ==
    /\ Room => table = EnginesTable \o Reserved /\ slots = OwnSlots
    /\ ~Room => table = EnginesTable

SlotInv ==
    /\ foreign \in Nat /\ phase \in Phases
    /\ phase = "boot" => table = <<>>
    /\ phase = "glue" => table = GlueEvents
    /\ phase = "build" /\ "RegisterReservedEvents" \in chain => table = EnginesTable
    /\ Built \/ phase = "left" \/ (phase = "build" /\ "RegisterReservedEvents" \notin chain)
         => NamesReserved
    /\ slots = NoSlots \/ (Room /\ slots = OwnSlots)

\* What is where in the two tables.
LEMMA TablesAre ==
  ASSUME EventsApart, foreign \in Nat
  PROVE  /\ Len(EngineEvents) \in Nat /\ Len(EngineEvents) > 0
         /\ Len(Reserved) \in Nat /\ DOMAIN Reserved = 1..Len(Reserved)
         /\ EnginesTable \in Seq(TableNames) /\ Len(EnginesTable) = Len(EngineEvents) + foreign
         /\ \A i \in DOMAIN EnginesTable : EnginesTable[i] \notin Range(Declared)
         /\ \A i \in DOMAIN Reserved : Reserved[i] \in Range(Declared)
         /\ EnginesTable \o Reserved \in Seq(TableNames)
         /\ Len(EnginesTable \o Reserved) = Len(EngineEvents) + foreign + Len(Reserved)
         /\ \A i \in DOMAIN Reserved :
               (EnginesTable \o Reserved)[Len(EngineEvents) + foreign + i] = Reserved[i]
         /\ \A n \in Range(Declared) : \A i \in DOMAIN (EnginesTable \o Reserved) :
               (EnginesTable \o Reserved)[i] = n => \E j \in DOMAIN Reserved : Reserved[j] = n
  <1> HIDE DEF Reserved
  <1> DEFINE others == [i \in 1..foreign |-> "foreign"]
  <1>1. EngineEvents \in Seq(TableNames) /\ Len(EngineEvents) \in Nat
    BY DEF EventsApart, TableNames
  <1>2. Len(EngineEvents) > 0
    <2>1. "PLAYER_LOGIN" \in Range(EngineEvents)  BY SessionAssumption
    <2>2. PICK k \in DOMAIN EngineEvents : EngineEvents[k] = "PLAYER_LOGIN"  BY <2>1 DEF Range
    <2>3. k \in 1..Len(EngineEvents)  BY <1>1, <2>2
    <2> QED  BY <1>1, <2>3
  <1>3. others \in Seq(TableNames) /\ Len(others) = foreign
    <2>1. others \in [1..foreign -> TableNames]  BY DEF TableNames
    <2>2. others \in Seq(TableNames)  BY <2>1, SeqDef
    <2>3. DOMAIN others = 1..foreign  OBVIOUS
    <2> QED  BY <2>2, <2>3
  <1>4. Reserved \in Seq(Range(Declared)) /\ Reserved \in Seq(TableNames)
    <2>1. Range(Declared) \subseteq TableNames  BY DEF TableNames
    <2> QED  BY <2>1 DEF EventsApart
  <1>5. Len(Reserved) \in Nat /\ DOMAIN Reserved = 1..Len(Reserved)
        /\ \A i \in DOMAIN Reserved : Reserved[i] \in Range(Declared)
    BY <1>4
  <1>6. \A i \in 1..foreign : others[i] = "foreign"  OBVIOUS
  <1> HIDE DEF others
  <1>7. EnginesTable = EngineEvents \o others  BY DEF EnginesTable, others
  <1>8. /\ EnginesTable \in Seq(TableNames) /\ Len(EnginesTable) = Len(EngineEvents) + foreign
        /\ \A i \in 1..Len(EngineEvents) + foreign : EnginesTable[i] =
              IF i <= Len(EngineEvents) THEN EngineEvents[i] ELSE others[i - Len(EngineEvents)]
    BY <1>1, <1>3, <1>7, ConcatProperties
  <1>9. ASSUME NEW i \in DOMAIN EnginesTable  PROVE EnginesTable[i] \notin Range(Declared)
    <2>1. i \in 1..Len(EngineEvents) + foreign  BY <1>8
    <2>2. CASE i <= Len(EngineEvents)
      <3>1. EnginesTable[i] = EngineEvents[i] /\ i \in DOMAIN EngineEvents
        BY <1>1, <1>8, <2>1, <2>2
      <3>2. EnginesTable[i] \in Range(EngineEvents)  BY <3>1 DEF Range
      <3> QED  BY <3>2 DEF EventsApart
    <2>3. CASE ~(i <= Len(EngineEvents))
      <3>1. i - Len(EngineEvents) \in 1..foreign  BY <1>1, <2>1, <2>3
      <3>2. EnginesTable[i] = "foreign"  BY <1>6, <1>8, <2>1, <2>3, <3>1
      <3> QED  BY <3>2 DEF EventsApart
    <2> QED  BY <2>2, <2>3
  <1>10. /\ EnginesTable \o Reserved \in Seq(TableNames)
         /\ Len(EnginesTable \o Reserved) = Len(EngineEvents) + foreign + Len(Reserved)
         /\ \A i \in 1..Len(EngineEvents) + foreign + Len(Reserved) :
              (EnginesTable \o Reserved)[i] =
                 IF i <= Len(EngineEvents) + foreign THEN EnginesTable[i]
                 ELSE Reserved[i - (Len(EngineEvents) + foreign)]
    <2>1. EnginesTable \in Seq(TableNames) /\ Len(EnginesTable) = Len(EngineEvents) + foreign
      BY <1>8
    <2>2. /\ EnginesTable \o Reserved \in Seq(TableNames)
          /\ Len(EnginesTable \o Reserved) = Len(EnginesTable) + Len(Reserved)
          /\ \A i \in 1..Len(EnginesTable) + Len(Reserved) : (EnginesTable \o Reserved)[i] =
                IF i <= Len(EnginesTable) THEN EnginesTable[i]
                ELSE Reserved[i - Len(EnginesTable)]
      BY <1>4, <2>1, ConcatProperties
    <2> QED  BY <2>1, <2>2
  <1>11. \A i \in DOMAIN Reserved :
           (EnginesTable \o Reserved)[Len(EngineEvents) + foreign + i] = Reserved[i]
    BY <1>1, <1>5, <1>10, SMTT(60)
  <1>12. ASSUME NEW n \in Range(Declared), NEW i \in DOMAIN (EnginesTable \o Reserved),
                (EnginesTable \o Reserved)[i] = n
         PROVE  \E j \in DOMAIN Reserved : Reserved[j] = n
    <2>1. i \in 1..Len(EngineEvents) + foreign + Len(Reserved)  BY <1>10
    <2>2. ~(i <= Len(EngineEvents) + foreign)
      <3> SUFFICES ASSUME i <= Len(EngineEvents) + foreign PROVE FALSE  OBVIOUS
      <3>1. i \in DOMAIN EnginesTable  BY <1>1, <1>5, <1>8, <2>1
      <3>2. EnginesTable[i] = n  BY <1>10, <1>12, <2>1
      <3> QED  BY <1>9, <3>1, <3>2
    <2>3. i - (Len(EngineEvents) + foreign) \in DOMAIN Reserved  BY <1>1, <1>5, <2>1, <2>2
    <2>4. Reserved[i - (Len(EngineEvents) + foreign)] = n  BY <1>10, <1>12, <2>1, <2>2
    <2> QED  BY <2>3, <2>4
  <1> QED  BY <1>1, <1>2, <1>5, <1>8, <1>9, <1>10, <1>11, <1>12

LEMMA SlotInit == EventsApart /\ Init => SlotInv
  <1> SUFFICES ASSUME Init PROVE SlotInv  OBVIOUS
  <1>1. foreign \in Nat  BY SessionAssumption DEF Init
  <1>2. slots = NoSlots  BY DEF Init, NoSlots
  <1> QED  BY <1>1, <1>2, SMTT(30) DEF Init, SlotInv, Built, Phases

\* The chain's reservation, once in each UI.
LEMMA ChainReserves ==
  ASSUME EventsApart, SlotInv, NEW f \in Chain, RunsModule(f)
  PROVE  SlotInv'
  <1>1. /\ phase = "build" /\ phase' = "build" /\ foreign' = foreign
        /\ f \in chain /\ chain' = chain \ {f}
    BY DEF RunsModule
  <1>2. foreign \in Nat  BY DEF SlotInv
  <1>3. EnginesTable' = EnginesTable /\ (Room' <=> Room) /\ NoSlots' = NoSlots
        /\ OwnSlots' = OwnSlots
    BY <1>1 DEF EnginesTable, Room, NoSlots, OwnSlots
  <1>4. CASE f = "RegisterReservedEvents" /\ RegisterReservedEvents
    <2>1. table = EnginesTable  BY <1>1, <1>4 DEF SlotInv
    <2>2. /\ Len(table) = Len(EngineEvents) + foreign /\ table # <<>>
          /\ Len(Reserved) \in Nat /\ MaxTable \in Nat /\ Len(EngineEvents) \in Nat
      <3> HIDE DEF Reserved
      <3>1. /\ Len(table) = Len(EngineEvents) + foreign /\ Len(EngineEvents) \in Nat
            /\ Len(EngineEvents) > 0 /\ Len(Reserved) \in Nat
        BY <1>2, <2>1, TablesAre
      <3>2. table # <<>>  BY <1>2, <3>1
      <3> QED  BY <3>1, <3>2, SessionAssumption
    <2>3. SlotsAfter = OwnSlots
      <3> HIDE DEF Reserved
      <3> QED  BY <2>2 DEF SlotsAfter, OwnSlots
    <2>4. CASE Room
      <3>1. ~(table = <<>> \/ Len(table) + Len(Reserved) > MaxTable)
        <4> HIDE DEF Reserved
        <4> QED  BY <1>2, <2>2, <2>4 DEF Room
      <3>2. table' = EnginesTable \o Reserved /\ slots' = OwnSlots
        BY <1>4, <2>1, <2>3, <3>1 DEF RegisterReservedEvents
      <3> QED  BY <1>1, <1>2, <1>3, <1>4, <2>4, <3>2 DEF SlotInv, NamesReserved, Built, Phases
    <2>5. CASE ~Room
      <3>1. table = <<>> \/ Len(table) + Len(Reserved) > MaxTable
        <4> HIDE DEF Reserved
        <4> QED  BY <1>2, <2>2, <2>5 DEF Room
      <3>2. table' = table /\ slots' = slots
        BY <1>4, <3>1 DEF RegisterReservedEvents, eventVars
      <3> QED  BY <1>1, <1>2, <1>3, <1>4, <2>1, <2>5, <3>2
               DEF SlotInv, NamesReserved, Built, Phases
    <2> QED  BY <2>4, <2>5
  <1>5. CASE f # "RegisterReservedEvents" /\ UNCHANGED eventVars
    BY <1>1, <1>2, <1>3, <1>5 DEF SlotInv, NamesReserved, Built, Phases, eventVars
  <1> QED  BY <1>4, <1>5 DEF RunsModule

LEMMA SlotStep ==
  ASSUME EventsApart, SlotInv, [Next]_vars
  PROVE  SlotInv'
  <1>0. foreign \in Nat  BY DEF SlotInv
  <1>1. foreign' = foreign
        => /\ EnginesTable' = EnginesTable /\ (Room' <=> Room)
           /\ NoSlots' = NoSlots /\ OwnSlots' = OwnSlots
    BY DEF EnginesTable, Room, NoSlots, OwnSlots
  <1> USE DEF Built, Phases, NamesReserved
  <1>2. ASSUME UNCHANGED <<phase, foreign, table, slots, chain>>  PROVE SlotInv'
    BY <1>1, <1>2 DEF SlotInv
  <1>3. CASE GlueInit  BY <1>1, <1>3 DEF GlueInit, SlotInv
  <1>4. ASSUME NEW t \in Hooks!Threads, InstallStep(t)  PROVE SlotInv'
    BY <1>2, <1>4 DEF InstallStep, eventVars
  <1>5. CASE Login \/ ReloadUI
    <2>1. /\ phase' = "build" /\ chain' = Chain /\ foreign' = foreign /\ slots' = slots
          /\ table' = EnginesTable
      BY <1>5 DEF Login, ReloadUI, EngineFills, EnginesTable
    <2>2. "RegisterReservedEvents" \in chain'  BY <2>1 DEF Chain
    <2> QED  BY <1>0, <1>1, <2>1, <2>2 DEF SlotInv
  <1>6. ASSUME NEW f \in Chain, RunsModule(f)  PROVE SlotInv'  BY <1>6, ChainReserves
  <1>7. CASE RescanRuns \/ UnitEvents \/ Edits \/ AddonsLoad \/ LibraryReplaced \/ MasksUsed
    <2>1. UNCHANGED <<phase, lifeVars>>
      BY <1>7 DEF RescanRuns, UnitEvents, Edits, AddonsLoad, LibraryReplaced, MasksUsed
    <2> QED  BY <1>2, <2>1 DEF lifeVars, eventVars
  <1>8. CASE LoadBegins \/ PlayerLogin \/ EnteringWorld \/ LoadingScreen \/ Logout
    <2>1. /\ UNCHANGED <<foreign, table, slots>>
          /\ phase' \in {"load", "entering", "world", "loading screen", "left"}
          /\ phase = "build" => chain = {}
          /\ phase \in {"build", "load", "entering", "world", "loading screen"}
      BY <1>8 DEF LoadBegins, PlayerLogin, EnteringWorld, LoadingScreen, Logout, lifeVars,
                  eventVars
    <2>2. NamesReserved  BY <2>1 DEF SlotInv
    <2> QED  BY <1>0, <1>1, <2>1, <2>2 DEF SlotInv
  <1>9. CASE Restart
    <2>1. slots' = NoSlots'  BY <1>9 DEF Restart, NoSlots
    <2> QED  BY <1>0, <1>9, <2>1 DEF Restart, SlotInv
  <1>10. CASE UNCHANGED vars  BY <1>2, <1>10 DEF vars, lifeVars, eventVars
  <1> QED
    BY <1>3, <1>4, <1>5, <1>6, <1>7, <1>8, <1>9, <1>10 DEF Next

LEMMA SlotsFireTheirOwn ==
  ASSUME EventsApart, SlotInv
  PROVE  FiresItsOwnEvent
  <1> HIDE DEF Reserved
  <1> SUFFICES ASSUME phase # "build", NEW n \in Range(Declared)
               PROVE  /\ Fire(Lookup(n)) \in {n, "nothing"}
                      /\ LuaRuns /\ Contains(Reserved, n) /\ Room => Fire(Lookup(n)) = n
    BY DEF FiresItsOwnEvent, Room
  <1>1. /\ foreign \in Nat /\ Len(EngineEvents) \in Nat /\ Len(Reserved) \in Nat
        /\ DOMAIN Reserved = 1..Len(Reserved)
    BY TablesAre DEF SlotInv
  <1>2. \/ table = <<>> \/ table = GlueEvents
        \/ NamesReserved /\ (table = EnginesTable \/ table = EnginesTable \o Reserved)
    BY DEF SlotInv, NamesReserved, Built, Phases
  <1>3. -1 \notin DOMAIN table /\ \A i \in DOMAIN table : i \in Nat
    <2>1. table = <<>> \/ table \in Seq(Range(GlueEvents)) \/ table \in Seq(TableNames)
      BY <1>1, <1>2, TablesAre DEF EventsApart
    <2> QED  BY <2>1
  <1>4. CASE \E i \in DOMAIN Reserved : Reserved[i] = n
    <2>1. PICK k \in DOMAIN Reserved : Reserved[k] = n /\ Lookup(n) = slots[k]
      <3>1. {i \in DOMAIN Reserved : Reserved[i] = n} # {}  BY <1>4
      <3>2. Lookup(n) = slots[CHOOSE i \in {j \in DOMAIN Reserved : Reserved[j] = n} : TRUE]
        BY <3>1 DEF Lookup
      <3> QED  BY <3>1, <3>2
    <2>2. CASE slots = NoSlots /\ ~Room
      <3>1. slots[k] = -1  BY <2>1, <2>2 DEF NoSlots
      <3> QED  BY <1>3, <2>1, <2>2, <3>1 DEF Fire
    <2>3. CASE slots = NoSlots /\ Room
      <3>1. slots[k] = -1  BY <2>1, <2>3 DEF NoSlots
      <3>2. ~LuaRuns
        <4>1. -1 # Len(EngineEvents) + foreign + k  BY <1>1
        <4>2. slots # OwnSlots  BY <2>1, <3>1, <4>1 DEF OwnSlots
        <4> QED  BY <2>3, <4>2 DEF LuaRuns, SlotInv, NamesReserved, Built
      <3> QED  BY <1>3, <2>1, <3>1, <3>2 DEF Fire
    <2>4. CASE Room /\ slots = OwnSlots
      <3>1. slots[k] = Len(EngineEvents) + foreign + k  BY <2>1, <2>4 DEF OwnSlots
      <3>2. CASE table = EnginesTable \o Reserved
        <4>1. table[slots[k]] = n  BY <1>1, <2>1, <3>1, <3>2, TablesAre
        <4>2. slots[k] \in DOMAIN table
          <5>1. DOMAIN table = 1..(Len(EngineEvents) + foreign + Len(Reserved))
            BY <1>1, <3>2, TablesAre
          <5> QED  BY <1>1, <2>1, <3>1, <5>1
        <4> QED  BY <2>1, <4>1, <4>2 DEF Fire
      <3>3. CASE table = <<>> \/ table = GlueEvents
        <4>1. slots[k] \notin DOMAIN table
          <5>1. DOMAIN table = {} \/ (DOMAIN table = 1..Len(GlueEvents)
                                      /\ Len(GlueEvents) \in Nat)
            BY <3>3 DEF EventsApart
          <5>2. Len(GlueEvents) <= Len(EngineEvents)  BY DEF EventsApart
          <5> QED  BY <1>1, <3>1, <5>1, <5>2
        <4>2. ~LuaRuns \/ table = EnginesTable \o Reserved
          BY <2>4 DEF LuaRuns, SlotInv, NamesReserved, Built
        <4>3. CASE ~LuaRuns  BY <2>1, <4>1, <4>3 DEF Fire
        <4> QED  BY <3>2, <4>2, <4>3
      <3> QED  BY <1>2, <2>4, <3>2, <3>3 DEF NamesReserved
    <2> QED  BY <2>2, <2>3, <2>4 DEF SlotInv
  <1>5. CASE ~\E i \in DOMAIN Reserved : Reserved[i] = n
    <2>1. ~Contains(Reserved, n)  BY <1>1, <1>5 DEF Contains
    <2>2. \A i \in DOMAIN table : table[i] # n
      <3>1. CASE table = <<>>  BY <3>1
      <3>2. CASE table = GlueEvents
        <4>1. \A i \in DOMAIN GlueEvents : GlueEvents[i] \in Range(GlueEvents)  BY DEF Range
        <4>2. n \notin Range(GlueEvents)  BY DEF EventsApart
        <4> QED  BY <3>2, <4>1, <4>2
      <3>3. CASE table = EnginesTable  BY <1>1, <3>3, TablesAre
      <3>4. CASE table = EnginesTable \o Reserved  BY <1>1, <1>5, <3>4, TablesAre
      <3> QED  BY <1>2, <3>1, <3>2, <3>3, <3>4
    <2>3. {i \in DOMAIN Reserved : Reserved[i] = n} = {}
          /\ {i \in DOMAIN table : table[i] = n} = {}
      BY <1>5, <2>2
    <2>4. Lookup(n) = -1  BY <2>3 DEF Lookup
    <2> QED  BY <1>3, <2>1, <2>4 DEF Fire
  <1> QED  BY <1>4, <1>5

\* A reserved name signals its own event and no other, in game and at the login screen, in any
\* sequence of UIs, wherever other libraries' names put the slots.
THEOREM SlotsStayTheirOwn == EventsApart => (Spec => []FiresItsOwnEvent)
  <1> SUFFICES ASSUME EventsApart PROVE Spec => []FiresItsOwnEvent  OBVIOUS
  <1>1. Init => SlotInv  BY SlotInit
  <1>2. SlotInv /\ [Next]_vars => SlotInv'  BY SlotStep
  <1>3. SlotInv => FiresItsOwnEvent  BY SlotsFireTheirOwn
  <1> QED  BY <1>1, <1>2, <1>3, PTL DEF Spec

-----------------------------------------------------------------------------
(* Masks.                                                                  *)

\* The module's counts are those of FiniteSetTheorems.
LEMMA CountsAgree ==
  \A S : Masks!Cardinality(S) = Cardinality(S) /\ (Masks!IsFiniteSet(S) <=> IsFiniteSet(S))
  BY DEF Masks!Cardinality, Cardinality, Masks!IsFiniteSet, IsFiniteSet

\* RemoveFirst on a list that names nothing twice.
LEMMA RemovesOne ==
  ASSUME NEW T, NEW s \in Seq(T), NEW e, Masks!IsInjective(s)
  PROVE  /\ Masks!RemoveFirst(s, e) \in Seq(T \ {e}) /\ Masks!IsInjective(Masks!RemoveFirst(s, e))
         /\ \A x : (\E i \in DOMAIN Masks!RemoveFirst(s, e) : Masks!RemoveFirst(s, e)[i] = x)
                     <=> x # e /\ \E i \in DOMAIN s : s[i] = x
         /\ s # <<>> /\ s[1] # e => Masks!RemoveFirst(s, e) # <<>>
            /\ Masks!RemoveFirst(s, e)[1] = s[1]
  <1>0. DOMAIN s = 1..Len(s) /\ Len(s) \in Nat  OBVIOUS
  <1>1. CASE \A i \in 1..Len(s) : s[i] # e
    <2>1. Masks!RemoveFirst(s, e) = s  BY <1>1 DEF Masks!RemoveFirst
    <2>2. s \in Seq(T \ {e})
      <3>1. \A i \in 1..Len(s) : s[i] \in T  OBVIOUS
      <3> QED  BY <1>0, <1>1, <3>1, IsASeq
    <2> QED  BY <1>0, <1>1, <2>1, <2>2
  <1>2. ASSUME NEW k \in 1..Len(s), s[k] = e
        PROVE  /\ Masks!RemoveFirst(s, e) \in Seq(T \ {e})
               /\ Masks!IsInjective(Masks!RemoveFirst(s, e))
               /\ \A x : (\E i \in DOMAIN Masks!RemoveFirst(s, e) :
                          Masks!RemoveFirst(s, e)[i] = x)
                           <=> x # e /\ \E i \in DOMAIN s : s[i] = x
               /\ s # <<>> /\ s[1] # e => Masks!RemoveFirst(s, e) # <<>>
                  /\ Masks!RemoveFirst(s, e)[1] = s[1]
    <2>1. \A i \in 1..Len(s) : s[i] = e <=> i = k  BY <1>0, <1>2 DEF Masks!IsInjective
    <2>2. Masks!SelectInSeq(s, LAMBDA v : v = e) = k
      <3>1. {i \in 1..Len(s) : s[i] = e} = {k}  BY <2>1
      <3>2. Masks!Min({k}) = k  BY DEF Masks!Min
      <3> QED  BY <3>1, <3>2 DEF Masks!SelectInSeq
    <2>3. Masks!RemoveFirst(s, e) = SubSeq(s, 1, k - 1) \o SubSeq(s, k + 1, Len(s))
      BY <1>2, <2>2 DEF Masks!RemoveFirst, Masks!RemoveAt
    <2> DEFINE t == Masks!RemoveFirst(s, e)
    <2>4. /\ t \in Seq(T) /\ Len(t) = Len(s) - 1
          /\ \A i \in 1..(k - 1) : t[i] = s[i]
          /\ \A i \in k..(Len(s) - 1) : t[i] = s[i + 1]
      <3> DEFINE a == SubSeq(s, 1, k - 1)
                 b == SubSeq(s, k + 1, Len(s))
      <3>0. \A i \in 1..Len(s) : s[i] \in T  OBVIOUS
      <3>1. a \in Seq(T) /\ Len(a) = k - 1 /\ \A i \in 1..(k - 1) : a[i] = s[i]
        BY <1>0, <3>0, SubSeqProperties, SMTT(60)
      <3>2. b \in Seq(T) /\ Len(b) = Len(s) - k /\ \A i \in 1..(Len(s) - k) : b[i] = s[i + k]
        <4>1. \A i \in (k + 1)..Len(s) : s[i] \in T  BY <1>0, <3>0
        <4>2. k + 1 \in Int /\ Len(s) \in Int  BY <1>0
        <4>3. /\ b \in Seq(T) /\ Len(b) = IF k + 1 <= Len(s) THEN Len(s) - (k + 1) + 1 ELSE 0
              /\ \A i \in 1..(Len(s) - (k + 1) + 1) : b[i] = s[k + 1 + i - 1]
          BY <4>1, <4>2, SubSeqProperties
        <4> HIDE DEF b
        <4>0. k \in Int /\ Len(s) \in Int /\ k <= Len(s)  BY <1>0, SMTT(60)
        <4>4. /\ (IF k + 1 <= Len(s) THEN Len(s) - (k + 1) + 1 ELSE 0) = Len(s) - k
              /\ Len(s) - (k + 1) + 1 = Len(s) - k
          <5> DEFINE m == Len(s)
          <5>1. m \in Int /\ k \in Int /\ k <= m  BY <4>0
          <5> HIDE DEF m
          <5>2. (IF k + 1 <= m THEN m - (k + 1) + 1 ELSE 0) = m - k /\ m - (k + 1) + 1 = m - k
            BY <5>1
          <5> QED  BY <5>2, Zenon DEF m
        <4>5. \A i \in 1..(Len(s) - k) : k + 1 + i - 1 = i + k  BY <1>0
        <4> QED  BY <4>3, <4>4, <4>5, Zenon
      <3>3. t = a \o b  BY <2>3
      <3> HIDE DEF a, b, t
      <3>4. t \in Seq(T) /\ Len(t) = Len(s) - 1
        <4>1. a \o b \in Seq(T) /\ Len(a \o b) = Len(a) + Len(b)  BY <3>1, <3>2, ConcatProperties
        <4>2. (k - 1) + (Len(s) - k) = Len(s) - 1  BY <1>0
        <4> QED  BY <3>1, <3>2, <3>3, <4>1, <4>2
      <3>5. \A i \in 1..(k - 1) : t[i] = s[i]  BY <1>0, <3>1, <3>2, <3>3
      <3>6. ASSUME NEW i \in k..(Len(s) - 1)  PROVE t[i] = s[i + 1]
        <4>1. t[i] = b[i - (k - 1)]  BY <1>0, <3>1, <3>2, <3>3
        <4>2. i - (k - 1) \in 1..(Len(s) - k) /\ (i - (k - 1)) + k = i + 1  BY <1>0
        <4> QED  BY <3>2, <4>1, <4>2
      <3> QED  BY <3>4, <3>5, <3>6
    <2> HIDE DEF t
    <2>5. DOMAIN t = 1..(Len(s) - 1)  BY <2>4
    <2>6. \A i \in DOMAIN t : \E j \in DOMAIN s :
             t[i] = s[j] /\ j # k /\ (i < k => j = i) /\ (i >= k => j = i + 1)
      <3> TAKE i \in DOMAIN t
      <3>1. CASE i < k  BY <3>1, <1>0, <2>4, <2>5
      <3>2. CASE i >= k
        <4>1. i + 1 \in DOMAIN s /\ t[i] = s[i + 1]  BY <3>2, <1>0, <2>4, <2>5
        <4> QED  BY <3>2, <4>1, <2>5
      <3> QED  BY <3>1, <3>2, <2>5
    <2>7. \A i \in DOMAIN t : t[i] # e  BY <1>0, <2>1, <2>6
    <2>8. t \in Seq(T \ {e})
      <3>1. \A i \in 1..Len(t) : t[i] \in T \ {e}  BY <2>4, <2>5, <2>7, SMTT(60)
      <3> QED  BY <2>4, <3>1, IsASeq
    <2>9. Masks!IsInjective(t)
      <3> SUFFICES ASSUME NEW i \in DOMAIN t, NEW j \in DOMAIN t, t[i] = t[j]  PROVE i = j
        BY DEF Masks!IsInjective
      <3>1. PICK p \in DOMAIN s : t[i] = s[p] /\ p # k /\ (i < k => p = i)
                 /\ (i >= k => p = i + 1)
        BY <2>6
      <3>2. PICK q \in DOMAIN s : t[j] = s[q] /\ q # k /\ (j < k => q = j)
                 /\ (j >= k => q = j + 1)
        BY <2>6
      <3>3. p = q  BY <3>1, <3>2 DEF Masks!IsInjective
      <3> QED  BY <1>0, <2>5, <3>1, <3>2, <3>3
    <2>10. \A x : (\E i \in DOMAIN t : t[i] = x) <=> x # e /\ \E i \in DOMAIN s : s[i] = x
      <3>1. ASSUME NEW j \in DOMAIN s, j # k  PROVE \E i \in DOMAIN t : t[i] = s[j]
        <4>1. CASE j < k  BY <4>1, <1>0, <2>4, <2>5, SMTT(30)
        <4>2. CASE j > k
          <5>1. j - 1 \in k..(Len(s) - 1) /\ (j - 1) + 1 = j  BY <4>2, <1>0
          <5> QED  BY <5>1, <2>4, <2>5
        <4> QED  BY <3>1, <4>1, <4>2, <1>0
      <3> QED  BY <3>1, <2>1, <2>6, <2>7, <1>0
    <2>11. s # <<>> /\ s[1] # e => t # <<>> /\ t[1] = s[1]
      <3> SUFFICES ASSUME s # <<>>, s[1] # e  PROVE t # <<>> /\ t[1] = s[1]  OBVIOUS
      <3>1. k # 1 /\ 1 \in 1..(k - 1) /\ Len(s) > 1  BY <1>0, <1>2, <2>1
      <3> QED  BY <3>1, <2>4, <2>5
    <2> QED  BY <2>8, <2>9, <2>10, <2>11 DEF t
  <1> QED  BY <1>1, <1>2

\* A set's members, each once, in some order.
LEMMA SetsToSeqs ==
  ASSUME NEW S, IsFiniteSet(S)
  PROVE  /\ Masks!SetToSeq(S) \in Seq(S) /\ Len(Masks!SetToSeq(S)) = Cardinality(S)
         /\ Masks!IsInjective(Masks!SetToSeq(S))
         /\ \A x \in S : \E i \in DOMAIN Masks!SetToSeq(S) : Masks!SetToSeq(S)[i] = x
  <1> DEFINE n == Cardinality(S)
             f == Masks!SetToSeq(S)
  <1>1. n \in Nat  BY FS_CardinalityType
  <1>2. \E g \in [1..n -> S] : Masks!IsInjective(g)
    <2>1. PICK g \in [1..n -> S] : \A a, b \in 1..n : g[a] = g[b] => a = b
      <3>1. ExistsBijection(1..n, S)  BY FS_CardinalityType
      <3>2. PICK g : g \in Bijection(1..n, S)  BY <3>1, Fun_ExistsBij
      <3>3. g \in [1..n -> S] /\ \A a, b \in 1..n : g[a] = g[b] => a = b
        BY <3>2, Fun_BijectionProperties, Zenon
      <3> QED  BY <3>3
    <2> QED  BY <2>1 DEF Masks!IsInjective
  <1>3. f \in [1..n -> S] /\ Masks!IsInjective(f)
    <2>1. f = CHOOSE g \in [1..n -> S] : Masks!IsInjective(g)  BY CountsAgree DEF Masks!SetToSeq
    <2> HIDE DEF f, n
    <2> QED  BY <1>2, <2>1
  <1> HIDE DEF f, n
  <1>4. f \in Seq(S) /\ Len(f) = n /\ DOMAIN f = 1..n  BY <1>1, <1>3
  <1>5. f \in Injection(1..n, S)
    <2>1. \A a, b \in 1..n : f[a] = f[b] => a = b  BY <1>3 DEF Masks!IsInjective
    <2> QED  BY <1>3, <2>1, Fun_IsInj
  <1>6. Cardinality(1..n) = n  BY <1>1, FS_Interval
  <1>7. f \in Surjection(1..n, S)  BY <1>1, <1>5, <1>6, FS_Injection DEF n
  <1>8. \A x \in S : \E i \in 1..n : f[i] = x  BY <1>7 DEF Surjection
  <1> QED  BY <1>3, <1>4, <1>8 DEF f, n

\* How many a file's references are.
LEMMA RefsAreCounts ==
  ASSUME Masks!MaskAssumption, Masks!TablesTyped
  PROVE  /\ \A f : /\ Masks!IsFiniteSet(Masks!SetBy(f)) /\ Cardinality(Masks!SetBy(f)) \in Nat
                   /\ Masks!IsFiniteSet(Masks!LoadedBy(f))
                   /\ Cardinality(Masks!LoadedBy(f)) \in Nat
         /\ Masks!RefsCounted <=> \A f \in Files :
            held[f] = Cardinality(Masks!SetBy(f)) + Cardinality(Masks!LoadedBy(f))
         /\ Masks!RefsCounted' <=> \A f \in Files :
            held'[f] = Cardinality(Masks!SetBy(f)') + Cardinality(Masks!LoadedBy(f)')
  <1>1. IsFiniteSet(Regions)  BY CountsAgree DEF Masks!MaskAssumption
  <1>2. \A f : Masks!SetBy(f) \subseteq Regions /\ Masks!LoadedBy(f) \subseteq Regions
    BY DEF Masks!SetBy, Masks!LoadedBy, Masks!TablesTyped
  <1>3. \A f : /\ IsFiniteSet(Masks!SetBy(f)) /\ Cardinality(Masks!SetBy(f)) \in Nat
               /\ IsFiniteSet(Masks!LoadedBy(f)) /\ Cardinality(Masks!LoadedBy(f)) \in Nat
    BY <1>1, <1>2, FS_Subset, FS_CardinalityType
  <1>4. Masks!RefsCounted <=> \A f \in Files :
        held[f] = Cardinality(Masks!SetBy(f)) + Cardinality(Masks!LoadedBy(f))
    BY CountsAgree DEF Masks!RefsCounted
  <1>5. Masks!RefsCounted' <=> \A f \in Files :
        held'[f] = Cardinality(Masks!SetBy(f)') + Cardinality(Masks!LoadedBy(f)')
    BY CountsAgree DEF Masks!RefsCounted
  <1> QED  BY <1>3, <1>4, <1>5, CountsAgree

\* One owner more or less.
LEMMA CountsOfOne ==
  ASSUME NEW S, Masks!IsFiniteSet(S), NEW x
  PROVE  /\ Cardinality(S \ {x}) = Cardinality(S) - (IF x \in S THEN 1 ELSE 0)
         /\ Cardinality(S \cup {x}) = Cardinality(S) + (IF x \in S THEN 0 ELSE 1)
  <1>1. IsFiniteSet(S) /\ Cardinality(S) \in Nat  BY CountsAgree, FS_CardinalityType
  <1>2. Cardinality(S \ {x}) = IF x \in S THEN Cardinality(S) - 1 ELSE Cardinality(S)
    BY <1>1, FS_RemoveElement
  <1>3. Cardinality(S \cup {x}) = IF x \in S THEN Cardinality(S) ELSE Cardinality(S) + 1
    BY <1>1, FS_AddElement
  <1> QED  BY <1>1, <1>2, <1>3

\* The state between batches is one that DrawnSoFar and DeviceInv allow.
LEMMA NothingIsDrawn ==
  ASSUME draw' = Masks!NoDraw, device' = Masks!CleanDevice, masksEnabled' \in BOOLEAN
  PROVE  Masks!DrawnSoFar' /\ Masks!DeviceInv'
  <1>1. <<>> \in Seq(alive') /\ <<>> \in Seq([entry : Nat, masks : Seq(Regions)]) /\ Len(<<>>) = 0
        /\ DOMAIN <<>> = {}
    OBVIOUS
  <1>2. 1..0 = {}  OBVIOUS
  <1> QED
    BY <1>1, <1>2 DEF Masks!DrawnSoFar, Masks!DeviceInv, Masks!NoDraw, Masks!InOrder,
       Masks!Entries

\* What a fault tore stays as it is, and the feature stays off.
LEMMA TornStays ==
  ASSUME Masks!TornOnce, UNCHANGED torn, masksEnabled' => masksEnabled
  PROVE  Masks!TornOnce'
  BY DEF Masks!TornOnce

\* In a new process, nothing is torn.
LEMMA NothingTorn == ASSUME torn' = Masks!NoneTorn  PROVE Masks!TornOnce'
  BY DEF Masks!TornOnce, Masks!NoneTorn

\* What Lua does, it does between batches.
LEMMA BetweenBatches ==
  ASSUME Masks!MaskInv, ~Masks!Drawing, UNCHANGED <<draw, device, masksEnabled>>
  PROVE  Masks!DrawnSoFar' /\ Masks!DeviceInv'
  <1>1. draw' = Masks!NoDraw /\ device' = Masks!CleanDevice /\ masksEnabled' \in BOOLEAN
    BY DEF Masks!MaskInv, Masks!DeviceInv, Masks!Drawing, Masks!TablesTyped
  <1> QED  BY <1>1, NothingIsDrawn

\* CreateTexture and SetTexture leave the masks' tables alone.
LEMMA RegionsComeAndChange ==
  ASSUME Masks!MaskAssumption, Masks!TablesTyped, Masks!RefsCounted, NEW r \in Regions,
         NEW picture \in Files \cup {Masks!NoTexture, Masks!Solid},
         Masks!CreateTexture(r, picture) \/ Masks!SetTexture(r, picture)
  PROVE  Masks!TablesTyped' /\ Masks!RefsCounted'
  <1>1. /\ alive \subseteq alive' /\ alive' \subseteq Regions
        /\ texture' \in [Regions -> Files \cup {Masks!NoTexture, Masks!Solid}]
        /\ UNCHANGED <<pathMasks, baseMasks, maskLoads, held, masksEnabled>>
        /\ calls' \in 0..MaxCalls
    BY DEF Masks!CreateTexture, Masks!SetTexture, Masks!LuaCall, Masks!TablesTyped,
       Masks!MaskAssumption, Masks!maskTables
  <1>2. \A x \in DOMAIN baseMasks : baseMasks[x] \in Seq(alive' \ {x})
    <2> TAKE x \in DOMAIN baseMasks
    <2>1. baseMasks[x] \in Seq(alive \ {x}) /\ alive \ {x} \subseteq alive' \ {x}
      BY <1>1 DEF Masks!TablesTyped
    <2> QED  BY <2>1, SeqMonotonic
  <1>3. Masks!TablesTyped'  BY <1>1, <1>2 DEF Masks!TablesTyped
  <1>4. \A f : Masks!SetBy(f)' = Masks!SetBy(f) /\ Masks!LoadedBy(f)' = Masks!LoadedBy(f)
    BY <1>1 DEF Masks!SetBy, Masks!LoadedBy
  <1> QED  BY <1>1, <1>3, <1>4, RefsAreCounts

\* SetMask gives the old file's reference back just when it takes the new one's.
LEMMA SetMaskIsSafe ==
  ASSUME Masks!MaskAssumption, Masks!TablesTyped, Masks!RefsCounted, NEW r \in alive,
         NEW path \in Files \cup {Masks!Clear},
         Masks!Script_SetMask(r, path)
  PROVE  Masks!TablesTyped' /\ Masks!RefsCounted'
  <1>0. /\ UNCHANGED <<alive, texture, baseMasks, maskLoads, masksEnabled>>
        /\ calls' \in 0..MaxCalls
        /\ \A f : Masks!LoadedBy(f)' = Masks!LoadedBy(f)
    BY DEF Masks!Script_SetMask, Masks!LuaCall, Masks!TablesTyped, Masks!MaskAssumption,
       Masks!LoadedBy
  <1> DEFINE own(f) == IF r \in Masks!SetBy(f) THEN 1 ELSE 0
  <1>1. \A f \in Files : Masks!Released(Masks!PathRef(r))[f] = held[f] - own(f)
    BY DEF Masks!Released, Masks!PathRef, Masks!One, Masks!NoFiles, Masks!SetBy
  <1>2. \A f \in Files : held[f] = Cardinality(Masks!SetBy(f)) + Cardinality(Masks!LoadedBy(f))
        /\ held[f] \in Nat
    BY RefsAreCounts DEF Masks!TablesTyped
  <1>3. \A f : Cardinality(Masks!SetBy(f) \ {r}) = Cardinality(Masks!SetBy(f)) - own(f)
    BY RefsAreCounts, CountsOfOne
  <1>4. \A f : /\ Cardinality(Masks!SetBy(f)) \in Nat /\ Cardinality(Masks!LoadedBy(f)) \in Nat
               /\ Cardinality(Masks!SetBy(f) \ {r}) \in Nat
    BY RefsAreCounts, CountsAgree, FS_Subset, FS_CardinalityType
  <1>5. CASE path = Masks!Clear
    <2>1. pathMasks' = Masks!Without(pathMasks, {r}) /\ held' = Masks!Released(Masks!PathRef(r))
      BY <1>5 DEF Masks!Script_SetMask
    <2>2. \A f : Masks!SetBy(f)' = Masks!SetBy(f) \ {r}
      BY <2>1 DEF Masks!SetBy, Masks!Without, Masks!Restrict
    <2>3. \A f \in Files :
          held'[f] = Cardinality(Masks!SetBy(f) \ {r}) + Cardinality(Masks!LoadedBy(f))
      BY <1>1, <1>2, <1>3, <1>4, <2>1
    <2>4. held' \in [Files -> Nat]
      <3>1. held' = [f \in Files |-> held[f] - Masks!PathRef(r)[f]]  BY <2>1 DEF Masks!Released
      <3>2. \A f \in Files : held'[f] \in Nat
        <4> TAKE f \in Files
        <4>1. Cardinality(Masks!SetBy(f) \ {r}) \in Nat /\ Cardinality(Masks!LoadedBy(f)) \in Nat
          BY <1>4
        <4> QED  BY <2>3, <4>1
      <3> QED  BY <3>1, <3>2
    <2>5. DOMAIN pathMasks' \subseteq alive
          /\ \A x \in DOMAIN pathMasks' : pathMasks'[x] \in Loadable
      BY <2>1 DEF Masks!TablesTyped, Masks!Without, Masks!Restrict
    <2>6. Masks!TablesTyped'  BY <1>0, <2>4, <2>5 DEF Masks!TablesTyped
    <2> QED  BY <1>0, <2>2, <2>3, <2>6, RefsAreCounts
  <1>6. CASE path # Masks!Clear /\ path \in Loadable
             /\ ~(r \in DOMAIN pathMasks /\ pathMasks[r] = path)
    <2>1. pathMasks' = Masks!With(pathMasks, r, path)
          /\ held' = Masks!Plus(Masks!Released(Masks!PathRef(r)), Masks!One(path))
      BY <1>6 DEF Masks!Script_SetMask
    <2> DEFINE new(f) == IF f = path THEN 1 ELSE 0
    <2>2. \A f : Masks!SetBy(f)' = IF f = path THEN (Masks!SetBy(f) \ {r}) \cup {r}
          ELSE Masks!SetBy(f) \ {r}
      BY <2>1 DEF Masks!SetBy, Masks!With
    <2>3. \A f : Cardinality(Masks!SetBy(f)') = Cardinality(Masks!SetBy(f) \ {r}) + new(f)
      <3> TAKE f
      <3>1. Masks!IsFiniteSet(Masks!SetBy(f) \ {r})  BY RefsAreCounts, CountsAgree, FS_Subset
      <3>2. Cardinality((Masks!SetBy(f) \ {r}) \cup {r}) = Cardinality(Masks!SetBy(f) \ {r}) + 1
        BY <3>1, CountsOfOne
      <3>3. Cardinality(Masks!SetBy(f) \ {r}) \in Nat  BY <1>4
      <3>4. CASE f = path  BY <2>2, <3>2, <3>4
      <3>5. CASE f # path
        <4>1. Masks!SetBy(f)' = Masks!SetBy(f) \ {r}  BY <2>2, <3>5
        <4> QED  BY <3>3, <3>5, <4>1
      <3> QED  BY <3>4, <3>5
    <2>4. \A f \in Files : held'[f] = held[f] - own(f) + new(f)
      BY <1>1, <2>1 DEF Masks!Plus, Masks!One
    <2>5. \A f \in Files :
          held'[f] = Cardinality(Masks!SetBy(f)') + Cardinality(Masks!LoadedBy(f))
      <3> TAKE f \in Files
      <3>1. /\ Cardinality(Masks!SetBy(f)) \in Nat /\ Cardinality(Masks!LoadedBy(f)) \in Nat
            /\ own(f) \in Nat /\ new(f) \in Nat
        BY <1>4
      <3>2. held'[f] = held[f] - own(f) + new(f)  BY <2>4
      <3>3. held[f] = Cardinality(Masks!SetBy(f)) + Cardinality(Masks!LoadedBy(f))  BY <1>2
      <3>4. Cardinality(Masks!SetBy(f)') = (Cardinality(Masks!SetBy(f)) - own(f)) + new(f)
        BY <1>3, <2>3
      <3> HIDE DEF own, new
      <3> QED  BY <3>1, <3>2, <3>3, <3>4
    <2>6. held' \in [Files -> Nat]
      <3>1. held' = [f \in Files |-> Masks!Released(Masks!PathRef(r))[f] + Masks!One(path)[f]]
        BY <2>1 DEF Masks!Plus
      <3>2. \A f \in Files : held'[f] \in Nat
        <4> TAKE f \in Files
        <4>1. /\ Cardinality(Masks!SetBy(f) \ {r}) \in Nat
              /\ Cardinality(Masks!LoadedBy(f)) \in Nat
              /\ new(f) \in Nat
          BY <1>4
        <4>2. held'[f] = (Cardinality(Masks!SetBy(f) \ {r}) + new(f))
              + Cardinality(Masks!LoadedBy(f))
          BY <2>3, <2>5
        <4> HIDE DEF new
        <4> QED  BY <4>1, <4>2
      <3> QED  BY <3>1, <3>2
    <2>7. DOMAIN pathMasks' \subseteq alive
          /\ \A x \in DOMAIN pathMasks' : pathMasks'[x] \in Loadable
      BY <1>6, <2>1 DEF Masks!TablesTyped, Masks!With
    <2>8. Masks!TablesTyped'  BY <1>0, <2>6, <2>7 DEF Masks!TablesTyped
    <2> QED  BY <1>0, <2>5, <2>8, RefsAreCounts
  <1>7. CASE path # Masks!Clear /\ ~(path \in Loadable
                                     /\ ~(r \in DOMAIN pathMasks /\ pathMasks[r] = path))
    <2>1. UNCHANGED <<pathMasks, held>>  BY <1>7 DEF Masks!Script_SetMask
    <2>2. \A f : Masks!SetBy(f)' = Masks!SetBy(f)  BY <2>1 DEF Masks!SetBy
    <2>3. Masks!TablesTyped'  BY <1>0, <2>1 DEF Masks!TablesTyped
    <2> QED  BY <1>0, <2>1, <2>2, <2>3, RefsAreCounts
  <1> QED  BY <1>5, <1>6, <1>7

\* A region's list of masks.
LEMMA MaskListsAre ==
  ASSUME Masks!TablesTyped, NEW b \in alive
  PROVE  Masks!MasksOf(b) \in Seq(alive \ {b}) /\ Masks!IsInjective(Masks!MasksOf(b))
  BY DEF Masks!TablesTyped, Masks!MasksOf, Masks!IsInjective

\* A list that names nothing twice, with one more name.
LEMMA AppendsOne ==
  ASSUME NEW T, NEW s \in Seq(T), NEW e \in T, Masks!IsInjective(s), ~Masks!Contains(s, e)
  PROVE  Append(s, e) \in Seq(T) /\ Append(s, e) # <<>> /\ Masks!IsInjective(Append(s, e))
  <1>1. /\ Append(s, e) \in Seq(T) /\ Append(s, e) # <<>> /\ DOMAIN Append(s, e) = 1..(Len(s) + 1)
        /\ DOMAIN s = 1..Len(s) /\ Len(s) \in Nat
        /\ \A i \in 1..Len(s) : Append(s, e)[i] = s[i] /\ s[i] # e
        /\ Append(s, e)[Len(s) + 1] = e
    <2>1. Append(s, e) \in Seq(T) /\ Append(s, e) # <<>>  BY AppendProperties
    <2>2. DOMAIN Append(s, e) = 1..(Len(s) + 1) /\ DOMAIN s = 1..Len(s) /\ Len(s) \in Nat
      BY AppendProperties
    <2>3. \A i \in 1..Len(s) : Append(s, e)[i] = s[i]  BY AppendProperties
    <2>4. \A i \in 1..Len(s) : s[i] # e  BY DEF Masks!Contains
    <2>5. Append(s, e)[Len(s) + 1] = e  BY AppendProperties
    <2> QED  BY <2>1, <2>2, <2>3, <2>4, <2>5
  <1> DEFINE a == Append(s, e)
             n == Len(s)
  <1>2. \A i, j \in 1..n : a[i] = a[j] => i = j  BY <1>1 DEF Masks!IsInjective
  <1>3. \A i \in 1..n : a[i] # a[n + 1]  BY <1>1
  <1>4. \A i \in 1..(n + 1) : i \in 1..n \/ i = n + 1  BY <1>1
  <1> HIDE DEF a, n
  <1>5. \A i, j \in 1..(n + 1) : a[i] = a[j] => i = j  BY <1>2, <1>3, <1>4
  <1> QED  BY <1>1, <1>5 DEF Masks!IsInjective, a, n

\* The tables of path masks and loads are as they were.
LEMMA RefsUntouched ==
  ASSUME Masks!MaskAssumption, Masks!TablesTyped, Masks!RefsCounted,
         UNCHANGED <<alive, texture, masksEnabled, pathMasks, maskLoads, held>>,
         calls' \in 0..MaxCalls,
         DOMAIN baseMasks' \subseteq alive,
         \A b \in DOMAIN baseMasks' : /\ baseMasks'[b] \in Seq(alive \ {b})
                                      /\ baseMasks'[b] # <<>>
                                      /\ Masks!IsInjective(baseMasks'[b])
  PROVE  Masks!TablesTyped' /\ Masks!RefsCounted'
  <1>1. Masks!TablesTyped'  BY DEF Masks!TablesTyped
  <1>2. \A f : Masks!SetBy(f)' = Masks!SetBy(f) /\ Masks!LoadedBy(f)' = Masks!LoadedBy(f)
    BY DEF Masks!SetBy, Masks!LoadedBy
  <1> QED  BY <1>1, <1>2, RefsAreCounts

\* A mask goes to the end of its base's list, if it is not there yet.
LEMMA AddMaskIsSafe ==
  ASSUME Masks!MaskAssumption, Masks!TablesTyped, Masks!RefsCounted, NEW base \in alive,
         NEW mask \in alive,
         Masks!Script_AddMaskTexture(base, mask)
  PROVE  Masks!TablesTyped' /\ Masks!RefsCounted'
  <1>1. UNCHANGED <<alive, texture, masksEnabled, pathMasks, maskLoads, held>>
        /\ calls' \in 0..MaxCalls
    BY DEF Masks!Script_AddMaskTexture, Masks!LuaCall, Masks!TablesTyped, Masks!MaskAssumption
  <1>2. CASE base = mask \/ Masks!Contains(Masks!MasksOf(base), mask)
    <2>1. baseMasks' = baseMasks  BY <1>2 DEF Masks!Script_AddMaskTexture
    <2> QED  BY <1>1, <2>1, RefsUntouched DEF Masks!TablesTyped
  <1>3. CASE base # mask /\ ~Masks!Contains(Masks!MasksOf(base), mask)
    <2> DEFINE list == Append(Masks!MasksOf(base), mask)
    <2>1. list \in Seq(alive \ {base}) /\ list # <<>> /\ Masks!IsInjective(list)
      BY <1>3, MaskListsAre, AppendsOne
    <2>2. baseMasks' = Masks!With(baseMasks, base, list)  BY <1>3 DEF Masks!Script_AddMaskTexture
    <2> HIDE DEF list
    <2>3. DOMAIN baseMasks' = DOMAIN baseMasks \cup {base}  BY <2>2 DEF Masks!With
    <2>4. \A b \in DOMAIN baseMasks' : baseMasks'[b] = IF b = base THEN list ELSE baseMasks[b]
      BY <2>2 DEF Masks!With
    <2>5. DOMAIN baseMasks' \subseteq alive  BY <2>3 DEF Masks!TablesTyped
    <2>6. \A b \in DOMAIN baseMasks' : /\ baseMasks'[b] \in Seq(alive \ {b})
                                       /\ baseMasks'[b] # <<>>
                                       /\ Masks!IsInjective(baseMasks'[b])
      BY <2>1, <2>3, <2>4 DEF Masks!TablesTyped
    <2> QED  BY <1>1, <2>5, <2>6, RefsUntouched
  <1> QED  BY <1>2, <1>3

\* What is left of the lists without a mask.
LEMMA ListsWithout ==
  ASSUME Masks!TablesTyped, NEW e
  PROVE  /\ DOMAIN Masks!Unmasked(e) \subseteq DOMAIN baseMasks
         /\ \A b \in DOMAIN baseMasks : /\ Masks!RemoveFirst(baseMasks[b], e)
                                           \in Seq((alive \ {e}) \ {b})
                                        /\ Masks!IsInjective(Masks!RemoveFirst(baseMasks[b], e))
         /\ \A b \in DOMAIN Masks!Unmasked(e) : /\ Masks!Unmasked(e)[b]
                                                   = Masks!RemoveFirst(baseMasks[b], e)
                                          /\ Masks!Unmasked(e)[b] # <<>>
         /\ \A b \in DOMAIN baseMasks \ DOMAIN Masks!Unmasked(e) :
            Masks!RemoveFirst(baseMasks[b], e) = <<>>
  <1>1. ASSUME NEW b \in DOMAIN baseMasks
        PROVE  Masks!RemoveFirst(baseMasks[b], e) \in Seq((alive \ {e}) \ {b})
               /\ Masks!IsInjective(Masks!RemoveFirst(baseMasks[b], e))
    <2>1. baseMasks[b] \in Seq(alive \ {b}) /\ Masks!IsInjective(baseMasks[b])
      BY DEF Masks!TablesTyped
    <2>2. (alive \ {b}) \ {e} = (alive \ {e}) \ {b}  OBVIOUS
    <2>3. Masks!RemoveFirst(baseMasks[b], e) \in Seq((alive \ {b}) \ {e})
          /\ Masks!IsInjective(Masks!RemoveFirst(baseMasks[b], e))
      BY <2>1, RemovesOne
    <2> QED  BY <2>2, <2>3
  <1> QED  BY <1>1 DEF Masks!Unmasked

\* A base loses one of its masks, or all of them.
LEMMA RemoveMaskIsSafe ==
  ASSUME Masks!MaskAssumption, Masks!TablesTyped, Masks!RefsCounted, NEW base \in alive, NEW mask,
         Masks!Script_RemoveMaskTexture(base, mask)
  PROVE  Masks!TablesTyped' /\ Masks!RefsCounted'
  <1>1. UNCHANGED <<alive, texture, masksEnabled, pathMasks, maskLoads, held>>
        /\ calls' \in 0..MaxCalls
    BY DEF Masks!Script_RemoveMaskTexture, Masks!LuaCall, Masks!TablesTyped, Masks!MaskAssumption
  <1>2. DOMAIN baseMasks' \subseteq DOMAIN baseMasks
    BY DEF Masks!Script_RemoveMaskTexture, Masks!Without, Masks!Restrict
  <1>3. ASSUME NEW b \in DOMAIN baseMasks'
        PROVE  /\ baseMasks'[b] \in Seq(alive \ {b}) /\ baseMasks'[b] # <<>>
               /\ Masks!IsInjective(baseMasks'[b])
    <2>1. CASE baseMasks'[b] = baseMasks[b]  BY <1>2, <2>1 DEF Masks!TablesTyped
    <2>2. CASE baseMasks'[b] # baseMasks[b]
      <3>1. base \in DOMAIN baseMasks /\ base \in DOMAIN Masks!Unmasked(mask) /\ b = base
        BY <1>2, <2>2 DEF Masks!Script_RemoveMaskTexture, Masks!Without, Masks!Restrict
      <3>2. baseMasks'[b] = Masks!RemoveFirst(baseMasks[b], mask)
        BY <1>2, <2>2, <3>1 DEF Masks!Script_RemoveMaskTexture, Masks!Without, Masks!Restrict
      <3>3. Masks!RemoveFirst(baseMasks[b], mask) # <<>>  BY <3>1, ListsWithout
      <3>4. /\ Masks!RemoveFirst(baseMasks[b], mask) \in Seq((alive \ {mask}) \ {b})
            /\ Masks!IsInjective(Masks!RemoveFirst(baseMasks[b], mask))
        BY <3>1, ListsWithout
      <3>5. (alive \ {mask}) \ {b} \subseteq alive \ {b}  OBVIOUS
      <3>6. Masks!RemoveFirst(baseMasks[b], mask) \in Seq(alive \ {b})
        BY <3>4, <3>5, SeqMonotonic
      <3> QED  BY <3>2, <3>3, <3>4, <3>6
    <2> QED  BY <2>1, <2>2
  <1>4. DOMAIN baseMasks' \subseteq alive  BY <1>2 DEF Masks!TablesTyped
  <1> QED  BY <1>1, <1>3, <1>4, RefsUntouched

\* A region dies: no table speaks of it any more, as a base or as a mask.
LEMMA DtorIsSafe ==
  ASSUME Masks!MaskAssumption, Masks!TablesTyped, Masks!RefsCounted, NEW r \in alive, Masks!Dtor(r)
  PROVE  Masks!TablesTyped' /\ Masks!RefsCounted'
  <1>1. /\ alive' = alive \ {r} /\ masksEnabled' = masksEnabled /\ calls' \in 0..MaxCalls
        /\ texture' \in [Regions -> Files \cup {Masks!NoTexture, Masks!Solid}]
    BY DEF Masks!Dtor, Masks!LuaCall, Masks!TablesTyped, Masks!MaskAssumption
  <1>2. /\ pathMasks' = Masks!Without(pathMasks, {r})
        /\ maskLoads' = Masks!Without(maskLoads, {r})
        /\ baseMasks' = Masks!Without(Masks!Unmasked(r), {r})
        /\ held' = Masks!Released(Masks!Plus(Masks!PathRef(r), Masks!LoadRef(r)))
    BY DEF Masks!Dtor, Masks!Forget
  <1>3. /\ DOMAIN pathMasks' = DOMAIN pathMasks \ {r}
        /\ DOMAIN maskLoads' = DOMAIN maskLoads \ {r}
        /\ DOMAIN baseMasks' = DOMAIN Masks!Unmasked(r) \ {r}
        /\ \A x \in DOMAIN pathMasks' : pathMasks'[x] = pathMasks[x]
        /\ \A x \in DOMAIN maskLoads' : maskLoads'[x] = maskLoads[x]
        /\ \A x \in DOMAIN baseMasks' : baseMasks'[x] = Masks!Unmasked(r)[x]
    BY <1>2 DEF Masks!Without, Masks!Restrict
  <1>4. \A x \in DOMAIN baseMasks' : baseMasks'[x] \in Seq(alive' \ {x}) /\ baseMasks'[x] # <<>>
        /\ Masks!IsInjective(baseMasks'[x])
    BY <1>1, <1>3, ListsWithout
  <1>5. DOMAIN baseMasks' \subseteq alive'  BY <1>1, <1>3, ListsWithout DEF Masks!TablesTyped
  <1>6. \A f : Masks!SetBy(f)' = Masks!SetBy(f) \ {r}
        /\ Masks!LoadedBy(f)' = Masks!LoadedBy(f) \ {r}
    <2>1. \A f : Masks!SetBy(f)' = Masks!SetBy(f) \ {r}  BY <1>3 DEF Masks!SetBy
    <2>2. \A f : Masks!LoadedBy(f)' = Masks!LoadedBy(f) \ {r}  BY <1>3 DEF Masks!LoadedBy
    <2> QED  BY <2>1, <2>2
  <1> DEFINE own(f) == IF r \in Masks!SetBy(f) THEN 1 ELSE 0
             load(f) == IF r \in Masks!LoadedBy(f) THEN 1 ELSE 0
  <1>7. \A f \in Files : held'[f] = held[f] - (own(f) + load(f))
    <2>1. \A f \in Files : Masks!PathRef(r)[f] = own(f)
      BY DEF Masks!PathRef, Masks!One, Masks!NoFiles, Masks!SetBy
    <2>2. \A f \in Files : Masks!LoadRef(r)[f] = load(f)
      <3>1. CASE r \in DOMAIN maskLoads
        <4>1. \A f : r \in Masks!LoadedBy(f) <=> f = maskLoads[r].handle
          BY <3>1 DEF Masks!LoadedBy
        <4>2. Masks!LoadRef(r) = Masks!One(maskLoads[r].handle)  BY <3>1 DEF Masks!LoadRef
        <4> QED  BY <4>1, <4>2 DEF Masks!One
      <3>2. CASE r \notin DOMAIN maskLoads
        BY <3>2 DEF Masks!LoadRef, Masks!LoadedBy, Masks!NoFiles
      <3> QED  BY <3>1, <3>2
    <2>3. \A f \in Files : held'[f] = held[f] - (Masks!PathRef(r)[f] + Masks!LoadRef(r)[f])
      BY <1>2 DEF Masks!Released, Masks!Plus
    <2> QED  BY <2>1, <2>2, <2>3
  <1>8. ASSUME NEW f \in Files
        PROVE  held'[f] = Cardinality(Masks!SetBy(f)') + Cardinality(Masks!LoadedBy(f)')
               /\ held'[f] \in Nat
    <2>1. /\ Cardinality(Masks!SetBy(f)) \in Nat /\ Cardinality(Masks!LoadedBy(f)) \in Nat
          /\ held[f] = Cardinality(Masks!SetBy(f)) + Cardinality(Masks!LoadedBy(f))
      BY RefsAreCounts
    <2>2. Cardinality(Masks!SetBy(f)') = Cardinality(Masks!SetBy(f)) - own(f)
      BY <1>6, RefsAreCounts, CountsOfOne
    <2>3. Cardinality(Masks!LoadedBy(f)') = Cardinality(Masks!LoadedBy(f)) - load(f)
      BY <1>6, RefsAreCounts, CountsOfOne
    <2>4. Cardinality(Masks!SetBy(f)') \in Nat /\ Cardinality(Masks!LoadedBy(f)') \in Nat
      BY <1>6, RefsAreCounts, CountsAgree, FS_Subset, FS_CardinalityType
    <2>5. own(f) \in Nat /\ load(f) \in Nat /\ held'[f] = held[f] - (own(f) + load(f))  BY <1>7
    <2> HIDE DEF own, load
    <2> QED  BY <2>1, <2>2, <2>3, <2>4, <2>5
  <1>9. held' \in [Files -> Nat]
    <2>1. held' = [f \in Files |-> held[f] - Masks!Plus(Masks!PathRef(r), Masks!LoadRef(r))[f]]
      BY <1>2 DEF Masks!Released
    <2> QED  BY <1>8, <2>1
  <1>10. Masks!TablesTyped'
    <2>1. /\ alive' \subseteq Regions
          /\ DOMAIN pathMasks' \subseteq alive'
          /\ \A x \in DOMAIN pathMasks' : pathMasks'[x] \in Loadable
          /\ DOMAIN maskLoads' \subseteq alive'
          /\ \A x \in DOMAIN maskLoads' :
                maskLoads'[x] \in [file : Files, handle : Loadable \cup {Masks!NoTexture}]
          /\ masksEnabled' \in BOOLEAN
      BY <1>1, <1>3 DEF Masks!TablesTyped
    <2> QED  BY <1>1, <1>4, <1>5, <1>9, <2>1 DEF Masks!TablesTyped
  <1> QED  BY <1>8, <1>10, RefsAreCounts

\* Tables of nobody: there are no references to keep.
LEMMA MasksOfNobody ==
  ASSUME Masks!MaskAssumption,
         alive' = {}, texture' = [x \in Regions |-> Masks!NoTexture], calls' = 0,
         masksEnabled' \in BOOLEAN,
         pathMasks' = <<>>, baseMasks' = <<>>, maskLoads' = <<>>, held' = Masks!NoFiles
  PROVE  Masks!TablesTyped' /\ Masks!RefsCounted'
  <1>1. DOMAIN <<>> = {}  OBVIOUS
  <1>2. held' \in [Files -> Nat] /\ \A f \in Files : held'[f] = 0  BY DEF Masks!NoFiles
  <1>3. Masks!TablesTyped'  BY <1>1, <1>2 DEF Masks!TablesTyped, Masks!MaskAssumption
  <1>4. \A f : Masks!SetBy(f)' = {} /\ Masks!LoadedBy(f)' = {}
    BY <1>1 DEF Masks!SetBy, Masks!LoadedBy
  <1>5. Cardinality({}) = 0  BY FS_EmptySet
  <1>6. Masks!Cardinality({}) = 0  BY <1>5, CountsAgree
  <1>7. \A f \in Files :
        held'[f] = Masks!Cardinality(Masks!SetBy(f)') + Masks!Cardinality(Masks!LoadedBy(f)')
    <2> TAKE f \in Files
    <2>1. Masks!SetBy(f)' = {} /\ Masks!LoadedBy(f)' = {} /\ held'[f] = 0  BY <1>2, <1>4
    <2>2. Masks!Cardinality(Masks!SetBy(f)') = 0 /\ Masks!Cardinality(Masks!LoadedBy(f)') = 0
      BY <1>6, <2>1
    <2> QED  BY <2>1, <2>2
  <1> QED  BY <1>3, <1>7 DEF Masks!RefsCounted

\* A UI ends, with the cleanup before the regions go.
LEMMA MaskShutdownIsSafe ==
  ASSUME Masks!MaskAssumption, Masks!MaskInv, Masks!MaskShutdown
  PROVE  Masks!MaskInv'
  <1>1. Masks!TablesTyped /\ Masks!RefsCounted  BY DEF Masks!MaskInv
  <1>2. \A f \in Files :
        held[f] = Masks!Cardinality(Masks!SetBy(f)) + Masks!Cardinality(Masks!LoadedBy(f))
        /\ held[f] \in Nat
    BY <1>1 DEF Masks!RefsCounted, Masks!TablesTyped
  <1>3. \A f : Masks!Cardinality(Masks!SetBy(f)) \in Nat
        /\ Masks!Cardinality(Masks!LoadedBy(f)) \in Nat
    BY <1>1, RefsAreCounts, CountsAgree
  <1>4. held' = Masks!NoFiles
    <2>1. held' = [f \in Files |-> held[f] - Masks!Cardinality(Masks!SetBy(f))
                   - Masks!Cardinality(Masks!LoadedBy(f))]
      BY DEF Masks!MaskShutdown, Masks!MaskPrepareForReload
    <2>2. ASSUME NEW f \in Files
          PROVE  held[f] - Masks!Cardinality(Masks!SetBy(f))
                 - Masks!Cardinality(Masks!LoadedBy(f)) = 0
      <3>1. /\ Masks!Cardinality(Masks!SetBy(f)) \in Nat
            /\ Masks!Cardinality(Masks!LoadedBy(f)) \in Nat
            /\ held[f] = Masks!Cardinality(Masks!SetBy(f)) + Masks!Cardinality(Masks!LoadedBy(f))
        BY <1>2, <1>3
      <3> QED  BY <3>1
    <2> QED  BY <2>1, <2>2 DEF Masks!NoFiles
  <1>5. /\ alive' = {} /\ texture' = [x \in Regions |-> Masks!NoTexture] /\ calls' = 0
        /\ pathMasks' = <<>> /\ baseMasks' = <<>> /\ maskLoads' = <<>>
        /\ UNCHANGED <<masksEnabled, draw, device, torn>> /\ ~Masks!Drawing
    BY DEF Masks!MaskShutdown, Masks!MaskPrepareForReload
  <1>6. masksEnabled' \in BOOLEAN  BY <1>1, <1>5 DEF Masks!TablesTyped
  <1>7. Masks!TablesTyped' /\ Masks!RefsCounted'  BY <1>4, <1>5, <1>6, MasksOfNobody
  <1>8. Masks!DrawnSoFar' /\ Masks!DeviceInv'  BY <1>5, BetweenBatches
  <1>9. Masks!TornOnce'  BY <1>5, TornStays DEF Masks!MaskInv
  <1> QED  BY <1>7, <1>8, <1>9 DEF Masks!MaskInv

\* A new process, and the first one.
LEMMA MaskRestartIsSafe == Masks!MaskAssumption /\ Masks!MaskRestart => Masks!MaskInv'
  <1> SUFFICES ASSUME Masks!MaskAssumption, Masks!MaskRestart  PROVE Masks!MaskInv'  OBVIOUS
  <1>1. Masks!TablesTyped' /\ Masks!RefsCounted'  BY MasksOfNobody DEF Masks!MaskRestart
  <1>2. Masks!DrawnSoFar' /\ Masks!DeviceInv'  BY NothingIsDrawn DEF Masks!MaskRestart
  <1>3. Masks!TornOnce'  BY NothingTorn DEF Masks!MaskRestart
  <1> QED  BY <1>1, <1>2, <1>3 DEF Masks!MaskInv

LEMMA MaskStarts == Masks!MaskAssumption /\ Masks!MaskInit => Masks!MaskInv
  <1> SUFFICES ASSUME Masks!MaskAssumption, Masks!MaskInit  PROVE Masks!MaskInv  OBVIOUS
  <1>1. DOMAIN <<>> = {} /\ Len(<<>>) = 0 /\ <<>> \in Seq(alive) /\ 1..0 = {}
        /\ <<>> \in Seq([entry : Nat, masks : Seq(Regions)])
    OBVIOUS
  <1>2. Masks!TablesTyped  BY <1>1 DEF Masks!MaskInit, Masks!TablesTyped, Masks!MaskAssumption
  <1>3. \A f : Masks!SetBy(f) = {} /\ Masks!LoadedBy(f) = {}
    BY <1>1 DEF Masks!SetBy, Masks!LoadedBy, Masks!MaskInit
  <1>4. Cardinality({}) = 0  BY FS_EmptySet
  <1>5. Masks!RefsCounted
    <2>1. Masks!Cardinality({}) = 0  BY <1>4, CountsAgree
    <2> SUFFICES ASSUME NEW f \in Files
                 PROVE  held[f] = Masks!Cardinality(Masks!SetBy(f))
                        + Masks!Cardinality(Masks!LoadedBy(f))
      BY DEF Masks!RefsCounted
    <2>2. held[f] = 0  BY DEF Masks!MaskInit
    <2>3. Masks!Cardinality(Masks!SetBy(f)) = 0 /\ Masks!Cardinality(Masks!LoadedBy(f)) = 0
      BY <1>3, <2>1
    <2> QED  BY <2>2, <2>3
  <1>6. Masks!DrawnSoFar
    BY <1>1 DEF Masks!DrawnSoFar, Masks!MaskInit, Masks!NoDraw, Masks!InOrder, Masks!Entries
  <1>7. Masks!DeviceInv  BY DEF Masks!DeviceInv, Masks!MaskInit
  <1>8. Masks!TornOnce  BY DEF Masks!TornOnce, Masks!NoneTorn, Masks!MaskInit
  <1> QED  BY <1>2, <1>5, <1>6, <1>7, <1>8 DEF Masks!MaskInv

-----------------------------------------------------------------------------
(* The batches.                                                            *)

DrawnEntries == [entry : Nat, masks : Seq(Regions)]

\* A region's masks are live regions, and no more than there are units.
LEMMA BoundMasks ==
  ASSUME Masks!MaskAssumption, Masks!TablesTyped, NEW r \in alive
  PROVE  Masks!MasksBound(r) \in Seq(alive) /\ Len(Masks!MasksBound(r)) \in 0..7
  <1> DEFINE all == Masks!PathMask(r) \o Masks!MasksOf(r)
             n == IF Len(all) < Usable THEN Len(all) ELSE Usable
  <1>1. Masks!PathMask(r) \in Seq(alive)  BY DEF Masks!PathMask
  <1>2. Masks!MasksOf(r) \in Seq(alive)
    <2>1. Masks!MasksOf(r) \in Seq(alive \ {r}) /\ alive \ {r} \subseteq alive  BY MaskListsAre
    <2> QED  BY <2>1, SeqMonotonic
  <1>3. all \in Seq(alive)  BY <1>1, <1>2, ConcatProperties
  <1> HIDE DEF all
  <1>4. Len(all) \in Nat /\ Usable \in 0..7 /\ n \in 0..7 /\ n <= Len(all)
    <2>1. Len(all) \in Nat  BY <1>3
    <2>2. Usable \in 0..7  BY DEF Masks!MaskAssumption
    <2>3. (Len(all) < Usable /\ n = Len(all)) \/ (~(Len(all) < Usable) /\ n = Usable)  OBVIOUS
    <2> HIDE DEF n
    <2> QED  BY <2>1, <2>2, <2>3
  <1>5. \A i \in 1..n : all[i] \in alive  BY <1>3, <1>4
  <1> HIDE DEF n
  <1>6. SubSeq(all, 1, n) \in Seq(alive)
        /\ Len(SubSeq(all, 1, n)) = IF 1 <= n THEN n - 1 + 1 ELSE 0
    BY <1>4, <1>5, SubSeqProperties
  <1>7. Len(SubSeq(all, 1, n)) \in 0..7  BY <1>4, <1>6
  <1>8. Masks!MasksBound(r) = SubSeq(all, 1, n)  BY DEF Masks!MasksBound, all, n
  <1> QED  BY <1>6, <1>7, <1>8

\* What a step of a batch must bring for DrawnSoFar to hold after it.
LEMMA DrawingGoesOn ==
  ASSUME Masks!DrawnSoFar, UNCHANGED <<alive, pathMasks, baseMasks>>,
         NEW at \in Nat, NEW start \in Nat, NEW drawn \in Seq(DrawnEntries),
         NEW faulted, NEW tail \in {0, 1},
         draw' = [batch |-> draw.batch, at |-> at, start |-> start, faulted |-> faulted,
                  tail |-> tail, drawn |-> drawn],
         start <= at, at <= Len(draw.batch), Masks!InOrder(drawn),
         faulted \subseteq 1..start, Masks!Entries(drawn) = (1..start) \ faulted,
         masksEnabled' => faulted = {},
         \A i \in DOMAIN drawn : \/ drawn[i].masks = <<>>
                                 \/ drawn[i].masks = Masks!MasksBound(draw.batch[drawn[i].entry]),
         tail = 1 => start = Len(draw.batch) /\ device' = Masks!CleanDevice
  PROVE  Masks!DrawnSoFar'
  <1>1. /\ draw'.batch = draw.batch /\ draw'.at = at /\ draw'.start = start
        /\ draw'.faulted = faulted /\ draw'.tail = tail /\ draw'.drawn = drawn
    OBVIOUS
  <1>2. draw.batch \in Seq(alive) /\ faulted \in SUBSET Nat  BY DEF Masks!DrawnSoFar
  <1>3. draw' \in [batch : Seq(alive'), at : Nat, start : Nat, faulted : SUBSET Nat, tail :
                   {0, 1},
                   drawn : Seq([entry : Nat, masks : Seq(Regions)])]
    BY <1>2 DEF DrawnEntries
  <1>4. \A i \in DOMAIN drawn : drawn[i].masks # <<>> =>
           drawn[i].masks = Masks!MasksBound(draw.batch[drawn[i].entry])
    BY SMTT(30)
  <1>5. (\A i \in DOMAIN draw.drawn : draw.drawn[i].masks # <<>> =>
           draw.drawn[i].masks = Masks!MasksBound(draw.batch[draw.drawn[i].entry]))'
    BY <1>1, <1>4 DEF Masks!MasksBound, Masks!PathMask, Masks!MasksOf
  <1>6. Masks!InOrder(draw.drawn)' /\ Masks!Entries(draw.drawn)' = (1..start) \ faulted
    BY <1>1 DEF Masks!InOrder, Masks!Entries
  <1>7. /\ draw'.start <= draw'.at /\ draw'.at <= Len(draw'.batch)
        /\ draw'.faulted \subseteq 1..draw'.start
        /\ masksEnabled' => draw'.faulted = {}
        /\ draw'.tail = 1 => draw'.start = Len(draw'.batch) /\ device' = Masks!CleanDevice
        /\ Masks!InOrder(draw.drawn)'
        /\ Masks!Entries(draw.drawn)' = (1..draw'.start) \ draw'.faulted
    BY <1>1, <1>6
  <1> QED  BY <1>3, <1>5, <1>7 DEF Masks!DrawnSoFar

\* The entries that were waiting, drawn as they are.
LEMMA RunsDraw ==
  ASSUME Masks!DrawnSoFar, NEW to \in draw.start..Len(draw.batch)
  PROVE  /\ draw.drawn \o Masks!Run(to) \in Seq(DrawnEntries)
         /\ Masks!InOrder(draw.drawn \o Masks!Run(to))
         /\ Masks!Entries(draw.drawn \o Masks!Run(to)) = (1..to) \ draw.faulted
         /\ \A i \in DOMAIN (draw.drawn \o Masks!Run(to)) :
               \/ (draw.drawn \o Masks!Run(to))[i].masks = <<>>
               \/ (draw.drawn \o Masks!Run(to))[i].masks
                    = Masks!MasksBound(draw.batch[(draw.drawn \o Masks!Run(to))[i].entry])
  <1> DEFINE a == draw.drawn
             b == Masks!Run(to)
             c == a \o b
             n == to - draw.start
             start == draw.start
  <1>0. /\ start \in Nat /\ to \in Nat /\ n \in Nat /\ start + n = to /\ start <= to
        /\ draw.faulted \subseteq 1..start
    BY DEF Masks!DrawnSoFar
  <1>1. a \in Seq(DrawnEntries) /\ Len(a) \in Nat /\ DOMAIN a = 1..Len(a)
    BY DEF Masks!DrawnSoFar, DrawnEntries
  <1>2. b \in Seq(DrawnEntries) /\ Len(b) = n
        /\ \A i \in 1..n : b[i] = [entry |-> start + i, masks |-> <<>>]
    <2>1. \A i \in 1..n : [entry |-> start + i, masks |-> <<>>] \in DrawnEntries
      BY <1>0 DEF DrawnEntries
    <2>2. b = [i \in 1..n |-> [entry |-> start + i, masks |-> <<>>]]  BY DEF Masks!Run
    <2> HIDE DEF b, n, start
    <2> QED  BY <1>0, <2>1, <2>2
  <1>3. Masks!InOrder(a) /\ Masks!Entries(a) = (1..start) \ draw.faulted  BY DEF Masks!DrawnSoFar
  <1>4. \A i \in DOMAIN a : a[i].masks = <<>>
        \/ a[i].masks = Masks!MasksBound(draw.batch[a[i].entry])
    BY DEF Masks!DrawnSoFar
  <1> HIDE DEF a, b, n, start
  <1>5. c \in Seq(DrawnEntries) /\ Len(c) = Len(a) + n
        /\ \A i \in 1..(Len(a) + n) : c[i] = IF i <= Len(a) THEN a[i] ELSE b[i - Len(a)]
    BY <1>1, <1>2, ConcatProperties
  <1> HIDE DEF c
  <1>6. DOMAIN c = 1..(Len(a) + n)  BY <1>5
  <1>7. \A i \in DOMAIN a : c[i] = a[i] /\ i \in DOMAIN c /\ c[i].entry \in 1..start
    <2> TAKE i \in DOMAIN a
    <2>1. i \in 1..(Len(a) + n) /\ i <= Len(a)  BY <1>0, <1>1
    <2>2. a[i].entry \in Masks!Entries(a)  BY DEF Masks!Entries
    <2> QED  BY <1>3, <1>5, <1>6, <2>1, <2>2
  <1>8. \A i \in DOMAIN c \ DOMAIN a : i - Len(a) \in 1..n
        /\ c[i] = [entry |-> start + (i - Len(a)), masks |-> <<>>]
    <2> TAKE i \in DOMAIN c \ DOMAIN a
    <2>1. i \in 1..(Len(a) + n) /\ ~(i <= Len(a)) /\ i - Len(a) \in 1..n
      BY <1>0, <1>1, <1>6
    <2> QED  BY <1>2, <1>5, <2>1
  <1>9. Masks!InOrder(c)
    <2> SUFFICES ASSUME NEW i \in DOMAIN c, NEW j \in DOMAIN c, i < j
                 PROVE  c[i].entry < c[j].entry
      BY DEF Masks!InOrder
    <2>1. i \in Nat /\ j \in Nat  BY <1>0, <1>1, <1>6
    <2>2. CASE j \in DOMAIN a
      <3>1. i \in DOMAIN a  BY <1>1, <1>6, <2>1, <2>2
      <3> QED  BY <1>3, <1>7, <2>2, <3>1 DEF Masks!InOrder
    <2>3. CASE j \notin DOMAIN a /\ i \in DOMAIN a
      <3>1. c[i].entry \in 1..start /\ c[j].entry = start + (j - Len(a)) /\ j - Len(a) \in 1..n
        BY <1>7, <1>8, <2>3
      <3> QED  BY <1>0, <1>1, <2>1, <3>1
    <2>4. CASE j \notin DOMAIN a /\ i \notin DOMAIN a
      <3>1. c[i].entry = start + (i - Len(a)) /\ c[j].entry = start + (j - Len(a))
        BY <1>8, <2>4
      <3> QED  BY <1>0, <1>1, <2>1, <3>1
    <2> QED  BY <2>2, <2>3, <2>4
  <1>10. Masks!Entries(c) = (1..to) \ draw.faulted
    <2>1. \A i \in DOMAIN c : c[i].entry \in (1..to) \ draw.faulted
      <3> TAKE i \in DOMAIN c
      <3>1. CASE i \in DOMAIN a
        <4>1. c[i].entry \in Masks!Entries(a)  BY <1>7, <3>1 DEF Masks!Entries
        <4> QED  BY <1>0, <1>3, <4>1
      <3>2. CASE i \notin DOMAIN a
        <4>1. c[i].entry = start + (i - Len(a)) /\ i - Len(a) \in 1..n  BY <1>8, <3>2
        <4> QED  BY <1>0, <4>1
      <3> QED  BY <3>1, <3>2
    <2>2. \A e \in (1..to) \ draw.faulted : \E i \in DOMAIN c : c[i].entry = e
      <3> TAKE e \in (1..to) \ draw.faulted
      <3>1. CASE e <= start
        <4>1. e \in Masks!Entries(a)  BY <1>0, <1>3, <3>1
        <4>2. PICK i \in DOMAIN a : a[i].entry = e  BY <4>1 DEF Masks!Entries
        <4> QED  BY <1>7, <4>2
      <3>2. CASE e > start
        <4> DEFINE i == Len(a) + (e - start)
        <4>1. i \in 1..(Len(a) + n) /\ i \notin DOMAIN a /\ i - Len(a) = e - start
          BY <1>0, <1>1, <3>2
        <4>2. c[i].entry = start + (i - Len(a))  BY <1>6, <1>8, <4>1
        <4>3. start + (e - start) = e  BY <1>0
        <4> QED  BY <1>6, <4>1, <4>2, <4>3
      <3> QED  BY <1>0, <3>1, <3>2
    <2> QED  BY <2>1, <2>2 DEF Masks!Entries
  <1>11. \A i \in DOMAIN c : c[i].masks = <<>>
         \/ c[i].masks = Masks!MasksBound(draw.batch[c[i].entry])
    <2> TAKE i \in DOMAIN c
    <2>1. CASE i \in DOMAIN a  BY <1>4, <1>7, <2>1
    <2>2. CASE i \notin DOMAIN a  BY <1>8, <2>2
    <2> QED  BY <2>1, <2>2
  <1> QED  BY <1>5, <1>9, <1>10, <1>11 DEF a, b, c

\* The loads that one entry's masks need, and the references they make and give up.
LEMMA LoadsAreSafe ==
  ASSUME Masks!MaskAssumption, Masks!TablesTyped, Masks!RefsCounted, NEW masks \in SUBSET alive,
         NEW cut \in SUBSET alive, \A m \in cut : Masks!NeedsLoad(m),
         Masks!MaskHandles(masks, cut),
         UNCHANGED <<alive, texture, pathMasks, baseMasks, calls>>, masksEnabled' \in BOOLEAN
  PROVE  Masks!TablesTyped' /\ Masks!RefsCounted'
  <1> DEFINE stale == {m \in masks : Masks!NeedsLoad(m)}
             load(m) == [file |-> texture[m], handle |-> Masks!LoadByPath(texture[m])]
             left(m) == [file |-> texture[m], handle |-> Masks!HandleOf(m)]
             new(f) == {m \in stale : load(m).handle = f}
             old(f) == stale \cap Masks!LoadedBy(f)
  <1>1. /\ maskLoads' = [m \in DOMAIN maskLoads \cup stale \cup cut |->
                           IF m \in stale THEN load(m)
                           ELSE IF m \in cut THEN left(m) ELSE maskLoads[m]]
        /\ held' = [f \in Files |-> held[f] + Masks!Cardinality(new(f))
                    - Masks!Cardinality(old(f))]
    BY DEF Masks!MaskHandles
  <1> DEFINE Loaded == [file : Files, handle : Loadable \cup {Masks!NoTexture}]
  <1>2. /\ stale \subseteq alive
        /\ \A m \in stale : load(m) \in Loaded
        /\ \A m \in cut : left(m) \in Loaded /\ left(m).handle = Masks!HandleOf(m)
    BY DEF Masks!NeedsLoad, Masks!LoadByPath, Masks!HandleOf, Masks!TablesTyped
  <1>11. \A m \in DOMAIN maskLoads : maskLoads[m] \in Loaded
    BY DEF Masks!TablesTyped
  <1> HIDE DEF stale, load, left, Loaded
  <1>3. DOMAIN maskLoads' \subseteq alive /\ \A r \in DOMAIN maskLoads' : maskLoads'[r] \in Loaded
    <2>1. DOMAIN maskLoads' \subseteq alive  BY <1>1, <1>2 DEF Masks!TablesTyped
    <2>2. \A r \in DOMAIN maskLoads' : maskLoads'[r] \in Loaded  BY <1>1, <1>2, <1>11
    <2> QED  BY <2>1, <2>2
  <1>4. \A f : Masks!SetBy(f)' = Masks!SetBy(f)  BY DEF Masks!SetBy
  <1>5. ASSUME NEW f \in Files
        PROVE  Masks!LoadedBy(f)' = (Masks!LoadedBy(f) \ stale) \cup new(f)
    <2>1. f # Masks!NoTexture  BY DEF Masks!MaskAssumption
    <2>2. \A m \in cut \ stale : left(m).handle = f <=> m \in Masks!LoadedBy(f)
      BY <1>2, <2>1 DEF Masks!HandleOf, Masks!LoadedBy
    <2>3. Masks!LoadedBy(f)' = {m \in DOMAIN maskLoads' : maskLoads'[m].handle = f}
      BY DEF Masks!LoadedBy
    <2>4. \A m : m \in Masks!LoadedBy(f)' <=> m \in (Masks!LoadedBy(f) \ stale) \cup new(f)
      <3> TAKE m
      <3>1. CASE m \in stale  BY <1>1, <2>3, <3>1
      <3>2. CASE m \in cut \ stale  BY <1>1, <2>2, <2>3, <3>2
      <3>3. CASE m \notin stale \cup cut  BY <1>1, <2>3, <3>3 DEF Masks!LoadedBy
      <3> QED  BY <3>1, <3>2, <3>3
    <2> QED  BY <2>4
  <1>6. \A f : IsFiniteSet(new(f)) /\ IsFiniteSet(Masks!LoadedBy(f))
    <2>1. IsFiniteSet(Regions) /\ alive \subseteq Regions
      BY CountsAgree DEF Masks!MaskAssumption, Masks!TablesTyped
    <2>2. \A f : new(f) \subseteq Regions  BY <1>2, <2>1
    <2> QED  BY <2>1, <2>2, FS_Subset, RefsAreCounts, CountsAgree
  <1>7. \A f \in Files : held'[f] = held[f] + Cardinality(new(f)) - Cardinality(old(f))
    BY <1>1, CountsAgree
  <1> HIDE DEF new
  <1>8. ASSUME NEW f \in Files
        PROVE  held'[f] = Cardinality(Masks!SetBy(f)') + Cardinality(Masks!LoadedBy(f)')
               /\ held'[f] \in Nat
    <2> DEFINE kept == Masks!LoadedBy(f) \ stale
    <2>1. /\ Cardinality(Masks!SetBy(f)) \in Nat /\ Cardinality(Masks!LoadedBy(f)) \in Nat
          /\ held[f] = Cardinality(Masks!SetBy(f)) + Cardinality(Masks!LoadedBy(f))
      BY RefsAreCounts
    <2>2. IsFiniteSet(kept) /\ Cardinality(kept)
          = Cardinality(Masks!LoadedBy(f)) - Cardinality(Masks!LoadedBy(f) \cap stale)
      BY <1>6, FS_Difference
    <2>3. old(f) = Masks!LoadedBy(f) \cap stale  OBVIOUS
    <2>4. kept \cap new(f) = {}  BY DEF new
    <2>5. Cardinality(kept \cup new(f)) = Cardinality(kept) + Cardinality(new(f))
      <3>1. Cardinality(kept \cup new(f))
            = Cardinality(kept) + Cardinality(new(f)) - Cardinality(kept \cap new(f))
        BY <1>6, <2>2, FS_Union
      <3>2. Cardinality(kept \cap new(f)) = 0  BY <2>4, FS_EmptySet
      <3>3. Cardinality(kept) \in Nat /\ Cardinality(new(f)) \in Nat
        BY <1>6, <2>2, FS_CardinalityType
      <3> QED  BY <3>1, <3>2, <3>3
    <2>6. Masks!LoadedBy(f)' = kept \cup new(f)  BY <1>5
    <2>7. /\ Cardinality(kept) \in Nat /\ Cardinality(new(f)) \in Nat
          /\ Cardinality(Masks!LoadedBy(f) \cap stale) \in Nat
      BY <1>6, <2>2, FS_CardinalityType, FS_Subset
    <2>8. held'[f] = held[f] + Cardinality(new(f)) - Cardinality(Masks!LoadedBy(f) \cap stale)
      BY <1>7, <2>3
    <2>9. Masks!SetBy(f)' = Masks!SetBy(f)  BY <1>4
    <2> HIDE DEF kept
    <2> QED  BY <2>1, <2>2, <2>5, <2>6, <2>7, <2>8, <2>9
  <1>9. held' \in [Files -> Nat]  BY <1>1, <1>8
  <1>10. Masks!TablesTyped'  BY <1>3, <1>9 DEF Masks!TablesTyped, Loaded
  <1> QED  BY <1>8, <1>10, RefsAreCounts

\* The tables are left alone.
LEMMA TablesStay ==
  ASSUME Masks!MaskAssumption, Masks!TablesTyped, Masks!RefsCounted,
         UNCHANGED <<alive, texture, Masks!maskTables, held, calls>>,
         masksEnabled' \in BOOLEAN
  PROVE  Masks!TablesTyped' /\ Masks!RefsCounted'
  <1>1. Masks!TablesTyped'  BY DEF Masks!TablesTyped, Masks!maskTables
  <1>2. \A f : Masks!SetBy(f)' = Masks!SetBy(f) /\ Masks!LoadedBy(f)' = Masks!LoadedBy(f)
    BY DEF Masks!SetBy, Masks!LoadedBy, Masks!maskTables
  <1> QED  BY <1>1, <1>2, RefsAreCounts

\* What DrawnSoFar says, part by part.
LEMMA DrawParts ==
  ASSUME Masks!DrawnSoFar
  PROVE  /\ draw.batch \in Seq(alive) /\ draw.at \in Nat /\ draw.start \in Nat
         /\ Len(draw.batch) \in Nat
         /\ draw.start <= draw.at /\ draw.at <= Len(draw.batch)
         /\ draw.faulted \subseteq 1..draw.start /\ draw.tail \in {0, 1}
         /\ draw.drawn \in Seq(DrawnEntries)
         /\ draw = [batch |-> draw.batch, at |-> draw.at, start |-> draw.start,
                    faulted |-> draw.faulted, tail |-> draw.tail, drawn |-> draw.drawn]
         /\ \A i \in DOMAIN draw.drawn : \/ draw.drawn[i].masks = <<>>
                                         \/ draw.drawn[i].masks
                                            = Masks!MasksBound(draw.batch[draw.drawn[i].entry])
  BY DEF Masks!DrawnSoFar, DrawnEntries

\* A batch begins; a region is in it once.
LEMMA BatchBegins ==
  ASSUME Masks!MaskAssumption, Masks!MaskInv, Masks!MaskDraws
  PROVE  Masks!MaskInv'
  <1> DEFINE b == Masks!SetToSeq(alive)
  <1>1. IsFiniteSet(alive)
    BY CountsAgree, FS_Subset DEF Masks!MaskAssumption, Masks!MaskInv, Masks!TablesTyped
  <1>2. b \in Seq(alive) /\ Len(b) \in Nat
    <2>1. b \in Seq(alive)  BY <1>1, SetsToSeqs
    <2> HIDE DEF b
    <2> QED  BY <2>1
  <1> HIDE DEF b
  <1>3. /\ draw' = [Masks!NoDraw EXCEPT !.batch = b] /\ b # <<>> /\ ~Masks!Drawing
        /\ UNCHANGED <<alive, texture, masksEnabled, Masks!maskTables, device, held, torn, calls>>
    BY DEF Masks!MaskDraws, Masks!BatchDraw, b
  <1>4. Masks!TablesTyped' /\ Masks!RefsCounted'
    BY <1>3, TablesStay DEF Masks!MaskInv, Masks!TablesTyped
  <1>5. device = Masks!CleanDevice  BY <1>3 DEF Masks!MaskInv, Masks!DeviceInv
  <1>6. draw' = [batch |-> b, at |-> 0, start |-> 0, drawn |-> <<>>, faulted |-> {}, tail |-> 0]
    BY <1>3 DEF Masks!NoDraw
  <1>7. DOMAIN <<>> = {} /\ 1..0 = {} /\ <<>> \in Seq([entry : Nat, masks : Seq(Regions)])
    OBVIOUS
  <1>8. Masks!DrawnSoFar'
    <2>1. /\ draw'.batch = b /\ draw'.at = 0 /\ draw'.start = 0 /\ draw'.drawn = <<>>
          /\ draw'.faulted = {} /\ draw'.tail = 0
      BY <1>6
    <2>2. draw' \in [batch : Seq(alive'), at : Nat, start : Nat, faulted : SUBSET Nat, tail :
                     {0, 1},
                     drawn : Seq([entry : Nat, masks : Seq(Regions)])]
      <3>1. b \in Seq(alive')  BY <1>2, <1>3
      <3>2. <<>> \in Seq([entry : Nat, masks : Seq(Regions)])  OBVIOUS
      <3> QED  BY <1>6, <3>1, <3>2
    <2>3. Masks!InOrder(draw.drawn)' /\ Masks!Entries(draw.drawn)' = (1..0) \ {}
      BY <1>7, <2>1 DEF Masks!InOrder, Masks!Entries
    <2>4. DOMAIN draw'.drawn = {}  BY <1>7, <2>1
    <2>5. 0 <= Len(draw'.batch)  BY <1>2, <2>1
    <2> QED  BY <1>2, <2>1, <2>2, <2>3, <2>4, <2>5 DEF Masks!DrawnSoFar
  <1>9. Masks!TornOnce'  BY <1>3, TornStays DEF Masks!MaskInv
  <1> QED  BY <1>3, <1>4, <1>5, <1>8, <1>9 DEF Masks!MaskInv, Masks!DeviceInv

\* An entry without masks waits for the next run.
LEMMA EntryPasses ==
  ASSUME Masks!MaskAssumption, Masks!MaskInv, Masks!PassEntry
  PROVE  Masks!MaskInv'
  <1>1. /\ device = Masks!CleanDevice /\ device' = device /\ draw.at < Len(draw.batch)
        /\ draw' = [draw EXCEPT !.at = @ + 1]
        /\ UNCHANGED <<alive, texture, masksEnabled, Masks!maskTables, held, torn, calls,
                       pathMasks, baseMasks>>
    BY DEF Masks!PassEntry, Masks!MidBatch, Masks!maskTables
  <1>2. Masks!TablesTyped' /\ Masks!RefsCounted'
    BY <1>1, TablesStay DEF Masks!MaskInv, Masks!TablesTyped
  <1>3. Masks!DrawnSoFar  BY DEF Masks!MaskInv
  <1>4. draw.tail = 0  BY <1>1, <1>3, DrawParts DEF Masks!DrawnSoFar
  <1>5. draw' = [batch |-> draw.batch, at |-> draw.at + 1, start |-> draw.start,
                 faulted |-> draw.faulted, tail |-> draw.tail, drawn |-> draw.drawn]
    BY <1>1, <1>3, DrawParts
  <1>6. draw.at + 1 \in Nat /\ draw.start <= draw.at + 1 /\ draw.at + 1 <= Len(draw.batch)
    BY <1>1, <1>3, DrawParts
  <1>7. Masks!DrawnSoFar'
    <2>1. Masks!InOrder(draw.drawn) /\ Masks!Entries(draw.drawn) = (1..draw.start) \ draw.faulted
          /\ (masksEnabled' => draw.faulted = {})
      BY <1>1, <1>3 DEF Masks!DrawnSoFar
    <2>2. /\ draw.start \in Nat /\ draw.drawn \in Seq(DrawnEntries)
          /\ draw.faulted \subseteq 1..draw.start
          /\ \A i \in DOMAIN draw.drawn : \/ draw.drawn[i].masks = <<>>
                                          \/ draw.drawn[i].masks
                                             = Masks!MasksBound(draw.batch[draw.drawn[i].entry])
      BY <1>3, DrawParts
    <2>3. UNCHANGED <<alive, pathMasks, baseMasks>>  BY <1>1
    <2>4. draw.tail \in {0, 1} /\ ~(draw.tail = 1)  BY <1>4
    <2> QED  BY <1>3, <1>5, <1>6, <2>1, <2>2, <2>3, <2>4, DrawingGoesOn
  <1>8. Masks!DeviceInv'  BY <1>1 DEF Masks!DeviceInv
  <1>9. Masks!TornOnce'  BY <1>1, TornStays DEF Masks!MaskInv
  <1> QED  BY <1>2, <1>7, <1>8, <1>9 DEF Masks!MaskInv

\* Where a batch stands when one of its entries is looked at.
LEMMA MidBatchIs ==
  ASSUME Masks!MaskInv, draw.at < Len(draw.batch)
  PROVE  /\ draw.at + 1 \in 1..Len(draw.batch) /\ Masks!Current \in alive /\ draw.tail = 0
         /\ draw.at \in draw.start..Len(draw.batch) /\ draw.at + 1 \in draw.start..Len(draw.batch)
  <1>1. Masks!DrawnSoFar  BY DEF Masks!MaskInv
  <1>2. /\ draw.batch \in Seq(alive) /\ draw.at \in Nat /\ draw.start \in Nat
        /\ Len(draw.batch) \in Nat
        /\ draw.start <= draw.at /\ draw.tail \in {0, 1}
    BY <1>1, DrawParts
  <1>3. draw.at + 1 \in 1..Len(draw.batch)  BY <1>2
  <1>4. draw.batch[draw.at + 1] \in alive  BY <1>2, <1>3
  <1>5. ~(draw.tail = 1)  BY <1>1, <1>2 DEF Masks!DrawnSoFar
  <1> QED  BY <1>2, <1>3, <1>4, <1>5 DEF Masks!Current

\* Everything up to an entry is drawn, without masks.
LEMMA RunIsSafe ==
  ASSUME Masks!MaskInv, draw.at < Len(draw.batch),
         UNCHANGED <<alive, pathMasks, baseMasks, masksEnabled>>,
         NEW to \in draw.start..Len(draw.batch), NEW at \in Nat, to <= at, at <= Len(draw.batch),
         draw' = [draw EXCEPT !.at = at, !.start = to, !.drawn = @ \o Masks!Run(to)]
  PROVE  Masks!DrawnSoFar'
  <1>1. Masks!DrawnSoFar  BY DEF Masks!MaskInv
  <1>2. /\ draw.start \in Nat /\ Len(draw.batch) \in Nat /\ draw.faulted \subseteq 1..draw.start
        /\ draw.tail = 0
    BY <1>1, DrawParts, MidBatchIs
  <1>3. draw' = [batch |-> draw.batch, at |-> at, start |-> to, faulted |-> draw.faulted,
                 tail |-> draw.tail, drawn |-> draw.drawn \o Masks!Run(to)]
    BY <1>1, DrawParts
  <1> DEFINE dr == draw.drawn \o Masks!Run(to)
  <1>4. /\ dr \in Seq(DrawnEntries) /\ Masks!InOrder(dr)
        /\ Masks!Entries(dr) = (1..to) \ draw.faulted
        /\ \A i \in DOMAIN dr : dr[i].masks = <<>>
           \/ dr[i].masks = Masks!MasksBound(draw.batch[dr[i].entry])
    BY <1>1, RunsDraw
  <1>5. to \in Nat /\ draw.faulted \subseteq 1..to  BY <1>2
  <1>6. masksEnabled' => draw.faulted = {}  BY <1>1 DEF Masks!DrawnSoFar
  <1>7. draw.tail \in {0, 1} /\ ~(draw.tail = 1)  BY <1>2
  <1> HIDE DEF dr
  <1>8. draw' = [batch |-> draw.batch, at |-> at, start |-> to, faulted |-> draw.faulted,
                 tail |-> draw.tail, drawn |-> dr]
    BY <1>3 DEF dr
  <1> QED  BY <1>1, <1>4, <1>5, <1>6, <1>7, <1>8, DrawingGoesOn

\* An entry with masks: they are bound, or it is drawn without them.
LEMMA MaskedDraws ==
  ASSUME Masks!MaskAssumption, Masks!MaskInv, Masks!DrawMasked
  PROVE  Masks!MaskInv'
  <1> DEFINE masks == Masks!MasksBound(Masks!Current)
  <1>1. /\ Masks!Drawing /\ device = Masks!CleanDevice /\ draw.at < Len(draw.batch)
        /\ masksEnabled
        /\ UNCHANGED <<alive, texture, pathMasks, baseMasks, calls>>
    BY DEF Masks!DrawMasked, Masks!MidBatch
  <1>2. Masks!TablesTyped /\ Masks!RefsCounted /\ Masks!DrawnSoFar  BY DEF Masks!MaskInv
  <1>3. Masks!Current \in alive /\ draw.tail = 0 /\ draw.at \in draw.start..Len(draw.batch)
        /\ draw.at + 1 \in draw.start..Len(draw.batch)
    BY <1>1, MidBatchIs
  <1>4. masks \in Seq(alive) /\ Len(masks) \in 0..7  BY <1>2, <1>3, BoundMasks
  <1>5. draw.at \in Nat /\ draw.start \in Nat /\ Len(draw.batch) \in Nat  BY <1>2, DrawParts
  <1> HIDE DEF masks
  <1>6. \A s \in Seq(alive) : Masks!BaseMasksIn(s) \in SUBSET alive
    BY DEF Masks!BaseMasksIn, Masks!Range
  <1>9. \A n \in Masks!LookedAt(masks) :
          /\ Masks!BaseMasksIn(SubSeq(masks, 1, n)) \in SUBSET alive
          /\ Masks!BaseMasksIn(SubSeq(masks, 1, n - 1)) \in SUBSET alive
    <2> TAKE n \in Masks!LookedAt(masks)
    <2>1. n \in 0..Len(masks)  BY DEF Masks!LookedAt
    <2>2. \A i \in 1..n : masks[i] \in alive  BY <1>4, <2>1
    <2>3. n \in Int /\ n - 1 \in Int /\ \A i \in 1..(n - 1) : masks[i] \in alive
      BY <1>4, <2>1, <2>2
    <2>4. SubSeq(masks, 1, n) \in Seq(alive) /\ SubSeq(masks, 1, n - 1) \in Seq(alive)
      BY <2>2, <2>3, SubSeqProperties
    <2> QED  BY <1>6, <2>4
  <1>7. CASE Masks!Masked(masks) /\ Masks!MaskHandles(Masks!BaseMasksIn(masks), {})
             /\ UNCHANGED torn
    <2>1. masksEnabled' = masksEnabled  BY <1>7 DEF Masks!Masked
    <2>2. Masks!TablesTyped' /\ Masks!RefsCounted'
      <3>1. Masks!BaseMasksIn(masks) \in SUBSET alive /\ masksEnabled' \in BOOLEAN
        BY <1>2, <1>4, <1>6, <2>1 DEF Masks!TablesTyped
      <3> QED  BY <1>1, <1>2, <1>7, <3>1, LoadsAreSafe
    <2>3. PICK units \in 0..Len(masks) :
             /\ device' = [pushed |-> 0..units, shaders |-> units < Len(masks)]
             /\ draw' = [draw EXCEPT !.start = draw.at, !.drawn = @ \o Masks!Run(draw.at)]
      BY <1>7 DEF Masks!Masked
    <2>4. draw' = [draw EXCEPT !.at = draw.at, !.start = draw.at,
                   !.drawn = @ \o Masks!Run(draw.at)]
      BY <1>2, <2>3, DrawParts
    <2>5. draw.at <= Len(draw.batch) /\ draw.at <= draw.at  BY <1>1, <1>5
    <2>6. UNCHANGED <<alive, pathMasks, baseMasks, masksEnabled>>  BY <1>1, <2>1
    <2>7. Masks!DrawnSoFar'  BY <1>1, <1>3, <1>5, <2>4, <2>5, <2>6, RunIsSafe
    <2>8. /\ device'.pushed # {} /\ device'.pushed \subseteq 0..7 /\ device'.shaders \in BOOLEAN
      <3>1. device'.pushed = 0..units /\ device'.shaders = (units < Len(masks))
        <4> DEFINE shaders == units < Len(masks)
        <4>1. device' = [pushed |-> 0..units, shaders |-> shaders]  BY <2>3
        <4> HIDE DEF shaders
        <4>2. device'.pushed = 0..units /\ device'.shaders = shaders  BY <4>1
        <4> QED  BY <4>2 DEF shaders
      <3>2. units \in 0..7
        <4> DEFINE n == Len(masks)
        <4>1. units \in 0..n /\ n \in 0..7  BY <1>4, <2>3
        <4> HIDE DEF n
        <4> QED  BY <4>1
      <3>3. 0 \in 0..units /\ 0..units \subseteq 0..7
        <4>1. units \in Int /\ 0 <= units /\ units <= 7  BY <3>2
        <4>2. \A i \in 0..units : i \in 0..7  BY <4>1
        <4>3. 0 \in 0..units  BY <4>1
        <4> QED  BY <4>2, <4>3
      <3>4. device'.pushed # {} /\ device'.pushed \subseteq 0..7  BY <3>1, <3>3
      <3>5. (units < Len(masks)) \in BOOLEAN  OBVIOUS
      <3> QED  BY <3>1, <3>4, <3>5, Zenon
    <2>9. draw'.start = draw'.at /\ draw'.at < Len(draw'.batch) /\ draw' # Masks!NoDraw
      <3>1. draw'.start = draw.at /\ draw'.at = draw.at /\ draw'.batch = draw.batch
        BY <1>2, <2>4, DrawParts
      <3>2. Masks!NoDraw.batch = <<>> /\ Len(<<>>) = 0  BY DEF Masks!NoDraw
      <3>3. draw.batch # <<>>  BY <1>1, <1>5, <3>2
      <3> QED  BY <1>1, <3>1, <3>2, <3>3
    <2>10. Masks!DeviceInv'  BY <1>1, <2>1, <2>8, <2>9 DEF Masks!DeviceInv, Masks!Drawing
    <2>11. Masks!TornOnce'  BY <1>7, <2>1, TornStays DEF Masks!MaskInv
    <2> QED  BY <2>2, <2>7, <2>10, <2>11 DEF Masks!MaskInv
  <1>8. CASE /\ Masks!NotReady(masks) /\ UNCHANGED torn
             /\ \E n \in Masks!LookedAt(masks) :
                   Masks!MaskHandles(Masks!BaseMasksIn(SubSeq(masks, 1, n)), {})
    <2>1. masksEnabled' = masksEnabled /\ device' = device  BY <1>8 DEF Masks!NotReady
    <2>2. Masks!TablesTyped' /\ Masks!RefsCounted'
      <3>1. PICK n \in Masks!LookedAt(masks) :
                 Masks!MaskHandles(Masks!BaseMasksIn(SubSeq(masks, 1, n)), {})
        BY <1>8
      <3>2. Masks!BaseMasksIn(SubSeq(masks, 1, n)) \in SUBSET alive /\ masksEnabled' \in BOOLEAN
        BY <1>2, <1>9, <2>1 DEF Masks!TablesTyped
      <3> QED  BY <1>1, <1>2, <3>1, <3>2, LoadsAreSafe
    <2>3. draw' = [draw EXCEPT !.at = @ + 1, !.start = draw.at + 1,
                   !.drawn = @ \o Masks!Run(draw.at + 1)]
      BY <1>8 DEF Masks!NotReady
    <2>4. draw' = [draw EXCEPT !.at = draw.at + 1, !.start = draw.at + 1,
                   !.drawn = @ \o Masks!Run(draw.at + 1)]
      BY <2>3
    <2>5. draw.at + 1 \in Nat /\ draw.at + 1 <= draw.at + 1 /\ draw.at + 1 <= Len(draw.batch)
      BY <1>1, <1>5
    <2>6. UNCHANGED <<alive, pathMasks, baseMasks, masksEnabled>>  BY <1>1, <2>1
    <2>7. Masks!DrawnSoFar'  BY <1>1, <1>3, <2>4, <2>5, <2>6, RunIsSafe
    <2>8. Masks!DeviceInv'  BY <1>1, <2>1 DEF Masks!DeviceInv
    <2>9. Masks!TornOnce'  BY <1>8, <2>1, TornStays DEF Masks!MaskInv
    <2> QED  BY <2>2, <2>7, <2>8, <2>9 DEF Masks!MaskInv
  <1>10. CASE Masks!Faults(masks)
    <2>1. ~masksEnabled' /\ masksEnabled' \in BOOLEAN /\ device' = device
          /\ draw' = [draw EXCEPT !.at = @ + 1, !.start = draw.at + 1,
                                   !.drawn = @ \o Masks!Run(draw.at), !.faulted = {draw.at + 1}]
      BY <1>10 DEF Masks!Faults
    <2>2. Masks!TablesTyped' /\ Masks!RefsCounted' /\ Masks!TornOnce'
      <3>1. CASE /\ \E n \in Masks!LookedAt(masks) :
                       Masks!MaskHandles(Masks!BaseMasksIn(SubSeq(masks, 1, n)), {})
                 /\ UNCHANGED torn
        <4>1. PICK n \in Masks!LookedAt(masks) :
                   Masks!MaskHandles(Masks!BaseMasksIn(SubSeq(masks, 1, n)), {})
          BY <3>1
        <4>2. Masks!TablesTyped' /\ Masks!RefsCounted'
          BY <1>1, <1>2, <1>9, <2>1, <4>1, LoadsAreSafe
        <4> QED  BY <2>1, <3>1, <4>2, TornStays DEF Masks!MaskInv
      <3>2. ASSUME NEW n \in Masks!LookedAt(masks) \ {0},
                   Masks!TearsLoad(Masks!BaseMasksIn(SubSeq(masks, 1, n - 1)), masks[n])
            PROVE  Masks!TablesTyped' /\ Masks!RefsCounted' /\ Masks!TornOnce'
        <4> DEFINE m == masks[n]
                   before == Masks!BaseMasksIn(SubSeq(masks, 1, n - 1))
        <4>1. m \in alive /\ before \in SUBSET alive  BY <1>4, <1>9, <3>2 DEF Masks!LookedAt
        <4>2. Masks!NeedsLoad(m) /\ Masks!MaskHandles(before, {m})  BY <3>2 DEF Masks!TearsLoad
        <4>3. PICK taken \in {{}, {Masks!LoadByPath(texture[m])} \cap Files} :
                   torn' = [released |-> {Masks!HandleOf(m)} \cap Files, taken |-> taken]
          BY <3>2 DEF Masks!TearsLoad
        <4> HIDE DEF m, before
        <4>4. Masks!TablesTyped' /\ Masks!RefsCounted'
          <5>1. {m} \in SUBSET alive /\ \A x \in {m} : Masks!NeedsLoad(x)  BY <4>1, <4>2
          <5> QED  BY <1>1, <1>2, <2>1, <4>1, <4>2, <5>1, LoadsAreSafe
        <4>5. taken \subseteq Files /\ \A f, g \in taken : f = g  BY <4>3
        <4>6. Masks!TornOnce'  BY <2>1, <4>3, <4>5 DEF Masks!TornOnce
        <4> QED  BY <4>4, <4>6
      <3> QED  BY <1>10, <3>1, <3>2 DEF Masks!Faults
    <2> DEFINE dr == draw.drawn \o Masks!Run(draw.at)
               s == draw.at + 1
    <2>3. /\ dr \in Seq(DrawnEntries) /\ Masks!InOrder(dr)
          /\ Masks!Entries(dr) = (1..draw.at) \ draw.faulted
          /\ \A i \in DOMAIN dr : dr[i].masks = <<>>
             \/ dr[i].masks = Masks!MasksBound(draw.batch[dr[i].entry])
      BY <1>2, <1>3, RunsDraw
    <2>4. draw.faulted = {}  BY <1>1, <1>2 DEF Masks!DrawnSoFar
    <2>5. draw' = [batch |-> draw.batch, at |-> s, start |-> s, faulted |-> {s}, tail |-> 0,
                   drawn |-> dr]
      BY <1>2, <1>3, <2>1, DrawParts
    <2>6. /\ s \in Nat /\ s <= s /\ s <= Len(draw.batch) /\ {s} \subseteq 1..s
          /\ 1..draw.at = (1..s) \ {s} /\ 0 \in {0, 1} /\ ~(0 = 1)
      BY <1>1, <1>5
    <2>7. Masks!Entries(dr) = (1..s) \ {s}  BY <2>3, <2>4, <2>6
    <2>8. UNCHANGED <<alive, pathMasks, baseMasks>>  BY <1>1
    <2> HIDE DEF dr, s
    <2>9. Masks!DrawnSoFar'  BY <1>2, <2>1, <2>3, <2>5, <2>6, <2>7, <2>8, DrawingGoesOn
    <2>10. Masks!DeviceInv'  BY <1>1, <2>1 DEF Masks!DeviceInv
    <2> QED  BY <2>2, <2>9, <2>10 DEF Masks!MaskInv
  <1> QED  BY <1>7, <1>8, <1>10 DEF Masks!DrawMasked, masks

\* The masked draw itself, or the fault that turns the feature off.
LEMMA DrawnIsSafe ==
  ASSUME Masks!MaskAssumption, Masks!MaskInv, Masks!Drawn
  PROVE  Masks!MaskInv'
  <1>1. /\ device.pushed # {} /\ device' = Masks!RestoreAfterDraw
        /\ UNCHANGED <<alive, texture, Masks!maskTables, held, torn, calls, pathMasks, baseMasks>>
    BY DEF Masks!Drawn, Masks!maskTables
  <1>2. Masks!TablesTyped /\ Masks!RefsCounted /\ Masks!DrawnSoFar  BY DEF Masks!MaskInv
  <1>3. device # Masks!CleanDevice  BY <1>1 DEF Masks!CleanDevice
  <1>4. /\ device.pushed \subseteq 0..7 /\ masksEnabled /\ draw.start = draw.at
        /\ draw.at < Len(draw.batch)
    BY <1>3 DEF Masks!MaskInv, Masks!DeviceInv
  <1>5. device' = Masks!CleanDevice
    <2>1. device.pushed \ (0..7) = {}  BY <1>4
    <2> QED  BY <1>1, <2>1 DEF Masks!RestoreAfterDraw, Masks!CleanDevice
  <1>6. masksEnabled' \in BOOLEAN  BY <1>2 DEF Masks!Drawn, Masks!TablesTyped
  <1>7. Masks!TablesTyped' /\ Masks!RefsCounted'  BY <1>1, <1>2, <1>6, TablesStay
  <1>8. draw.faulted = {} /\ draw.at \in Nat /\ Len(draw.batch) \in Nat /\ draw.tail = 0
        /\ Masks!Current \in alive
        /\ draw.at + 1 \in 1..Len(draw.batch) /\ draw.start \in Nat
    BY <1>2, <1>4, DrawParts, MidBatchIs DEF Masks!DrawnSoFar
  <1> DEFINE s == draw.at + 1
             d == draw.drawn
             e == [entry |-> s, masks |-> Masks!MasksBound(Masks!Current)]
             a == Append(d, e)
  <1>9. /\ d \in Seq(DrawnEntries) /\ Masks!InOrder(d) /\ Masks!Entries(d) = 1..draw.at
        /\ \A i \in DOMAIN d : d[i].masks = <<>>
           \/ d[i].masks = Masks!MasksBound(draw.batch[d[i].entry])
    BY <1>2, <1>4, <1>8, DrawParts DEF Masks!DrawnSoFar
  <1>10. /\ s \in Nat /\ s <= Len(draw.batch) /\ draw.at < s /\ 1..draw.at = (1..s) \ {s}
    BY <1>4, <1>8
  <1>11. Masks!DrawnSoFar'
    <2>1. CASE /\ draw' = [draw EXCEPT !.at = @ + 1, !.start = @ + 1, !.drawn = a]
               /\ UNCHANGED masksEnabled
      <3>1. draw' = [batch |-> draw.batch, at |-> s, start |-> s, faulted |-> {}, tail |-> 0,
                     drawn |-> a]
        BY <1>2, <1>4, <1>8, <2>1, DrawParts
      <3>2. e \in DrawnEntries
        <4>1. Masks!MasksBound(Masks!Current) \in Seq(alive) /\ alive \subseteq Regions
          BY <1>2, <1>8, BoundMasks DEF Masks!TablesTyped
        <4>2. Masks!MasksBound(Masks!Current) \in Seq(Regions)  BY <4>1, SeqMonotonic
        <4> QED  BY <1>10, <4>2 DEF DrawnEntries
      <3> HIDE DEF d
      <3>3. /\ a \in Seq(DrawnEntries) /\ DOMAIN a = 1..(Len(d) + 1) /\ Len(d) \in Nat
            /\ DOMAIN d = 1..Len(d)
            /\ \A i \in 1..Len(d) : a[i] = d[i]
            /\ a[Len(d) + 1] = e
        <4> HIDE DEF e
        <4>1. a \in Seq(DrawnEntries) /\ Len(a) = Len(d) + 1 /\ Len(d) \in Nat
          BY <1>9, <3>2, AppendProperties
        <4>2. \A i \in 1..Len(d) : a[i] = d[i]  BY <1>9, <3>2, AppendProperties
        <4>3. a[Len(d) + 1] = e  BY <1>9, <3>2, AppendProperties
        <4>4. DOMAIN a = 1..(Len(d) + 1) /\ DOMAIN d = 1..Len(d)  BY <1>9, <4>1
        <4> QED  BY <4>1, <4>2, <4>3, <4>4
      <3>4. e.entry = s /\ e.masks = Masks!MasksBound(draw.batch[e.entry])  BY DEF Masks!Current
      <3> HIDE DEF a, e, s
      <3>5. \A i \in DOMAIN d : d[i].entry \in 1..draw.at  BY <1>9 DEF Masks!Entries
      <3>6. \A i \in DOMAIN a : i \in DOMAIN d \/ i = Len(d) + 1  BY <3>3
      <3>7. Masks!InOrder(a)
        <4> SUFFICES ASSUME NEW i \in DOMAIN a, NEW j \in DOMAIN a, i < j
                     PROVE  a[i].entry < a[j].entry
          BY DEF Masks!InOrder
        <4>1. i \in DOMAIN d  BY <3>3
        <4>2. CASE j \in DOMAIN d  BY <1>9, <3>3, <4>1, <4>2 DEF Masks!InOrder
        <4>3. CASE j = Len(d) + 1
          <5>1. a[j].entry = s /\ a[i].entry \in 1..draw.at  BY <3>3, <3>4, <3>5, <4>1, <4>3
          <5> QED  BY <1>8, <1>10, <5>1
        <4> QED  BY <3>6, <4>2, <4>3
      <3>8. Masks!Entries(a) = (1..s) \ {}
        <4>1. \A i \in DOMAIN a : a[i].entry \in 1..s
          <5> TAKE i \in DOMAIN a
          <5>1. CASE i \in DOMAIN d  BY <1>10, <3>3, <3>5, <5>1
          <5>2. CASE i = Len(d) + 1
            <6>1. s \in 1..s  BY <1>8, <1>10 DEF s
            <6> QED  BY <3>3, <3>4, <5>2, <6>1
          <5> QED  BY <3>6, <5>1, <5>2
        <4>2. \A x \in 1..s : \E i \in DOMAIN a : a[i].entry = x
          <5> TAKE x \in 1..s
          <5>1. CASE x = s
            <6>1. Len(d) + 1 \in DOMAIN a /\ a[Len(d) + 1].entry = x  BY <3>3, <3>4, <5>1
            <6> QED  BY <6>1
          <5>2. CASE x # s
            <6>1. x \in Masks!Entries(d)  BY <1>9, <1>10, <5>2
            <6>2. PICK i \in DOMAIN d : d[i].entry = x  BY <6>1 DEF Masks!Entries
            <6>3. i \in DOMAIN a /\ a[i].entry = x  BY <3>3, <6>2
            <6> QED  BY <6>3
          <5> QED  BY <5>1, <5>2
        <4> QED  BY <4>1, <4>2 DEF Masks!Entries
      <3>9. \A i \in DOMAIN a : a[i].masks = <<>>
            \/ a[i].masks = Masks!MasksBound(draw.batch[a[i].entry])
        BY <1>9, <3>3, <3>4, <3>6
      <3>10. s <= s /\ {} \subseteq 1..s /\ 0 \in {0, 1} /\ ~(0 = 1)  BY <1>10
      <3>11. UNCHANGED <<alive, pathMasks, baseMasks>>  BY <1>1
      <3> QED  BY <1>2, <1>10, <3>1, <3>3, <3>7, <3>8, <3>9, <3>10, <3>11, DrawingGoesOn
    <2>2. CASE /\ draw' = [draw EXCEPT !.at = @ + 1, !.start = @ + 1, !.faulted = {draw.at + 1}]
               /\ masksEnabled' = FALSE
      <3>1. draw' = [batch |-> draw.batch, at |-> s, start |-> s, faulted |-> {s}, tail |-> 0,
                     drawn |-> d]
        BY <1>2, <1>4, <1>8, <2>2, DrawParts
      <3>2. s <= s /\ {s} \subseteq 1..s /\ 0 \in {0, 1} /\ ~(0 = 1)  BY <1>8, <1>10
      <3>3. Masks!Entries(d) = (1..s) \ {s}  BY <1>9, <1>10
      <3>4. UNCHANGED <<alive, pathMasks, baseMasks>> /\ ~masksEnabled'  BY <1>1, <2>2
      <3> HIDE DEF d, s
      <3> QED  BY <1>2, <1>9, <1>10, <3>1, <3>2, <3>3, <3>4, DrawingGoesOn
    <2> QED  BY <2>1, <2>2 DEF Masks!Drawn
  <1>12. Masks!TornOnce'  BY <1>1, <1>4, TornStays DEF Masks!MaskInv
  <1> QED  BY <1>5, <1>7, <1>11, <1>12 DEF Masks!MaskInv, Masks!DeviceInv

\* The rest of the batch and its tail lists.
LEMMA TailIsSafe ==
  ASSUME Masks!MaskAssumption, Masks!MaskInv, Masks!BatchTail \/ Masks!BatchDrawn
  PROVE  Masks!MaskInv'
  <1>1. UNCHANGED <<alive, texture, masksEnabled, Masks!maskTables, device, held, torn, calls,
                    pathMasks, baseMasks>>
    BY DEF Masks!BatchTail, Masks!BatchDrawn, Masks!maskTables
  <1>2. Masks!TablesTyped /\ Masks!RefsCounted /\ Masks!DrawnSoFar /\ masksEnabled' \in BOOLEAN
    BY <1>1 DEF Masks!MaskInv, Masks!TablesTyped
  <1>3. Masks!TablesTyped' /\ Masks!RefsCounted' /\ Masks!TornOnce'
    BY <1>1, <1>2, TablesStay, TornStays DEF Masks!MaskInv
  <1>4. CASE Masks!BatchTail
    <2>1. /\ device = Masks!CleanDevice /\ draw.at = Len(draw.batch)
          /\ draw' = [draw EXCEPT !.drawn = @ \o Masks!Run(draw.at), !.start = draw.at,
                      !.tail = 1]
      BY <1>4 DEF Masks!BatchTail
    <2> DEFINE dr == draw.drawn \o Masks!Run(draw.at)
    <2>2. /\ draw.at \in draw.start..Len(draw.batch) /\ draw.at \in Nat /\ draw.start \in Nat
          /\ draw.faulted \subseteq 1..draw.start /\ draw.start <= draw.at
      BY <1>2, <2>1, DrawParts
    <2>3. /\ dr \in Seq(DrawnEntries) /\ Masks!InOrder(dr)
          /\ Masks!Entries(dr) = (1..draw.at) \ draw.faulted
          /\ \A i \in DOMAIN dr : dr[i].masks = <<>>
             \/ dr[i].masks = Masks!MasksBound(draw.batch[dr[i].entry])
      BY <1>2, <2>2, RunsDraw
    <2>4. draw' = [batch |-> draw.batch, at |-> draw.at, start |-> draw.at,
                   faulted |-> draw.faulted,
                   tail |-> 1, drawn |-> dr]
      BY <1>2, <2>1, DrawParts
    <2>5. draw.faulted \subseteq 1..draw.at /\ draw.at <= draw.at /\ draw.at <= Len(draw.batch)
          /\ 1 \in {0, 1}
      BY <2>1, <2>2
    <2>6. masksEnabled' => draw.faulted = {}  BY <1>1, <1>2 DEF Masks!DrawnSoFar
    <2>7. UNCHANGED <<alive, pathMasks, baseMasks>>  BY <1>1
    <2>8. draw.at = Len(draw.batch) /\ device' = Masks!CleanDevice  BY <1>1, <2>1
    <2> HIDE DEF dr
    <2>9. Masks!DrawnSoFar'  BY <1>2, <2>2, <2>3, <2>4, <2>5, <2>6, <2>7, <2>8, DrawingGoesOn
    <2> QED  BY <1>3, <2>8, <2>9 DEF Masks!MaskInv, Masks!DeviceInv
  <1>5. CASE Masks!BatchDrawn
    <2>1. draw.tail = 1 /\ draw' = Masks!NoDraw  BY <1>5 DEF Masks!BatchDrawn
    <2>2. device' = Masks!CleanDevice  BY <1>1, <1>2, <2>1 DEF Masks!DrawnSoFar
    <2> QED  BY <1>2, <1>3, <2>1, <2>2, NothingIsDrawn DEF Masks!MaskInv
  <1> QED  BY <1>4, <1>5

\* Whatever Lua calls, it calls between batches.
LEMMA MaskCallIsSafe ==
  ASSUME Masks!MaskAssumption, Masks!MaskInv, Masks!MaskCall
  PROVE  Masks!MaskInv'
  <1>1. Masks!TablesTyped /\ Masks!RefsCounted /\ alive \subseteq Regions
    BY DEF Masks!MaskInv, Masks!TablesTyped
  <1>2. ~Masks!Drawing /\ UNCHANGED <<draw, device, masksEnabled, torn>> /\ Masks!TablesTyped'
        /\ Masks!RefsCounted'
    <2>1. CASE \E picture \in Loadable : Regions # alive
               /\ Masks!CreateTexture(Masks!FreeAddress, picture)
      <3>1. PICK picture \in Loadable : Regions # alive
                 /\ Masks!CreateTexture(Masks!FreeAddress, picture)
        BY <2>1
      <3>2. Masks!FreeAddress \in Regions  BY <1>1, <3>1 DEF Masks!FreeAddress
      <3>3. picture \in Files \cup {Masks!NoTexture, Masks!Solid}  BY DEF Masks!MaskAssumption
      <3>4. Masks!TablesTyped' /\ Masks!RefsCounted'
        BY <1>1, <3>1, <3>2, <3>3, RegionsComeAndChange
      <3> QED  BY <3>1, <3>4 DEF Masks!CreateTexture
    <2>2. ASSUME NEW r \in alive, NEW picture \in Files \cup {Masks!NoTexture, Masks!Solid},
                 Masks!SetTexture(r, picture)
          PROVE  ~Masks!Drawing /\ UNCHANGED <<draw, device, masksEnabled, torn>>
                 /\ Masks!TablesTyped' /\ Masks!RefsCounted'
      <3>1. Masks!TablesTyped' /\ Masks!RefsCounted'  BY <1>1, <2>2, RegionsComeAndChange
      <3> QED  BY <2>2, <3>1 DEF Masks!SetTexture, Masks!LuaCall
    <2>3. ASSUME NEW r \in alive, NEW path \in Files \cup {Masks!Clear},
                 Masks!Script_SetMask(r, path)
          PROVE  ~Masks!Drawing /\ UNCHANGED <<draw, device, masksEnabled, torn>>
                 /\ Masks!TablesTyped' /\ Masks!RefsCounted'
      BY <1>1, <2>3, SetMaskIsSafe DEF Masks!Script_SetMask, Masks!LuaCall
    <2>4. ASSUME NEW base \in alive, NEW mask \in alive, Masks!Script_AddMaskTexture(base, mask)
          PROVE  ~Masks!Drawing /\ UNCHANGED <<draw, device, masksEnabled, torn>>
                 /\ Masks!TablesTyped' /\ Masks!RefsCounted'
      BY <1>1, <2>4, AddMaskIsSafe DEF Masks!Script_AddMaskTexture, Masks!LuaCall
    <2>5. ASSUME NEW base \in alive, NEW mask \in alive \cup {Masks!AllMasks},
                 Masks!Script_RemoveMaskTexture(base, mask)
          PROVE  ~Masks!Drawing /\ UNCHANGED <<draw, device, masksEnabled, torn>>
                 /\ Masks!TablesTyped' /\ Masks!RefsCounted'
      BY <1>1, <2>5, RemoveMaskIsSafe DEF Masks!Script_RemoveMaskTexture, Masks!LuaCall
    <2>6. ASSUME NEW r \in alive, Masks!Dtor(r)
          PROVE  ~Masks!Drawing /\ UNCHANGED <<draw, device, masksEnabled, torn>>
                 /\ Masks!TablesTyped' /\ Masks!RefsCounted'
      BY <1>1, <2>6, DtorIsSafe DEF Masks!Dtor, Masks!LuaCall
    <2> QED  BY <2>1, <2>2, <2>3, <2>4, <2>5, <2>6 DEF Masks!MaskCall
  <1>3. Masks!DrawnSoFar' /\ Masks!DeviceInv'  BY <1>2, BetweenBatches
  <1>4. Masks!TornOnce'  BY <1>2, TornStays DEF Masks!MaskInv
  <1> QED  BY <1>2, <1>3, <1>4 DEF Masks!MaskInv

\* Each step of the masks keeps the invariant ...
LEMMA MasksStayRight ==
  ASSUME Masks!MaskAssumption, Masks!MaskInv,
         Masks!MaskNext \/ Masks!MaskRestart \/ UNCHANGED Masks!maskVars
  PROVE  Masks!MaskInv'
  <1>1. CASE Masks!MaskNext
    <2>1. CASE Masks!MaskCall  BY <2>1, MaskCallIsSafe
    <2>2. CASE Masks!MaskDraws  BY <2>2, BatchBegins
    <2>3. CASE Masks!MaskRuns
      BY <2>3, EntryPasses, MaskedDraws, DrawnIsSafe, TailIsSafe DEF Masks!MaskRuns
    <2>4. CASE Masks!MaskShutdown  BY <2>4, MaskShutdownIsSafe
    <2> QED  BY <1>1, <2>1, <2>2, <2>3, <2>4 DEF Masks!MaskNext
  <1>2. CASE Masks!MaskRestart  BY <1>2, MaskRestartIsSafe
  <1>3. CASE UNCHANGED Masks!maskVars
    <2>1. UNCHANGED <<alive, texture, masksEnabled, Masks!maskTables, draw, device, held, torn,
                      calls, pathMasks, baseMasks>>
      BY <1>3 DEF Masks!maskVars, Masks!maskTables
    <2>2. Masks!TablesTyped' /\ Masks!RefsCounted'
      BY <2>1, TablesStay DEF Masks!MaskInv, Masks!TablesTyped
    <2>3. Masks!DrawnSoFar'
      BY <2>1 DEF Masks!MaskInv, Masks!DrawnSoFar, Masks!InOrder, Masks!Entries, Masks!MasksBound,
         Masks!PathMask, Masks!MasksOf
    <2>4. Masks!DeviceInv'  BY <2>1 DEF Masks!MaskInv, Masks!DeviceInv, Masks!Drawing
    <2>5. Masks!TornOnce'  BY <2>1, TornStays DEF Masks!MaskInv
    <2> QED  BY <2>2, <2>3, <2>4, <2>5 DEF Masks!MaskInv
  <1> QED  BY <1>1, <1>2, <1>3

\* ... which has all that the properties say of them.
LEMMA MasksAreRight ==
  ASSUME Masks!MaskAssumption, Masks!MaskInv
  PROVE  Masks!MaskRight /\ Masks!MaskTypeOK
  <1>1. Masks!TablesTyped /\ Masks!RefsKept /\ Masks!DrawnSoFar
    BY DEF Masks!MaskInv, Masks!RefsKept
  <1>2. Masks!NoDeadMasks
    <2>1. \A r \in DOMAIN baseMasks : Masks!Range(baseMasks[r]) \subseteq alive
      <3> TAKE r \in DOMAIN baseMasks
      <3>1. baseMasks[r] \in Seq(alive \ {r})  BY <1>1 DEF Masks!TablesTyped
      <3> QED  BY <3>1 DEF Masks!Range
    <2> QED  BY <1>1, <2>1 DEF Masks!NoDeadMasks, Masks!TablesTyped
  <1>3. Masks!BatchDrawnWhole
    <2> SUFFICES ASSUME draw.tail = 1  PROVE Masks!BatchDrawnWhole  BY DEF Masks!BatchDrawnWhole
    <2>1. draw.start = Len(draw.batch) /\ device = Masks!CleanDevice /\ draw.batch \in Seq(alive)
      BY <1>1 DEF Masks!DrawnSoFar
    <2>2. DOMAIN draw.batch = 1..draw.start  BY <2>1
    <2> QED  BY <1>1, <2>1, <2>2 DEF Masks!BatchDrawnWhole, Masks!DrawnSoFar
  <1>4. Masks!MaskTypeOK
    <2>1. \A r \in DOMAIN baseMasks : Masks!Range(baseMasks[r]) \subseteq Regions \ {r}
      <3> TAKE r \in DOMAIN baseMasks
      <3>1. baseMasks[r] \in Seq(alive \ {r}) /\ alive \subseteq Regions
        BY <1>1 DEF Masks!TablesTyped
      <3> QED  BY <3>1 DEF Masks!Range
    <2>2. draw.at \in 0..Len(draw.batch)  BY <1>1, DrawParts
    <2>3. Masks!Range(pathMasks) \subseteq Loadable  BY <1>1 DEF Masks!TablesTyped, Masks!Range
    <2>4. /\ alive \subseteq Regions /\ DOMAIN pathMasks \subseteq Regions
          /\ DOMAIN baseMasks \subseteq Regions
          /\ DOMAIN maskLoads \subseteq Regions
          /\ \A r \in DOMAIN baseMasks : baseMasks[r] # <<>> /\ Masks!IsInjective(baseMasks[r])
          /\ texture \in [Regions -> Files \cup {Masks!NoTexture, Masks!Solid}]
          /\ masksEnabled \in BOOLEAN
          /\ held \in [Files -> Nat] /\ calls \in 0..MaxCalls
          /\ torn \in [released : SUBSET Files, taken : SUBSET Files]
      BY <1>1 DEF Masks!TablesTyped, Masks!RefsKept, Masks!TornOnce
    <2> QED  BY <2>1, <2>2, <2>3, <2>4 DEF Masks!MaskTypeOK
  <1> QED  BY <1>1, <1>2, <1>3, <1>4 DEF Masks!MaskRight

-----------------------------------------------------------------------------
(* The masks in the client's life.                                         *)

\* The client takes the masks' own steps, starts them anew with the process and leaves
\* them alone otherwise.
LEMMA ClientStepsMasks ==
  ASSUME [Next]_vars
  PROVE  Masks!MaskNext \/ Masks!MaskRestart \/ UNCHANGED Masks!maskVars
  <1>1. CASE UNCHANGED vars
    BY <1>1 DEF vars, partVars, maskVars, Masks!maskVars, Masks!maskTables
  <1>2. CASE GlueInit  BY <1>2 DEF GlueInit, partVars, maskVars, Masks!maskVars, Masks!maskTables
  <1>3. ASSUME NEW t \in Hooks!Threads, InstallStep(t)  PROVE UNCHANGED Masks!maskVars
    BY <1>3 DEF InstallStep, partVars, maskVars, Masks!maskVars, Masks!maskTables
  <1>4. CASE Login  BY <1>4 DEF Login, maskVars, Masks!maskVars, Masks!maskTables
  <1>5. CASE ReloadUI  BY <1>5 DEF ReloadUI, FrameScriptShutdown, Masks!MaskNext
  <1>6. ASSUME NEW f \in Chain, RunsModule(f)  PROVE UNCHANGED Masks!maskVars
    BY <1>6 DEF RunsModule, maskVars, Masks!maskVars, Masks!maskTables
  <1>7. CASE RescanRuns  BY <1>7 DEF RescanRuns, maskVars, Masks!maskVars, Masks!maskTables
  <1>8. CASE LoadBegins  BY <1>8 DEF LoadBegins, maskVars, Masks!maskVars, Masks!maskTables
  <1>9. CASE PlayerLogin
    BY <1>9 DEF PlayerLogin, partVars, maskVars, Masks!maskVars, Masks!maskTables
  <1>10. CASE EnteringWorld
    BY <1>10 DEF EnteringWorld, partVars, maskVars, Masks!maskVars, Masks!maskTables
  <1>11. CASE LoadingScreen
    BY <1>11 DEF LoadingScreen, partVars, maskVars, Masks!maskVars, Masks!maskTables
  <1>12. CASE Logout  BY <1>12 DEF Logout, FrameScriptShutdown, Masks!MaskNext
  <1>13. CASE Restart  BY <1>13 DEF Restart
  <1>14. CASE UnitEvents  BY <1>14 DEF UnitEvents, maskVars, Masks!maskVars, Masks!maskTables
  <1>15. CASE Edits  BY <1>15 DEF Edits, maskVars, Masks!maskVars, Masks!maskTables
  <1>16. CASE AddonsLoad  BY <1>16 DEF AddonsLoad, maskVars, Masks!maskVars, Masks!maskTables
  <1>17. CASE LibraryReplaced
    BY <1>17 DEF LibraryReplaced, maskVars, Masks!maskVars, Masks!maskTables
  <1>18. CASE MasksUsed  BY <1>18 DEF MasksUsed, Masks!MaskNext
  <1> QED  BY <1>1, <1>2, <1>3, <1>4, <1>5, <1>6, <1>7, <1>8, <1>9, <1>10, <1>11, <1>12, <1>13,
              <1>14, <1>15, <1>16, <1>17, <1>18 DEF Next

\* The invariant of the masks holds through logins, reloads and restarts of the client.
THEOREM MasksRun == Spec => []Masks!MaskInv
  <1>1. Init => Masks!MaskInv  BY SessionAssumption, MaskStarts DEF Init
  <1>2. Masks!MaskInv /\ [Next]_vars => Masks!MaskInv'
    BY SessionAssumption, ClientStepsMasks, MasksStayRight
  <1> QED  BY <1>1, <1>2, PTL DEF Spec

\* What whole calls took of mask files and did not release is what the tables stand for, but
\* for one load a process that a fault tore (its file is told apart in `torn`; the run
\* `torn_mask` shows what the code does with it); no table speaks of a dead region, and a batch
\* with masks draws what it would draw without them, in any life of the client:
\* texture/Mask.cpp, its cleanup before a reload and its region destructor.
THEOREM MasksStayTheirOwn == Spec => []MaskRight
  <1>1. Masks!MaskInv => MaskRight  BY SessionAssumption, MasksAreRight DEF MaskRight
  <1> QED  BY <1>1, MasksRun, PTL

-----------------------------------------------------------------------------
(* The add-on registry.                                                    *)

\* The registry's operators are those that the lemmas above speak of.
LEMMA RegistryOperators ==
  /\ \A S : Registry!Cardinality(S) = Cardinality(S)
     /\ (Registry!IsFiniteSet(S) <=> IsFiniteSet(S))
  /\ \A S : Registry!SetToSeq(S) = Masks!SetToSeq(S)
  /\ \A s : Registry!IsInjective(s) <=> Masks!IsInjective(s)
  /\ \A s, e : Registry!RemoveFirst(s, e) = Masks!RemoveFirst(s, e)
  <1>1. \A S : Registry!Cardinality(S) = Cardinality(S)
        /\ (Registry!IsFiniteSet(S) <=> IsFiniteSet(S))
    BY DEF Registry!Cardinality, Cardinality, Registry!IsFiniteSet, IsFiniteSet
  <1>2. \A s : Registry!IsInjective(s) <=> Masks!IsInjective(s)
    BY DEF Registry!IsInjective, Masks!IsInjective
  <1>3. \A S : Registry!SetToSeq(S) = Masks!SetToSeq(S)
    BY <1>1, CountsAgree DEF Registry!SetToSeq, Masks!SetToSeq, Registry!IsInjective,
       Masks!IsInjective
  <1>4. \A s, e : Registry!RemoveFirst(s, e) = Masks!RemoveFirst(s, e)
    BY DEF Registry!RemoveFirst, Masks!RemoveFirst, Registry!RemoveAt, Masks!RemoveAt,
       Registry!SelectInSeq, Masks!SelectInSeq,
           Registry!Min, Masks!Min
  <1> QED  BY <1>1, <1>2, <1>3, <1>4

\* The entries of a list without one of them, with another one, or with some more.
LEMMA ListWithoutOne ==
  ASSUME NEW T, NEW s \in Seq(T), Registry!IsInjective(s)
  PROVE  \A e : /\ Registry!RemoveFirst(s, e) \in Seq(T)
                /\ Registry!IsInjective(Registry!RemoveFirst(s, e))
                /\ Registry!Range(Registry!RemoveFirst(s, e)) = Registry!Range(s) \ {e}
                /\ s # <<>> /\ s[1] # e => Registry!RemoveFirst(s, e) # <<>>
                   /\ Registry!RemoveFirst(s, e)[1] = s[1]
  <1>1. ASSUME NEW e
        PROVE  /\ Registry!RemoveFirst(s, e) \in Seq(T)
               /\ Registry!IsInjective(Registry!RemoveFirst(s, e))
               /\ Registry!Range(Registry!RemoveFirst(s, e)) = Registry!Range(s) \ {e}
               /\ s # <<>> /\ s[1] # e => Registry!RemoveFirst(s, e) # <<>>
                  /\ Registry!RemoveFirst(s, e)[1] = s[1]
    <2> DEFINE r == Masks!RemoveFirst(s, e)
    <2>1. Registry!RemoveFirst(s, e) = r  BY RegistryOperators
    <2>2. /\ r \in Seq(T \ {e}) /\ Masks!IsInjective(r)
          /\ \A x : (\E i \in DOMAIN r : r[i] = x) <=> x # e /\ \E i \in DOMAIN s : s[i] = x
          /\ s # <<>> /\ s[1] # e => r # <<>> /\ r[1] = s[1]
      <3>1. Masks!IsInjective(s)  BY RegistryOperators
      <3> QED  BY <3>1, RemovesOne
    <2> HIDE DEF r
    <2>3. r \in Seq(T)
      <3>1. T \ {e} \subseteq T  OBVIOUS
      <3> QED  BY <2>2, <3>1, SeqMonotonic
    <2>4. Registry!IsInjective(r)  BY <2>2, RegistryOperators
    <2>5. Registry!Range(r) = Registry!Range(s) \ {e}  BY <2>2 DEF Registry!Range
    <2> QED  BY <2>1, <2>2, <2>3, <2>4, <2>5
  <1> QED  BY <1>1

LEMMA ListWithOneMore ==
  ASSUME NEW T, NEW s \in Seq(T), Registry!IsInjective(s), s # <<>>, NEW e,
         e \notin Registry!Range(s),
         NEW a \in Seq(T), Len(a) = Len(s) + 1, \A i \in 1..Len(s) :
         a[i] = s[i], a[Len(s) + 1] = e
  PROVE  /\ Registry!IsInjective(a) /\ a # <<>> /\ a[1] = s[1]
         /\ Registry!Range(a) = Registry!Range(s) \cup {e}
  <1>1. DOMAIN s = 1..Len(s) /\ Len(s) \in Nat /\ DOMAIN a = 1..(Len(s) + 1)  OBVIOUS
  <1>2. \A i \in DOMAIN a : i \in DOMAIN s \/ i = Len(s) + 1  BY <1>1
  <1>3. \A i \in DOMAIN s : i \in DOMAIN a /\ a[i] = s[i] /\ s[i] # e  BY <1>1 DEF Registry!Range
  <1>4. Len(s) + 1 \in DOMAIN a  BY <1>1
  <1>5. Registry!Range(a) = Registry!Range(s) \cup {e}  BY <1>2, <1>3, <1>4 DEF Registry!Range
  <1>6. Registry!IsInjective(a)  BY <1>2, <1>3, <1>4 DEF Registry!IsInjective
  <1>7. a[1] = s[1] /\ a # <<>>
    <2>1. 1 \in DOMAIN s  BY <1>1
    <2> QED  BY <1>3, <2>1
  <1> QED  BY <1>5, <1>6, <1>7

LEMMA ListWithSet ==
  ASSUME NEW T, NEW s \in Seq(T), Registry!IsInjective(s),
         NEW new \in SUBSET T, Registry!IsFiniteSet(new), new \cap Registry!Range(s) = {}
  PROVE  /\ s \o Registry!SetToSeq(new) \in Seq(T)
         /\ Registry!IsInjective(s \o Registry!SetToSeq(new))
         /\ Registry!Range(s \o Registry!SetToSeq(new)) = Registry!Range(s) \cup new
         /\ s # <<>> => s \o Registry!SetToSeq(new) # <<>>
            /\ (s \o Registry!SetToSeq(new))[1] = s[1]
  <1> DEFINE b == Registry!SetToSeq(new)
             c == s \o b
  <1>1. /\ b \in Seq(new) /\ Registry!IsInjective(b)
        /\ \A x \in new : \E i \in DOMAIN b : b[i] = x
    <2>1. Registry!IsFiniteSet(new) /\ IsFiniteSet(new)  BY RegistryOperators
    <2>2. b = Masks!SetToSeq(new)  BY RegistryOperators
    <2> HIDE DEF b
    <2>3. /\ b \in Seq(new) /\ Masks!IsInjective(b)
          /\ \A x \in new : \E i \in DOMAIN b : b[i] = x
      BY <2>1, <2>2, SetsToSeqs
    <2> QED  BY <2>3, RegistryOperators
  <1> HIDE DEF b
  <1>2. b \in Seq(T)  BY <1>1, SeqMonotonic
  <1>3. /\ DOMAIN s = 1..Len(s) /\ Len(s) \in Nat /\ DOMAIN b = 1..Len(b) /\ Len(b) \in Nat
        /\ \A i \in DOMAIN b : b[i] \in new
    BY <1>1
  <1>4. /\ c \in Seq(T) /\ Len(c) = Len(s) + Len(b)
        /\ \A i \in 1..(Len(s) + Len(b)) : c[i] = IF i <= Len(s) THEN s[i] ELSE b[i - Len(s)]
    BY <1>2, ConcatProperties
  <1> HIDE DEF c
  <1>5. DOMAIN c = 1..(Len(s) + Len(b))  BY <1>4
  <1>6. \A i \in DOMAIN s : i \in DOMAIN c /\ c[i] = s[i]
    <2> TAKE i \in DOMAIN s
    <2>1. i \in 1..(Len(s) + Len(b)) /\ i <= Len(s)  BY <1>3
    <2> QED  BY <1>4, <1>5, <2>1
  <1>7. \A i \in DOMAIN c \ DOMAIN s : i - Len(s) \in DOMAIN b /\ c[i] = b[i - Len(s)]
    <2> TAKE i \in DOMAIN c \ DOMAIN s
    <2>1. i \in 1..(Len(s) + Len(b)) /\ ~(i <= Len(s)) /\ i - Len(s) \in 1..Len(b)  BY <1>3, <1>5
    <2> QED  BY <1>3, <1>4, <2>1
  <1>8. \A j \in DOMAIN b : Len(s) + j \in DOMAIN c \ DOMAIN s /\ c[Len(s) + j] = b[j]
    <2> TAKE j \in DOMAIN b
    <2>1. Len(s) + j \in DOMAIN c \ DOMAIN s /\ (Len(s) + j) - Len(s) = j  BY <1>3, <1>5
    <2> QED  BY <1>7, <2>1
  <1>9. Registry!Range(c) = Registry!Range(s) \cup new
    <2>1. \A i \in DOMAIN c : c[i] \in Registry!Range(s) \cup new
      <3> TAKE i \in DOMAIN c
      <3>1. CASE i \in DOMAIN s  BY <1>6, <3>1 DEF Registry!Range
      <3>2. CASE i \notin DOMAIN s  BY <1>3, <1>7, <3>2
      <3> QED  BY <3>1, <3>2
    <2>2. \A x \in Registry!Range(s) : \E i \in DOMAIN c : c[i] = x  BY <1>6 DEF Registry!Range
    <2>3. \A x \in new : \E i \in DOMAIN c : c[i] = x  BY <1>1, <1>8
    <2> QED  BY <2>1, <2>2, <2>3 DEF Registry!Range
  <1>10. Registry!IsInjective(c)
    <2> SUFFICES ASSUME NEW i \in DOMAIN c, NEW j \in DOMAIN c, c[i] = c[j]  PROVE i = j
      BY DEF Registry!IsInjective
    <2>0. i \in Nat /\ j \in Nat  BY <1>3, <1>5
    <2>1. CASE i \in DOMAIN s /\ j \in DOMAIN s  BY <1>6, <2>1 DEF Registry!IsInjective
    <2>2. CASE i \notin DOMAIN s /\ j \notin DOMAIN s
      <3>1. i - Len(s) = j - Len(s)  BY <1>1, <1>7, <2>2 DEF Registry!IsInjective
      <3> QED  BY <1>3, <2>0, <3>1
    <2>3. CASE i \in DOMAIN s /\ j \notin DOMAIN s
      <3>1. c[i] \in Registry!Range(s) /\ c[j] \in new
        BY <1>3, <1>6, <1>7, <2>3 DEF Registry!Range
      <3> QED  BY <3>1
    <2>4. CASE i \notin DOMAIN s /\ j \in DOMAIN s
      <3>1. c[j] \in Registry!Range(s) /\ c[i] \in new
        BY <1>3, <1>6, <1>7, <2>4 DEF Registry!Range
      <3> QED  BY <3>1
    <2> QED  BY <2>1, <2>2, <2>3, <2>4
  <1>11. s # <<>> => c # <<>> /\ c[1] = s[1]
    <2> SUFFICES ASSUME s # <<>>  PROVE c # <<>> /\ c[1] = s[1]  OBVIOUS
    <2>1. 1 \in DOMAIN s  BY <1>3
    <2>2. 1 \in DOMAIN c /\ c[1] = s[1]  BY <1>6, <2>1
    <2> QED  BY <2>2
  <1> QED  BY <1>4, <1>9, <1>10, <1>11 DEF b, c

\* Range is a list's set of entries.
LEMMA RegisteredAre == Registry!Registered = {order[i] : i \in DOMAIN order}
  BY DEF Registry!Registered, Registry!Range

\* What the registry may read of an add-on.
LEMMA TocsAre ==
  ASSUME Registry!EntriesTyped, NEW n \in Registry!AddOns
  PROVE  /\ n \in Names => disk[n] \in Registry!Tocs \cup {Registry!Absent}
         /\ n \in Names /\ ~disk[n].there => disk[n] = Registry!Absent
         /\ n \in Names /\ disk[n].there => disk[n] \in Registry!Tocs /\ disk[n] # Registry!Absent
         /\ Registry!Parsed(n) \in SUBSET Registry!AddOns
         /\ n # Library => n \in Names /\ Registry!Parsed(n) = disk[n].with
  <1>1. \A x \in Registry!Tocs : x.there = TRUE /\ x.with \in SUBSET Registry!AddOns
    BY DEF Registry!Tocs, Registry!Toc
  <1>2. Registry!Absent.there = FALSE /\ Registry!Absent.with = {}  BY DEF Registry!Absent
  <1>3. n \in Names => disk[n] \in Registry!Tocs \cup {Registry!Absent}
    BY DEF Registry!EntriesTyped
  <1>4. Registry!Toc({}).with = {}  BY DEF Registry!Toc
  <1>5. n # Library => n \in Names  BY DEF Registry!AddOns
  <1> QED  BY <1>1, <1>2, <1>3, <1>4, <1>5 DEF Registry!Parsed, Registry!TocOf

\* The links after a fix-up.
LEMMA FixupLinks ==
  ASSUME NEW links, NEW lists, NEW new, NEW old,
         DOMAIN lists \subseteq DOMAIN links,
         \A t \in DOMAIN lists : lists[t] \in [Registry!Pointees -> Nat],
         \A t \in DOMAIN lists, p \in Registry!Pointees :
            lists[t][p] = IF p \in DOMAIN links /\ t \in links[p] /\ {p, t} \cap new = {} THEN 1
            ELSE 0
  PROVE  /\ DOMAIN Registry!FixupReverseLoadWith(links, lists, new) = DOMAIN lists
         /\ \A t \in DOMAIN lists :
            Registry!FixupReverseLoadWith(links, lists, new)[t] \in [Registry!Pointees -> Nat]
         /\ \A t \in DOMAIN lists, p \in Registry!Pointees :
               Registry!FixupReverseLoadWith(links, lists, new)[t][p]
               = IF p \in DOMAIN links /\ t \in links[p] THEN 1 ELSE 0
  <1> DEFINE fixed == Registry!FixupReverseLoadWith(links, lists, new)
             pair(p, t) == p \in DOMAIN links /\ t \in links[p] /\ (p \in new \/ t \in new)
  <1>1. fixed = [t \in DOMAIN lists
                 |-> [p \in Registry!Pointees |-> lists[t][p] + (IF pair(p, t) THEN 1 ELSE 0)]]
    BY DEF Registry!FixupReverseLoadWith
  <1> HIDE DEF fixed
  <1>2. \A t \in DOMAIN lists, p \in Registry!Pointees :
           lists[t][p] + (IF pair(p, t) THEN 1 ELSE 0) = IF p \in DOMAIN links /\ t \in links[p]
           THEN 1 ELSE 0
    <2> TAKE t \in DOMAIN lists, p \in Registry!Pointees
    <2>1. lists[t][p] = IF p \in DOMAIN links /\ t \in links[p] /\ {p, t} \cap new = {} THEN 1
          ELSE 0
      OBVIOUS
    <2>2. {p, t} \cap new = {} <=> ~(p \in new \/ t \in new)  OBVIOUS
    <2>3. CASE p \in DOMAIN links /\ t \in links[p]  BY <2>1, <2>2, <2>3
    <2>4. CASE ~(p \in DOMAIN links /\ t \in links[p])  BY <2>1, <2>4
    <2> QED  BY <2>3, <2>4
  <1>3. \A t \in DOMAIN lists : /\ fixed[t]
                                   = [p \in Registry!Pointees
                                      |-> lists[t][p] + (IF pair(p, t) THEN 1 ELSE 0)]
                                /\ DOMAIN fixed = DOMAIN lists
    BY <1>1
  <1>4. \A t \in DOMAIN lists, p \in Registry!Pointees :
           fixed[t][p] = IF p \in DOMAIN links /\ t \in links[p] THEN 1 ELSE 0
    <2> TAKE t \in DOMAIN lists, p \in Registry!Pointees
    <2>1. fixed[t][p] = lists[t][p] + (IF pair(p, t) THEN 1 ELSE 0)  BY <1>3
    <2>2. lists[t][p] + (IF pair(p, t) THEN 1 ELSE 0) = IF p \in DOMAIN links /\ t \in links[p]
          THEN 1 ELSE 0
      BY <1>2
    <2> HIDE DEF pair
    <2> QED  BY <2>1, <2>2
  <1>5. \A t \in DOMAIN lists : fixed[t] \in [Registry!Pointees -> Nat]
    <2> TAKE t \in DOMAIN lists
    <2>1. \A p \in Registry!Pointees : fixed[t][p] \in Nat  BY <1>4
    <2> QED  BY <1>3, <2>1
  <1>6. DOMAIN fixed = DOMAIN lists  BY <1>1
  <1> QED  BY <1>4, <1>5, <1>6 DEF fixed

\* A registry without entries.
LEMMA NothingIsRegistered ==
  ASSUME Registry!RegistryAssumption,
         disk' \in [Names -> Registry!Tocs \cup {Registry!Absent}],
         asOf' \in [Names -> Registry!Tocs \cup {Registry!Absent}],
         index' \subseteq Names, edits' \in 0..MaxEdits,
         order' = <<>>, with' = <<>>, rev' = <<>>, display' = {}, metaHash' = <<>>,
         victims' = <<>>, refreshed' = {}, evicted' = FALSE, rescanning' = FALSE
  PROVE  Registry!RegistryInv' /\ Registry!AsParsed'
  <1>1. DOMAIN <<>> = {} /\ <<>> \in Seq(Registry!AddOns)  OBVIOUS
  <1>2. Registry!Registered' = {}  BY <1>1 DEF Registry!Registered, Registry!Range
  <1>3. Registry!IsInjective(order')  BY <1>1 DEF Registry!IsInjective
  <1>4. Registry!EntriesTyped'
    BY <1>1, <1>2, <1>3 DEF Registry!EntriesTyped, Registry!IsInjective
  <1>5. Registry!LinksInv'  BY <1>2 DEF Registry!LinksInv
  <1>6. Registry!RunInv'  BY <1>2 DEF Registry!RunInv
  <1>7. Registry!AsParsed'  BY <1>2 DEF Registry!AsParsed
  <1> QED  BY <1>4, <1>5, <1>6, <1>7 DEF Registry!RegistryInv

\* The client starts, and starts again beside the same disk.
LEMMA RegistryStarts == Registry!RegistryAssumption /\ Registry!RegistryInit
      => Registry!RegistryInv /\ Registry!AsParsed
  <1> SUFFICES ASSUME Registry!RegistryAssumption, Registry!RegistryInit
               PROVE  Registry!RegistryInv /\ Registry!AsParsed
    OBVIOUS
  <1>1. DOMAIN <<>> = {} /\ <<>> \in Seq(Registry!AddOns)  OBVIOUS
  <1>2. Registry!Registered = {}
    BY <1>1 DEF Registry!Registered, Registry!Range, Registry!RegistryInit
  <1>3. Registry!Toc({}) \in Registry!Tocs /\ Registry!Toc(Names) \in Registry!Tocs
    BY DEF Registry!Tocs, Registry!AddOns
  <1>4. Registry!EntriesTyped
    <2>1. disk \in [Names -> Registry!Tocs \cup {Registry!Absent}] /\ asOf = disk
      BY <1>3 DEF Registry!RegistryInit
    <2>2. index \subseteq Names /\ edits \in 0..MaxEdits
      BY DEF Registry!RegistryInit, Registry!RegistryAssumption
    <2> QED
      BY <1>1, <1>2, <2>1, <2>2 DEF Registry!EntriesTyped, Registry!IsInjective,
         Registry!RegistryInit
  <1>5. Registry!LinksInv  BY <1>2 DEF Registry!LinksInv
  <1>6. Registry!RunInv  BY <1>2 DEF Registry!RunInv, Registry!RegistryInit
  <1>7. Registry!AsParsed  BY <1>2 DEF Registry!AsParsed
  <1> QED  BY <1>4, <1>5, <1>6, <1>7 DEF Registry!RegistryInv

LEMMA RegistryRestarts == Registry!RegistryAssumption /\ Registry!EntriesTyped
      /\ Registry!RegistryRestart => Registry!RegistryInv' /\ Registry!AsParsed'
  <1> SUFFICES ASSUME Registry!RegistryAssumption, Registry!EntriesTyped, Registry!RegistryRestart
               PROVE  Registry!RegistryInv' /\ Registry!AsParsed'
    OBVIOUS
  <1>1. /\ disk' \in [Names -> Registry!Tocs \cup {Registry!Absent}]
        /\ asOf' \in [Names -> Registry!Tocs \cup {Registry!Absent}]
        /\ index' \subseteq Names /\ edits' \in 0..MaxEdits
    BY DEF Registry!RegistryRestart, Registry!EntriesTyped, Registry!OnDisk
  <1> QED  BY <1>1, NothingIsRegistered DEF Registry!RegistryRestart

\* The engine's scan at login reads what is on disk.
LEMMA LoginScans ==
  ASSUME Registry!RegistryAssumption, Registry!RegistryInv, Registry!LoginScan
  PROVE  Registry!RegistryInv' /\ Registry!AsScanned' /\ order' # <<>>
  <1> DEFINE names == {n \in Registry!OnDisk : Registry!Readable(n)}
             found == <<Library>> \o Registry!SetToSeq(names)
             all == Registry!Range(order')
  <1>0. Registry!EntriesTyped /\ Registry!RunInv  BY DEF Registry!RegistryInv
  <1>1. /\ ~rescanning /\ index' = index /\ order' = Registry!ScanDisk
        /\ with' = [n \in all |-> Registry!Parsed(n)]
        /\ rev' = Registry!FixupReverseLoadWith(with', [t \in all |-> Registry!Nobody], all)
        /\ display' = all \ {Library}
        /\ UNCHANGED <<disk, metaHash, victims, refreshed, evicted, rescanning, edits, asOf>>
    BY DEF Registry!LoginScan, Registry!runVars
  <1>2. /\ found \in Seq(Registry!AddOns) /\ Registry!IsInjective(found)
        /\ Registry!Range(found) = {Library} \cup names
        /\ found # <<>> /\ found[1] = Library
    <2> DEFINE s == <<Library>>
    <2>1. /\ s \in Seq(Registry!AddOns) /\ s # <<>> /\ s[1] = Library /\ DOMAIN s = {1}
      BY DEF Registry!AddOns
    <2>2. Registry!IsInjective(s) /\ Registry!Range(s) = {Library}
      BY <2>1 DEF Registry!IsInjective, Registry!Range
    <2>3. names \in SUBSET Registry!AddOns /\ names \subseteq Names
          /\ names \cap Registry!Range(s) = {}
      BY <2>2 DEF Registry!OnDisk, Registry!AddOns, Registry!RegistryAssumption
    <2>4. Registry!IsFiniteSet(names)
      BY <2>3, RegistryOperators, FS_Subset DEF Registry!RegistryAssumption
    <2> HIDE DEF s, names
    <2>5. /\ s \o Registry!SetToSeq(names) \in Seq(Registry!AddOns)
          /\ Registry!IsInjective(s \o Registry!SetToSeq(names))
          /\ Registry!Range(s \o Registry!SetToSeq(names)) = Registry!Range(s) \cup names
          /\ s # <<>> => s \o Registry!SetToSeq(names) # <<>>
             /\ (s \o Registry!SetToSeq(names))[1] = s[1]
      BY <2>1, <2>2, <2>3, <2>4, ListWithSet
    <2> QED  BY <2>1, <2>2, <2>5 DEF s
  <1>3. order' = found
    <2>1. Registry!ScanDisk = IF Library \in Registry!Range(found) THEN found
          ELSE Append(found, Library)
      BY DEF Registry!ScanDisk, Registry!HeadOfScan
    <2> HIDE DEF found
    <2> QED  BY <1>1, <1>2, <2>1
  <1> HIDE DEF found, names
  <1>4. all = {Library} \cup names /\ Registry!Registered' = all
    BY <1>2, <1>3 DEF Registry!Registered
  <1>5. names \subseteq Names /\ all \subseteq Registry!AddOns
    BY <1>4 DEF names, Registry!OnDisk, Registry!AddOns
  <1>6. \A n \in all : Registry!Parsed(n) \in SUBSET Registry!AddOns  BY <1>0, <1>5, TocsAre
  <1> HIDE DEF all
  <1>7. /\ DOMAIN with' = all /\ \A n \in all : with'[n] = Registry!Parsed(n)  BY <1>1
  <1> DEFINE lists == [t \in all |-> Registry!Nobody]
  <1>8. /\ DOMAIN rev' = all /\ \A t \in all : rev'[t] \in [Registry!Pointees -> Nat]
        /\ \A t \in all, p \in Registry!Pointees : rev'[t][p] = IF p \in all /\ t \in with'[p]
           THEN 1 ELSE 0
    <2>1. DOMAIN lists = all /\ \A t \in all : lists[t] \in [Registry!Pointees -> Nat]
          /\ \A p \in Registry!Pointees : lists[t][p] = 0
      BY DEF Registry!Nobody
    <2>2. rev' = Registry!FixupReverseLoadWith(with', lists, all)  BY <1>1
    <2> HIDE DEF lists
    <2>3. \A t \in DOMAIN lists, p \in Registry!Pointees :
             lists[t][p] = IF p \in DOMAIN with' /\ t \in with'[p] /\ {p, t} \cap all = {} THEN 1
             ELSE 0
      BY <2>1
    <2>4. DOMAIN lists \subseteq DOMAIN with'  BY <1>7, <2>1
    <2> QED  BY <1>7, <2>1, <2>2, <2>3, <2>4, FixupLinks
  <1>9. Registry!EntriesTyped'
    <2>1. \A n \in Registry!Registered' : with'[n] \in SUBSET Registry!AddOns
          /\ rev'[n] \in [Registry!Pointees -> Nat]
      BY <1>4, <1>6, <1>7, <1>8
    <2>2. order' \in Seq(Registry!AddOns) /\ Registry!IsInjective(order') /\ order' # <<>>
          /\ order'[1] = Library
      BY <1>2, <1>3
    <2>3. DOMAIN with' = Registry!Registered' /\ DOMAIN rev' = Registry!Registered'
      BY <1>4, <1>7, <1>8
    <2> QED  BY <1>0, <1>1, <2>1, <2>2, <2>3 DEF Registry!EntriesTyped, Registry!IsInjective
  <1>10. refreshed' = {} /\ victims' = <<>> /\ ~evicted' /\ ~rescanning'
    BY <1>0, <1>1 DEF Registry!RunInv
  <1>11. Registry!LinksInv'  BY <1>4, <1>8, <1>10 DEF Registry!LinksInv
  <1>12. Registry!RunInv'  BY <1>1, <1>4, <1>10 DEF Registry!RunInv
  <1>13. Registry!AsScanned'
    <2>1. ASSUME NEW n \in Registry!Registered' \cap Registry!Managed
          PROVE  with'[n] = disk'[n].with
      <3>1. n \in all /\ n \in Names /\ n # Library /\ n \in Registry!AddOns
        BY <1>4 DEF Registry!Managed, Registry!RegistryAssumption, Registry!AddOns
      <3>2. with'[n] = disk[n].with  BY <1>0, <1>7, <3>1, TocsAre
      <3> QED  BY <1>1, <3>2
    <2> QED  BY <2>1 DEF Registry!AsScanned, Registry!Managed
  <1> QED  BY <1>2, <1>3, <1>9, <1>11, <1>12, <1>13 DEF Registry!RegistryInv

\* The rescan walks the disk and finds who must go.
LEMMA RescanBegins ==
  ASSUME Registry!RegistryAssumption, Registry!RegistryInv,
         Registry!AsParsed \/ Registry!AsScanned, Registry!RunBegins
  PROVE  Registry!RegistryInv'
  <1> DEFINE walked == {n \in Registry!Registered : ~Registry!IsRefreshExempt(n)}
             seen == DOMAIN metaHash
             stale == {n \in walked : ~Registry!Readable(n)
                       \/ (n \in seen /\ metaHash[n] # disk[n])}
  <1>0. Registry!EntriesTyped /\ Registry!RunInv /\ Registry!LinksInv  BY DEF Registry!RegistryInv
  <1>1. /\ ~rescanning /\ order # <<>> /\ rescanning' /\ rescanning' \in BOOLEAN
        /\ index' = Registry!OnDisk /\ asOf' = disk
        /\ victims' = [n \in stale |-> IF Registry!Readable(n) THEN disk[n] ELSE Registry!Absent]
        /\ metaHash' = [n \in seen \cup (walked \ stale) |-> IF n \in seen THEN metaHash[n]
                        ELSE disk[n]]
        /\ UNCHANGED <<disk, order, with, rev, display, refreshed, evicted, edits>>
    BY DEF Registry!RunBegins, Registry!entryTables
  <1>2. Registry!Registered \subseteq Registry!AddOns
    BY <1>0, RegisteredAre DEF Registry!EntriesTyped
  <1>3. walked = Registry!Registered \cap Registry!Managed
    BY <1>2 DEF Registry!IsRefreshExempt, Registry!Managed, Registry!AddOns,
       Registry!RegistryAssumption
  <1>4. walked \subseteq Names /\ \A n \in walked : n # Library
    BY <1>3 DEF Registry!Managed, Registry!RegistryAssumption
  <1>5. \A n \in walked : /\ Registry!Readable(n) <=> disk[n].there
                          /\ ~disk[n].there => disk[n] = Registry!Absent
                          /\ disk[n].there => disk[n] \in Registry!Tocs
    <2> TAKE n \in walked
    <2>1. n \in Names /\ n # Library /\ n \in Registry!AddOns  BY <1>4 DEF Registry!AddOns
    <2> QED  BY <1>0, <1>1, <2>1, TocsAre DEF Registry!Readable, Registry!OnDisk
  <1> HIDE DEF walked
  <1>6. \A n \in walked \ stale : /\ disk[n].there /\ (n \in seen => metaHash[n] = disk[n])
                                  /\ metaHash'[n] = disk[n] /\ n \in DOMAIN metaHash'
                                  /\ with[n] = disk[n].with
    <2> TAKE n \in walked \ stale
    <2>1. disk[n].there /\ (n \in seen => metaHash[n] = disk[n])  BY <1>5
    <2>2. n \in DOMAIN metaHash' /\ metaHash'[n] = IF n \in seen THEN metaHash[n] ELSE disk[n]
      BY <1>1
    <2>3. CASE Registry!AsParsed
      <3>1. n \in DOMAIN metaHash /\ with[n] = metaHash[n].with
        BY <1>3, <2>3 DEF Registry!AsParsed
      <3> QED  BY <2>1, <2>2, <3>1
    <2>4. CASE Registry!AsScanned
      <3>1. with[n] = disk[n].with  BY <1>3, <2>4 DEF Registry!AsScanned
      <3> QED  BY <2>1, <2>2, <3>1
    <2> QED  BY <2>3, <2>4
  <1>7. DOMAIN victims' = stale /\ \A n \in stale : victims'[n] = disk[n]
    <2>1. stale \subseteq walked  OBVIOUS
    <2>2. \A n \in stale : victims'[n] = IF Registry!Readable(n) THEN disk[n] ELSE Registry!Absent
      BY <1>1
    <2> QED  BY <1>1, <1>5, <2>1, <2>2
  <1>8. stale \subseteq walked /\ \A n \in stale : disk[n].there => n \in seen
    <2>1. stale \subseteq walked /\ \A n \in stale : Registry!Readable(n) => n \in seen  OBVIOUS
    <2> QED  BY <1>5, <2>1
  <1>9. Registry!Registered' = Registry!Registered  BY <1>1 DEF Registry!Registered
  <1>10. /\ DOMAIN metaHash' = seen \cup (walked \ stale)
         /\ \A n \in seen : metaHash'[n] = metaHash[n]
    BY <1>1
  <1> HIDE DEF stale
  <1>11. Registry!EntriesTyped'
    <2>1. DOMAIN metaHash' \subseteq Registry!Managed
          /\ \A n \in DOMAIN metaHash' : metaHash'[n] \in Registry!Tocs
      BY <1>0, <1>3, <1>5, <1>6, <1>10 DEF Registry!EntriesTyped
    <2>2. index' \subseteq Names  BY <1>1 DEF Registry!OnDisk
    <2>3. Registry!IsInjective(order')  BY <1>0, <1>1 DEF Registry!EntriesTyped
    <2> QED  BY <1>0, <1>1, <1>9, <2>1, <2>2, <2>3 DEF Registry!EntriesTyped
  <1>12. Registry!LinksInv'  BY <1>0, <1>1, <1>9 DEF Registry!LinksInv
  <1>13. Registry!RunInv'
    <2>1. index' = {n \in Names : asOf'[n].there}
          /\ \A n \in Names : disk'[n] \in {asOf'[n], Registry!Absent}
      BY <1>1 DEF Registry!OnDisk
    <2>2. refreshed' = {} /\ evicted' = evicted /\ display' = display
      BY <1>0, <1>1 DEF Registry!RunInv
    <2>3. DOMAIN victims' \subseteq (Registry!Registered' \cap Registry!Managed) \ refreshed'
      BY <1>3, <1>7, <1>8, <1>9, <2>2
    <2>4. \A n \in DOMAIN victims' :
             victims'[n] = asOf'[n] /\ (asOf'[n].there => n \in DOMAIN metaHash')
      BY <1>1, <1>7, <1>8, <1>10
    <2>5. \A n \in (Registry!Registered' \cap Registry!Managed) \ DOMAIN victims' :
             n \in DOMAIN metaHash' /\ asOf'[n].there /\ metaHash'[n] = asOf'[n]
             /\ with'[n] = asOf'[n].with
      BY <1>1, <1>3, <1>6, <1>7, <1>9
    <2> QED  BY <1>0, <1>1, <1>9, <2>1, <2>2, <2>3, <2>4, <2>5 DEF Registry!RunInv
  <1> QED  BY <1>11, <1>12, <1>13 DEF Registry!RegistryInv

\* One entry goes, with its pointers out of every reverse list, and is parsed anew where it
\* is still on disk.
LEMMA EvictsSafely ==
  ASSUME Registry!RegistryAssumption, Registry!RegistryInv, NEW n \in DOMAIN victims,
         Registry!Evict(n)
  PROVE  Registry!RegistryInv'
  <1> DEFINE rest == Registry!Destroy(Registry!ScrubReverseLoadWith(n), n)
             back == victims[n] # Registry!Absent /\ Registry!Readable(n)
  <1>0. Registry!EntriesTyped /\ Registry!RunInv /\ Registry!LinksInv  BY DEF Registry!RegistryInv
  <1>1. /\ rescanning /\ rescanning' /\ rescanning' \in BOOLEAN /\ index' = index
        /\ evicted' = TRUE
        /\ victims' = Registry!Restrict(victims, DOMAIN victims \ {n})
        /\ UNCHANGED <<disk, display, edits, asOf>>
    BY DEF Registry!Evict
  <1>2. /\ order # <<>> /\ index = {m \in Names : asOf[m].there}
        /\ \A m \in Names : disk[m] \in {asOf[m], Registry!Absent}
        /\ DOMAIN victims \subseteq (Registry!Registered \cap Registry!Managed) \ refreshed
        /\ \A m \in DOMAIN victims : victims[m] = asOf[m]
           /\ (asOf[m].there => m \in DOMAIN metaHash)
        /\ \A m \in (Registry!Registered \cap Registry!Managed) \ DOMAIN victims :
              m \in DOMAIN metaHash /\ asOf[m].there /\ metaHash[m] = asOf[m]
              /\ with[m] = asOf[m].with
        /\ refreshed \subseteq Registry!Registered \cap Registry!Managed /\ Library \notin display
    BY <1>0, <1>1 DEF Registry!RunInv
  <1>3. /\ n \in Registry!Registered /\ n \in Registry!Managed /\ n \in Names /\ n # Library
        /\ n \notin refreshed
        /\ n \in Registry!AddOns /\ n # Registry!Freed
        /\ Registry!Freed \notin Registry!Registered
    <2>1. Registry!Registered \subseteq Registry!AddOns
      BY <1>0, RegisteredAre DEF Registry!EntriesTyped
    <2> QED  BY <1>2, <2>1 DEF Registry!Managed, Registry!AddOns, Registry!RegistryAssumption
  <1>4. /\ Registry!RemoveFirst(order, n) \in Seq(Registry!AddOns)
        /\ Registry!IsInjective(Registry!RemoveFirst(order, n))
        /\ Registry!Range(Registry!RemoveFirst(order, n)) = Registry!Registered \ {n}
        /\ Registry!RemoveFirst(order, n) # <<>> /\ Registry!RemoveFirst(order, n)[1] = Library
    <2>1. order \in Seq(Registry!AddOns) /\ Registry!IsInjective(order) /\ order[1] = Library
      BY <1>0, <1>2 DEF Registry!EntriesTyped
    <2> QED  BY <1>2, <1>3, <2>1, ListWithoutOne DEF Registry!Registered
  <1>5. /\ DOMAIN rest = Registry!Registered \ {n}
        /\ \A t \in Registry!Registered \ {n} :
              rest[t] = [[rev[t] EXCEPT ![n] = 0] EXCEPT ![n] = 0,
                         ![Registry!Freed] = @ + [rev[t] EXCEPT ![n] = 0][n]]
    <2>1. DOMAIN rev = Registry!Registered  BY <1>0 DEF Registry!EntriesTyped
    <2> DEFINE scrubbed == Registry!ScrubReverseLoadWith(n)
    <2>2. scrubbed = [t \in Registry!Registered |-> IF t = n THEN rev[t]
                      ELSE [rev[t] EXCEPT ![n] = 0]]
      BY <2>1 DEF Registry!ScrubReverseLoadWith
    <2> HIDE DEF scrubbed
    <2>3. DOMAIN scrubbed = Registry!Registered
          /\ \A t \in Registry!Registered \ {n} : scrubbed[t] = [rev[t] EXCEPT ![n] = 0]
      BY <2>2
    <2>4. rest = [t \in Registry!Registered \ {n}
                  |-> [scrubbed[t] EXCEPT ![n] = 0, ![Registry!Freed] = @ + scrubbed[t][n]]]
      BY <2>3 DEF Registry!Destroy, scrubbed
    <2> HIDE DEF rest
    <2> QED  BY <2>3, <2>4
  <1> HIDE DEF rest
  <1>6. \A t \in Registry!Registered \ {n} : /\ rest[t] \in [Registry!Pointees -> Nat]
                                    /\ \A p \in Registry!Pointees : rest[t][p] = IF p = n THEN 0
                                       ELSE rev[t][p]
    <2> TAKE t \in Registry!Registered \ {n}
    <2>1. rev[t] \in [Registry!Pointees -> Nat] /\ rev[t][Registry!Freed] = 0
      <3>1. Registry!Freed \in Registry!Pointees  BY DEF Registry!Pointees
      <3> QED  BY <1>0, <1>3, <3>1 DEF Registry!EntriesTyped, Registry!LinksInv
    <2>2. n \in Registry!Pointees /\ Registry!Freed \in Registry!Pointees /\ n # Registry!Freed
      BY <1>3 DEF Registry!Pointees
    <2> DEFINE s == [rev[t] EXCEPT ![n] = 0]
    <2>3. s \in [Registry!Pointees -> Nat] /\ s[n] = 0
          /\ \A p \in Registry!Pointees : s[p] = IF p = n THEN 0 ELSE rev[t][p]
      BY <2>1, <2>2
    <2>4. rest[t] = [s EXCEPT ![n] = 0, ![Registry!Freed] = @ + s[n]]  BY <1>5
    <2> HIDE DEF s
    <2>5. /\ rest[t] \in [Registry!Pointees -> Nat]
          /\ rest[t][Registry!Freed] = s[Registry!Freed] + 0 /\ rest[t][n] = 0
          /\ \A p \in Registry!Pointees \ {n, Registry!Freed} : rest[t][p] = s[p]
      BY <2>2, <2>3, <2>4
    <2>6. rest[t][Registry!Freed] = 0  BY <2>1, <2>2, <2>3, <2>5
    <2> QED  BY <2>1, <2>2, <2>3, <2>5, <2>6
  <1>7. DOMAIN victims' = DOMAIN victims \ {n}
        /\ \A m \in DOMAIN victims' : victims'[m] = victims[m]
    BY <1>1 DEF Registry!Restrict
  <1>8. CASE back
    <2>1. /\ order' = Append(Registry!RemoveFirst(order, n), n)
          /\ with' = [with EXCEPT ![n] = Registry!Parsed(n)]
          /\ rev' = [t \in DOMAIN rev |-> IF t = n THEN Registry!Nobody ELSE rest[t]]
          /\ metaHash' = [metaHash EXCEPT ![n] = victims[n]]
          /\ refreshed' = refreshed \cup {n}
      BY <1>8 DEF Registry!Evict, rest
    <2>2. disk[n].there /\ disk[n] = asOf[n] /\ victims[n] = disk[n] /\ disk[n] \in Registry!Tocs
          /\ Registry!Parsed(n) = disk[n].with
          /\ Registry!Parsed(n) \in SUBSET Registry!AddOns
      <3>1. disk[n].there  BY <1>3, <1>8 DEF Registry!Readable
      <3>2. Registry!Absent.there = FALSE  BY DEF Registry!Absent
      <3>3. disk[n] = asOf[n]  BY <1>2, <1>3, <3>1, <3>2
      <3> QED  BY <1>0, <1>2, <1>3, <3>1, <3>3, TocsAre
    <2>3. /\ order' \in Seq(Registry!AddOns) /\ Registry!IsInjective(order') /\ order' # <<>>
          /\ order'[1] = Library
          /\ Registry!Registered' = Registry!Registered
      <3> DEFINE left == Registry!RemoveFirst(order, n)
      <3>1. /\ left \in Seq(Registry!AddOns) /\ Registry!IsInjective(left)
            /\ n \in Registry!AddOns \ Registry!Range(left) /\ left # <<>>
            /\ left[1] = Library /\ Registry!Range(left) = Registry!Registered \ {n}
            /\ order' = Append(left, n)
        BY <1>3, <1>4, <2>1
      <3> HIDE DEF left
      <3>2. /\ order' \in Seq(Registry!AddOns) /\ Registry!IsInjective(order') /\ order' # <<>>
            /\ order'[1] = Library
            /\ Registry!Range(order') = (Registry!Registered \ {n}) \cup {n}
        <4>1. PICK grown : grown = Append(left, n)  OBVIOUS
        <4>2. /\ grown \in Seq(Registry!AddOns) /\ Len(grown) = Len(left) + 1
              /\ \A i \in 1..Len(left) : grown[i] = left[i]
              /\ grown[Len(left) + 1] = n
          BY <3>1, <4>1, AppendProperties
        <4>3. /\ Registry!IsInjective(grown) /\ grown # <<>> /\ grown[1] = left[1]
              /\ Registry!Range(grown) = Registry!Range(left) \cup {n}
          <5>1. left \in Seq(Registry!AddOns) /\ Registry!IsInjective(left) /\ left # <<>>
                /\ n \notin Registry!Range(left)
            BY <3>1
          <5> QED  BY <4>2, <5>1, ListWithOneMore
        <4>4. order' = grown  BY <3>1, <4>1
        <4> QED  BY <3>1, <4>2, <4>3, <4>4
      <3>3. (Registry!Registered \ {n}) \cup {n} = Registry!Registered  BY <1>3
      <3>4. Registry!Registered' = Registry!Range(order')  BY DEF Registry!Registered
      <3>5. Registry!Registered' = Registry!Registered  BY <3>2, <3>3, <3>4
      <3> QED  BY <3>2, <3>5
    <2>4. /\ DOMAIN with' = Registry!Registered /\ with'[n] = Registry!Parsed(n)
          /\ \A m \in Registry!Registered \ {n} : with'[m] = with[m]
      BY <1>0, <1>3, <2>1 DEF Registry!EntriesTyped
    <2>5. /\ DOMAIN rev' = Registry!Registered /\ rev'[n] = Registry!Nobody
          /\ \A t \in Registry!Registered \ {n} : rev'[t] = rest[t]
      BY <1>0, <1>3, <2>1 DEF Registry!EntriesTyped
    <2>6. Registry!Nobody \in [Registry!Pointees -> Nat]
          /\ \A p \in Registry!Pointees : Registry!Nobody[p] = 0
      BY DEF Registry!Nobody
    <2>7. /\ n \in DOMAIN metaHash /\ DOMAIN metaHash' = DOMAIN metaHash /\ metaHash'[n] = disk[n]
          /\ \A m \in DOMAIN metaHash \ {n} : metaHash'[m] = metaHash[m]
      BY <1>2, <2>1, <2>2
    <2>8. Registry!EntriesTyped'
      <3>1. \A m \in Registry!Registered' : with'[m] \in SUBSET Registry!AddOns
            /\ rev'[m] \in [Registry!Pointees -> Nat]
        BY <1>0, <1>6, <2>2, <2>3, <2>4, <2>5, <2>6, SMTT(60) DEF Registry!EntriesTyped
      <3>2. DOMAIN metaHash' = DOMAIN metaHash
            /\ \A m \in DOMAIN metaHash' : metaHash'[m] \in Registry!Tocs
        BY <1>0, <2>2, <2>7 DEF Registry!EntriesTyped
      <3>3. DOMAIN with' = Registry!Registered' /\ DOMAIN rev' = Registry!Registered'
        BY <2>3, <2>4, <2>5
      <3>4. order' \in Seq(Registry!AddOns) /\ Registry!IsInjective(order')
            /\ (order' # <<>> => order'[1] = Library)
        BY <2>3
      <3>5. evicted' \in BOOLEAN  BY <1>1
      <3> QED  BY <1>0, <1>1, <3>1, <3>2, <3>3, <3>4, <3>5 DEF Registry!EntriesTyped
    <2>9. Registry!LinksInv'
      <3> SUFFICES ASSUME NEW t \in Registry!Registered, NEW p \in Registry!Pointees
                   PROVE  rev'[t][p] = IF p \in Registry!Registered /\ t \in with'[p]
                          /\ {p, t} \cap refreshed' = {}
                                       THEN 1 ELSE 0
        BY <2>3 DEF Registry!LinksInv
      <3>1. CASE t = n \/ p = n
        <4>1. rev'[t][p] = 0  BY <1>6, <2>5, <2>6, <3>1
        <4>2. {p, t} \cap refreshed' # {}  BY <2>1, <3>1
        <4> QED  BY <4>1, <4>2
      <3>2. CASE t # n /\ p # n
        <4>1. rev'[t][p] = rev[t][p]  BY <1>6, <2>5, <3>2
        <4>2. rev[t][p] = IF p \in Registry!Registered /\ t \in with[p]
              /\ {p, t} \cap refreshed = {} THEN 1 ELSE 0
          BY <1>0 DEF Registry!LinksInv
        <4>3. {p, t} \cap refreshed' = {p, t} \cap refreshed  BY <2>1, <3>2
        <4>4. p \in Registry!Registered => with'[p] = with[p]  BY <2>4, <3>2
        <4> QED  BY <4>1, <4>2, <4>3, <4>4
      <3> QED  BY <3>1, <3>2
    <2>10. Registry!RunInv'
      <3>1. Library \notin display' /\ order' # <<>>  BY <1>1, <1>2, <2>3
      <3>2. refreshed' \subseteq Registry!Registered' \cap Registry!Managed'
        BY <1>2, <1>3, <2>1, <2>3
      <3>3. index' = {m \in Names : asOf'[m].there}
            /\ \A m \in Names : disk'[m] \in {asOf'[m], Registry!Absent}
        BY <1>1, <1>2
      <3>4. DOMAIN victims' \subseteq (Registry!Registered' \cap Registry!Managed') \ refreshed'
        BY <1>2, <1>7, <2>1, <2>3
      <3>5. \A m \in DOMAIN victims' : victims'[m] = asOf'[m]
            /\ (asOf'[m].there => m \in DOMAIN metaHash')
        BY <1>1, <1>2, <1>7, <2>7
      <3>6. ASSUME NEW m \in (Registry!Registered' \cap Registry!Managed') \ DOMAIN victims'
            PROVE  m \in DOMAIN metaHash' /\ asOf'[m].there /\ metaHash'[m] = asOf'[m]
                   /\ with'[m] = asOf'[m].with
        <4>1. CASE m = n  BY <1>1, <2>2, <2>4, <2>7, <4>1
        <4>2. CASE m # n
          <5>1. m \in (Registry!Registered \cap Registry!Managed) \ DOMAIN victims
                /\ m \in Registry!Registered \ {n}
            BY <1>7, <2>3, <4>2
          <5>2. m \in DOMAIN metaHash /\ asOf[m].there /\ metaHash[m] = asOf[m]
                /\ with[m] = asOf[m].with
            BY <1>2, <5>1
          <5> QED  BY <1>1, <2>4, <2>7, <5>1, <5>2
        <4> QED  BY <4>1, <4>2
      <3> QED  BY <1>1, <3>1, <3>2, <3>3, <3>4, <3>5, <3>6 DEF Registry!RunInv
    <2> QED  BY <2>8, <2>9, <2>10 DEF Registry!RegistryInv
  <1>9. CASE ~back
    <2>1. /\ order' = Registry!RemoveFirst(order, n)
          /\ with' = Registry!Restrict(with, DOMAIN with \ {n})
          /\ rev' = rest
          /\ metaHash' = Registry!Restrict(metaHash, DOMAIN metaHash \ {n})
          /\ refreshed' = refreshed
      BY <1>9 DEF Registry!Evict, rest
    <2>2. Registry!Registered' = Registry!Registered \ {n}  BY <1>4, <2>1 DEF Registry!Registered
    <2>3. DOMAIN with' = Registry!Registered \ {n}
          /\ \A m \in Registry!Registered \ {n} : with'[m] = with[m]
      BY <1>0, <2>1 DEF Registry!Restrict, Registry!EntriesTyped
    <2>4. DOMAIN metaHash' = DOMAIN metaHash \ {n}
          /\ \A m \in DOMAIN metaHash' : metaHash'[m] = metaHash[m]
      BY <2>1 DEF Registry!Restrict
    <2>5. Registry!EntriesTyped'
      <3>1. \A m \in Registry!Registered' : with'[m] \in SUBSET Registry!AddOns
            /\ rev'[m] \in [Registry!Pointees -> Nat]
        BY <1>0, <1>6, <2>1, <2>2, <2>3 DEF Registry!EntriesTyped
      <3>2. DOMAIN metaHash' \subseteq DOMAIN metaHash
            /\ \A m \in DOMAIN metaHash' : metaHash'[m] \in Registry!Tocs
        BY <1>0, <2>4 DEF Registry!EntriesTyped
      <3>3. DOMAIN with' = Registry!Registered' /\ DOMAIN rev' = Registry!Registered'
        BY <1>5, <2>1, <2>2, <2>3
      <3>4. order' \in Seq(Registry!AddOns) /\ Registry!IsInjective(order')
            /\ (order' # <<>> => order'[1] = Library)
        BY <1>4, <2>1
      <3>5. evicted' \in BOOLEAN  BY <1>1
      <3> QED  BY <1>0, <1>1, <3>1, <3>2, <3>3, <3>4, <3>5 DEF Registry!EntriesTyped
    <2>6. Registry!LinksInv'
      <3> SUFFICES ASSUME NEW t \in Registry!Registered \ {n}, NEW p \in Registry!Pointees
                   PROVE  rev'[t][p] = IF p \in Registry!Registered \ {n} /\ t \in with'[p]
                          /\ {p, t} \cap refreshed' = {}
                                       THEN 1 ELSE 0
        BY <2>2 DEF Registry!LinksInv
      <3>1. CASE p = n  BY <1>6, <2>1, <3>1
      <3>2. CASE p # n
        <4>1. rev'[t][p] = rev[t][p]  BY <1>6, <2>1, <3>2
        <4>2. rev[t][p] = IF p \in Registry!Registered /\ t \in with[p]
              /\ {p, t} \cap refreshed = {} THEN 1 ELSE 0
          BY <1>0 DEF Registry!LinksInv
        <4>3. p \in Registry!Registered => p \in Registry!Registered \ {n} /\ with'[p] = with[p]
          BY <2>3, <3>2
        <4> QED  BY <2>1, <4>1, <4>2, <4>3
      <3> QED  BY <3>1, <3>2
    <2>7. Registry!RunInv'
      <3>1. Library \notin display' /\ order' # <<>>  BY <1>1, <1>2, <1>4, <2>1
      <3>2. refreshed' \subseteq Registry!Registered' \cap Registry!Managed'
        BY <1>2, <1>3, <2>1, <2>2
      <3>3. index' = {m \in Names : asOf'[m].there}
            /\ \A m \in Names : disk'[m] \in {asOf'[m], Registry!Absent}
        BY <1>1, <1>2
      <3>4. DOMAIN victims' \subseteq (Registry!Registered' \cap Registry!Managed') \ refreshed'
        BY <1>2, <1>7, <2>1, <2>2
      <3>5. \A m \in DOMAIN victims' : victims'[m] = asOf'[m]
            /\ (asOf'[m].there => m \in DOMAIN metaHash')
        BY <1>1, <1>2, <1>7, <2>4
      <3>6. ASSUME NEW m \in (Registry!Registered' \cap Registry!Managed') \ DOMAIN victims'
            PROVE  m \in DOMAIN metaHash' /\ asOf'[m].there /\ metaHash'[m] = asOf'[m]
                   /\ with'[m] = asOf'[m].with
        <4>1. m \in (Registry!Registered \cap Registry!Managed) \ DOMAIN victims
              /\ m \in Registry!Registered \ {n}
          BY <1>7, <2>2
        <4>2. m \in DOMAIN metaHash /\ asOf[m].there /\ metaHash[m] = asOf[m]
              /\ with[m] = asOf[m].with
          BY <1>2, <4>1
        <4> QED  BY <1>1, <2>3, <2>4, <4>1, <4>2
      <3> QED  BY <1>1, <3>1, <3>2, <3>3, <3>4, <3>5, <3>6 DEF Registry!RunInv
    <2> QED  BY <2>5, <2>6, <2>7 DEF Registry!RegistryInv
  <1> QED  BY <1>8, <1>9

\* The rescan's end: what is new on disk comes in, and the links are made again.
LEMMA RunEndsSafely ==
  ASSUME Registry!RegistryAssumption, Registry!RegistryInv, Registry!RunEnds
  PROVE  Registry!RegistryInv' /\ Registry!AsParsed' /\ Registry!MatchesDisk'
  <1> DEFINE added == {n \in Registry!OnDisk \ Registry!Registered : Registry!Readable(n)}
             all == Registry!Registered \cup added
             lists == [t \in all |-> IF t \in added THEN Registry!Nobody ELSE rev[t]]
             changed == added # {} \/ evicted
  <1>0. Registry!EntriesTyped /\ Registry!RunInv /\ Registry!LinksInv  BY DEF Registry!RegistryInv
  <1>1. /\ rescanning /\ DOMAIN victims = {} /\ index' = index
        /\ order' = order \o Registry!SetToSeq(added)
        /\ with' = [n \in all |-> IF n \in added THEN Registry!Parsed(n) ELSE with[n]]
        /\ rev' = IF changed THEN Registry!FixupReverseLoadWith(with', lists,
           added \cup refreshed) ELSE lists
        /\ display' = IF changed THEN all \ {Library} ELSE display
        /\ metaHash' = [n \in DOMAIN metaHash
                        \cup {x \in added : ~Registry!IsRefreshExempt(x)} |->
                            IF n \in added THEN disk[n] ELSE metaHash[n]]
        /\ victims' = <<>> /\ refreshed' = {} /\ evicted' = FALSE /\ rescanning' = FALSE
        /\ asOf' = IF asOf = disk THEN disk ELSE Registry!Moved
        /\ UNCHANGED <<disk, edits>>
    BY DEF Registry!RunEnds
  <1>2. /\ order # <<>> /\ index = {m \in Names : asOf[m].there}
        /\ \A m \in Registry!Registered \cap Registry!Managed :
              m \in DOMAIN metaHash /\ asOf[m].there /\ metaHash[m] = asOf[m]
              /\ with[m] = asOf[m].with
        /\ refreshed \subseteq Registry!Registered \cap Registry!Managed /\ Library \notin display
        /\ ~evicted => display = Registry!Registered \ {Library} /\ refreshed = {}
    BY <1>0, <1>1 DEF Registry!RunInv
  <1>3. /\ added \subseteq Names /\ added \cap Registry!Registered = {} /\ Library \notin added
        /\ added \in SUBSET Registry!AddOns
        /\ \A n \in added : disk[n].there /\ disk[n] \in Registry!Tocs
           /\ Registry!Parsed(n) = disk[n].with
                            /\ Registry!Parsed(n) \in SUBSET Registry!AddOns
    <2>1. added \subseteq Names /\ added \cap Registry!Registered = {}
          /\ \A n \in added : disk[n].there
      BY DEF Registry!OnDisk
    <2>2. \A n \in added : n \in Registry!AddOns /\ n # Library
      BY <2>1, SMTT(30) DEF Registry!AddOns, Registry!RegistryAssumption
    <2> HIDE DEF added
    <2> QED  BY <1>0, <2>1, <2>2, TocsAre DEF Registry!RegistryAssumption
  <1>4. \A n \in Registry!Managed : disk[n].there /\ n \notin Registry!Registered /\ asOf = disk
        => n \in added
    BY <1>1, <1>2 DEF Registry!Readable, Registry!OnDisk, Registry!Managed
  <1>5. {x \in added : ~Registry!IsRefreshExempt(x)} = added \cap Registry!Managed
    BY <1>3 DEF Registry!IsRefreshExempt, Registry!Managed
  <1> HIDE DEF added
  <1>6. /\ order' \in Seq(Registry!AddOns) /\ Registry!IsInjective(order') /\ order' # <<>>
        /\ order'[1] = Library
        /\ Registry!Registered' = all
    <2>1. order \in Seq(Registry!AddOns) /\ Registry!IsInjective(order) /\ order[1] = Library
          /\ Registry!Registered = Registry!Range(order)
      BY <1>0, <1>2 DEF Registry!EntriesTyped, Registry!Registered
    <2>2. Registry!IsFiniteSet(added)
      BY <1>3, RegistryOperators, FS_Subset DEF Registry!RegistryAssumption
    <2>3. added \cap Registry!Range(order) = {}  BY <1>3, <2>1
    <2> DEFINE longer == order \o Registry!SetToSeq(added)
    <2>4. /\ longer \in Seq(Registry!AddOns) /\ Registry!IsInjective(longer)
          /\ Registry!Range(longer) = Registry!Range(order) \cup added
          /\ longer # <<>> /\ longer[1] = order[1]
      BY <1>2, <1>3, <2>1, <2>2, <2>3, ListWithSet
    <2>5. order' = longer  BY <1>1
    <2> HIDE DEF longer
    <2>6. Registry!Registered' = Registry!Range(order')  BY DEF Registry!Registered
    <2> QED  BY <2>1, <2>4, <2>5, <2>6
  <1>7. /\ DOMAIN with' = all /\ \A n \in added : with'[n] = Registry!Parsed(n)
        /\ \A n \in Registry!Registered : n \notin added /\ with'[n] = with[n]
    BY <1>1, <1>3
  <1>8. /\ DOMAIN lists = all
        /\ \A t \in all : lists[t] \in [Registry!Pointees -> Nat]
        /\ \A t \in all, p \in Registry!Pointees :
              lists[t][p] = IF p \in all /\ t \in with'[p]
              /\ {p, t} \cap (added \cup refreshed) = {} THEN 1 ELSE 0
    <2>1. DOMAIN lists = all  OBVIOUS
    <2>2. \A t \in added : lists[t] = Registry!Nobody  OBVIOUS
    <2>3. \A t \in Registry!Registered : lists[t] = rev[t]  BY <1>7
    <2> HIDE DEF lists
    <2>4. Registry!Nobody \in [Registry!Pointees -> Nat]
          /\ \A p \in Registry!Pointees : Registry!Nobody[p] = 0
      BY DEF Registry!Nobody
    <2>5. \A t \in all : lists[t] \in [Registry!Pointees -> Nat]
      BY <1>0, <2>2, <2>3, <2>4 DEF Registry!EntriesTyped
    <2>6. ASSUME NEW t \in all, NEW p \in Registry!Pointees
          PROVE  lists[t][p] = IF p \in all /\ t \in with'[p]
                 /\ {p, t} \cap (added \cup refreshed) = {} THEN 1 ELSE 0
      <3>1. CASE t \in added  BY <2>2, <2>4, <3>1
      <3>2. CASE t \in Registry!Registered
        <4>1. lists[t][p] = IF p \in Registry!Registered /\ t \in with[p]
              /\ {p, t} \cap refreshed = {} THEN 1 ELSE 0
          BY <1>0, <2>3, <3>2 DEF Registry!LinksInv
        <4>2. CASE p \in Registry!Registered  BY <1>7, <3>2, <4>1, <4>2
        <4>3. CASE p \notin Registry!Registered  BY <3>2, <4>1, <4>3
        <4> QED  BY <4>2, <4>3
      <3> QED  BY <3>1, <3>2
    <2> QED  BY <2>1, <2>5, <2>6
  <1>9. /\ DOMAIN rev' = all /\ \A t \in all : rev'[t] \in [Registry!Pointees -> Nat]
        /\ \A t \in all, p \in Registry!Pointees : rev'[t][p] = IF p \in all /\ t \in with'[p]
           THEN 1 ELSE 0
    <2>1. CASE changed
      <3> DEFINE new == added \cup refreshed
      <3>1. rev' = Registry!FixupReverseLoadWith(with', lists, new)  BY <1>1, <2>1
      <3> HIDE DEF lists, new, changed, all
      <3>2. \A t \in DOMAIN lists, p \in Registry!Pointees :
               lists[t][p] = IF p \in DOMAIN with' /\ t \in with'[p] /\ {p, t} \cap new = {}
               THEN 1 ELSE 0
        BY <1>7, <1>8 DEF new
      <3>3. DOMAIN lists \subseteq DOMAIN with'
            /\ \A t \in DOMAIN lists : lists[t] \in [Registry!Pointees -> Nat]
        BY <1>7, <1>8
      <3>4. /\ DOMAIN Registry!FixupReverseLoadWith(with', lists, new) = DOMAIN lists
            /\ \A t \in DOMAIN lists :
               Registry!FixupReverseLoadWith(with', lists, new)[t] \in [Registry!Pointees -> Nat]
            /\ \A t \in DOMAIN lists, p \in Registry!Pointees :
                  Registry!FixupReverseLoadWith(with', lists, new)[t][p]
                  = IF p \in DOMAIN with' /\ t \in with'[p] THEN 1 ELSE 0
        BY <3>2, <3>3, FixupLinks
      <3> QED  BY <1>7, <1>8, <3>1, <3>4
    <2>2. CASE ~changed
      <3>1. rev' = lists /\ added \cup refreshed = {}  BY <1>1, <1>2, <2>2
      <3> HIDE DEF lists
      <3>2. \A t \in all, p \in Registry!Pointees : {p, t} \cap (added \cup refreshed) = {}
        BY <3>1
      <3> QED  BY <1>8, <3>1, <3>2
    <2> QED  BY <2>1, <2>2
  <1> HIDE DEF lists
  <1>10. display' = all \ {Library}
    <2>1. ~changed => display = Registry!Registered \ {Library} /\ added = {}  BY <1>2
    <2> QED  BY <1>1, <2>1
  <1>11. /\ DOMAIN metaHash' = DOMAIN metaHash \cup (added \cap Registry!Managed)
         /\ \A n \in DOMAIN metaHash' : metaHash'[n] = IF n \in added THEN disk[n]
            ELSE metaHash[n]
    BY <1>1, <1>5
  <1> HIDE DEF changed
  <1>12. Registry!EntriesTyped'
    <2>1. DOMAIN metaHash' \subseteq Registry!Managed  BY <1>0, <1>11 DEF Registry!EntriesTyped
    <2>2. \A n \in DOMAIN metaHash' : metaHash'[n] \in Registry!Tocs
      BY <1>0, <1>3, <1>11 DEF Registry!EntriesTyped
    <2>3. \A n \in Registry!Registered' : with'[n] \in SUBSET Registry!AddOns
          /\ rev'[n] \in [Registry!Pointees -> Nat]
      BY <1>0, <1>3, <1>6, <1>7, <1>9 DEF Registry!EntriesTyped
    <2>4. DOMAIN with' = Registry!Registered' /\ DOMAIN rev' = Registry!Registered'
      BY <1>6, <1>7, <1>9
    <2>5. asOf' \in [Names -> Registry!Tocs \cup {Registry!Absent}]
      BY <1>0, <1>1 DEF Registry!EntriesTyped, Registry!Moved
    <2>6. rescanning' \in BOOLEAN /\ evicted' \in BOOLEAN /\ index' \subseteq Names
      BY <1>0, <1>1 DEF Registry!EntriesTyped
    <2>7. disk' \in [Names -> Registry!Tocs \cup {Registry!Absent}] /\ edits' \in 0..MaxEdits
      BY <1>0, <1>1 DEF Registry!EntriesTyped
    <2> QED  BY <1>6, <2>1, <2>2, <2>3, <2>4, <2>5, <2>6, <2>7 DEF Registry!EntriesTyped
  <1>13. Registry!LinksInv'  BY <1>1, <1>6, <1>9 DEF Registry!LinksInv
  <1>14. Registry!RunInv'  BY <1>1, <1>6, <1>10 DEF Registry!RunInv
  <1>15. Registry!AsParsed'
    <2>1. ASSUME NEW n \in all \cap Registry!Managed
          PROVE  n \in DOMAIN metaHash' /\ with'[n] = metaHash'[n].with
      <3>1. CASE n \in added  BY <1>3, <1>7, <1>11, <3>1
      <3>2. CASE n \notin added  BY <1>2, <1>7, <1>11, <3>2
      <3> QED  BY <3>1, <3>2
    <2> QED  BY <1>6, <2>1 DEF Registry!AsParsed
  <1>16. Registry!MatchesDisk'
    <2> SUFFICES ASSUME asOf' # Registry!Moved'
                 PROVE  /\ Registry!Registered' \cap Registry!Managed'
                           = {n \in Registry!Managed' : asOf'[n].there}
                        /\ \A n \in Registry!Registered' \cap Registry!Managed' :
                           with'[n] = asOf'[n].with
      BY <1>6, <1>9, <1>10 DEF Registry!MatchesDisk
    <2>1. asOf = disk /\ asOf' = disk
      <3>1. Registry!Moved' = Registry!Moved  BY DEF Registry!Moved
      <3> QED  BY <1>1, <3>1
    <2>2. ASSUME NEW n \in Registry!Registered' \cap Registry!Managed'
          PROVE  asOf'[n].there /\ with'[n] = asOf'[n].with
      <3>1. n \in all /\ n \in Registry!Managed  BY <1>6
      <3>2. CASE n \in added  BY <1>3, <1>7, <2>1, <3>2
      <3>3. CASE n \notin added  BY <1>2, <1>7, <2>1, <3>1, <3>3
      <3> QED  BY <3>2, <3>3
    <2>3. \A n \in Registry!Managed : asOf'[n].there => n \in all  BY <1>4, <2>1
    <2> QED  BY <1>6, <2>2, <2>3
  <1> QED  BY <1>12, <1>13, <1>14, <1>15, <1>16 DEF Registry!RegistryInv

\* Files are changed beside the client, between its runs or amid one.
LEMMA EditsAreSafe ==
  ASSUME Registry!RegistryAssumption, Registry!RegistryInv, Registry!RegistryCall
  PROVE  /\ Registry!RegistryInv' /\ (Registry!AsParsed => Registry!AsParsed')
            /\ (Registry!MatchesDisk => Registry!MatchesDisk')
         /\ rescanning' = rescanning
  <1>0. Registry!EntriesTyped /\ Registry!RunInv /\ Registry!LinksInv  BY DEF Registry!RegistryInv
  <1>1. PICK n \in Names, toc \in {Registry!Absent, Registry!Toc({}), Registry!Toc(Names),
                                   Registry!Toc({Library})} : Registry!EditDisk(n, toc)
    BY DEF Registry!RegistryCall
  <1>2. toc \in Registry!Tocs \cup {Registry!Absent}  BY <1>1 DEF Registry!Tocs, Registry!AddOns
  <1>3. /\ edits < MaxEdits /\ edits' = edits + 1 /\ disk' = [disk EXCEPT ![n] = toc]
        /\ rescanning => toc = Registry!Absent
        /\ UNCHANGED <<index, order, with, rev, display, metaHash, victims, refreshed, evicted,
                       rescanning, asOf>>
    BY <1>1 DEF Registry!EditDisk, Registry!entryTables, Registry!runVars
  <1>4. Registry!Registered' = Registry!Registered  BY <1>3 DEF Registry!Registered
  <1>5. Registry!EntriesTyped'
    <2>1. disk' \in [Names -> Registry!Tocs \cup {Registry!Absent}]
      BY <1>0, <1>1, <1>2, <1>3 DEF Registry!EntriesTyped
    <2>2. edits' \in 0..MaxEdits
      BY <1>0, <1>3 DEF Registry!EntriesTyped, Registry!RegistryAssumption
    <2>3. Registry!IsInjective(order')  BY <1>0, <1>3 DEF Registry!EntriesTyped
    <2> QED  BY <1>0, <1>3, <1>4, <2>1, <2>2, <2>3 DEF Registry!EntriesTyped
  <1>6. Registry!LinksInv'  BY <1>0, <1>3, <1>4 DEF Registry!LinksInv
  <1>7. Registry!RunInv'
    <2>1. rescanning => \A m \in Names : disk'[m] \in {asOf[m], Registry!Absent}
      <3> SUFFICES ASSUME rescanning, NEW m \in Names
                   PROVE  disk'[m] \in {asOf[m], Registry!Absent}
        OBVIOUS
      <3>1. disk[m] \in {asOf[m], Registry!Absent}  BY <1>0 DEF Registry!RunInv
      <3>2. disk'[m] = IF m = n THEN Registry!Absent ELSE disk[m]
        BY <1>0, <1>3 DEF Registry!EntriesTyped
      <3> QED  BY <3>1, <3>2
    <2> QED  BY <1>0, <1>3, <1>4, <2>1 DEF Registry!RunInv
  <1>8. Registry!AsParsed => Registry!AsParsed'  BY <1>3, <1>4 DEF Registry!AsParsed
  <1>9. Registry!MatchesDisk => Registry!MatchesDisk'
    <2>1. Registry!Moved' = Registry!Moved
          /\ (Registry!IsInjective(order') <=> Registry!IsInjective(order))
      BY <1>3 DEF Registry!Moved
    <2> QED  BY <1>3, <1>4, <2>1 DEF Registry!MatchesDisk
  <1> QED  BY <1>3, <1>5, <1>6, <1>7, <1>8, <1>9 DEF Registry!RegistryInv

\* Steps of other parts.
LEMMA RegistryRests ==
  ASSUME UNCHANGED Registry!registryVars
  PROVE  /\ Registry!RegistryInv => Registry!RegistryInv'
         /\ (Registry!AsParsed' <=> Registry!AsParsed)
            /\ (Registry!AsScanned' <=> Registry!AsScanned)
               /\ (Registry!MatchesDisk' <=> Registry!MatchesDisk)
         /\ rescanning' = rescanning /\ order' = order
  <1>1. UNCHANGED <<disk, index, order, with, rev, display, metaHash, victims, refreshed, evicted,
                    rescanning, edits, asOf>>
    BY DEF Registry!registryVars, Registry!entryTables, Registry!runVars
  <1>2. /\ Registry!Registered' = Registry!Registered /\ Registry!Moved' = Registry!Moved
        /\ (Registry!IsInjective(order') <=> Registry!IsInjective(order))
    BY <1>1 DEF Registry!Registered, Registry!Moved
  <1>3. (Registry!AsParsed' <=> Registry!AsParsed) /\ (Registry!AsScanned' <=> Registry!AsScanned)
    BY <1>1, <1>2 DEF Registry!AsParsed, Registry!AsScanned
  <1>4. Registry!MatchesDisk' <=> Registry!MatchesDisk  BY <1>1, <1>2 DEF Registry!MatchesDisk
  <1>5. Registry!EntriesTyped => Registry!EntriesTyped'  BY <1>1, <1>2 DEF Registry!EntriesTyped
  <1>6. Registry!LinksInv => Registry!LinksInv'  BY <1>1, <1>2 DEF Registry!LinksInv
  <1>7. Registry!RunInv => Registry!RunInv'  BY <1>1, <1>2 DEF Registry!RunInv
  <1> QED  BY <1>1, <1>3, <1>4, <1>5, <1>6, <1>7 DEF Registry!RegistryInv

\* What the properties say of the registry.
LEMMA RegistryIsRight ==
  ASSUME Registry!RegistryAssumption, Registry!RegistryInv
  PROVE  Registry!NothingDangles /\ Registry!LibraryFirst /\ Registry!RegistryTypeOK
  <1>0. Registry!EntriesTyped /\ Registry!RunInv /\ Registry!LinksInv  BY DEF Registry!RegistryInv
  <1>1. Registry!NothingDangles
    <2>1. ASSUME NEW t \in DOMAIN rev, NEW p \in Registry!Pointees, rev[t][p] > 0
          PROVE  p \in Registry!Registered
      <3>1. t \in Registry!Registered  BY <1>0 DEF Registry!EntriesTyped
      <3>2. rev[t][p] = IF p \in Registry!Registered /\ t \in with[p]
            /\ {p, t} \cap refreshed = {} THEN 1 ELSE 0
        BY <1>0, <3>1 DEF Registry!LinksInv
      <3> QED  BY <2>1, <3>2
    <2>2. ~rescanning => display \subseteq Registry!Registered  BY <1>0 DEF Registry!RunInv
    <2> QED  BY <2>1, <2>2 DEF Registry!NothingDangles
  <1>2. Registry!LibraryFirst
    BY <1>0 DEF Registry!EntriesTyped, Registry!RunInv, Registry!LibraryFirst
  <1>3. Registry!RegistryTypeOK
    <2>1. Registry!Registered \subseteq Registry!AddOns
          /\ Registry!Registered = Registry!Range(order)
      BY <1>0, RegisteredAre DEF Registry!EntriesTyped, Registry!Registered
    <2>2. DOMAIN victims \subseteq Names /\ refreshed \subseteq Names
      BY <1>0 DEF Registry!RunInv, Registry!Managed, Registry!EntriesTyped
    <2> QED
      BY <1>0, <2>1, <2>2 DEF Registry!RegistryTypeOK, Registry!EntriesTyped, Registry!Managed
  <1> QED  BY <1>1, <1>2, <1>3

-----------------------------------------------------------------------------
(* The registry in the client's life.                                      *)

\* At the client: entries are as a scan has read them until the module chain gets to the
\* rescan, and as the rescan has parsed them from then on.
RegistryLife ==
  /\ Registry!RegistryInv
  /\ rescanning => phase = "build" /\ "Rescan" \notin chain
  /\ ~rescanning => IF phase = "build" /\ "Rescan" \in chain /\ via = "login"
     THEN Registry!AsScanned ELSE Registry!AsParsed
  /\ LuaRuns \/ (phase = "build" /\ "Rescan" \notin chain) => Registry!MatchesDisk

\* Each step of the client keeps it.
LEMMA RegistryLives ==
  ASSUME RegistryLife, [Next]_vars
  PROVE  RegistryLife'
  <1>0. Registry!RegistryAssumption  BY SessionAssumption
  <1>1. Registry!RegistryInv  BY DEF RegistryLife
  <1>2. UNCHANGED regVars => UNCHANGED Registry!registryVars
    BY DEF regVars, Registry!registryVars, Registry!entryTables, Registry!runVars
  <1>3. UNCHANGED partVars => UNCHANGED Registry!registryVars  BY <1>2 DEF partVars
  <1>4. UNCHANGED Registry!registryVars =>
          /\ Registry!RegistryInv'
          /\ (Registry!AsParsed' <=> Registry!AsParsed)
             /\ (Registry!AsScanned' <=> Registry!AsScanned)
                /\ (Registry!MatchesDisk' <=> Registry!MatchesDisk)
          /\ rescanning' = rescanning
    BY <1>1, RegistryRests
  <1>5. ASSUME UNCHANGED Registry!registryVars, UNCHANGED <<phase, chain, via>>
        PROVE  RegistryLife'
    <2>1. phase' = phase /\ chain' = chain /\ via' = via  BY <1>5
    <2>2. LuaRuns' <=> LuaRuns  BY <2>1 DEF LuaRuns
    <2>3. Registry!RegistryInv' /\ (rescanning' => phase' = "build" /\ "Rescan" \notin chain')
      BY <1>4, <1>5, <2>1 DEF RegistryLife
    <2>4. ~rescanning' => IF phase' = "build" /\ "Rescan" \in chain' /\ via' = "login"
          THEN Registry!AsScanned' ELSE Registry!AsParsed'
      BY <1>4, <1>5, <2>1 DEF RegistryLife
    <2>5. LuaRuns' \/ (phase' = "build" /\ "Rescan" \notin chain') => Registry!MatchesDisk'
      BY <1>4, <1>5, <2>1, <2>2 DEF RegistryLife
    <2> QED  BY <2>3, <2>4, <2>5 DEF RegistryLife
  <1>6. CASE UNCHANGED vars  BY <1>3, <1>5, <1>6 DEF vars, lifeVars, enteringVars
  <1>7. CASE GlueInit
    <2>1. UNCHANGED Registry!registryVars /\ phase \in {"boot", "left"} /\ phase' = "glue"
      BY <1>3, <1>7 DEF GlueInit
    <2>2. Registry!RegistryInv' /\ ~rescanning /\ ~rescanning'  BY <1>4, <2>1 DEF RegistryLife
    <2>3. Registry!AsParsed'  BY <1>4, <2>1, <2>2 DEF RegistryLife
    <2> QED  BY <2>1, <2>2, <2>3 DEF RegistryLife, LuaRuns
  <1>8. ASSUME NEW t \in Hooks!Threads, InstallStep(t)  PROVE RegistryLife'
    BY <1>3, <1>5, <1>8 DEF InstallStep, enteringVars
  <1>9. CASE Login
    <2>1. Registry!LoginScan /\ phase' = "build" /\ via' = "login" /\ chain' = Chain
      BY <1>9 DEF Login
    <2>2. Registry!RegistryInv' /\ Registry!AsScanned' /\ ~rescanning'
      BY <1>0, <1>1, <2>1, LoginScans DEF Registry!LoginScan, Registry!runVars
    <2> QED  BY <2>1, <2>2 DEF RegistryLife, LuaRuns, Chain
  <1>10. CASE ReloadUI
    <2>1. UNCHANGED Registry!registryVars /\ phase = "world" /\ phase' = "build"
          /\ via' = "reload" /\ chain' = Chain
      BY <1>2, <1>10 DEF ReloadUI
    <2> QED  BY <1>4, <2>1 DEF RegistryLife, LuaRuns, Chain
  <1>11. ASSUME NEW f \in Chain, RunsModule(f)  PROVE RegistryLife'
    <2>1. /\ phase = "build" /\ phase' = "build" /\ f \in chain /\ ~rescanning
          /\ chain' = chain \ {f} /\ via' = via
          /\ (f = "Rescan" /\ Registry!RunBegins) \/ (f # "Rescan" /\ UNCHANGED regVars)
      BY <1>11 DEF RunsModule
    <2>2. CASE f # "Rescan" /\ UNCHANGED regVars
      <3>1. ("Rescan" \in chain') <=> ("Rescan" \in chain)  BY <2>1, <2>2
      <3> QED  BY <1>2, <1>4, <2>1, <2>2, <3>1 DEF RegistryLife, LuaRuns
    <2>3. CASE f = "Rescan" /\ Registry!RunBegins
      <3>1. Registry!AsParsed \/ Registry!AsScanned  BY <2>1 DEF RegistryLife
      <3>2. Registry!RegistryInv' /\ rescanning'
        BY <1>0, <1>1, <2>3, <3>1, RescanBegins DEF Registry!RunBegins
      <3>3. Registry!MatchesDisk'  BY <3>2 DEF Registry!MatchesDisk
      <3> QED  BY <2>1, <2>3, <3>2, <3>3 DEF RegistryLife, LuaRuns
    <2> QED  BY <2>1, <2>2, <2>3
  <1>12. CASE RescanRuns
    <2>1. UNCHANGED <<phase, chain, via>>  BY <1>12 DEF RescanRuns, lifeVars, enteringVars
    <2>2. ASSUME NEW n \in DOMAIN victims, Registry!Evict(n)  PROVE RegistryLife'
      <3>1. Registry!RegistryInv'  BY <1>0, <1>1, <2>2, EvictsSafely
      <3>2. rescanning /\ rescanning'  BY <2>2 DEF Registry!Evict
      <3>3. Registry!MatchesDisk'  BY <3>2 DEF Registry!MatchesDisk
      <3> QED  BY <2>1, <3>1, <3>2, <3>3 DEF RegistryLife, LuaRuns
    <2>3. CASE Registry!RunEnds
      <3>1. Registry!RegistryInv' /\ Registry!AsParsed' /\ Registry!MatchesDisk'
        BY <1>0, <1>1, <2>3, RunEndsSafely
      <3>2. rescanning /\ ~rescanning'  BY <2>3 DEF Registry!RunEnds
      <3>3. "Rescan" \notin chain /\ phase = "build"  BY <3>2 DEF RegistryLife
      <3> QED  BY <2>1, <3>1, <3>2, <3>3 DEF RegistryLife, LuaRuns
    <2> QED  BY <1>12, <2>2, <2>3 DEF RescanRuns
  <1>13. CASE LoadBegins
    <2>1. UNCHANGED Registry!registryVars /\ phase = "build" /\ chain = {} /\ ~rescanning
          /\ phase' = "load" /\ via' = via
      BY <1>2, <1>13 DEF LoadBegins, lifeVars, enteringVars
    <2> QED  BY <1>4, <2>1 DEF RegistryLife, LuaRuns
  <1>14. CASE PlayerLogin \/ EnteringWorld \/ LoadingScreen \/ Logout
    <2>1. UNCHANGED Registry!registryVars /\ LuaRuns /\ phase # "build"
      BY <1>2, <1>3, <1>14 DEF PlayerLogin, EnteringWorld, LoadingScreen, Logout, LuaRuns
    <2>2. phase' # "build"  BY <1>14 DEF PlayerLogin, EnteringWorld, LoadingScreen, Logout
    <2>3. Registry!RegistryInv' /\ ~rescanning /\ ~rescanning'  BY <1>4, <2>1 DEF RegistryLife
    <2>4. Registry!AsParsed' /\ Registry!MatchesDisk'  BY <1>4, <2>1, <2>3 DEF RegistryLife
    <2> QED  BY <2>2, <2>3, <2>4 DEF RegistryLife
  <1>16. CASE Restart
    <2>1. Registry!RegistryRestart /\ phase' = "boot"  BY <1>16 DEF Restart
    <2>2. Registry!EntriesTyped  BY <1>1 DEF Registry!RegistryInv
    <2>3. Registry!RegistryInv' /\ Registry!AsParsed' /\ ~rescanning'
      BY <1>0, <2>1, <2>2, RegistryRestarts DEF Registry!RegistryRestart
    <2> QED  BY <2>1, <2>3 DEF RegistryLife, LuaRuns
  <1>17. CASE Edits
    <2>1. UNCHANGED <<phase, chain, via>> /\ Registry!RegistryCall
          /\ (phase \in {"glue", "world"} \/ rescanning)
      BY <1>17 DEF Edits, lifeVars, enteringVars
    <2>2. /\ Registry!RegistryInv' /\ (Registry!AsParsed => Registry!AsParsed')
             /\ (Registry!MatchesDisk => Registry!MatchesDisk')
          /\ rescanning' = rescanning
      BY <1>0, <1>1, <2>1, EditsAreSafe
    <2> QED  BY <2>1, <2>2 DEF RegistryLife, LuaRuns
  <1>18. CASE UnitEvents \/ AddonsLoad \/ LibraryReplaced \/ MasksUsed
    <2>1. UNCHANGED Registry!registryVars /\ UNCHANGED <<phase, chain, via>>
      BY <1>2, <1>18 DEF UnitEvents, AddonsLoad, LibraryReplaced, MasksUsed, lifeVars,
         enteringVars
    <2> QED  BY <1>5, <2>1
  <1> QED  BY <1>6, <1>7, <1>8, <1>9, <1>10, <1>11, <1>12, <1>13, <1>14, <1>16, <1>17, <1>18
           DEF Next

LEMMA RegistryRuns == Spec => []RegistryLife
  <1>1. Init => RegistryLife
    <2> SUFFICES ASSUME Init  PROVE RegistryLife  OBVIOUS
    <2>1. Registry!RegistryInit /\ phase = "boot"  BY DEF Init
    <2>2. Registry!RegistryInv /\ Registry!AsParsed  BY <2>1, RegistryStarts, SessionAssumption
    <2>3. ~rescanning  BY <2>1 DEF Registry!RegistryInit
    <2> QED  BY <2>1, <2>2, <2>3 DEF RegistryLife, LuaRuns
  <1>2. RegistryLife /\ [Next]_vars => RegistryLife'  BY RegistryLives
  <1> QED  BY <1>1, <1>2, PTL DEF Spec

\* After a rescan, whatever came, changed or went before it or in its midst, the registry
\* is what a scan at login would have made of the disk (addons/Rescan.cpp), no pointer of
\* a reverse list is left to an entry that it evicted, and the library stays first.
THEOREM RegistryStaysRight == Spec => []RegistryRight
  <1>1. RegistryLife => RegistryRight
    <2>1. Registry!RegistryAssumption  BY SessionAssumption
    <2> QED  BY <2>1, RegistryIsRight DEF RegistryLife, RegistryRight
  <1> QED  BY <1>1, RegistryRuns, PTL

-----------------------------------------------------------------------------
(* The add-ons' loads.                                                     *)

\* The steps of a client's add-ons; a load pass goes through the registry's list.
AddonNext(list) ==
    \/ Loads!AddonCall \/ Loads!CopyCall \/ Loads!AddonRuns \/ Loads!AddonShutdown
       \/ Loads!AddonRestart \/ Loads!LoadPass(list)
    \/ Loads!ReadsLibrary /\ UNCHANGED <<Loads!loadVars, file>>

\* An add-on's load begins with its variables unset.
LEMMA BeginsSafely ==
  ASSUME Loads!AddonInv, NEW a \in Names \cup {Library}, Loads!BeginsLoad(a),
         queue' \in Seq(Names \cup {Library}),
         Loads!Idle \/ (Loads!Top.step = "files" /\ Loads!Top.addon # Library)
  PROVE  Loads!AddonInv'
  <1> DEFINE L == [addon : Names \cup {Library}, step : Loads!Steps]
             e == [addon |-> a, step |-> "toc"]
  <1> USE DEF Loads!BeginsLoad
  <1>0. loading \in Seq(L) /\ e \in L  BY DEF Loads!AddonInv, Loads!AddonTypes, Loads!Steps
  <1>1. loading' = Append(loading, e)  OBVIOUS
  <1>2. /\ loading' \in Seq(L) /\ Len(loading') = Len(loading) + 1
        /\ loading'[Len(loading) + 1] = e
        /\ \A i \in DOMAIN loading : loading'[i] = loading[i]
        /\ DOMAIN loading' = DOMAIN loading \cup {Len(loading) + 1}
        /\ DOMAIN loading = 1..Len(loading) /\ Len(loading) \in Nat
    <2> HIDE DEF L, e
    <2> QED  BY <1>0, <1>1
  <1> HIDE DEF L
  <1>3. \A i \in DOMAIN loading : loading[i].addon # a  BY DEF Loads!AddonInv, Loads!StackInv
  <1>4. loads' \in [Loads!Saved -> Nat]
        /\ \A s \in Loads!Saved : loads'[s] = IF s[1] = a THEN 0 ELSE loads[s]
    BY DEF Loads!AddonInv, Loads!AddonTypes
  <1>5. Loads!AddonTypes'
    BY <1>0, <1>2, <1>4 DEF Loads!AddonInv, Loads!AddonTypes, Loads!libraryVars, L
  <1>6. Loads!StackInv'
    <2>1. \A i, j \in DOMAIN loading' : loading'[i].addon = loading'[j].addon => i = j
      BY <1>2, <1>3 DEF Loads!AddonInv, Loads!StackInv
    <2>2. ASSUME NEW i \in DOMAIN loading
          PROVE  /\ loading'[i].addon \in started'
                 /\ i < Len(loading') => loading'[i].step = "files" /\ loading'[i].addon # Library
                 /\ Loads!ValuesAt(loading[i].addon, loading[i].step)'
      <3>1. loading[i].step = "files" /\ loading[i].addon # Library
        <4>1. CASE i < Len(loading)  BY <4>1 DEF Loads!AddonInv, Loads!StackInv
        <4>2. CASE i = Len(loading)  BY <4>2, <1>2 DEF Loads!Idle, Loads!Top
        <4> QED  BY <4>1, <4>2, <1>2
      <3>2. Loads!ValuesAt(loading[i].addon, loading[i].step)
        BY DEF Loads!AddonInv, Loads!StackInv
      <3>3. Loads!ValuesAt(loading[i].addon, loading[i].step)'
        BY <3>2, <1>2, <1>3, <1>4 DEF Loads!ValuesAt
      <3> QED  BY <3>1, <3>3, <1>2 DEF Loads!AddonInv, Loads!StackInv
    <2>3. Loads!ValuesAt(a, "toc")'
      BY <1>3, <1>4 DEF Loads!ValuesAt, Loads!AddonInv, Loads!RestInv, Loads!IsLoading
    <2> QED  BY <2>1, <2>2, <2>3, <1>2 DEF Loads!StackInv
  <1>7. Loads!RestInv'
    <2>1. \A b : Loads!IsLoading(b)' <=> Loads!IsLoading(b) \/ b = a
      BY <1>2 DEF Loads!IsLoading
    <2> QED  BY <2>1 DEF Loads!AddonInv, Loads!RestInv
  <1>8. Loads!LibraryInv'
    <2>1. \A b : Loads!IsLoading(b)' <=> Loads!IsLoading(b) \/ b = a
      BY <1>2 DEF Loads!IsLoading
    <2> QED  BY <2>1 DEF Loads!AddonInv, Loads!LibraryInv, Loads!libraryVars, Loads!AddonTypes
  <1> QED  BY <1>5, <1>6, <1>7, <1>8 DEF Loads!AddonInv

\* The top load goes on to another step (or stays), and touches its own variables only.
LEMMA StepsSafely ==
  ASSUME Loads!AddonInv, ~Loads!Idle, NEW to \in Loads!Steps, NEW a, a = Loads!Top.addon,
         loading' = [loading EXCEPT ![Len(loading)].step = to],
         UNCHANGED <<queue, started, file>>, Loads!AddonTypes', Loads!LibraryInv',
         \A s \in Loads!Saved : s[1] # a =>
            value'[s] = value[s] /\ loads'[s] = loads[s]
            /\ pendingSuppress'[s] = pendingSuppress[s] /\ (s \in wrote' <=> s \in wrote),
         Loads!ValuesAt(a, to)'
  PROVE  Loads!AddonInv'
  <1> DEFINE n == Len(loading)
  <1>1. n \in Nat \ {0} /\ DOMAIN loading = 1..n /\ Loads!Top = loading[n] /\ n \in DOMAIN loading
    BY DEF Loads!Idle, Loads!Top, Loads!AddonInv, Loads!AddonTypes
  <1>2. /\ DOMAIN loading' = 1..n /\ Len(loading') = n
        /\ \A i \in 1..n : loading'[i].addon = loading[i].addon
        /\ \A i \in 1..n : i # n => loading'[i] = loading[i]
        /\ loading'[n].step = to
    BY <1>1 DEF Loads!AddonInv, Loads!AddonTypes
  <1>3. \A b : Loads!IsLoading(b)' <=> Loads!IsLoading(b)  BY <1>1, <1>2 DEF Loads!IsLoading
  <1>4. a \in started /\ Loads!IsLoading(a)
    BY <1>1 DEF Loads!AddonInv, Loads!StackInv, Loads!IsLoading
  <1>5. Loads!StackInv'
    <2>1. ASSUME NEW i \in 1..n
          PROVE  /\ loading'[i].addon \in started'
                 /\ i < n => loading'[i].step = "files" /\ loading'[i].addon # Library
                 /\ Loads!ValuesAt(loading[i].addon, loading[i].step)'
      <3>1. CASE i = n  BY <3>1, <1>1, <1>2, <1>4
      <3>2. CASE i # n
        <4>1. loading[i].addon # a  BY <3>2, <1>1 DEF Loads!AddonInv, Loads!StackInv
        <4>2. Loads!ValuesAt(loading[i].addon, loading[i].step)
          BY <1>1 DEF Loads!AddonInv, Loads!StackInv
        <4>3. Loads!ValuesAt(loading[i].addon, loading[i].step)'
          BY <4>1, <4>2, <3>2, <1>2 DEF Loads!ValuesAt
        <4> QED  BY <3>2, <4>3, <1>1, <1>2 DEF Loads!AddonInv, Loads!StackInv
      <3> QED  BY <3>1, <3>2
    <2> QED  BY <2>1, <1>1, <1>2 DEF Loads!AddonInv, Loads!StackInv
  <1>6. Loads!RestInv'
    BY <1>3, <1>4 DEF Loads!AddonInv, Loads!RestInv
  <1> QED  BY <1>5, <1>6 DEF Loads!AddonInv

\* The top of the stack in the invariant.
LEMMA TopIs ==
  ASSUME Loads!AddonInv, ~Loads!Idle
  PROVE  /\ Loads!Top.addon \in Names \cup {Library} /\ Loads!Top.step \in Loads!Steps
         /\ Loads!Top.addon \in started
         /\ Loads!ValuesAt(Loads!Top.addon, Loads!Top.step) /\ Loads!IsLoading(Loads!Top.addon)
         /\ Len(loading) \in DOMAIN loading
         /\ \A to \in Loads!Steps :
              [loading EXCEPT ![Len(loading)].step = to]
              \in Seq([addon : Names \cup {Library}, step : Loads!Steps])
  <1>1. Len(loading) \in DOMAIN loading /\ Loads!Top = loading[Len(loading)]
        /\ Loads!Top \in [addon : Names \cup {Library}, step : Loads!Steps]
    <2>1. Len(loading) \in 1..Len(loading) /\ DOMAIN loading = 1..Len(loading)
      BY DEF Loads!Idle, Loads!AddonInv, Loads!AddonTypes
    <2> DEFINE L == [addon : Names \cup {Library}, step : Loads!Steps]
    <2>2. loading \in Seq(L)  BY DEF Loads!AddonInv, Loads!AddonTypes
    <2> HIDE DEF L
    <2>3. loading[Len(loading)] \in L  BY <2>1, <2>2
    <2> QED  BY <2>1, <2>3 DEF Loads!Top, L
  <1>2. ASSUME NEW to \in Loads!Steps
        PROVE  [loading EXCEPT ![Len(loading)].step = to]
               \in Seq([addon : Names \cup {Library}, step : Loads!Steps])
    <2> DEFINE L == [addon : Names \cup {Library}, step : Loads!Steps]
               e == [loading[Len(loading)] EXCEPT !.step = to]
    <2>1. loading \in Seq(L) /\ e \in L  BY <1>1 DEF Loads!AddonInv, Loads!AddonTypes
    <2> HIDE DEF L, e
    <2>2. [loading EXCEPT ![Len(loading)] = e] \in Seq(L)  BY <1>1, <2>1, ExceptSeq
    <2> QED  BY <2>2 DEF L, e
  <1> QED  BY <1>1, <1>2 DEF Loads!AddonInv, Loads!StackInv, Loads!IsLoading

\* The top's step changes, the stack's add-ons do not.
LEMMA StepsKeepTheStack ==
  ASSUME Loads!AddonInv, ~Loads!Idle, NEW to \in Loads!Steps,
         loading' = [loading EXCEPT ![Len(loading)].step = to]
  PROVE  \A a : Loads!IsLoading(a)' <=> Loads!IsLoading(a)
  <1>1. Len(loading) \in DOMAIN loading /\ DOMAIN loading = 1..Len(loading)
    BY TopIs DEF Loads!AddonInv, Loads!AddonTypes
  <1>2. DOMAIN loading' = DOMAIN loading
        /\ \A i \in DOMAIN loading : loading'[i].addon = loading[i].addon
    BY <1>1 DEF Loads!AddonInv, Loads!AddonTypes
  <1> QED  BY <1>2 DEF Loads!IsLoading

\* TocExecutor: the variables of a LoadSavedVariablesFirst add-on come before its files.
LEMMA TocIsSafe ==
  ASSUME Loads!AddonInv, Loads!TocExecutor
  PROVE  Loads!AddonInv'
  <1>0. ~Loads!Idle /\ Loads!Top.step = "toc" /\ "files" \in Loads!Steps
    BY DEF Loads!TocExecutor, Loads!AtStep, Loads!Steps
  <1> PICK a : a = Loads!Top.addon  OBVIOUS
  <1>1. /\ a \in Names \cup {Library} /\ a \in started /\ Loads!ValuesAt(a, "toc")
        /\ Loads!IsLoading(a)
        /\ [loading EXCEPT ![Len(loading)].step = "files"]
           \in Seq([addon : Names \cup {Library}, step : Loads!Steps])
    BY <1>0, TopIs
  <1>2. /\ loading' = [loading EXCEPT ![Len(loading)].step = "files"]
        /\ UNCHANGED <<queue, started, file, loadingEmbedded, wrote>>
    BY DEF Loads!TocExecutor, Loads!ToStep
  <1>3. IF a \in First THEN Loads!LoadSavedVarsEarly(a)
        ELSE UNCHANGED <<value, loads, pendingSuppress>>
    BY DEF Loads!TocExecutor
  <1>4. \A s \in Loads!Saved :
          /\ value'[s] = IF s \in Loads!FilesOf(a) /\ a \in First THEN "saved" ELSE value[s]
          /\ loads'[s] = IF s \in Loads!FilesOf(a) /\ a \in First THEN loads[s] + 1 ELSE loads[s]
          /\ pendingSuppress'[s] =
               IF s \in Loads!FilesOf(a) /\ a \in First THEN pendingSuppress[s] + 1
               ELSE pendingSuppress[s]
    BY <1>3 DEF Loads!LoadSavedVarsEarly
  <1>5. Loads!ValuesAt(a, "files")'
    <2> SUFFICES ASSUME NEW s \in Loads!Saved, s[1] = a
                 PROVE  LET loaded == s \in file /\ a \in First
                        IN  /\ loads'[s] = IF loaded THEN 1 ELSE 0
                            /\ pendingSuppress'[s] = IF loaded THEN 1 ELSE 0
                            /\ value'[s] = IF s \in wrote THEN "written"
                                           ELSE IF loaded THEN "saved" ELSE "nil"
      BY <1>2 DEF Loads!ValuesAt
    <2>1. loads[s] = 0 /\ pendingSuppress[s] = 0 /\ value[s] = "nil" /\ s \notin wrote
      BY <1>1 DEF Loads!ValuesAt
    <2>2. s \in Loads!FilesOf(a) <=> s \in file  BY DEF Loads!FilesOf
    <2> QED  BY <1>4, <2>1, <2>2
  <1>6. Loads!LibraryInv' /\ copy' \in Loads!Copies
        /\ source' \in {"Undecided", "Disk", "Embedded"}
    <2>1. allowFlag' = (allowFlag \ {a}) \cup ({a} \cap Shares)
          /\ namespaces' = namespaces \cup {a}
      BY DEF Loads!TocExecutor, Loads!CapturesNamespace
    <2>2. Loads!IsLoading(Library)' <=> Loads!IsLoading(Library)  BY <1>0, <1>2, StepsKeepTheStack
    <2>3. UNCHANGED Loads!libraryVars \/ Loads!ReadsLibrary  BY DEF Loads!TocExecutor
    <2> QED
      BY <2>1, <2>2, <2>3, <1>1, <1>2 DEF Loads!AddonInv, Loads!AddonTypes, Loads!LibraryInv,
         Loads!ReadsLibrary, Loads!DecideSource,
         Loads!libraryVars
  <1>7. Loads!AddonTypes'
    <2>1. /\ value' \in [Loads!Saved -> {"nil", "saved", "written"}]
          /\ pendingSuppress' \in [Loads!Saved -> Nat] /\ loads' \in [Loads!Saved -> Nat]
      <3>1. CASE a \in First
        <4>1. Loads!LoadSavedVarsEarly(a)  BY <3>1, <1>3
        <4>2. /\ value \in [Loads!Saved -> {"nil", "saved", "written"}]
              /\ pendingSuppress \in [Loads!Saved -> Nat] /\ loads \in [Loads!Saved -> Nat]
          BY DEF Loads!AddonInv, Loads!AddonTypes
        <4>3. value' \in [Loads!Saved -> {"nil", "saved", "written"}]
          BY <4>1, <4>2 DEF Loads!LoadSavedVarsEarly
        <4>4. pendingSuppress' \in [Loads!Saved -> Nat]
          BY <4>1, <4>2 DEF Loads!LoadSavedVarsEarly
        <4>5. loads' \in [Loads!Saved -> Nat]  BY <4>1, <4>2 DEF Loads!LoadSavedVarsEarly
        <4> QED  BY <4>3, <4>4, <4>5
      <3>2. CASE a \notin First  BY <3>2, <1>3 DEF Loads!AddonInv, Loads!AddonTypes
      <3> QED  BY <3>1, <3>2
    <2>2. allowFlag' \subseteq (Names \cup {Library})
      BY <1>1 DEF Loads!TocExecutor, Loads!CapturesNamespace, Loads!AddonInv, Loads!AddonTypes
    <2> QED  BY <2>1, <2>2, <1>1, <1>2, <1>6 DEF Loads!AddonInv, Loads!AddonTypes
  <1>8. \A s \in Loads!Saved : s[1] # a => s \notin Loads!FilesOf(a)  BY DEF Loads!FilesOf
  <1> QED  BY <1>0, <1>2, <1>4, <1>5, <1>6, <1>7, <1>8, StepsSafely

\* A file of the add-on sets its variable.
LEMMA WriteIsSafe ==
  ASSUME Loads!AddonInv, NEW s \in Loads!Saved, Loads!WritesAtFileScope(s)
  PROVE  Loads!AddonInv'
  <1> PICK a : a = Loads!Top.addon  OBVIOUS
  <1>0. ~Loads!Idle /\ Loads!Top.step = "files" /\ s[1] = a
    BY DEF Loads!WritesAtFileScope, Loads!AtStep
  <1>1. Loads!ValuesAt(a, "files") /\ a \in Names \cup {Library} /\ "files" \in Loads!Steps
    BY <1>0, TopIs
  <1>2. UNCHANGED <<queue, loading, started, file, pendingSuppress, loads>>
        /\ value' = [value EXCEPT ![s] = "written"] /\ wrote' = wrote \cup {s}
    BY DEF Loads!WritesAtFileScope
  <1>3. loading = [loading EXCEPT ![Len(loading)].step = "files"]
    <2>1. Len(loading) \in DOMAIN loading /\ loading[Len(loading)].step = "files"
      BY <1>0, TopIs DEF Loads!Top
    <2>2. loading[Len(loading)] \in [addon : Names \cup {Library}, step : Loads!Steps]
      <3> DEFINE L == [addon : Names \cup {Library}, step : Loads!Steps]
      <3>1. loading \in Seq(L)  BY DEF Loads!AddonInv, Loads!AddonTypes
      <3> HIDE DEF L
      <3>2. loading[Len(loading)] \in L  BY <2>1, <3>1
      <3> QED  BY <3>2 DEF L
    <2> QED  BY <2>1, <2>2 DEF Loads!AddonInv, Loads!AddonTypes
  <1>4. Loads!ValuesAt(a, "files")'
    BY <1>1, <1>2 DEF Loads!ValuesAt, Loads!AddonInv, Loads!AddonTypes
  <1>5. Loads!AddonTypes' /\ Loads!LibraryInv'
    BY <1>2 DEF Loads!WritesAtFileScope, Loads!libraryVars, Loads!AddonInv, Loads!AddonTypes,
       Loads!LibraryInv, Loads!IsLoading
  <1>6. \A r \in Loads!Saved : r[1] # a => value'[r] = value[r] /\ (r \in wrote' <=> r \in wrote)
    BY <1>0, <1>2 DEF Loads!AddonInv, Loads!AddonTypes
  <1> QED  BY <1>0, <1>1, <1>2, <1>3, <1>4, <1>5, <1>6, StepsSafely

\* The add-on's files have run.
LEMMA FilesEndSafely ==
  ASSUME Loads!AddonInv, Loads!FilesEnd
  PROVE  Loads!AddonInv'
  <1> PICK a : a = Loads!Top.addon  OBVIOUS
  <1>0. ~Loads!Idle /\ Loads!Top.step = "files" /\ "saved variables" \in Loads!Steps
    BY DEF Loads!FilesEnd, Loads!AtStep, Loads!Steps
  <1>1. /\ Loads!ValuesAt(a, "files") /\ a \in Names \cup {Library}
        /\ [loading EXCEPT ![Len(loading)].step = "saved variables"]
             \in Seq([addon : Names \cup {Library}, step : Loads!Steps])
    BY <1>0, TopIs
  <1>2. /\ UNCHANGED <<queue, started, value, file, pendingSuppress, allowFlag, namespaces,
                       loadingEmbedded, wrote, loads>>
        /\ loading' = [loading EXCEPT ![Len(loading)].step = "saved variables"]
    BY DEF Loads!FilesEnd, Loads!ToStep
  <1>3. Loads!ValuesAt(a, "saved variables")'  BY <1>1, <1>2 DEF Loads!ValuesAt
  <1>4. Loads!LibraryInv' /\ copy' \in Loads!Copies
        /\ source' \in {"Undecided", "Disk", "Embedded"}
    <2>1. Loads!IsLoading(Library)' <=> Loads!IsLoading(Library)  BY <1>0, <1>2, StepsKeepTheStack
    <2>2. CASE UNCHANGED Loads!libraryVars
      BY <2>1, <2>2, <1>2 DEF Loads!AddonInv, Loads!AddonTypes, Loads!LibraryInv,
         Loads!libraryVars
    <2>3. CASE Loads!ReadsLibrary
      BY <2>1, <2>3, <1>2 DEF Loads!AddonInv, Loads!AddonTypes, Loads!LibraryInv,
         Loads!ReadsLibrary, Loads!DecideSource
    <2> QED  BY <2>2, <2>3 DEF Loads!FilesEnd
  <1>5. Loads!AddonTypes'  BY <1>1, <1>2, <1>4 DEF Loads!AddonInv, Loads!AddonTypes
  <1> QED  BY <1>0, <1>2, <1>3, <1>4, <1>5, StepsSafely

\* The engine's own load passes for what was not loaded early, and settles the rest.
LEMMA SavedVarsAreSafe ==
  ASSUME Loads!AddonInv, Loads!SavedVarsStep
  PROVE  Loads!AddonInv'
  <1> PICK a : a = Loads!Top.addon  OBVIOUS
  <1>0. ~Loads!Idle /\ Loads!Top.step = "saved variables" /\ "event" \in Loads!Steps
    BY DEF Loads!SavedVarsStep, Loads!AtStep, Loads!Steps
  <1>1. /\ Loads!ValuesAt(a, "saved variables") /\ a \in Names \cup {Library}
        /\ [loading EXCEPT ![Len(loading)].step = "event"]
           \in Seq([addon : Names \cup {Library}, step : Loads!Steps])
    BY <1>0, TopIs
  <1>2. /\ UNCHANGED <<queue, started, file, allowFlag, namespaces, loadingEmbedded, wrote,
                       Loads!libraryVars>>
        /\ loading' = [loading EXCEPT ![Len(loading)].step = "event"]
        /\ value' = [s \in Loads!Saved |-> IF s \in Loads!Passes(a) THEN "saved" ELSE value[s]]
        /\ loads' = [s \in Loads!Saved |-> IF s \in Loads!Passes(a) THEN loads[s] + 1
                     ELSE loads[s]]
        /\ pendingSuppress' = [s \in Loads!Saved |->
            IF s \in Loads!FilesOf(a) \ Loads!Passes(a) THEN pendingSuppress[s] - 1
            ELSE pendingSuppress[s]]
    BY DEF Loads!SavedVarsStep, Loads!ToStep
  <1>3. \A s \in Loads!Saved : /\ s \in Loads!FilesOf(a) <=> s \in file /\ s[1] = a
                         /\ s \in Loads!Passes(a)
                            <=> s \in Loads!FilesOf(a) /\ pendingSuppress[s] = 0
    BY DEF Loads!FilesOf, Loads!Passes
  <1>4. Loads!ValuesAt(a, "event")'
    <2> SUFFICES ASSUME NEW s \in Loads!Saved, s[1] = a
                 PROVE  /\ loads'[s] = IF s \in file THEN 1 ELSE 0
                        /\ pendingSuppress'[s] = 0
                        /\ value'[s] = IF s \in wrote /\ (a \in First \/ s \notin file)
                           THEN "written"
                                       ELSE IF s \in file THEN "saved" ELSE "nil"
      BY <1>2 DEF Loads!ValuesAt
    <2>1. LET loaded == s \in file /\ a \in First
          IN  /\ loads[s] = IF loaded THEN 1 ELSE 0
              /\ pendingSuppress[s] = IF loaded THEN 1 ELSE 0
              /\ value[s] = IF s \in wrote THEN "written" ELSE IF loaded THEN "saved" ELSE "nil"
      BY <1>1 DEF Loads!ValuesAt
    <2>2. /\ value'[s] = IF s \in Loads!Passes(a) THEN "saved" ELSE value[s]
          /\ loads'[s] = IF s \in Loads!Passes(a) THEN loads[s] + 1 ELSE loads[s]
          /\ pendingSuppress'[s] = IF s \in Loads!FilesOf(a) \ Loads!Passes(a)
             THEN pendingSuppress[s] - 1
                                   ELSE pendingSuppress[s]
      BY <1>2
    <2>3. /\ s \in Loads!FilesOf(a) <=> s \in file
          /\ s \in Loads!Passes(a) <=> s \in file /\ a \notin First
      <3>1. s \in Loads!FilesOf(a) <=> s \in file  BY DEF Loads!FilesOf
      <3>2. s \in Loads!Passes(a) <=> s \in Loads!FilesOf(a) /\ pendingSuppress[s] = 0
        BY DEF Loads!Passes
      <3>3. s \in file => (pendingSuppress[s] = 0 <=> a \notin First)  BY <2>1
      <3> QED  BY <3>1, <3>2, <3>3
    <2>4. loads'[s] = IF s \in file THEN 1 ELSE 0  BY <2>1, <2>2, <2>3, SMTT(30)
    <2>5. pendingSuppress'[s] = 0  BY <2>1, <2>2, <2>3
    <2>6. value'[s] = IF s \in wrote /\ (a \in First \/ s \notin file) THEN "written"
                      ELSE IF s \in file THEN "saved" ELSE "nil"
      BY <2>1, <2>2, <2>3
    <2> QED  BY <2>4, <2>5, <2>6
  <1>5. Loads!AddonTypes'
    <2>1. value' \in [Loads!Saved -> {"nil", "saved", "written"}]
          /\ loads' \in [Loads!Saved -> Nat]
      BY <1>2 DEF Loads!AddonInv, Loads!AddonTypes
    <2>2. pendingSuppress' \in [Loads!Saved -> Nat]
      <3>1. \A s \in Loads!Saved : s \in Loads!FilesOf(a) \ Loads!Passes(a)
            => pendingSuppress[s] - 1 \in Nat
        BY <1>3 DEF Loads!AddonInv, Loads!AddonTypes
      <3> QED  BY <1>2, <3>1 DEF Loads!AddonInv, Loads!AddonTypes
    <2> QED  BY <1>1, <1>2, <2>1, <2>2 DEF Loads!AddonInv, Loads!AddonTypes, Loads!libraryVars
  <1>6. Loads!LibraryInv'
    <2>1. Loads!IsLoading(Library)' <=> Loads!IsLoading(Library)  BY <1>0, <1>2, StepsKeepTheStack
    <2> QED  BY <2>1, <1>2 DEF Loads!AddonInv, Loads!LibraryInv, Loads!libraryVars
  <1>7. \A s \in Loads!Saved : s[1] # a =>
            value'[s] = value[s] /\ loads'[s] = loads[s]
            /\ pendingSuppress'[s] = pendingSuppress[s]
    <2> SUFFICES ASSUME NEW s \in Loads!Saved, s[1] # a
                 PROVE  value'[s] = value[s] /\ loads'[s] = loads[s]
                        /\ pendingSuppress'[s] = pendingSuppress[s]
      OBVIOUS
    <2>1. s \notin Loads!FilesOf(a) /\ s \notin Loads!Passes(a)
      BY DEF Loads!FilesOf, Loads!Passes
    <2> QED  BY <1>2, <2>1
  <1> QED  BY <1>0, <1>2, <1>4, <1>5, <1>6, <1>7, StepsSafely

\* A load is done, and the one below it goes on.
LEMMA ReturnIsSafe ==
  ASSUME Loads!AddonInv, Loads!LoadReturns
  PROVE  Loads!AddonInv'
  <1> DEFINE n == Len(loading)
             L == [addon : Names \cup {Library}, step : Loads!Steps]
  <1> PICK a : a = Loads!Top.addon  OBVIOUS
  <1>0. ~Loads!Idle /\ Loads!Top.step = "event"  BY DEF Loads!LoadReturns, Loads!AtStep
  <1>1. /\ Loads!ValuesAt(a, "event") /\ a \in Names \cup {Library} /\ a \in started
        /\ n \in DOMAIN loading
        /\ n \in Nat /\ DOMAIN loading = 1..n
    BY <1>0, TopIs DEF Loads!AddonInv, Loads!AddonTypes
  <1>2. /\ UNCHANGED <<queue, started, value, file, pendingSuppress, allowFlag, namespaces, wrote,
                       loads, Loads!libraryVars>>
        /\ loading' = SubSeq(loading, 1, n - 1)
        /\ loadingEmbedded' = IF a = Library THEN FALSE ELSE loadingEmbedded
    BY DEF Loads!LoadReturns, Loads!AfterLoad
  <1>3. /\ loading' \in Seq(L) /\ Len(loading') = n - 1 /\ DOMAIN loading' = 1..(n - 1)
        /\ \A i \in 1..(n - 1) : loading'[i] = loading[i]
    <2>1. loading \in Seq(L)  BY DEF Loads!AddonInv, Loads!AddonTypes
    <2> HIDE DEF L
    <2>2. \A i \in 1..(n - 1) : loading[i] \in L  BY <1>1, <2>1, ElementOfSeq
    <2> QED  BY <1>1, <1>2, <2>1, <2>2, SubSeqProperties
  <1>4. \A b : b # a => (Loads!IsLoading(b)' <=> Loads!IsLoading(b))
    BY <1>1, <1>3 DEF Loads!IsLoading, Loads!Top
  <1>5. Loads!AddonTypes'
    BY <1>2, <1>3 DEF Loads!AddonInv, Loads!AddonTypes, Loads!libraryVars
  <1>6. Loads!StackInv'
    <2>1. ASSUME NEW i \in 1..(n - 1)
          PROVE  /\ loading'[i].addon \in started'
                 /\ loading'[i].step = "files" /\ loading'[i].addon # Library
                 /\ Loads!ValuesAt(loading[i].addon, loading[i].step)'
      <3>1. Loads!ValuesAt(loading[i].addon, loading[i].step)
        BY <1>1 DEF Loads!AddonInv, Loads!StackInv
      <3>2. Loads!ValuesAt(loading[i].addon, loading[i].step)'
        BY <3>1, <1>2, <1>3 DEF Loads!ValuesAt
      <3> QED  BY <3>2, <1>1, <1>2, <1>3 DEF Loads!AddonInv, Loads!StackInv
    <2> QED  BY <2>1, <1>1, <1>3, SMTT(60) DEF Loads!AddonInv, Loads!StackInv
  <1>7. Loads!RestInv'
    <2> SUFFICES ASSUME NEW s \in Loads!Saved
                 PROVE  /\ s[1] \notin started => value[s] = "nil" /\ s \notin wrote
                        /\ ~Loads!IsLoading(s[1])' => pendingSuppress[s] = 0
                        /\ ~Loads!IsLoading(s[1])' /\ s[1] \in started /\ s \in file
                           => value[s] # "nil"
      BY <1>2 DEF Loads!RestInv
    <2>1. CASE s[1] = a  BY <2>1, <1>1 DEF Loads!ValuesAt
    <2>2. CASE s[1] # a  BY <2>2, <1>4 DEF Loads!AddonInv, Loads!RestInv
    <2> QED  BY <2>1, <2>2
  <1>8. Loads!LibraryInv'
    BY <1>2, <1>4 DEF Loads!AddonInv, Loads!AddonTypes, Loads!LibraryInv, Loads!libraryVars
  <1> QED  BY <1>5, <1>6, <1>7, <1>8 DEF Loads!AddonInv

\* A UI ends between loads, and a process at any time.
LEMMA ShutdownIsSafe ==
  ASSUME Loads!LoadAssumption, Loads!AddonInv, Loads!AddonShutdown \/ Loads!AddonRestart
  PROVE  Loads!AddonInv'
  <1>1. loading' = <<>> /\ started' = {} /\ wrote' = {} /\ file' \subseteq Loads!Saved
        /\ value' = [s \in Loads!Saved |-> "nil"] /\ queue' = <<>> /\ allowFlag' = {}
        /\ namespaces' = {}
        /\ loads' = Loads!Nothing
    BY DEF Loads!AddonShutdown, Loads!AddonRestart, Loads!Idle, Loads!AddonInv, Loads!AddonTypes
  <1>2. ~Loads!IsLoading(Library) \/ Loads!AddonRestart
    BY DEF Loads!AddonShutdown, Loads!Idle, Loads!IsLoading
  <1>3. \A s \in Loads!Saved : pendingSuppress'[s] = 0
    BY DEF Loads!AddonShutdown, Loads!AddonRestart, Loads!Idle, Loads!IsLoading, Loads!AddonInv,
       Loads!RestInv, Loads!Nothing
  <1>4. Loads!AddonTypes'
    <2>1. pendingSuppress' \in [Loads!Saved -> Nat] /\ loads' \in [Loads!Saved -> Nat]
      BY <1>1 DEF Loads!AddonShutdown, Loads!AddonRestart, Loads!AddonInv, Loads!AddonTypes,
         Loads!Nothing
    <2>2. /\ copy' \in Loads!Copies /\ source' \in {"Undecided", "Disk", "Embedded"}
          /\ loadingEmbedded' \in BOOLEAN
      BY DEF Loads!AddonShutdown, Loads!AddonRestart, Loads!AddonInv, Loads!AddonTypes,
         Loads!libraryVars
    <2> QED  BY <2>1, <2>2, <1>1 DEF Loads!AddonTypes
  <1>5. Loads!LibraryInv'
    BY <1>1, <1>2 DEF Loads!AddonShutdown, Loads!AddonRestart, Loads!AddonInv, Loads!AddonTypes,
       Loads!LibraryInv, Loads!libraryVars
  <1> QED
    BY <1>1, <1>3, <1>4, <1>5 DEF Loads!AddonInv, Loads!StackInv, Loads!RestInv, Loads!IsLoading

\* Each step of the add-ons' loads keeps the invariant, whatever list a load pass gets.
LEMMA AddonStep ==
  ASSUME Loads!LoadAssumption, Loads!AddonInv, NEW list, list \in Seq(Names \cup {Library}),
         [AddonNext(list)]_Loads!addonVars
  PROVE  Loads!AddonInv'
  <1>1. CASE Loads!AddonCall
    <2>1. ASSUME NEW a \in OnDemand, Loads!LoadAddOn(a)  PROVE Loads!AddonInv'
      <3>1. a \in Names \cup {Library}  BY DEF Loads!LoadAssumption
      <3>2. queue' \in Seq(Names \cup {Library})
        BY <2>1 DEF Loads!LoadAddOn, Loads!AddonInv, Loads!AddonTypes
      <3> QED  BY <2>1, <3>1, <3>2, BeginsSafely DEF Loads!LoadAddOn
    <2>2. ASSUME NEW s \in Loads!Saved, Loads!WritesAtFileScope(s)  PROVE Loads!AddonInv'
      BY <2>2, WriteIsSafe, SMTT(30)
    <2> QED  BY <1>1, <2>1, <2>2 DEF Loads!AddonCall
  <1>2. CASE Loads!CopyCall
    <2>1. PICK c \in Loads!Copies : Loads!UpdateCopy(c)  BY <1>2 DEF Loads!CopyCall
    <2>2. Loads!AddonTypes' /\ Loads!StackInv' /\ Loads!RestInv'
      BY <2>1 DEF Loads!UpdateCopy, Loads!loadVars, Loads!AddonInv, Loads!AddonTypes,
         Loads!StackInv, Loads!RestInv, Loads!IsLoading, Loads!ValuesAt
    <2>3. Loads!LibraryInv'
      BY <2>1 DEF Loads!UpdateCopy, Loads!loadVars, Loads!AddonInv, Loads!LibraryInv,
         Loads!IsLoading
    <2> QED  BY <2>2, <2>3 DEF Loads!AddonInv
  <1>3. CASE Loads!LoadNext
    <2>1. Head(queue) \in Names \cup {Library} /\ queue' \in Seq(Names \cup {Library})
      BY <1>3 DEF Loads!LoadNext, Loads!AddonInv, Loads!AddonTypes
    <2>2. CASE Loads!BeginsLoad(Head(queue))  BY <1>3, <2>1, <2>2, BeginsSafely DEF Loads!LoadNext
    <2>3. CASE Head(queue) \in OnDemand
      BY <1>3, <2>1, <2>3 DEF Loads!LoadNext, Loads!AddonInv, Loads!AddonTypes, Loads!StackInv,
         Loads!RestInv, Loads!LibraryInv, Loads!IsLoading,
         Loads!ValuesAt, Loads!libraryVars
    <2> QED  BY <1>3, <2>2, <2>3 DEF Loads!LoadNext
  <1>4. CASE Loads!AddonRuns /\ ~Loads!LoadNext
    BY <1>4, TocIsSafe, FilesEndSafely, SavedVarsAreSafe, ReturnIsSafe DEF Loads!AddonRuns
  <1>5. CASE Loads!AddonShutdown \/ Loads!AddonRestart  BY <1>5, ShutdownIsSafe
  <1>6. CASE Loads!LoadPass(list)
    BY <1>6 DEF Loads!LoadPass, Loads!AddonInv, Loads!AddonTypes, Loads!StackInv, Loads!RestInv,
       Loads!LibraryInv, Loads!IsLoading, Loads!ValuesAt,
       Loads!libraryVars
  <1>7. CASE Loads!ReadsLibrary /\ UNCHANGED <<Loads!loadVars, file>>
    <2>1. Loads!AddonTypes' /\ Loads!StackInv' /\ Loads!RestInv'
      BY <1>7 DEF Loads!ReadsLibrary, Loads!DecideSource, Loads!loadVars, Loads!AddonInv,
         Loads!AddonTypes, Loads!StackInv, Loads!RestInv,
         Loads!IsLoading, Loads!ValuesAt
    <2>2. Loads!LibraryInv'
      BY <1>7 DEF Loads!ReadsLibrary, Loads!DecideSource, Loads!loadVars, Loads!AddonInv,
         Loads!AddonTypes, Loads!LibraryInv, Loads!IsLoading
    <2> QED  BY <2>1, <2>2 DEF Loads!AddonInv
  <1>8. CASE UNCHANGED Loads!addonVars
    BY <1>8 DEF Loads!addonVars, Loads!loadVars, Loads!libraryVars, Loads!AddonInv,
       Loads!AddonTypes, Loads!StackInv, Loads!RestInv, Loads!LibraryInv,
       Loads!IsLoading, Loads!ValuesAt
  <1>9. Loads!AddonRuns => Loads!AddonInv'  BY <1>3, <1>4
  <1> QED  BY <1>1, <1>2, <1>5, <1>6, <1>7, <1>8, <1>9 DEF AddonNext

\* The client starts with no load under way.
LEMMA AddonsStart ==
  ASSUME Loads!LoadAssumption, Loads!AddonInit
  PROVE  Loads!AddonInv
  <1>1. Loads!AddonTypes
    <2>1. Loads!Saved \subseteq Loads!Saved
          /\ (Names \cup {Library}) \X {"character"} \subseteq Loads!Saved
      BY DEF Loads!Saved, Loads!Scopes
    <2>2. file \subseteq Loads!Saved  BY <2>1 DEF Loads!AddonInit
    <2>3. pendingSuppress \in [Loads!Saved -> Nat] /\ loads \in [Loads!Saved -> Nat]
      BY DEF Loads!AddonInit, Loads!Nothing
    <2>4. value \in [Loads!Saved -> {"nil", "saved", "written"}]  BY DEF Loads!AddonInit
    <2>5. loading \in Seq([addon : Names \cup {Library}, step : Loads!Steps])
          /\ queue \in Seq(Names \cup {Library})
      BY DEF Loads!AddonInit
    <2> QED  BY <2>2, <2>3, <2>4, <2>5 DEF Loads!AddonInit, Loads!AddonTypes
  <1> QED
    BY <1>1 DEF Loads!AddonInit, Loads!AddonInv, Loads!StackInv, Loads!RestInv, Loads!LibraryInv,
       Loads!IsLoading, Loads!Nothing

\* What the properties say of the loads.
LEMMA AddonsAreRight ==
  ASSUME Loads!LoadAssumption, Loads!AddonInv
  PROVE  Loads!AddonRight
  <1>1. Loads!SavedVarsRight
    <2>1. ASSUME Loads!AtStep("event"), NEW s \in Loads!Saved, s[1] = Loads!Top.addon
          PROVE  /\ loads[s] = IF s \in file THEN 1 ELSE 0
                 /\ value[s] = IF s \in wrote /\ (s \notin file \/ s[1] \in First) THEN "written"
                               ELSE IF s \in file THEN "saved" ELSE "nil"
      <3>1. Loads!ValuesAt(Loads!Top.addon, "event")  BY <2>1, TopIs DEF Loads!AtStep
      <3> QED  BY <2>1, <3>1 DEF Loads!ValuesAt
    <2>2. ASSUME Loads!AtStep("files"), Loads!Top.addon \in First,
                 NEW s \in Loads!FilesOf(Loads!Top.addon)
          PROVE  value[s] # "nil"
      <3>1. Loads!ValuesAt(Loads!Top.addon, "files")  BY <2>2, TopIs DEF Loads!AtStep
      <3>2. s \in Loads!Saved /\ s \in file /\ s[1] = Loads!Top.addon
        BY DEF Loads!FilesOf, Loads!AddonInv, Loads!AddonTypes
      <3> QED  BY <2>2, <3>1, <3>2 DEF Loads!ValuesAt
    <2> QED  BY <2>1, <2>2 DEF Loads!SavedVarsRight
  <1>2. Loads!NothingPends
    <2>1. Loads!Idle => \A s \in Loads!Saved : pendingSuppress[s] = 0
      BY DEF Loads!Idle, Loads!IsLoading, Loads!AddonInv, Loads!RestInv
    <2>2. pendingSuppress \in [Loads!Saved -> Nat]  BY DEF Loads!AddonInv, Loads!AddonTypes
    <2>3. Loads!Idle => pendingSuppress = [s \in Loads!Saved |-> 0]  BY <2>1, <2>2
    <2> QED  BY <2>3 DEF Loads!NothingPends, Loads!Nothing
  <1>3. Loads!LibraryWhole
    <2>1. ~vanished => \E c \in {"Disk", "Embedded"} : served \subseteq {c}
      BY DEF Loads!AddonInv, Loads!AddonTypes, Loads!LibraryInv
    <2>0. \A S : Loads!Cardinality(S) = Cardinality(S)
      BY DEF Loads!Cardinality, Cardinality, Loads!IsFiniteSet, IsFiniteSet
    <2>2. ASSUME NEW c, served \subseteq {c}  PROVE Loads!Cardinality(served) <= 1
      <3>1. CASE served = {}  BY <2>0, <3>1, FS_EmptySet
      <3>2. CASE served = {c}
        <4>1. Loads!Cardinality({c}) = 1  BY <2>0, FS_Singleton
        <4> QED  BY <3>2, <4>1
      <3> QED  BY <2>2, <3>1, <3>2
    <2>4. ~vanished => Loads!Cardinality(served) <= 1  BY <2>1, <2>2
    <2> QED
      BY <2>4 DEF Loads!LibraryWhole, Loads!Swallows, Loads!AddonInv, Loads!LibraryInv,
         Loads!IsLoading
  <1>4. Loads!TablesShared
    BY DEF Loads!TablesShared, Loads!LocalTable, Loads!AddonInv, Loads!LibraryInv
  <1> QED  BY <1>1, <1>2, <1>3, <1>4 DEF Loads!AddonRight

\* No step loses a saved variables file.
LEMMA DataStays ==
  ASSUME Loads!AddonInv, NEW list, [AddonNext(list)]_Loads!addonVars
  PROVE  file \subseteq file'
  <1>1. CASE Loads!AddonShutdown
    <2>1. \A a : ~Loads!IsLoading(a)  BY <1>1 DEF Loads!AddonShutdown, Loads!Idle, Loads!IsLoading
    <2>2. file \subseteq Loads!Saved /\ \A s \in file : s[1] \in started => value[s] # "nil"
      BY <2>1 DEF Loads!AddonInv, Loads!AddonTypes, Loads!RestInv
    <2> QED  BY <1>1, <2>2 DEF Loads!AddonShutdown
  <1>2. ASSUME UNCHANGED file  PROVE file \subseteq file'  BY <1>2
  <1>3. CASE Loads!AddonCall \/ Loads!CopyCall
    BY <1>2, <1>3 DEF Loads!AddonCall, Loads!CopyCall, Loads!LoadAddOn, Loads!BeginsLoad,
       Loads!WritesAtFileScope, Loads!UpdateCopy
  <1>4. CASE Loads!AddonRuns
    <2>1. Loads!LoadNext => UNCHANGED file  BY DEF Loads!LoadNext, Loads!BeginsLoad
    <2>2. Loads!TocExecutor => UNCHANGED file  BY DEF Loads!TocExecutor
    <2>3. Loads!FilesEnd \/ Loads!SavedVarsStep \/ Loads!LoadReturns => UNCHANGED file
      BY DEF Loads!FilesEnd, Loads!SavedVarsStep, Loads!LoadReturns
    <2> QED  BY <1>2, <1>4, <2>1, <2>2, <2>3 DEF Loads!AddonRuns
  <1>5. CASE Loads!AddonRestart \/ Loads!LoadPass(list) \/ UNCHANGED Loads!addonVars
    BY <1>2, <1>5 DEF Loads!AddonRestart, Loads!LoadPass, Loads!addonVars
  <1>6. CASE Loads!ReadsLibrary /\ UNCHANGED <<Loads!loadVars, file>>  BY <1>2, <1>6
  <1> QED  BY <1>1, <1>3, <1>4, <1>5, <1>6 DEF AddonNext

-----------------------------------------------------------------------------
(* The loads in the client's life.                                         *)

\* The client takes the loads' own steps, with the registry's list for a load pass.
LEMMA ClientStepsLoads ==
  ASSUME RegistryLife, [Next]_vars
  PROVE  UNCHANGED Loads!addonVars \/ \E list \in Seq(Names \cup {Library}) : AddonNext(list)
  <1>0. <<>> \in Seq(Names \cup {Library})  OBVIOUS
  <1>1. UNCHANGED addonVars => UNCHANGED Loads!addonVars
    BY DEF addonVars, loadVars, Loads!addonVars, Loads!loadVars, Loads!libraryVars
  <1>2. UNCHANGED partVars => UNCHANGED Loads!addonVars  BY <1>1 DEF partVars
  <1>4. CASE GlueInit \/ PlayerLogin \/ EnteringWorld \/ LoadingScreen
    BY <1>2, <1>4 DEF GlueInit, PlayerLogin, EnteringWorld, LoadingScreen
  <1>5. ASSUME NEW t \in Hooks!Threads, InstallStep(t)  PROVE UNCHANGED Loads!addonVars
    BY <1>2, <1>5 DEF InstallStep
  <1>6. CASE Login
    <2>1. Loads!ReadsLibrary /\ UNCHANGED <<Loads!loadVars, file>>
      BY <1>6 DEF Login, loadVars, Loads!loadVars
    <2> QED  BY <1>0, <2>1 DEF AddonNext
  <1>7. CASE ReloadUI \/ Logout
    <2>1. Loads!AddonShutdown  BY <1>7 DEF ReloadUI, Logout, FrameScriptShutdown
    <2> QED  BY <1>0, <2>1 DEF AddonNext
  <1>8. ASSUME NEW f \in Chain, RunsModule(f)  PROVE UNCHANGED Loads!addonVars
    BY <1>1, <1>8 DEF RunsModule
  <1>9. CASE RescanRuns \/ UnitEvents \/ Edits \/ MasksUsed
    BY <1>1, <1>9 DEF RescanRuns, UnitEvents, Edits, MasksUsed
  <1>10. CASE LoadBegins
    <2>1. Loads!LoadPass(order)  BY <1>10 DEF LoadBegins
    <2>2. order \in Seq(Names \cup {Library})
      BY DEF RegistryLife, Registry!RegistryInv, Registry!EntriesTyped, Registry!AddOns
    <2> QED  BY <2>1, <2>2 DEF AddonNext
  <1>11. CASE Restart
    <2>1. Loads!AddonRestart  BY <1>11 DEF Restart
    <2> QED  BY <1>0, <2>1 DEF AddonNext
  <1>12. CASE AddonsLoad \/ LibraryReplaced
    <2>1. Loads!AddonRuns \/ Loads!AddonCall \/ Loads!CopyCall
      BY <1>12 DEF AddonsLoad, LibraryReplaced
    <2> QED  BY <1>0, <2>1 DEF AddonNext
  <1>13. CASE UNCHANGED vars  BY <1>2, <1>13 DEF vars
  <1> QED  BY <1>4, <1>5, <1>6, <1>7, <1>8, <1>9, <1>10, <1>11, <1>12, <1>13 DEF Next

\* So each step of the client keeps the loads' invariant and the files.
LEMMA AddonsStayRight ==
  ASSUME RegistryLife, Loads!AddonInv, [Next]_vars
  PROVE  Loads!AddonInv' /\ [file \subseteq file']_Loads!addonVars
  <1>0. <<>> \in Seq(Names \cup {Library})  OBVIOUS
  <1>1. PICK list \in Seq(Names \cup {Library}) : [AddonNext(list)]_Loads!addonVars
    BY <1>0, ClientStepsLoads
  <1>2. Loads!LoadAssumption  BY SessionAssumption
  <1>3. Loads!AddonInv'  BY <1>1, <1>2, AddonStep
  <1>4. file \subseteq file'  BY <1>1, DataStays
  <1> QED  BY <1>3, <1>4

LEMMA AddonsRun == Spec => [](RegistryLife /\ Loads!AddonInv)
  <1>1. Init => Loads!AddonInv  BY AddonsStart, SessionAssumption DEF Init
  <1>2. RegistryLife /\ Loads!AddonInv /\ [Next]_vars => Loads!AddonInv'  BY AddonsStayRight
  <1> QED  BY <1>1, <1>2, RegistryRuns, PTL DEF Spec

\* Saved variables, early or not, through loads that nest, the library's copy and the
\* namespace tables are right in any life of the client (SavedVarsFirst.cpp, Embedded.cpp,
\* GetAddOnLocalTable.cpp), whatever order the registry gives the loads.
THEOREM AddonsStayAsTheyShould == Spec => []AddonRight
  <1>1. Loads!AddonInv => AddonRight  BY AddonsAreRight, SessionAssumption DEF AddonRight
  <1> QED  BY <1>1, AddonsRun, PTL

\* A saved variables file that was once written is there for good: no reload, logout or
\* crash writes a UI's variables out before they were read.
THEOREM DataStaysKept == Spec => DataKept
  <1>1. RegistryLife /\ Loads!AddonInv /\ [Next]_vars => [file \subseteq file']_Loads!addonVars
    BY AddonsStayRight
  <1> QED  BY <1>1, AddonsRun, PTL DEF Spec, DataKept, Loads!DataKept

-----------------------------------------------------------------------------
(* The client's types.                                                     *)

ClientTypes ==
    /\ phase \in Phases /\ interest \in Interests
    /\ done \in BOOLEAN /\ glueFunctions \in BOOLEAN
    /\ loginFired \in BOOLEAN /\ reloading \in BOOLEAN
    /\ chain \subseteq Chain
    /\ DOMAIN slots = DOMAIN Reserved
    /\ ran \in BOOLEAN

\* Whether a handler has just run is settled by each step of unit events.
LEMMA RanIsBoolean ==
  ASSUME ran \in BOOLEAN, [UnitEv!UnitEventNext]_UnitEv!unitEventVars
  PROVE  ran' \in BOOLEAN
  <1>1. CASE UnitEv!UnitEventCall \/ UNCHANGED UnitEv!unitEventVars
    <2>1. ran' = ran
      BY <1>1 DEF UnitEv!UnitEventCall, UnitEv!RegisterEvent, UnitEv!UnregisterScriptEvent,
         UnitEv!RegisterUnitEvent, UnitEv!unitEventVars
    <2> QED  BY <2>1
  <1>2. CASE UnitEv!UnitEventFires \/ UnitEv!UnitEventShutdown \/ UnitEv!DispatchEnds
    BY <1>2 DEF UnitEv!UnitEventFires, UnitEv!SignalEvent, UnitEv!UnitEventShutdown,
       UnitEv!DispatchEnds
  <1>3. ASSUME NEW p \in Pairs, UnitEv!Execute(p)  PROVE ran' \in BOOLEAN
    <2>1. ran' = (p \notin unregisters /\ ~UnitEv!Rejects(p, dispatch.arg))
      BY <1>3 DEF UnitEv!Execute
    <2> QED  BY <2>1
  <1> QED  BY <1>1, <1>2, <1>3 DEF UnitEv!UnitEventNext, UnitEv!UnitEventRuns

\* The slots of the reserved names are counted whatever the module chain does.
LEMMA SlotsAreCounted ==
  ASSUME DOMAIN slots = DOMAIN Reserved, RegisterReservedEvents \/ UNCHANGED eventVars
  PROVE  DOMAIN slots' = DOMAIN Reserved
  <1> HIDE DEF Reserved
  <1>1. DOMAIN SlotsAfter = DOMAIN Reserved  BY DEF SlotsAfter
  <1>2. slots' = slots \/ slots' = SlotsAfter  BY DEF RegisterReservedEvents, eventVars
  <1> QED  BY <1>1, <1>2

\* What one step of the client may do to its own variables.
LEMMA ClientStep ==
  ASSUME ClientTypes, [Next]_vars
  PROVE  ClientTypes'
  <1> HIDE DEF Reserved
  <1>0. ran' \in BOOLEAN  BY HooksAndUnitsStep, RanIsBoolean DEF ClientTypes
  <1>1. ASSUME UNCHANGED <<interest, lifeVars>>, phase' \in Phases  PROVE ClientTypes'
    BY <1>0, <1>1 DEF ClientTypes, lifeVars, glueVars, eventVars, enteringVars
  <1>2. CASE GlueInit
    <2>1. done' \in BOOLEAN /\ glueFunctions' \in BOOLEAN
      BY <1>2 DEF GlueInit, RunGlue, ClientTypes
    <2> QED  BY <1>0, <1>2, <2>1 DEF GlueInit, ClientTypes, Phases, enteringVars
  <1>3. ASSUME NEW t \in Hooks!Threads, InstallStep(t)  PROVE ClientTypes'
    <2>1. done' \in BOOLEAN /\ glueFunctions' \in BOOLEAN
      BY <1>3 DEF InstallStep, RunGlue, ClientTypes, glueVars
    <2> QED  BY <1>0, <1>3, <2>1 DEF InstallStep, ClientTypes, eventVars, enteringVars
  <1>4. CASE Login \/ ReloadUI
    BY <1>0, <1>4 DEF Login, ReloadUI, ClientTypes, Phases, glueVars
  <1>5. ASSUME NEW f \in Chain, RunsModule(f)  PROVE ClientTypes'
    <2>1. RegisterReservedEvents \/ UNCHANGED eventVars  BY <1>5 DEF RunsModule
    <2>2. DOMAIN slots' = DOMAIN Reserved  BY <2>1, SlotsAreCounted DEF ClientTypes
    <2> QED  BY <1>0, <1>5, <2>2 DEF RunsModule, ClientTypes, glueVars
  <1>6. CASE LoadBegins  BY <1>1, <1>6 DEF LoadBegins, Phases
  <1>7. CASE PlayerLogin \/ EnteringWorld
    <2>1. loginFired' \in BOOLEAN
      BY <1>7 DEF PlayerLogin, EnteringWorld, SignalEvent, LoginForgotten, ClientTypes
    <2> QED
      BY <1>0, <1>7, <2>1 DEF PlayerLogin, EnteringWorld, ClientTypes, Phases, glueVars, eventVars
  <1>8. CASE LoadingScreen
    BY <1>0, <1>8 DEF LoadingScreen, ClientTypes, Phases, glueVars, eventVars
  <1>9. CASE Logout  BY <1>1, <1>9 DEF Logout, Phases
  <1>10. CASE Restart
    <2>1. DOMAIN slots' = DOMAIN Reserved  BY <1>10 DEF Restart
    <2> QED  BY <1>0, <1>10, <2>1 DEF Restart, ClientTypes, Phases
  <1>11. CASE RescanRuns \/ UnitEvents \/ Edits \/ AddonsLoad \/ LibraryReplaced \/ MasksUsed
    <2>1. UNCHANGED <<phase, interest, lifeVars>>
      BY <1>11 DEF RescanRuns, UnitEvents, Edits, AddonsLoad, LibraryReplaced, MasksUsed
    <2> QED  BY <1>1, <2>1 DEF ClientTypes
  <1>12. CASE UNCHANGED vars  BY <1>1, <1>12 DEF vars, ClientTypes
  <1> QED
    BY <1>2, <1>3, <1>4, <1>5, <1>6, <1>7, <1>8, <1>9, <1>10, <1>11, <1>12 DEF Next

\* The types of the parts, from their invariants.
LEMMA PartsAreTyped ==
  ASSUME ClientTypes, Hooks!InstallInv, UnitEv!UnitEventInv, RegistryLife, Loads!AddonInv,
         Masks!MaskInv
  PROVE  TypeOK
  <1> HIDE DEF Reserved
  <1>1. UnitEv!UnitEventTypeOK
    <2>1. \A p \in DOMAIN filters : filters[p] \in (SUBSET Units) \ {{}} /\ p \in Pairs
      BY DEF UnitEv!UnitEventInv, UnitEv!FiltersAgree
    <2>2. dispatch.todo \subseteq listeners /\ dispatch.heard \subseteq Pairs
      BY DEF UnitEv!UnitEventInv, UnitEv!DispatchAgrees
    <2> QED
      BY <2>1, <2>2 DEF ClientTypes, UnitEv!UnitEventTypeOK, UnitEv!UnitEventInv,
         UnitEv!ListsAgree
  <1>2. Loads!AddonTypeOK
    <2> DEFINE entries == [addon : Names \cup {Library}, step : Loads!Steps]
    <2>0. loading \in Seq(entries)  BY DEF Loads!AddonInv, Loads!AddonTypes
    <2> HIDE DEF entries
    <2>1. \A i \in DOMAIN loading : loading[i] \in entries  BY <2>0
    <2> USE DEF entries
    <2>2. Loads!Range(queue) \subseteq Names \cup {Library}
      BY DEF Loads!AddonInv, Loads!AddonTypes, Loads!Range
    <2>3. namespaces \subseteq Names \cup {Library}
      BY DEF Loads!AddonInv, Loads!AddonTypes, Loads!LibraryInv
    <2> QED  BY <2>1, <2>2, <2>3 DEF Loads!AddonTypeOK, Loads!AddonInv, Loads!AddonTypes
  <1>3. Registry!RegistryTypeOK  BY RegistryIsRight, SessionAssumption DEF RegistryLife
  <1>4. Masks!MaskTypeOK  BY MasksAreRight, SessionAssumption
  <1> QED  BY <1>1, <1>2, <1>3, <1>4 DEF TypeOK, ClientTypes, Hooks!InstallInv

\* Every variable of the client keeps to its type, in any life of it.
THEOREM ClientIsTyped == Spec => []TypeOK
  <1>1. Spec => []Hooks!InstallInv
    <2>1. Hooks!InstallSpec => []Hooks!InstallInv  BY InstallRuns, SessionAssumption
    <2> QED  BY <2>1, HooksAndUnitsRun, PTL
  <1>2. Spec => []UnitEv!UnitEventInv
    <2>1. UnitEv!UnitEventSpec => []UnitEv!UnitEventInv  BY UnitEventsRun, SessionAssumption
    <2> QED  BY <2>1, HooksAndUnitsRun, PTL
  <1>3. Init => ClientTypes
    <2> HIDE DEF Reserved
    <2>1. DOMAIN [i \in DOMAIN Reserved |-> -1] = DOMAIN Reserved  OBVIOUS
    <2> QED  BY <2>1 DEF Init, ClientTypes, Phases, UnitEv!UnitEventInit
  <1>4. ClientTypes /\ [Next]_vars => ClientTypes'  BY ClientStep
  <1>5. /\ ClientTypes /\ Hooks!InstallInv /\ UnitEv!UnitEventInv
        /\ RegistryLife /\ Loads!AddonInv /\ Masks!MaskInv
        => TypeOK
    BY PartsAreTyped
  <1> QED  BY <1>1, <1>2, <1>3, <1>4, <1>5, AddonsRun, MasksRun, PTL DEF Spec
===============================================================================

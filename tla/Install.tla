------------------------------- MODULE Install -------------------------------
(***************************************************************************)
(* Getting the hooks in: src/src/DllMain.cpp, InstallCoreHooks of          *)
(* src/src/Bootstrap.cpp and RunHookRegistrations of src/src/Game.cpp.     *)
(* Two threads may ask for the installation: the worker that DllMain       *)
(* starts when LichCore is not loaded, and the game's main thread, on      *)
(* which LichCore calls Load.  MinHook and LichCore are external.          *)
(***************************************************************************)
EXTENDS Integers, Sequences, FiniteSets, Functions

CONSTANTS
    FeatureLists    \* what the HookAutoRegisters of a build may amount to

InstallAssumption == \A f \in FeatureLists : f \in Seq(Range(f))

VARIABLES
    features,       \* the list of this build: targets, last registered first
    thread,         \* where worker and main are
    installer,      \* who has g_initClaimed, or "nobody"
    initDone,       \* g_initDone
    initResult,     \* g_initResult
    mhInitialized,  \* g_mhInitialized
    queued,         \* MinHook: created and queued
    enabled,        \* MinHook: the detours that are live
    step            \* the installer's progress

installVars == <<features, thread, installer, initDone, initResult, mhInitialized, queued,
                 enabled, step>>

\* Bootstrap's three, in their order.
Core == <<"UIBINDINGS_INIT", "FRAMESCRIPT_SHUTDOWN", "CGLUEMGR_INITIALIZE">>
Targets == Core \o features
Threads == {"worker", "main"}

InstallTypeOK ==
    /\ thread \in [Threads -> {"absent", "ready", "in install", "waiting", "told success", "told failure"}]
    /\ installer \in Threads \cup {"nobody"}
    /\ initDone \in BOOLEAN /\ initResult \in {0, 1} /\ mhInitialized \in BOOLEAN
    /\ enabled \subseteq queued /\ queued \subseteq Range(Targets)
    /\ step \in 0..(Len(Targets) + 1)

\* Who will ask: DllMain starts a worker only if LichCore is not there (yet).
Callers == {c \in [Threads -> {"absent", "ready"}] : \E t \in Threads : c[t] = "ready"}

InstallInit ==
    /\ features \in FeatureLists
    /\ thread \in Callers
    /\ installer = "nobody" /\ initDone = FALSE /\ initResult = 1
    /\ mhInitialized = FALSE
    /\ queued = {} /\ enabled = {} /\ step = 0

\* DLL_PROCESS_ATTACH of a new process.
Attach ==
    /\ thread' \in Callers
    /\ installer' = "nobody" /\ initDone' = FALSE /\ initResult' = 1
    /\ mhInitialized' = FALSE
    /\ queued' = {} /\ enabled' = {} /\ step' = 0

\* Mutant: the second caller takes the result as it stands.
ClaimsOrReads(t) ==
    IF installer = "nobody"
      THEN installer' = t /\ thread' = [thread EXCEPT ![t] = "in install"]
      ELSE /\ thread' = [thread EXCEPT ![t] = IF initResult = 0 THEN "told success" ELSE "told failure"]
           /\ UNCHANGED installer

\* EnsureInitialized's compare-exchange.
Claim(t) ==
    IF installer = "nobody"
      THEN installer' = t /\ thread' = [thread EXCEPT ![t] = "in install"]
      ELSE thread' = [thread EXCEPT ![t] = "waiting"] /\ UNCHANGED installer

EnsureInitialized(t) ==
    /\ thread[t] = "ready"
    /\ Claim(t)
    /\ UNCHANGED <<features, initDone, initResult, mhInitialized, queued, enabled, step>>

Told(t, result) == [thread EXCEPT ![t] = IF result = 0 THEN "told success" ELSE "told failure"]

\* g_initResult, then g_initDone: the spinning thread sees them in that order.
InstallReturns(success) ==
    /\ initResult' = (IF success THEN 0 ELSE 1)
    /\ initDone' = TRUE
    /\ thread' = Told(installer, initResult')

Goes == UNCHANGED <<initResult, initDone, thread>>

Installing(t) == thread[t] = "in install"

MH_Initialize(t) ==
    /\ Installing(t) /\ step = 0
    /\ \/ mhInitialized' = TRUE /\ step' = 1 /\ Goes
       \/ InstallReturns(FALSE) /\ UNCHANGED <<mhInitialized, step>>
    /\ UNCHANGED <<features, installer, queued, enabled>>

\* The list is refused if a feature repeats another's target.
Repeats(i) == \E j \in 1..(i - 1) : j > Len(Core) /\ i > Len(Core) /\ Targets[j] = Targets[i]

\* MinHookHost::Install, for the core hooks and then for each feature's; MinHook
\* refuses a target it has.
InstallHook(t) ==
    /\ Installing(t) /\ step \in 1..Len(Targets)
    /\ \/ /\ ~Repeats(step) /\ Targets[step] \notin queued
          /\ queued' = queued \cup {Targets[step]}
          /\ step' = step + 1 /\ Goes
       \/ InstallReturns(FALSE) /\ UNCHANGED <<queued, step>>
    /\ UNCHANGED <<features, installer, mhInitialized, enabled>>

\* Mutant: the queue's outcome is not looked at.
CommitsBlindly(t) ==
    /\ Installing(t) /\ step = Len(Targets) + 1
    /\ enabled' \in SUBSET queued
    /\ InstallReturns(TRUE)
    /\ UNCHANGED <<features, installer, mhInitialized, queued, step>>

\* MH_ApplyQueued: all of the queue, or it stops at one of them.
Commit(t) ==
    /\ Installing(t) /\ step = Len(Targets) + 1
    /\ enabled' \in SUBSET queued
    /\ InstallReturns(enabled' = queued)
    /\ UNCHANGED <<features, installer, mhInitialized, queued, step>>

SpinEnds(t) ==
    /\ thread[t] = "waiting" /\ initDone
    /\ thread' = Told(t, initResult)
    /\ UNCHANGED <<features, installer, initDone, initResult, mhInitialized, queued, enabled, step>>

InstallStep(t) ==
    EnsureInitialized(t) \/ MH_Initialize(t) \/ InstallHook(t) \/ Commit(t) \/ SpinEnds(t)

InstallNext == (\E t \in Threads : InstallStep(t)) \/ (Attach /\ UNCHANGED features)
InstallSpec == InstallInit /\ [][InstallNext]_installVars

\* The main thread is not inside Load.
MainFree == thread["main"] \notin {"in install", "waiting"}

-----------------------------------------------------------------------------
(* Properties.                                                             *)

Told0(t) == thread[t] = "told success"
ToldOf(t) == thread[t] \in {"told success", "told failure"}

\* Whoever asked is told success only when each hook of the build is live, and failure
\* only when one is not: two threads that ask at once are told the same, and nobody
\* before the installation is over.
LoadTellsTheTruth == \A t \in Threads : ToldOf(t) =>
    (Told0(t) <=> enabled = Range(Targets) /\ IsInjective(Targets))

-----------------------------------------------------------------------------
(* LoadTellsTheTruth, for every build.  It is not inductive: who is told    *)
(* what goes by initResult, so that must be the truth once initDone says    *)
(* so (ResultIsTrue); before, nothing is live and the queue holds the       *)
(* targets up to the installer's step, none twice (QueuedSoFar); and there  *)
(* is one installer, who holds the claim (OneInstaller).                    *)

AllLive == enabled = Range(Targets) /\ IsInjective(Targets)

OneInstaller ==
    /\ installer = "nobody" => /\ ~initDone
                               /\ \A t \in Threads : thread[t] \in {"absent", "ready"}
    /\ \A t \in Threads : Installing(t) => installer = t /\ ~initDone

ToldTheResult ==
    \A t \in Threads : ToldOf(t) => initDone /\ (Told0(t) <=> initResult = 0)

ResultIsTrue == initDone => (initResult = 0 <=> AllLive)

QueuedSoFar ==
    ~initDone =>
        /\ enabled = {}
        /\ queued = {Targets[j] : j \in 1..(step - 1)}
        /\ \A i, j \in 1..(step - 1) : Targets[i] = Targets[j] => i = j

InstallInv ==
    /\ InstallTypeOK /\ features \in Seq(Range(features))
    /\ OneInstaller /\ ToldTheResult /\ ResultIsTrue /\ QueuedSoFar

Fresh ==
    /\ thread \in Callers /\ installer = "nobody" /\ initDone = FALSE /\ initResult = 1
    /\ mhInitialized = FALSE /\ queued = {} /\ enabled = {} /\ step = 0
    /\ features \in Seq(Range(features))
=============================================================================

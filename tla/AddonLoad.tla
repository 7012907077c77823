------------------------------ MODULE AddonLoad ------------------------------
(***************************************************************************)
(* Loading the add-ons of a UI, as src/src/addons changes it: the TOC      *)
(* executor's observers (TocExecutor.cpp), saved variables before an       *)
(* add-on's files (SavedVarsFirst.cpp), namespace tables                   *)
(* (GetAddOnLocalTable.cpp), and the embedded copy of the library          *)
(* (Embedded.cpp).  Lua at file scope may load an add-on on demand, so     *)
(* loads nest.                                                             *)
(***************************************************************************)
EXTENDS Naturals, Sequences, FiniteSets, Functions

CONSTANTS
    AddOns, Library,
    First,          \* add-ons with LoadSavedVariablesFirst
    OnDemand,       \* add-ons loaded by LoadAddOn only
    Shares,         \* add-ons with AllowAddOnTableAccess
    MaxUpdates      \* bound: changes of the library's copy on disk

LoadAssumption ==
    /\ Library \in AddOns \ (First \cup OnDemand)
    /\ First \cup OnDemand \cup Shares \subseteq AddOns
    /\ MaxUpdates \in Nat

Scopes == {"account", "character"}
Saved == AddOns \X Scopes

\* The library's folder on disk: its version against the embedded one.
Copies == {"none", "unversioned", "older", "newer", "developer's"}

VARIABLES
    queue,          \* add-ons the engine's load pass has not come to
    loading,        \* the stack of loads: [addon, step]
    started,        \* m_loading: add-ons that began to load in this UI
    value,          \* the saved variables' values in the Lua state
    file,           \* SavedVariables files that exist
    pendingSuppress,\* g_pendingSuppress: how often each file's load is to be skipped
    allowFlag,      \* g_allowFlag: the add-ons it says yes for
    namespaces,     \* namespace tables captured in this Lua state
    loadingEmbedded,\* g_loadingEmbedded
    copy,           \* the library on disk
    source,         \* g_source
    updates,
    served,         \* ghost: the copies the library was read from
    vanished,       \* ghost: the disk copy went away under a decision for it
    wrote,          \* ghost: values an add-on set at file scope
    loads           \* ghost: how often each file was loaded for the add-on's current load

loadVars == <<queue, loading, started, value, pendingSuppress, allowFlag, namespaces,
              loadingEmbedded, wrote, loads>>
libraryVars == <<copy, source, updates, served, vanished>>
addonVars == <<loadVars, file, libraryVars>>

Steps == {"toc", "files", "saved variables", "event"}

AddonTypeOK ==
    /\ Range(queue) \subseteq AddOns
    /\ \A i \in DOMAIN loading : loading[i] \in
            [addon : AddOns, step : Steps]
    /\ started \subseteq AddOns
    /\ value \in [Saved -> {"nil", "saved", "written"}]
    /\ file \subseteq Saved
    /\ pendingSuppress \in [Saved -> Nat]
    /\ allowFlag \subseteq AddOns /\ namespaces \subseteq AddOns
    /\ loadingEmbedded \in BOOLEAN
    /\ copy \in Copies /\ source \in {"Undecided", "Disk", "Embedded"}
    /\ wrote \subseteq Saved

Nothing == [s \in Saved |-> 0]

AddonInit ==
    /\ queue = <<>> /\ loading = <<>> /\ started = {}
    /\ value = [s \in Saved |-> "nil"]
    /\ file \in {{}, Saved, AddOns \X {"character"}}
    /\ pendingSuppress = Nothing
    /\ allowFlag = {} /\ namespaces = {}
    /\ loadingEmbedded = FALSE
    /\ copy \in Copies /\ source = "Undecided" /\ updates = 0
    /\ served = {} /\ vanished = FALSE
    /\ wrote = {} /\ loads = Nothing

-----------------------------------------------------------------------------
(* Embedded.cpp: where the library is read from.                           *)

\* Mutant: the choice is made at each read.
DecideAnew == IF copy \in {"newer", "developer's"} THEN "Disk" ELSE "Embedded"

\* Once per process; equal versions count as newer.
DecideSource ==
    IF source # "Undecided" THEN source
    ELSE IF copy \in {"newer", "developer's"} THEN "Disk" ELSE "Embedded"

\* FileRead_h on one of the library's files: a file that the disk lacks is embedded.
ReadsLibrary ==
    /\ source' = DecideSource
    /\ served' = served \cup {IF source' = "Disk" /\ copy # "none" THEN "Disk" ELSE "Embedded"}
    /\ UNCHANGED <<copy, updates, vanished>>

\* The player installs, replaces or deletes the folder.
UpdateCopy(c) ==
    /\ updates < MaxUpdates /\ c # copy
    /\ updates' = updates + 1
    /\ copy' = c
    /\ vanished' = (vanished \/ (source = "Disk" /\ c = "none"))
    /\ UNCHANGED <<loadVars, file, source, served>>

-----------------------------------------------------------------------------
(* One add-on's load.                                                      *)

Idle == loading = <<>>
Top == loading[Len(loading)]
AtStep(step) == ~Idle /\ Top.step = step
ToStep(step) == loading' = [loading EXCEPT ![Len(loading)].step = step]

\* Mutant: the error of a corrupt add-on is swallowed from then on.
NeverCleared(a) == loadingEmbedded

\* What LoadAddOn_h leaves in g_loadingEmbedded behind a load.
AfterLoad(a) == IF a = Library THEN FALSE ELSE loadingEmbedded

\* LoadAddOn_h up to the engine's load of a registered add-on that has not begun.
BeginsLoad(a) ==
    /\ a \notin started
    /\ started' = started \cup {a}
    /\ loading' = Append(loading, [addon |-> a, step |-> "toc"])
    /\ loadingEmbedded' = (loadingEmbedded \/ a = Library)
    /\ loads' = [s \in Saved |-> IF s[1] = a THEN 0 ELSE loads[s]]
    /\ UNCHANGED <<value, file, pendingSuppress, allowFlag, namespaces, libraryVars, wrote>>

\* The engine's load pass, in registry order: all but those loaded on demand.
LoadNext ==
    /\ Idle /\ queue # <<>>
    /\ queue' = Tail(queue)
    /\ IF Head(queue) \in OnDemand
         THEN UNCHANGED <<loading, started, value, file, pendingSuppress, allowFlag, namespaces,
                          loadingEmbedded, wrote, loads, libraryVars>>
         ELSE BeginsLoad(Head(queue))

\* LoadAddOn from Lua: in the world, or from a file of another add-on.
LoadAddOn(a) ==
    /\ a \in OnDemand
    /\ IF Idle THEN queue = <<>> ELSE Top.step = "files" /\ Top.addon # Library
    /\ BeginsLoad(a)
    /\ UNCHANGED queue

FilesOf(a) == {s \in file : s[1] = a}

\* Mutant: the early loads are not marked.
LoadsUnmarked(a) ==
    /\ value' = [s \in Saved |-> IF s \in FilesOf(a) THEN "saved" ELSE value[s]]
    /\ loads' = [s \in Saved |-> IF s \in FilesOf(a) THEN loads[s] + 1 ELSE loads[s]]
    /\ UNCHANGED pendingSuppress

\* Mutant: the account's file is loaded, both are marked.
LoadsAccountOnly(a) ==
    /\ value' = [s \in Saved |-> IF s \in FilesOf(a) /\ s[2] = "account" THEN "saved" ELSE value[s]]
    /\ loads' = [s \in Saved |-> IF s \in FilesOf(a) THEN loads[s] + 1 ELSE loads[s]]
    /\ pendingSuppress' = [s \in Saved |->
            IF s \in FilesOf(a) THEN pendingSuppress[s] + 1 ELSE pendingSuppress[s]]

\* LoadSavedVarsEarly: the files that exist, account then character.
LoadSavedVarsEarly(a) ==
    /\ value' = [s \in Saved |-> IF s \in FilesOf(a) THEN "saved" ELSE value[s]]
    /\ loads' = [s \in Saved |-> IF s \in FilesOf(a) THEN loads[s] + 1 ELSE loads[s]]
    /\ pendingSuppress' = [s \in Saved |->
            IF s \in FilesOf(a) THEN pendingSuppress[s] + 1 ELSE pendingSuppress[s]]

\* GetAddOnLocalTable's observer: the flag as the TOC has it now, and the table.
CapturesNamespace(a) ==
    /\ allowFlag' = (allowFlag \ {a}) \cup ({a} \cap Shares)
    /\ namespaces' = namespaces \cup {a}

\* TocExecutor_h: the observers, in their order.
TocExecutor ==
    LET a == Top.addon IN
    /\ AtStep("toc")
    /\ ToStep("files")
    /\ CapturesNamespace(a)
    /\ IF a \in First THEN LoadSavedVarsEarly(a) ELSE UNCHANGED <<value, loads, pendingSuppress>>
    /\ IF a = Library THEN ReadsLibrary ELSE UNCHANGED libraryVars
    /\ UNCHANGED <<queue, started, file, loadingEmbedded, wrote>>

\* Lua at file scope gives a saved variable a value.
WritesAtFileScope(s) ==
    /\ AtStep("files") /\ s[1] = Top.addon /\ Top.addon # Library
    /\ value[s] # "written"
    /\ value' = [value EXCEPT ![s] = "written"]
    /\ wrote' = wrote \cup {s}
    /\ UNCHANGED <<queue, loading, started, file, pendingSuppress, allowFlag, namespaces,
                   loadingEmbedded, loads, libraryVars>>

FilesEnd ==
    /\ AtStep("files")
    /\ ToStep("saved variables")
    /\ IF Top.addon = Library THEN ReadsLibrary ELSE UNCHANGED libraryVars
    /\ UNCHANGED <<queue, started, value, file, pendingSuppress, allowFlag, namespaces,
                   loadingEmbedded, wrote, loads>>

\* LuaLoad_h lets these of the engine's own loads pass.
Passes(a) == {s \in FilesOf(a) : pendingSuppress[s] = 0}

\* The engine's load of the add-on's files that exist.
SavedVarsStep ==
    LET a == Top.addon IN
    /\ AtStep("saved variables")
    /\ ToStep("event")
    /\ value' = [s \in Saved |-> IF s \in Passes(a) THEN "saved" ELSE value[s]]
    /\ loads' = [s \in Saved |-> IF s \in Passes(a) THEN loads[s] + 1 ELSE loads[s]]
    /\ pendingSuppress' = [s \in Saved |->
            IF s \in FilesOf(a) \ Passes(a) THEN pendingSuppress[s] - 1 ELSE pendingSuppress[s]]
    /\ UNCHANGED <<queue, started, file, allowFlag, namespaces, loadingEmbedded, wrote, libraryVars>>

\* ADDON_LOADED has fired; the load returns.
LoadReturns ==
    /\ AtStep("event")
    /\ loading' = SubSeq(loading, 1, Len(loading) - 1)
    /\ loadingEmbedded' = AfterLoad(Top.addon)
    /\ UNCHANGED <<queue, started, value, file, pendingSuppress, allowFlag, namespaces, wrote,
                   loads, libraryVars>>

\* Script_GetAddOnLocalTable: whose table an add-on gets by that name, if any.
LocalTable(a) == IF a \in allowFlag /\ a \in namespaces THEN a ELSE "nil"

\* FatalError_h: the corrupt-files error stops the client, or is swallowed.
Swallows(code) == code = 10 /\ loadingEmbedded

-----------------------------------------------------------------------------
(* The UI's life.                                                          *)

\* The load pass of a new UI begins.
LoadPass(order) ==
    /\ Idle /\ queue = <<>>
    /\ queue' = order
    /\ UNCHANGED <<loading, started, value, file, pendingSuppress, allowFlag, namespaces,
                   loadingEmbedded, wrote, loads, libraryVars>>

\* UnloadAddOns writes what the loaded add-ons have; the cleanups; the Lua state goes.
AddonShutdown ==
    /\ Idle
    /\ file' = {s \in Saved : IF s[1] \in started THEN value[s] # "nil" ELSE s \in file}
    /\ queue' = <<>> /\ started' = {}
    /\ value' = [s \in Saved |-> "nil"]
    /\ allowFlag' = {} /\ namespaces' = {}
    /\ wrote' = {} /\ loads' = Nothing
    /\ UNCHANGED <<loading, pendingSuppress, loadingEmbedded, libraryVars>>

\* A new process, after a crash as well: the files are what is left.
AddonRestart ==
    /\ queue' = <<>> /\ loading' = <<>> /\ started' = {}
    /\ value' = [s \in Saved |-> "nil"]
    /\ pendingSuppress' = Nothing
    /\ allowFlag' = {} /\ namespaces' = {}
    /\ loadingEmbedded' = FALSE
    /\ source' = "Undecided" /\ served' = {} /\ vanished' = FALSE
    /\ wrote' = {} /\ loads' = Nothing
    /\ UNCHANGED <<file, copy, updates>>

AddonCall == \/ \E a \in OnDemand : LoadAddOn(a)
             \/ \E s \in Saved : WritesAtFileScope(s)
CopyCall == \E c \in Copies : UpdateCopy(c)
AddonRuns == LoadNext \/ TocExecutor \/ FilesEnd \/ SavedVarsStep \/ LoadReturns

-----------------------------------------------------------------------------
(* Properties.                                                             *)

\* At ADDON_LOADED a saved variable has the value of its file, loaded once; what the
\* add-on set at file scope stays if its variables come first, as in retail, and is
\* overwritten by the file otherwise, as the engine always did.  No other add-on's
\* load that runs inside this one changes that.
SavedVarsRight ==
    /\ AtStep("event") => \A s \in Saved : s[1] = Top.addon =>
         /\ loads[s] = IF s \in file THEN 1 ELSE 0
         /\ value[s] = IF s \in wrote /\ (s \notin file \/ s[1] \in First) THEN "written"
                       ELSE IF s \in file THEN "saved" ELSE "nil"
    /\ AtStep("files") /\ Top.addon \in First => \A s \in FilesOf(Top.addon) : value[s] # "nil"

\* No file's load is left to be skipped when no load is going on: the next UI's
\* loads are all its own.
NothingPends == Idle => pendingSuppress = Nothing

\* A saved variable is never lost: a file once written is there for good.
DataKept == [][file \subseteq file']_addonVars

\* The library comes from one copy as long as that copy is there, whatever the player
\* does to the folder, and only its own load may hide the corrupt-files error.
LibraryWhole ==
    /\ ~vanished => Cardinality(served) <= 1
    /\ Swallows(10) => \E i \in DOMAIN loading : loading[i].addon = Library

\* An add-on's table is handed out under its name only while the add-on is loaded or
\* loading, and only if its TOC says so.
TablesShared == \A a \in AddOns : LocalTable(a) # "nil" => a \in Shares /\ a \in started

AddonRight == SavedVarsRight /\ NothingPends /\ LibraryWhole /\ TablesShared

-----------------------------------------------------------------------------
(* What makes them hold.                                                   *)

AddonTypes ==
    /\ queue \in Seq(AddOns)
    /\ loading \in Seq([addon : AddOns, step : Steps])
    /\ started \subseteq AddOns
    /\ value \in [Saved -> {"nil", "saved", "written"}]
    /\ file \subseteq Saved /\ wrote \subseteq Saved
    /\ pendingSuppress \in [Saved -> Nat] /\ loads \in [Saved -> Nat]
    /\ allowFlag \subseteq AddOns /\ loadingEmbedded \in BOOLEAN
    /\ copy \in Copies /\ source \in {"Undecided", "Disk", "Embedded"}

\* What the saved variables of an add-on are at each step of its load.
ValuesAt(a, step) == \A s \in Saved : s[1] = a =>
    LET early == a \in First /\ step # "toc"
        loaded == s \in file /\ (early \/ step = "event")
    IN  /\ loads[s] = IF loaded THEN 1 ELSE 0
        /\ pendingSuppress[s] = IF s \in file /\ early /\ step # "event" THEN 1 ELSE 0
        /\ value[s] = IF s \in wrote /\ (a \in First \/ s \notin file \/ step # "event")
                        THEN "written" ELSE IF loaded THEN "saved" ELSE "nil"
        /\ step = "toc" => s \notin wrote

\* The add-ons whose loads others wait in are in their files.
StackInv ==
    /\ \A i, j \in DOMAIN loading : loading[i].addon = loading[j].addon => i = j
    /\ \A i \in DOMAIN loading :
         /\ loading[i].addon \in started
         /\ i < Len(loading) => loading[i].step = "files" /\ loading[i].addon # Library
         /\ ValuesAt(loading[i].addon, loading[i].step)

IsLoading(a) == \E i \in DOMAIN loading : loading[i].addon = a

\* Before and after an add-on's load.
RestInv == \A s \in Saved :
    /\ s[1] \notin started => value[s] = "nil" /\ s \notin wrote
    /\ ~IsLoading(s[1]) => pendingSuppress[s] = 0
    /\ ~IsLoading(s[1]) /\ s[1] \in started /\ s \in file => value[s] # "nil"

LibraryInv ==
    /\ loadingEmbedded => IsLoading(Library)
    /\ source = "Undecided" => served = {} /\ ~vanished
    /\ source = "Disk" /\ ~vanished => served \subseteq {"Disk"} /\ copy # "none"
    /\ source = "Embedded" => served \subseteq {"Embedded"}
    /\ allowFlag \subseteq Shares /\ namespaces \subseteq started

AddonInv == AddonTypes /\ StackInv /\ RestInv /\ LibraryInv
=============================================================================

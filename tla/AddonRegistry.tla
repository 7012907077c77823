---------------------------- MODULE AddonRegistry ----------------------------
(***************************************************************************)
(* src/src/addons/Rescan.cpp over the engine's add-on registry, and the    *)
(* head of the list that src/src/addons/Embedded.cpp sees to.  The engine  *)
(* scans the disk when a player logs in; Run, with the module chain of     *)
(* every UI build, brings the registry up to the disk as it is by then.    *)
(* A TOC is the set of add-ons its LoadWith line names, the one piece of   *)
(* metadata that other entries depend on.                                  *)
(***************************************************************************)
EXTENDS Naturals, Sequences, FiniteSets, SequencesExt, Functions

CONSTANTS
    Names,          \* add-on folders that may be on disk
    Library,        \* !!!WrathClassicAPI, always readable
    Secure,         \* names whose entries the server manages
    MaxEdits        \* bound: changes on disk

AddOns == Names \cup {Library}
Absent == [with |-> {}, there |-> FALSE]
Toc(with) == [with |-> with, there |-> TRUE]
Tocs == {Toc(with) : with \in SUBSET AddOns}

\* A pointer to an entry is the entry's name, until the entry is destroyed.
Freed == "freed"
Pointees == AddOns \cup {Freed}

RegistryAssumption ==
    /\ Library \notin Names /\ Freed \notin AddOns
    /\ IsFiniteSet(Names) /\ Secure \subseteq Names
    /\ MaxEdits \in Nat

VARIABLES
    disk,           \* the TOC of each folder
    index,          \* loose-file index: the folders whose files can be read
    order,          \* the registry's list
    with,           \* each entry's LoadWith names
    rev,            \* each entry's reverse-LoadWith list: how often it names whom
    display,        \* the array behind GetNumAddOns
    metaHash,       \* g_metaHash: what was parsed last
    victims,        \* a rescan in progress: what the entries to evict read as now
    refreshed,      \* and those it has evicted and registered again
    evicted,        \* and whether it has evicted any
    rescanning,
    edits,
    asOf            \* ghost: the disk that the last rescan saw, if it held still

entryTables == <<order, with, rev>>
runVars == <<victims, refreshed, evicted, rescanning>>
registryVars == <<disk, index, entryTables, display, metaHash, runVars, edits, asOf>>

Moved == [n \in Names |-> Absent]

RegistryTypeOK ==
    /\ disk \in [Names -> Tocs \cup {Absent}]
    /\ index \subseteq Names
    /\ DOMAIN with = Range(order) /\ DOMAIN rev = Range(order)
    /\ Range(order) \subseteq AddOns
    /\ DOMAIN metaHash \subseteq Names
    /\ DOMAIN victims \subseteq Names /\ refreshed \subseteq Names
    /\ rescanning \in BOOLEAN /\ evicted \in BOOLEAN
    /\ edits \in 0..MaxEdits

RegistryInit ==
    /\ disk \in [Names -> {Absent, Toc({}), Toc(Names)}]
    /\ index = {n \in Names : disk[n].there}
    /\ order = <<>> /\ with = <<>> /\ rev = <<>>
    /\ display = {}
    /\ metaHash = <<>>
    /\ victims = <<>> /\ refreshed = {} /\ evicted = FALSE /\ rescanning = FALSE
    /\ edits = 0
    /\ asOf = disk

-----------------------------------------------------------------------------
(* What the engine's scan and parser do.                                   *)

\* ReadToc: through the index, or from the embedded files.
Readable(n) == n = Library \/ (n \in index' /\ disk[n].there)
TocOf(n) == IF n = Library THEN Toc({}) ELSE disk[n]

Registered == Range(order)
OnDisk == {n \in Names : disk[n].there}

\* The parser: an entry for what is not registered and can be read, at the tail.
Parsed(n) == TocOf(n).with
Nobody == [p \in Pointees |-> 0]

\* Mutant: the library is registered after the scan.
ScanFirst == <<>>

\* DiskScan_h puts the library at the head; the scan ends with it, if it is not there.
HeadOfScan == <<Library>>

ScanDisk ==
    LET found == HeadOfScan \o SetToSeq({n \in OnDisk : Readable(n)})
    IN  IF Library \in Range(found) THEN found ELSE Append(found, Library)

\* The reverse lists with the pairs added of which one side is new.
FixupReverseLoadWith(links, lists, new) ==
    LET pair(p, t) == p \in DOMAIN links /\ t \in links[p] /\ (p \in new \/ t \in new)
    IN  [t \in DOMAIN lists |->
            [p \in Pointees |-> lists[t][p] + (IF pair(p, t) THEN 1 ELSE 0)]]

\* The login scan tears the registry down and builds it, reverse lists and display
\* array included (DiskScan_h, HideEmbeddedEntry, FUN_ADDON_INIT).
LoginScan ==
    LET all == Range(order') IN
    /\ ~rescanning
    /\ index' = index
    /\ order' = ScanDisk
    /\ with' = [n \in all |-> Parsed(n)]
    /\ rev' = FixupReverseLoadWith(with', [t \in all |-> Nobody], all)
    /\ display' = all \ {Library}
    /\ UNCHANGED <<disk, metaHash, runVars, edits, asOf>>

-----------------------------------------------------------------------------
(* Rescan.cpp.                                                             *)

IsRefreshExempt(n) == n = Library \/ n \in Secure

\* RefreshChangedMetadata's walk: what no longer reads or reads otherwise than it was
\* parsed is a victim; what is seen for the first time is taken as parsed.
RunBegins ==
    LET walked == {n \in Registered : ~IsRefreshExempt(n)}
        seen == DOMAIN metaHash
        stale == {n \in walked : ~Readable(n) \/ (n \in seen /\ metaHash[n] # disk[n])}
    IN  /\ ~rescanning /\ order # <<>>
        /\ index' = OnDisk
        /\ victims' = [n \in stale |-> IF Readable(n) THEN disk[n] ELSE Absent]
        /\ metaHash' = [n \in seen \cup (walked \ stale) |->
                            IF n \in seen THEN metaHash[n] ELSE disk[n]]
        /\ rescanning' = TRUE
        /\ asOf' = disk
        /\ UNCHANGED <<disk, entryTables, display, refreshed, evicted, edits>>

\* Mutant: nothing is scrubbed before an entry is destroyed.
Unscrubbed(n) == rev

ScrubReverseLoadWith(n) ==
    [t \in DOMAIN rev |-> IF t = n THEN rev[t] ELSE [rev[t] EXCEPT ![n] = 0]]

\* The engine's destructor: pointers that are left point nowhere.
Destroy(lists, n) ==
    [t \in DOMAIN lists \ {n} |-> [lists[t] EXCEPT ![n] = 0, ![Freed] = @ + lists[t][n]]]

\* The next victim, in the walk's order, goes; one that could be read is parsed again,
\* and comes back unless its folder has gone meanwhile.
Evict(n) ==
    LET rest == Destroy(ScrubReverseLoadWith(n), n)
        back == victims[n] # Absent /\ Readable(n)
    IN  /\ rescanning /\ n \in DOMAIN victims
        /\ \E i \in DOMAIN order : order[i] = n /\ \A j \in 1..(i - 1) : order[j] \notin DOMAIN victims
        /\ index' = index
        /\ victims' = Restrict(victims, DOMAIN victims \ {n})
        /\ evicted' = TRUE
        /\ IF back
             THEN /\ order' = Append(RemoveFirst(order, n), n)
                  /\ with' = [with EXCEPT ![n] = Parsed(n)]
                  /\ rev' = [t \in DOMAIN rev |-> IF t = n THEN Nobody ELSE rest[t]]
                  /\ metaHash' = [metaHash EXCEPT ![n] = victims[n]]
                  /\ refreshed' = refreshed \cup {n}
             ELSE /\ order' = RemoveFirst(order, n)
                  /\ with' = Restrict(with, DOMAIN with \ {n})
                  /\ rev' = rest
                  /\ metaHash' = Restrict(metaHash, DOMAIN metaHash \ {n})
                  /\ UNCHANGED refreshed
        /\ UNCHANGED <<disk, display, rescanning, edits, asOf>>

\* The rest of Run: new folders are registered, links are made where one side is new,
\* the display array is built anew.
RunEnds ==
    LET added == {n \in OnDisk \ Registered : Readable(n)}
        all == Registered \cup added
        lists == [t \in all |-> IF t \in added THEN Nobody ELSE rev[t]]
        changed == added # {} \/ evicted
    IN  /\ rescanning /\ DOMAIN victims = {}
        /\ index' = index
        /\ order' = order \o SetToSeq(added)
        /\ with' = [n \in all |-> IF n \in added THEN Parsed(n) ELSE with[n]]
        /\ rev' = IF changed THEN FixupReverseLoadWith(with', lists, added \cup refreshed) ELSE lists
        /\ display' = IF changed THEN all \ {Library} ELSE display
        /\ metaHash' = [n \in DOMAIN metaHash \cup {x \in added : ~IsRefreshExempt(x)} |->
                            IF n \in added THEN disk[n] ELSE metaHash[n]]
        /\ victims' = <<>> /\ refreshed' = {} /\ evicted' = FALSE /\ rescanning' = FALSE
        /\ asOf' = IF asOf = disk THEN disk ELSE Moved
        /\ UNCHANGED <<disk, edits>>

\* A new process: the disk is what is left.
RegistryRestart ==
    /\ index' = OnDisk
    /\ order' = <<>> /\ with' = <<>> /\ rev' = <<>>
    /\ display' = {}
    /\ metaHash' = <<>>
    /\ victims' = <<>> /\ refreshed' = {} /\ evicted' = FALSE /\ rescanning' = FALSE
    /\ asOf' = disk
    /\ UNCHANGED <<disk, edits>>

-----------------------------------------------------------------------------
(* The player's file manager.  During a rescan folders only go (what the   *)
(* code's comment at Rescan.cpp:285 has in mind).                          *)

EditDisk(n, toc) ==
    /\ edits < MaxEdits
    /\ toc # disk[n]
    /\ rescanning => toc = Absent
    /\ edits' = edits + 1
    /\ disk' = [disk EXCEPT ![n] = toc]
    /\ UNCHANGED <<index, entryTables, display, metaHash, runVars, asOf>>

RegistryCall == \E n \in Names, toc \in {Absent, Toc({}), Toc(Names), Toc({Library})} : EditDisk(n, toc)

-----------------------------------------------------------------------------
(* Properties.                                                             *)

\* Nothing points to an entry that is gone, and the library is first: after evictions,
\* in mid-rescan vanishing folders, and any series of edits.  (The display array is not
\* read before the rescan ends.)
NothingDangles ==
    /\ \A t \in DOMAIN rev, p \in Pointees : rev[t][p] > 0 => p \in Registered
    /\ ~rescanning => display \subseteq Registered
LibraryFirst == order # <<>> => order[1] = Library /\ Library \notin display

\* After a rescan of a disk that held still, the registry is what a scan at login
\* would have made of that disk, but for the order.
Managed == Names \ Secure
MatchesDisk ==
    (order # <<>> /\ ~rescanning /\ asOf # Moved) =>
        /\ Registered \cap Managed = {n \in Managed : asOf[n].there}
        /\ IsInjective(order)
        /\ \A n \in Registered \cap Managed : with[n] = asOf[n].with
        /\ \A t \in Registered, p \in Pointees :
                rev[t][p] = IF p \in Registered /\ t \in with[p] THEN 1 ELSE 0
        /\ display = Registered \ {Library}

-----------------------------------------------------------------------------
(* What makes them hold.                                                   *)

EntriesTyped ==
    /\ disk \in [Names -> Tocs \cup {Absent}] /\ asOf \in [Names -> Tocs \cup {Absent}]
    /\ index \subseteq Names /\ edits \in 0..MaxEdits
    /\ order \in Seq(AddOns) /\ IsInjective(order)
    /\ order # <<>> => order[1] = Library
    /\ DOMAIN with = Registered /\ DOMAIN rev = Registered
    /\ \A n \in Registered : with[n] \in SUBSET AddOns /\ rev[n] \in [Pointees -> Nat]
    /\ DOMAIN metaHash \subseteq Managed
    /\ \A n \in DOMAIN metaHash : metaHash[n] \in Tocs
    /\ rescanning \in BOOLEAN /\ evicted \in BOOLEAN

\* The links, but for those of the entries that a rescan has put back so far.
LinksInv == \A t \in Registered, p \in Pointees :
    rev[t][p] = IF p \in Registered /\ t \in with[p] /\ {p, t} \cap refreshed = {} THEN 1 ELSE 0

\* What a rescan has dealt with is as it was on the disk that the rescan saw, and
\* folders have only gone since.
RunInv ==
    /\ ~evicted => display = Registered \ {Library} /\ refreshed = {}
    /\ Library \notin display
    /\ refreshed \subseteq Registered \cap Managed
    /\ ~rescanning => victims = <<>> /\ refreshed = {} /\ ~evicted
    /\ rescanning =>
        /\ order # <<>>
        /\ index = {n \in Names : asOf[n].there}
        /\ \A n \in Names : disk[n] \in {asOf[n], Absent}
        /\ DOMAIN victims \subseteq (Registered \cap Managed) \ refreshed
        /\ \A n \in DOMAIN victims :
                victims[n] = asOf[n] /\ (asOf[n].there => n \in DOMAIN metaHash)
        /\ \A n \in (Registered \cap Managed) \ DOMAIN victims :
                n \in DOMAIN metaHash /\ asOf[n].there /\ metaHash[n] = asOf[n] /\ with[n] = asOf[n].with

\* Entries are as g_metaHash has them, or as a login scan has just read them.
AsParsed == \A n \in Registered \cap Managed : n \in DOMAIN metaHash /\ with[n] = metaHash[n].with
AsScanned == \A n \in Registered \cap Managed : with[n] = disk[n].with

RegistryInv == EntriesTyped /\ LinksInv /\ RunInv
=============================================================================

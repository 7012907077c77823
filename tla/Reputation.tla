------------------------------ MODULE Reputation ------------------------------
(***************************************************************************)
(* Factions by ID (src/src/faction/Info.cpp) and FACTION_STANDING_CHANGED  *)
(* (faction/StandingChanged.cpp), over the engine's reputation slots and   *)
(* its displayed list, in which a collapsed header hides its children.     *)
(***************************************************************************)
EXTENDS Integers, Sequences, FiniteSets, SequencesExt

CONSTANTS
    Dbc,        \* Faction.dbc: faction ID |-> [slot, parent, base], -1 without slot or parent
    Headers,    \* the engine's array of header factions; 0 is the "Other" row
    MaxStanding

ReputationAssumption ==
    /\ IsFiniteSet(DOMAIN Dbc)
    /\ \A f \in DOMAIN Dbc : f \in Nat \ {0} /\ {Dbc[f].slot, Dbc[f].parent, Dbc[f].base} \subseteq Int
    /\ \A f, g \in DOMAIN Dbc : Dbc[f].slot = Dbc[g].slot /\ Dbc[f].slot >= 0 => f = g
    /\ Headers \in Seq(DOMAIN Dbc \cup {0})
    /\ MaxStanding \in Nat

VARIABLES
    delta,      \* OFF_REP_SLOT_DELTA_STANDING, by faction with a slot
    watched,    \* OFF_CGPLAYER_INFO_WATCHED_REP_LIST_ID
    collapsed,  \* the headers whose mask bit is clear
    notifying,  \* where FireNotify_h stands
    packet,     \* the rest of SMSG_SET_FACTION_STANDING: <<faction, change>> each
    last,       \* g_last, <<>> when not valid
    told        \* ghost: the standings a listener of the event has

repVars == <<delta, watched, collapsed, notifying, packet, last, told>>

Ranked == {f \in DOMAIN Dbc : Dbc[f].slot >= 0}
Stages == {"idle", "message", "event"}

-----------------------------------------------------------------------------
(* The engine.                                                             *)

\* Each header, and below it its children, unless it is collapsed, that are no headers
\* themselves: where the header is and the child.
Rows == ((DOMAIN Headers) \X {0}) \cup
    {r \in (DOMAIN Headers) \X (DOMAIN Dbc) :
        /\ Headers[r[1]] \notin collapsed /\ Dbc[r[2]].parent = Headers[r[1]]
        /\ ~Contains(Headers, r[2])}

Above(q, r) == q[1] < r[1] \/ (q[1] = r[1] /\ q[2] < r[2])

RowAt(i) == CHOOSE r \in Rows : Cardinality({q \in Rows : Above(q, r)}) = i - 1

DisplayList == [i \in 1..Cardinality(Rows) |->
    IF RowAt(i)[2] = 0 THEN Headers[RowAt(i)[1]] ELSE RowAt(i)[2]]

GET_STANDING(f) == IF f \in Ranked THEN Dbc[f].base + delta[f] ELSE 0

IS_WATCHED(f) == f \in Ranked /\ Dbc[f].slot = watched

-----------------------------------------------------------------------------
(* Info.cpp.                                                               *)

HasRecord(f) == f \in DOMAIN Dbc

ResolveIndex(i) == IF i \in DOMAIN DisplayList THEN DisplayList[i] ELSE 0

\* Mutant: the mask bit is read as "collapsed".
HeaderBitAsCollapsed(f) ==
    LET isHeader == f # 0 /\ Contains(Headers, f)
    IN  [isHeader |-> isHeader, isCollapsed |-> isHeader /\ f \notin collapsed]

HeaderState(f) ==
    LET isHeader == f # 0 /\ Contains(Headers, f)
    IN  [isHeader |-> isHeader, isCollapsed |-> isHeader /\ f \in collapsed]

ReadFactionData(f) ==
    [factionID |-> f, currentStanding |-> GET_STANDING(f), isWatched |-> IS_WATCHED(f),
     isHeader |-> HeaderState(f).isHeader, isCollapsed |-> HeaderState(f).isCollapsed,
     canSetInactive |-> ~HeaderState(f).isHeader /\ Dbc[f].slot >= 0]

GetFactionIDByIndex(i) == IF i \in DOMAIN DisplayList THEN {ResolveIndex(i)} ELSE {}

GetFactionDataByIndex(i) ==
    IF i \in DOMAIN DisplayList /\ HasRecord(ResolveIndex(i))
      THEN {ReadFactionData(ResolveIndex(i))} ELSE {}

\* The slot of the player's watched ID names the faction.
GetWatchedFactionData ==
    {[ReadFactionData(f) EXCEPT !.isWatched = TRUE] : f \in {g \in Ranked : Dbc[g].slot = watched}}

GetFactionStandings == [f \in Ranked |-> Dbc[f].base + delta[f]]

\* The engine's setter takes any faction that has a slot; 0 clears.
SetWatchedFactionByID(f) ==
    /\ watched' = IF f = 0 THEN -1 ELSE IF f \in Ranked THEN Dbc[f].slot ELSE watched
    /\ UNCHANGED <<delta, collapsed, notifying, packet, last, told>>

-----------------------------------------------------------------------------
(* StandingChanged.cpp, inside the engine's handler of the packet.         *)

ReputationInit ==
    /\ delta = [f \in Ranked |-> 0]
    /\ watched = -1
    /\ collapsed = {}
    /\ notifying = "idle" /\ packet = <<>> /\ last = <<>>
    /\ told = GetFactionStandings

Arrives(changes) ==
    /\ notifying = "idle" /\ packet = <<>>
    /\ packet' = changes
    /\ UNCHANGED <<delta, watched, collapsed, notifying, last, told>>

\* Mutant: the standing is read before the engine has written it.
NotifyReadsBefore ==
    /\ notifying = "idle" /\ packet # <<>>
    /\ LET f == packet[1][1]  d == packet[1][2] IN
        /\ last' = [faction |-> f, standing |-> GET_STANDING(f), gained |-> d]
        /\ delta' = [delta EXCEPT ![f] = @ + d]
        /\ notifying' = IF d = 0 THEN "idle" ELSE "message"
    /\ packet' = Tail(packet)
    /\ UNCHANGED <<watched, collapsed, told>>

\* The handler writes each standing and calls the notifier for those that changed;
\* the engine's message comes first.
FireNotify ==
    /\ notifying = "idle" /\ packet # <<>>
    /\ LET f == packet[1][1]  d == packet[1][2] IN
        /\ delta' = [delta EXCEPT ![f] = @ + d]
        /\ last' = IF d = 0 THEN last
                   ELSE [faction |-> f, standing |-> Dbc[f].base + delta'[f], gained |-> d]
        /\ notifying' = IF d = 0 THEN "idle" ELSE "message"
    /\ packet' = Tail(packet)
    /\ UNCHANGED <<watched, collapsed, told>>

FiresEvent ==
    /\ notifying = "message"
    /\ notifying' = "event"
    /\ told' = [told EXCEPT ![last.faction] = last.standing]
    /\ UNCHANGED <<delta, watched, collapsed, packet, last>>

NotifyReturns ==
    /\ notifying = "event"
    /\ notifying' = "idle" /\ last' = <<>>
    /\ UNCHANGED <<delta, watched, collapsed, packet, told>>

\* A click on a header.
Collapses(h) ==
    /\ collapsed' = IF h \in collapsed THEN collapsed \ {h} ELSE collapsed \cup {h}
    /\ UNCHANGED <<delta, watched, notifying, packet, last, told>>

ReputationNext ==
    \/ \E f, g \in Ranked, d, e \in -1..1 :
        /\ f # g
        /\ {delta[f] + d, delta[g] + e} \subseteq -MaxStanding..MaxStanding
        /\ Arrives(<<<<f, d>>, <<g, e>>>>)
    \/ FireNotify \/ FiresEvent \/ NotifyReturns
    \/ \E h \in Range(Headers) : Collapses(h)
    \/ \E f \in {0} \cup DOMAIN Dbc : SetWatchedFactionByID(f)

ReputationTypeOK ==
    /\ delta \in [Ranked -> -MaxStanding..MaxStanding] /\ watched \in Int
    /\ notifying \in Stages /\ (last = <<>>) = (notifying = "idle")

-----------------------------------------------------------------------------
(* Properties.                                                             *)

\* The ways to a faction agree: a row's ID and its data, the bar's faction and the one row
\* that says it is watched, the table of standings and each row's own.  Collapsed headers
\* are those whose children are not shown, a header below them apart.
QueriesAgree ==
    /\ \A i \in 0..Len(DisplayList) + 1 : LET id == GetFactionIDByIndex(i) IN
        /\ id # {} <=> i \in DOMAIN DisplayList
        /\ \A d \in GetFactionDataByIndex(i) :
            /\ id = {d.factionID}
            /\ d.isWatched <=> \E w \in GetWatchedFactionData : w.factionID = d.factionID
            /\ d.factionID \in Ranked => d.currentStanding = GetFactionStandings[d.factionID]
            /\ d.isCollapsed => \A j \in DOMAIN DisplayList : LET f == DisplayList[j] IN
                HasRecord(f) /\ ~HeaderState(f).isHeader => Dbc[f].parent # d.factionID
        /\ id # {} /\ GetFactionDataByIndex(i) = {} => id = {0}
    /\ Cardinality(GetWatchedFactionData) <= 1

\* A listener of the event that adds nothing up knows every standing once the packet has
\* been handled, and what GetLastStandingChange says in a handler, of the engine's message
\* too, is the standing of that moment.
StandingsTold ==
    /\ packet = <<>> /\ notifying = "idle" => told = GetFactionStandings
    /\ notifying # "idle" => last.standing = GET_STANDING(last.faction)

\* What the steps keep: every rank a listener has is right, the one the notifier is about
\* excepted until its event.
StandingsInv ==
    /\ delta \in [Ranked -> Int] /\ told \in [Ranked -> Int] /\ notifying \in Stages
    /\ packet \in Seq(Ranked \X Int)
    /\ notifying # "idle" =>
        /\ last.faction \in Ranked
        /\ last.standing = Dbc[last.faction].base + delta[last.faction]
    /\ \A f \in Ranked :
        \/ told[f] = Dbc[f].base + delta[f]
        \/ notifying = "message" /\ f = last.faction

-----------------------------------------------------------------------------
(* What the steps keep, for the theorems (Answers).                         *)

\* A packet names each faction once, and no standing outside the range.
FactionsInv ==
    /\ ReputationTypeOK
    /\ packet \in Seq(Ranked \X Int)
    /\ \A i, j \in DOMAIN packet : packet[i][1] = packet[j][1] => i = j
    /\ \A i \in DOMAIN packet : delta[packet[i][1]] + packet[i][2] \in -MaxStanding..MaxStanding

=============================================================================

-------------------------------- MODULE Units --------------------------------
(***************************************************************************)
(* Units by token and by GUID (src/src/unit/, Guid.h, group/Info.cpp).     *)
(* What the client knows of a unit sits in different places at different   *)
(* times: the object while it is in view, the rosters of the group while   *)
(* it is not, the name cache, and for the player the login session before  *)
(* there is an object.                                                     *)
(***************************************************************************)
EXTENDS Integers, Sequences, FiniteSets

CONSTANTS
    Me,         \* the GUID the session was entered with
    Mates,      \* other players
    Creatures,
    Keywords,   \* tokens of the engine's keyword list, as "target" and another library's "nameplate1"
    Stats,      \* [health, maxHealth, type, power, maxPower], power and maxPower by power type
    Divisors,   \* VAR_POWER_DISPLAY_DIVISOR_TABLE, by power type
    Bytes       \* race or class of each player and creature, 0 for none

Units == {Me} \cup Mates \cup Creatures
Nobody == "nil"
Tokens == {"player", "mouseover"} \cup Keywords
ActivePower == 7

UnitsAssumption ==
    /\ Nobody \notin Units /\ Keywords \cap {"player", "mouseover"} = {}
    /\ Bytes \in [Units -> Nat] /\ Bytes[Me] # 0
    /\ \A s \in Stats : s.type \in DOMAIN Divisors

VARIABLES
    session,    \* "glue", "loading" (the UI is built, no object yet) or "world"
    objects,    \* the units in view, with what their descriptors say
    tokens,     \* mouseover and the keywords: whom they name
    rosters,    \* members of the party's and of the raid's roster, with their record
    cached,     \* the player name cache
    owner,      \* creature |-> [charmed, created]
    home, current, \* VAR_REAL_* and the current group: "none", "party" or "raid"
    pvpMap

unitVars == <<session, objects, tokens, rosters, cached, owner, home, current, pvpMap>>

-----------------------------------------------------------------------------
(* The engine's resolvers.                                                 *)

\* GuidForToken names a group member out of view as well.
GuidForToken(t) ==
    IF t = "player" THEN (IF session = "world" THEN Me ELSE Nobody) ELSE tokens[t]

ResolveToken(t) == {GuidForToken(t)} \cap DOMAIN objects

\* The keyword list leaves mouseover out; the single-token resolver knows it, but none of
\* the tokens another library put in the list.
GuidToTokens(u) == {t \in Tokens \ {"mouseover"} : GuidForToken(t) = u}
GuidToToken(u) == {t \in {"mouseover"} : GuidForToken(t) = u}

-----------------------------------------------------------------------------
(* unit/.  An answer is a set, empty for nil.                              *)

UnitGUID(t) ==
    LET original == {GuidForToken(t)} \ {Nobody}
    IN  IF original = {} /\ t = "player" /\ session # "glue" THEN {Me} ELSE original

UnitTokenFromGUID(u) == IF GuidToTokens(u) # {} THEN GuidToTokens(u) ELSE GuidToToken(u)

UnitNameFromGUID(u) == {u} \cap (cached \cup DOMAIN objects)

\* The session's global answers for "player", the descriptor for the rest.
UnitByte(t) ==
    LET of == IF t = "player" THEN (IF session = "glue" THEN {} ELSE {Me}) ELSE ResolveToken(t)
    IN  {Bytes[u] : u \in of} \ {0}

\* UnitRaceBase takes its token from ChrRaces.dbc by the same byte.
UnitRaceBase(t) == {[race |-> b, file |-> b] : b \in UnitByte(t)}

UnitOwnerGUID(t) ==
    LET owners == {owner[u] : u \in ResolveToken(t) \cap Creatures}
    IN  {IF o.charmed # Nobody THEN o.charmed ELSE o.created : o \in owners} \ {Nobody}

\* UnitSubName and UnitCreatureID.
CreatureFields(t) == ResolveToken(t) \cap Creatures

UnitDistanceSquared(t) ==
    IF ResolveToken(t) # {} /\ ResolveToken("player") # {} THEN "checked" ELSE "unchecked"

\* The live descriptor, else the party's roster, else the raid's.
ResolveMember(t) ==
    LET u == GuidForToken(t)
        Found(source, records) == {[source |-> source, data |-> records[v]] : v \in {u} \cap DOMAIN records}
        object == Found("Object", objects)
        party == Found("Roster", rosters.party)
    IN  IF object # {} THEN object ELSE IF party # {} THEN party ELSE Found("Roster", rosters.raid)

Clamped(max, cur) == IF max > cur THEN max - cur ELSE 0

UnitHealthMissing(t) ==
    LET found == ResolveMember(t)
    IN  IF found = {} THEN 0
        ELSE LET d == (CHOOSE m \in found : TRUE).data IN Clamped(d.maxHealth, d.health)

\* A roster keeps the active type only.
ReadPower(t, reqType) ==
    LET Types(m) == {type \in DOMAIN Divisors :
            /\ reqType = ActivePower => type = m.data.type
            /\ reqType # ActivePower => type = reqType
            /\ m.source = "Roster" => type = m.data.type}
        Powers(m) == {[cur |-> m.data.power[type], max |-> m.data.maxPower[type], type |-> type] :
                        type \in Types(m)}
    IN  UNION {Powers(m) : m \in ResolveMember(t)}

\* Mutant: the difference is divided, not each side.
DividesLast(t, reqType) ==
    LET read == ReadPower(t, reqType)
    IN  IF read = {} THEN 0
        ELSE LET p == CHOOSE x \in read : TRUE IN Clamped(p.max, p.cur) \div Divisors[p.type]

UnitPowerMissing(t, reqType) ==
    LET read == ReadPower(t, reqType)
    IN  IF read = {} THEN 0
        ELSE LET p == CHOOSE x \in read : TRUE
             IN  Clamped(p.max \div Divisors[p.type], p.cur \div Divisors[p.type])

-----------------------------------------------------------------------------
(* group/Info.cpp: groupType 1 is home, 2 instance, any other either.      *)

IsInGroup(groupType) ==
    CASE groupType = 1 -> home # "none"
      [] groupType = 2 -> pvpMap /\ current # "none"
      [] OTHER -> current # "none" \/ home # "none"

IsInRaid(groupType) ==
    CASE groupType = 1 -> home = "raid"
      [] groupType = 2 -> pvpMap /\ current = "raid"
      [] OTHER -> "raid" \in {current, home}

-----------------------------------------------------------------------------
(* The game.                                                               *)

UnitsInit ==
    /\ session = "glue" /\ objects = <<>> /\ cached = {} /\ pvpMap = FALSE
    /\ tokens = [t \in Tokens \ {"player"} |-> Nobody]
    /\ rosters = [party |-> <<>>, raid |-> <<>>]
    /\ owner = [c \in Creatures |-> [charmed |-> Nobody, created |-> Nobody]]
    /\ home = "none" /\ current = "none"

With(records, u, s) == [v \in DOMAIN records \cup {u} |-> IF v = u THEN s ELSE records[v]]
Without(records, u) == [v \in DOMAIN records \ {u} |-> records[v]]

EntersSession ==
    /\ session = "glue" /\ session' = "loading"
    /\ UNCHANGED <<objects, tokens, rosters, cached, owner, home, current, pvpMap>>

\* The first object update is the player's.
ObjectArrives(u, s) ==
    /\ session # "glue" /\ (session = "loading" => u = Me)
    /\ session' = "world"
    /\ objects' = With(objects, u, s)
    /\ cached' = IF u \in Creatures THEN cached ELSE cached \cup {u}
    /\ UNCHANGED <<tokens, rosters, owner, home, current, pvpMap>>

\* Tokens of the world let go of a unit out of view.
ObjectLeaves(u) ==
    /\ u \in DOMAIN objects \ {Me}
    /\ objects' = Without(objects, u)
    /\ tokens' = [t \in DOMAIN tokens |-> IF tokens[t] = u /\ u \notin DOMAIN rosters.party
                                            THEN Nobody ELSE tokens[t]]
    /\ UNCHANGED <<session, rosters, cached, owner, home, current, pvpMap>>

Points(t, u) ==
    /\ u = Nobody \/ u \in DOMAIN objects
    /\ tokens' = [tokens EXCEPT ![t] = u]
    /\ UNCHANGED <<session, objects, rosters, cached, owner, home, current, pvpMap>>

\* SMSG_PARTY_MEMBER_STATS, and the group's list with its names.
RosterTold(u, s) ==
    /\ session = "world" /\ current # "none"
    /\ rosters' = IF current = "party" THEN [rosters EXCEPT !.party = With(@, u, s)]
                  ELSE [rosters EXCEPT !.raid = With(@, u, s)]
    /\ cached' = cached \cup {u}
    /\ UNCHANGED <<session, objects, tokens, owner, home, current, pvpMap>>

Summoned(c, o) ==
    /\ owner' = [owner EXCEPT ![c] = o]
    /\ UNCHANGED <<session, objects, tokens, rosters, cached, home, current, pvpMap>>

\* In a battleground the current group is the battleground's, the home group waits.
GroupChanged(h, c, pvp) ==
    /\ session = "world" /\ (~pvp => c = h)
    /\ home' = h /\ current' = c /\ pvpMap' = pvp
    /\ rosters' = [party |-> <<>>, raid |-> <<>>]
    /\ tokens' = [t \in DOMAIN tokens |->
                    IF tokens[t] \in DOMAIN objects THEN tokens[t] ELSE Nobody]
    /\ UNCHANGED <<session, objects, cached, owner>>

Groups == {"none", "party", "raid"}

UnitsNext ==
    \/ EntersSession
    \/ \E u \in Units, s \in Stats : ObjectArrives(u, s)
    \/ \E u \in Units : ObjectLeaves(u)
    \/ \E t \in DOMAIN tokens, u \in Units \cup {Nobody} : Points(t, u)
    \/ \E u \in Mates, s \in Stats : RosterTold(u, s)
    \/ \E c \in Creatures, u \in {Me, Nobody}, v \in Mates \cup {Nobody} :
        Summoned(c, [created |-> u, charmed |-> v])
    \/ \E h, c \in Groups, pvp \in BOOLEAN : GroupChanged(h, c, pvp)

UnitsTypeOK ==
    /\ DOMAIN objects \subseteq Units /\ cached \subseteq Units
    /\ tokens \in [Tokens \ {"player"} -> Units \cup {Nobody}]
    /\ {home, current} \subseteq Groups

-----------------------------------------------------------------------------
(* Properties.                                                             *)

\* UnitHealth and UnitPower as the engine answers them for the unit a token names.
EngineStat(t) == {m.data : m \in ResolveMember(t)}
Shown(d, type) ==
    IF type = ActivePower \/ type = d.type
      THEN [max |-> d.maxPower[d.type] \div Divisors[d.type], cur |-> d.power[d.type] \div Divisors[d.type]]
      ELSE [max |-> 0, cur |-> 0]

\* A unit is the same unit by every way to it.  Its GUID leads back to a token that names
\* it, mouseover and another library's token included; "player" has a GUID, a race and a
\* class from the UI's build on, the same before and after the object; what is missing is
\* what the engine's maximum and current value, as displayed, leave, from the roster as
\* from the object; a unit in view has a name, and so has a member out of it; and to be in
\* a raid is to be in a group, of the home or of the instance if of any.  Fields, owner,
\* distance and race are those of the unit that UnitGUID names.
UnitsAgree ==
    /\ \A t \in Tokens : \A u \in UnitGUID(t) :
        /\ u \in Units
        /\ GuidForToken(t) = u => UnitTokenFromGUID(u) # {}
        /\ \A t2 \in UnitTokenFromGUID(u) : UnitGUID(t2) = {u}
        /\ UnitNameFromGUID(u) # {} \/ session = "loading"
    /\ session # "glue" => UnitGUID("player") = {Me} /\ UnitByte("player") = {Bytes[Me]}
    /\ \A t \in Tokens, type \in DOMAIN Divisors \cup {ActivePower} :
        \A d \in EngineStat(t) :
            /\ UnitHealthMissing(t) = IF d.maxHealth > d.health THEN d.maxHealth - d.health ELSE 0
            /\ (ResolveToken(t) = {} \/ type \in {d.type, ActivePower}) =>
                UnitPowerMissing(t, type) =
                    LET s == Shown(d, type) IN IF s.max > s.cur THEN s.max - s.cur ELSE 0
    /\ \A t \in Tokens :
        /\ CreatureFields(t) # {} => UnitGUID(t) = CreatureFields(t)
        /\ UnitOwnerGUID(t) # {} => CreatureFields(t) # {}
        /\ UnitDistanceSquared(t) = "checked" => UnitGUID(t) = ResolveToken(t) /\ UnitGUID("player") = {Me}
        /\ \A r \in UnitRaceBase(t) : UnitGUID(t) # {} /\ Bytes[CHOOSE u \in UnitGUID(t) : TRUE] = r.race
    /\ \A g \in 0..2 : IsInRaid(g) => IsInGroup(g)
    /\ IsInGroup(0) = (IsInGroup(1) \/ IsInGroup(2))
    /\ IsInRaid(0) = (IsInRaid(1) \/ IsInRaid(2))

-----------------------------------------------------------------------------
(* What the steps keep, for the theorems (Queries).                         *)

\* Who is known and kept, in the world and out of it.
UnitsInv ==
    /\ UnitsTypeOK
    /\ session \in {"glue", "loading", "world"}
    /\ IF session = "world" THEN Me \in DOMAIN objects ELSE DOMAIN objects = {}
    /\ DOMAIN rosters.party \subseteq cached /\ DOMAIN rosters.raid \subseteq cached
    /\ DOMAIN rosters = {"party", "raid"}
    /\ \A u \in DOMAIN objects : objects[u] \in Stats /\ (u \notin Creatures => u \in cached)
    /\ \A u \in DOMAIN rosters.party : rosters.party[u] \in Stats
    /\ \A u \in DOMAIN rosters.raid : rosters.raid[u] \in Stats
    /\ \A t \in DOMAIN tokens : tokens[t] = Nobody \/ tokens[t] \in DOMAIN objects \cup cached
    /\ pvpMap \in BOOLEAN /\ (~pvpMap => current = home)

=============================================================================

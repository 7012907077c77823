------------------------------- MODULE ItemInfo -------------------------------
(***************************************************************************)
(* C_Item's answers about an item, named in any of the forms of            *)
(* src/src/item/Arg.cpp (item/Info.cpp, Exists.cpp, ID.cpp, IsBound.cpp),  *)
(* and C_PlayerInfo.CanUseItem (player/CanUseItem.cpp).  What is not known *)
(* yet is asked for; how an answer comes back is ItemData's subject.       *)
(***************************************************************************)
EXTENDS Integers, Sequences, FiniteSets

CONSTANTS
    Records,    \* itemID |-> what the server knows of it
    Dbc,        \* itemID |-> class, subclass, slot and icon, for the items shipped with the client
    Unreal,     \* IDs callers name that the server has no record of
    Suffixes,   \* the random suffixes the client knows
    Instances,  \* GUID |-> [item, suffix, seed, soulbound]
    Places,     \* the places of the player's inventory
    Characters, \* what the local player can be
    MaxNames    \* bound: items that arrive in the inventory

Nil == [id |-> 0]
NoGuid == "no item"

Ids == DOMAIN Records \cup Unreal

\* The number a name begins with, if any, is one of the IDs; a place is no GUID.
ItemInfoAssumption ==
    /\ DOMAIN Dbc \subseteq DOMAIN Records
    /\ \A i \in DOMAIN Dbc : Dbc[i] = Records[i].instant
    /\ Unreal \cap DOMAIN Records = {} /\ Ids \subseteq Nat \ {0}
    /\ \A i \in DOMAIN Records : LET r == Records[i] IN
        /\ r.name[1] \in Ids \cup {0} /\ {r.level, r.rank, r.band} \subseteq Int
        /\ \A c \in Characters : /\ r.class \in DOMAIN c.proficient
                                 /\ r.faction # 0 => r.faction \in DOMAIN c.standing
    /\ \A c \in Characters :
        /\ c.level \in Nat
        /\ c.skills \in [DOMAIN c.skills -> Int] /\ c.standing \in [DOMAIN c.standing -> Int]
    /\ \A g \in DOMAIN Instances : Instances[g].item \in DOMAIN Records
    /\ Places \cap (DOMAIN Instances \cup {NoGuid}) = {} /\ NoGuid \notin DOMAIN Instances
    /\ MaxNames \in Nat

VARIABLES
    stats,      \* items whose record is in the item-stats cache
    queried,    \* items the server has been asked about
    worn,       \* place |-> the GUID there
    character,  \* the local player; one not in the world has inWorld FALSE
    arrivals,
    awaited     \* ghost: items a query by ID had no answer for, and no answer came since

infoVars == <<stats, queried, worn, character, arrivals, awaited>>

ByNumber(i) == [form |-> "number", id |-> i]
ByGuid(g) == [form |-> "guid", guid |-> g]
ByLink(i, suffix, seed) == [form |-> "link", id |-> i, suffix |-> suffix, seed |-> seed]
ByText(text) == [form |-> "text", text |-> text]

\* An ID written out in digits.
Digits(i) == <<i, "">>

-----------------------------------------------------------------------------
(* Location.cpp and ID.cpp: the item at a place or under a GUID.           *)

Held == {worn[p] : p \in Places} \ {NoGuid}
ResolveLocation(loc) == IF loc \in Places THEN worn[loc] ELSE IF loc \in Held THEN loc ELSE NoGuid

DoesItemExist(loc) == ResolveLocation(loc) # NoGuid

FromCGItem(guid) == IF guid = NoGuid THEN 0 ELSE Instances[guid].item

GetItemID(loc) == FromCGItem(ResolveLocation(loc))

GetItemGUID(loc) == ResolveLocation(loc)

-----------------------------------------------------------------------------
(* Arg.cpp.  A string is its leading number and the rest of it.            *)

\* The engine's index of the names of cached items.
EngineStringToItemID(text) ==
    LET named == {i \in stats : Records[i].name = text}
    IN  IF named = {} THEN 0 ELSE CHOOSE i \in named : TRUE

\* Mutant: the suffix is read from the field after its own.
ResolveShifted(arg) ==
    LET Id(i) == [itemID |-> i, suffix |-> 0, seed |-> 0]
    IN  CASE arg.form = "number" -> Id(arg.id)
          [] arg.form = "guid"   -> Id(GetItemID(arg.guid))
          [] arg.form = "link"   -> [itemID |-> arg.id, suffix |-> arg.seed, seed |-> 0]
          [] arg.form = "text"   -> Id(IF arg.text[1] > 0 THEN arg.text[1]
                                       ELSE EngineStringToItemID(arg.text))

Resolve(arg) ==
    LET Id(i) == [itemID |-> i, suffix |-> 0, seed |-> 0]
    IN  CASE arg.form = "number" -> Id(arg.id)
          [] arg.form = "guid"   -> Id(GetItemID(arg.guid))
          [] arg.form = "link"   -> [itemID |-> arg.id, suffix |-> arg.suffix, seed |-> arg.seed]
          [] arg.form = "text"   -> Id(IF arg.text[1] > 0 THEN arg.text[1]
                                       ELSE EngineStringToItemID(arg.text))

-----------------------------------------------------------------------------
(* Info.cpp and Exists.cpp: what a call answers.                           *)

FetchItemRecord(id) == IF id \in stats THEN {Records[id]} ELSE {}

\* The records behind the single-field accessors.
FetchByLuaArg(arg) == FetchItemRecord(Resolve(arg).itemID)
FetchByLuaLocation(loc) == FetchItemRecord(GetItemID(loc))

GetItemInfoInstant(arg) ==
    LET id == Resolve(arg).itemID
    IN  IF id \in DOMAIN Dbc THEN [id |-> id, instant |-> Dbc[id]]
        ELSE IF id \in stats THEN [id |-> id, instant |-> Records[id].instant]
        ELSE Nil

QualityColorHex(quality) == IF quality > 7 THEN 1 ELSE IF quality = 7 THEN 6 ELSE quality

BuildItemLink(id, quality, name, suffix, seed) ==
    [form |-> "link", id |-> id, suffix |-> suffix, seed |-> seed,
     color |-> QualityColorHex(quality), label |-> name]

NameWithSuffix(id, suffix) ==
    IF suffix \in Suffixes THEN <<Records[id].name, suffix>> ELSE <<Records[id].name, 0>>

GetItemInfo(arg) ==
    LET r == Resolve(arg)
        record == Records[r.itemID]
        name == NameWithSuffix(r.itemID, r.suffix)
    IN  IF r.itemID \notin stats THEN Nil
        ELSE [id |-> r.itemID, name |-> name, instant |-> record.instant, quality |-> record.quality,
              link |-> BuildItemLink(r.itemID, record.quality, name, r.suffix, r.seed)]

\* A link for a place; the suffix and the seed of the instance are not in it.
GetItemLink(loc) ==
    LET id == GetItemID(loc)
    IN  IF id \notin stats THEN Nil
        ELSE BuildItemLink(id, Records[id].quality, <<Records[id].name, 0>>, 0, 0)

DoesItemExistByID(arg) ==
    LET id == Resolve(arg).itemID IN id \in DOMAIN Dbc \/ id \in stats

IsBound(loc) ==
    LET guid == ResolveLocation(loc)
    IN  /\ guid # NoGuid
        /\ \/ Instances[guid].soulbound
           \/ \E record \in FetchItemRecord(FromCGItem(guid)) : record.heirloom

-----------------------------------------------------------------------------
(* CanUseItem.cpp.  A mask is the set of what it allows.                   *)

RestrictedOut(mask, index) == mask # {} /\ index # 0 /\ index \notin mask

\* Mutant: a class without proficiencies has none that is met.
ProficiencyAlways(c, record) == record.subclass \in c.proficient[record.class]

ProficiencyMet(c, record) ==
    \/ c.proficient[record.class] = {}
    \/ record.subclass \in c.proficient[record.class]

RequiredSkillMet(c, record) ==
    record.skill # "none" => record.skill \in DOMAIN c.skills /\ c.skills[record.skill] >= record.rank

RequiredSpellMet(c, record) == record.spell # 0 => record.spell \in c.spells

RequiredReputationMet(c, record) ==
    record.faction # 0 => c.standing[record.faction] >= record.band

ComputeCanUse(c, id) ==
    \E record \in FetchItemRecord(id) :
        /\ c.inWorld
        /\ ProficiencyMet(c, record)
        /\ record.level <= c.level
        /\ ~RestrictedOut(record.classes, c.class) /\ ~RestrictedOut(record.races, c.race)
        /\ RequiredSkillMet(c, record) /\ RequiredSpellMet(c, record)
        /\ RequiredReputationMet(c, record)

CanUseItem(arg) == ComputeCanUse(character, Resolve(arg).itemID)

-----------------------------------------------------------------------------
(* The calls that ask for what they miss, the server, and the world.       *)

\* Mutant: items the client ships are taken for known.
AskCustom(missing) ==
    /\ queried' = queried \cup (missing \ DOMAIN Dbc)
    /\ awaited' = awaited \cup missing
    /\ UNCHANGED <<stats, worn, character, arrivals>>

Ask(missing) ==
    /\ queried' = queried \cup missing
    /\ awaited' = awaited \cup missing
    /\ UNCHANGED <<stats, worn, character, arrivals>>

Missing(arg) == LET id == Resolve(arg).itemID IN IF id = 0 THEN {} ELSE {id} \ stats

\* GetItemInfo and the accessors by ID.
QueryInfo(arg) == Ask(Missing(arg))

\* GetItemInfoInstant and DoesItemExistByID, which a stock item does not keep waiting.
QueryInstant(arg) == Ask(Missing(arg) \ DOMAIN Dbc)

Answered(id) ==
    /\ id \in queried
    /\ queried' = queried \ {id} /\ awaited' = awaited \ {id}
    /\ stats' = stats \cup ({id} \cap DOMAIN Records)
    /\ UNCHANGED <<worn, character, arrivals>>

\* An item lands at a place; the engine asks for its record by itself.
Lands(g, p) ==
    /\ g \notin Held /\ arrivals < MaxNames
    /\ worn' = [worn EXCEPT ![p] = g] /\ arrivals' = arrivals + 1
    /\ queried' = queried \cup ({Instances[g].item} \ stats)
    /\ UNCHANGED <<stats, character, awaited>>

Empties(p) ==
    /\ worn[p] # NoGuid
    /\ worn' = [worn EXCEPT ![p] = NoGuid]
    /\ UNCHANGED <<stats, queried, character, arrivals, awaited>>

Becomes(c) == character' = c /\ UNCHANGED <<stats, queried, worn, arrivals, awaited>>

Args ==
    {ByNumber(i) : i \in Ids} \cup {ByGuid(g) : g \in DOMAIN Instances}
        \cup {ByLink(i, s, s) : i \in Ids, s \in Suffixes \cup {0}}
        \cup {ByText(Records[i].name) : i \in DOMAIN Records} \cup {ByText(Digits(i)) : i \in Ids}

InfoInit ==
    /\ stats = {} /\ queried = {} /\ worn = [p \in Places |-> NoGuid]
    /\ character \in Characters
    /\ arrivals = 0 /\ awaited = {}

InfoNext ==
    \/ \E arg \in Args : QueryInfo(arg) \/ QueryInstant(arg)
    \/ \E i \in Ids : Answered(i)
    \/ \E g \in DOMAIN Instances, p \in Places : Lands(g, p)
    \/ \E p \in Places : Empties(p)
    \/ \E c \in Characters : Becomes(c)

InfoTypeOK ==
    /\ stats \subseteq DOMAIN Records /\ queried \subseteq Ids /\ awaited \subseteq Ids
    /\ worn \in [Places -> DOMAIN Instances \cup {NoGuid}]
    /\ character \in Characters /\ arrivals \in 0..MaxNames

-----------------------------------------------------------------------------
(* Properties.                                                             *)

\* However an item is named, the calls speak of one item.  The place it is at, its GUID, its
\* ID, and, once its record is there, its name without a number in front agree; the link in an
\* answer leads back to that answer; the calls that need no record say nothing else than
\* those that do; a place that holds an item has an ID and a GUID.
FormsAgree ==
    /\ \A p \in Places :
        LET id == GetItemID(p)  guid == GetItemGUID(p)
        IN  /\ DoesItemExist(p) <=> id # 0
            /\ id # 0 => /\ Resolve(ByGuid(guid)).itemID = id /\ ResolveLocation(guid) = guid
                         /\ FetchByLuaArg(ByNumber(id)) = FetchByLuaLocation(p)
                         /\ IsBound(p) = IsBound(guid)
                         /\ GetItemLink(p) # Nil => Resolve(GetItemLink(p)).itemID = id
                         /\ CanUseItem(ByGuid(guid)) = CanUseItem(ByNumber(id))
    /\ \A i \in stats : LET name == Records[i].name IN
        /\ name[1] = 0 => GetItemInfo(ByText(name)) \in
                            {GetItemInfo(ByNumber(j)) : j \in {k \in stats : Records[k].name = name}}
        /\ GetItemInfo(ByText(Digits(i))) = GetItemInfo(ByNumber(i))
    /\ \A arg \in Args : LET info == GetItemInfo(arg) IN info # Nil =>
        /\ GetItemInfo(info.link) = info
        /\ DoesItemExistByID(arg) /\ FetchByLuaArg(arg) # {}
        /\ GetItemInfoInstant(arg) = [id |-> info.id, instant |-> info.instant]
        /\ arg.form = "link" => info.link.suffix = arg.suffix

\* A query by ID that has no answer has the answer on its way.
NilIsAwaited == awaited \subseteq queried \ stats

\* A character who can use an item can use it with more levels, ranks, spells and standing;
\* an item without any requirement is for everyone in the world.
Stronger(d, c) ==
    /\ <<d.class, d.race, d.inWorld>> = <<c.class, c.race, c.inWorld>> /\ c.spells \subseteq d.spells
    /\ c.level <= d.level
    /\ DOMAIN c.skills \subseteq DOMAIN d.skills
    /\ \A s \in DOMAIN c.skills : c.skills[s] <= d.skills[s]
    /\ \A f \in DOMAIN c.standing : c.standing[f] <= d.standing[f]
    /\ \A k \in DOMAIN c.proficient : c.proficient[k] = d.proficient[k]

UsableGrows ==
    \A i \in stats :
        /\ \A d \in Characters : Stronger(d, character) /\ ComputeCanUse(character, i) => ComputeCanUse(d, i)
        /\ /\ character.inWorld /\ Records[i].level = 0 /\ Records[i].classes = {} /\ Records[i].races = {}
           /\ Records[i].skill = "none" /\ Records[i].spell = 0 /\ Records[i].faction = 0
           /\ \A c \in Characters : c.proficient[Records[i].class] = {}
           => ComputeCanUse(character, i)

\* Arg.h's "item name (of a cached item)": the name of a cached item names it - unless it
\* begins with a number, which Arg.cpp takes for an itemID.  Of several items of one name it
\* names one.
CachedNamesResolve ==
    \A i \in stats : Records[i].name[1] = 0 =>
        \E j \in stats : Records[j].name = Records[i].name /\ Resolve(ByText(Records[i].name)).itemID = j

-----------------------------------------------------------------------------
(* What the steps keep, for the theorems (Answers).                         *)

\* Answers are awaited of items asked about and not there yet.
InfoInv == InfoTypeOK /\ awaited \subseteq queried \ stats

=============================================================================

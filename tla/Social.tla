-------------------------------- MODULE Social --------------------------------
(***************************************************************************)
(* C_FriendList (src/src/friendlist/): the friends and the ignored players *)
(* are places of the engine's social singleton, up to the first that is    *)
(* empty.  A player is named by a place, by GUID, by name or by a unit     *)
(* token; the name of a friend may come later than its place, and the      *)
(* client's name cache knows other players than the list.                  *)
(***************************************************************************)
EXTENDS Integers, Sequences, FiniteSets, SequencesExt

CONSTANTS
    Players,    \* each with one GUID and one name; case does not tell names apart
    UnitTokens,
    Classes,    \* ChrClasses.dbc: class |-> [male, female, neutral], a set of no or one name
    Areas,      \* AreaTable.dbc: area |-> its parent, 0 for a zone
    FriendNotes,\* "" clears
    MaxFriends

NoPlayer == "nil"

SocialAssumption ==
    /\ MaxFriends \in Nat /\ "" \in FriendNotes /\ NoPlayer \notin Players
    /\ \A c \in DOMAIN Classes : LET r == Classes[c] IN
        Cardinality(r.neutral) = 1 /\ \A n \in {r.male, r.female} : n = {} \/ Cardinality(n) = 1

VARIABLES
    friends,    \* the leading entries of the list: [guid, name, connected, class, area, note]
    ignored,    \* the leading entries of OFF_IGNORE_LIST
    cached,     \* the name cache: player |-> gender
    units,      \* whom each unit token names, "nil" for nobody
    wanted      \* ghost: the note the user last gave each friend

socialVars == <<friends, ignored, cached, units, wanted>>

-----------------------------------------------------------------------------
(* FriendList.h and Resolve.h.  A lookup is a set of no or one place.      *)

EntryByIndex(i) == {i} \cap DOMAIN friends

First(places) == {i \in places : \A j \in places : i <= j}

EntryByName(p) == First({i \in DOMAIN friends : friends[i].name = p})

EntryByGuid(p) == First({i \in DOMAIN friends : friends[i].guid = p})

IsGuidIgnored(p) == p \in Range(ignored)

\* By name the engine answers from the name cache only.
ResolveToken(arg) ==
    CASE arg.kind = "guid" -> {arg.of}
      [] arg.kind = "name" -> {arg.of} \cap DOMAIN cached
      [] arg.kind = "unit" -> {units[arg.of]} \ {NoPlayer}

Args == [kind : {"guid", "name"}, of : Players] \cup [kind : {"unit"}, of : UnitTokens]

-----------------------------------------------------------------------------
(* The functions.                                                          *)

\* The gender of the name cache picks the name, the other gender's if it has none.
ClassName(class, p) ==
    LET c == Classes[class]
        first == IF cached[p] = "female" THEN c.female ELSE c.male
        second == IF cached[p] = "female" THEN c.male ELSE c.female
    IN  IF p \in DOMAIN cached /\ first # {} THEN first
        ELSE IF p \in DOMAIN cached /\ second # {} THEN second ELSE c.neutral

\* One hop to the parent.
AreaName(area) ==
    IF area \notin DOMAIN Areas THEN {}
    ELSE IF Areas[area] \in DOMAIN Areas THEN {Areas[area]} ELSE {area}

FriendInfo(i) ==
    LET e == friends[i] IN
    [guid |-> e.guid, name |-> e.name, connected |-> e.connected, notes |-> e.note,
     className |-> IF e.class \in DOMAIN Classes THEN ClassName(e.class, e.guid) ELSE {},
     area |-> AreaName(e.area)]

GetNumFriends == Len(friends)

GetNumOnlineFriends == Cardinality({i \in DOMAIN friends : friends[i].connected})

GetFriendInfoByIndex(i) == {FriendInfo(j) : j \in EntryByIndex(i)}

GetFriendInfo(p) == {FriendInfo(j) : j \in EntryByName(p)}

\* Mutant: the list is asked through the resolver alone.
ResolvedFriend(arg) == \E p \in ResolveToken(arg) : EntryByGuid(p) # {}

\* A name is compared with the list's first.
IsFriend(arg) ==
    \/ arg.kind = "name" /\ EntryByName(arg.of) # {}
    \/ \E p \in ResolveToken(arg) : EntryByGuid(p) # {}

IsIgnored(arg) == \E p \in ResolveToken(arg) : IsGuidIgnored(p)

\* The engine's setter goes by GUID, not by the place it was found at.
Apply(place, note) ==
    /\ friends' = [i \in DOMAIN friends |->
        IF \E j \in place : friends[j].guid = friends[i].guid
          THEN [friends[i] EXCEPT !.note = note] ELSE friends[i]]
    /\ UNCHANGED <<ignored, cached, units>>

SetFriendNotes(p, note) ==
    /\ Apply(EntryByName(p), note)
    /\ wanted' = IF EntryByName(p) # {} THEN [wanted EXCEPT ![p] = note] ELSE wanted

SetFriendNotesByIndex(i, note) ==
    /\ Apply(EntryByIndex(i), note)
    /\ wanted' = IF EntryByIndex(i) # {} THEN [wanted EXCEPT ![friends[i].guid] = note] ELSE wanted

-----------------------------------------------------------------------------
(* The engine and the server.                                              *)

SocialInit ==
    /\ friends = <<>> /\ ignored = <<>> /\ cached = <<>>
    /\ units = [t \in UnitTokens |-> NoPlayer]
    /\ wanted = [p \in Players |-> ""]

\* A new entry may come before its name, which the name cache need not know either.
FriendAdded(p, name) ==
    /\ EntryByGuid(p) = {} /\ Len(friends) < MaxFriends
    /\ p \in DOMAIN cached => name = p
    /\ friends' = Append(friends,
        [guid |-> p, name |-> name,
         connected |-> FALSE, class |-> 0, area |-> 0, note |-> ""])
    /\ wanted' = [wanted EXCEPT ![p] = ""]
    /\ UNCHANGED <<ignored, cached, units>>

FriendRemoved(i) ==
    /\ friends' = RemoveAt(friends, i)
    /\ UNCHANGED <<ignored, cached, units, wanted>>

\* Online friends have a class and an area; the list is sorted anew.
StatusChanged(i, class, area) ==
    LET e == [friends[i] EXCEPT !.connected = (class # 0), !.class = class, !.area = area] IN
    /\ friends' = IF class # 0 THEN <<e>> \o RemoveAt(friends, i) ELSE Append(RemoveAt(friends, i), e)
    /\ UNCHANGED <<ignored, cached, units, wanted>>

NameLearned(p, gender) ==
    /\ p \notin DOMAIN cached
    /\ cached' = [q \in DOMAIN cached \cup {p} |-> IF q = p THEN gender ELSE cached[q]]
    /\ friends' = [i \in DOMAIN friends |->
        IF friends[i].guid = p THEN [friends[i] EXCEPT !.name = p] ELSE friends[i]]
    /\ UNCHANGED <<ignored, units, wanted>>

IgnoreToggled(p) ==
    /\ IF IsGuidIgnored(p)
         THEN \E i \in DOMAIN ignored : ignored[i] = p /\ ignored' = RemoveAt(ignored, i)
         ELSE ignored' = Append(ignored, p)
    /\ UNCHANGED <<friends, cached, units, wanted>>

\* A unit in view is a player the client knows.
UnitChanged(t, p) ==
    /\ p \in DOMAIN cached \cup {NoPlayer}
    /\ units' = [units EXCEPT ![t] = p]
    /\ UNCHANGED <<friends, ignored, cached, wanted>>

SocialNext ==
    \/ \E p \in Players : FriendAdded(p, p) \/ FriendAdded(p, NoPlayer) \/ IgnoreToggled(p)
    \/ \E i \in DOMAIN friends : FriendRemoved(i)
    \/ \E i \in DOMAIN friends, a \in DOMAIN Areas, c \in DOMAIN Classes :
        StatusChanged(i, c, a) \/ StatusChanged(i, 0, 0)
    \/ \E p \in Players, g \in {"male", "female"} : NameLearned(p, g)
    \/ \E t \in UnitTokens, p \in Players \cup {NoPlayer} : UnitChanged(t, p)
    \/ \E p \in Players, n \in FriendNotes : SetFriendNotes(p, n)
    \/ \E i \in 0..MaxFriends + 1, n \in FriendNotes : SetFriendNotesByIndex(i, n)

Entries ==
    [guid : Players, name : Players \cup {NoPlayer}, connected : BOOLEAN,
     class : DOMAIN Classes \cup {0}, area : DOMAIN Areas \cup {0}, note : FriendNotes]

SocialTypeOK ==
    /\ friends \in Seq(Entries) /\ Len(friends) <= MaxFriends
    /\ ignored \in Seq(Players) /\ DOMAIN cached \subseteq Players
    /\ units \in [UnitTokens -> Players \cup {NoPlayer}] /\ wanted \in [Players -> FriendNotes]

-----------------------------------------------------------------------------
(* Properties.                                                             *)

\* However a player is named, the answer is the same: a friend is one by place, by GUID, by
\* a unit token and by a name that the list or the client knows; an ignored player likewise,
\* but by a name only if the client knows it.  The note a friend shows is the one the user
\* last gave that friend, wherever the list has moved it since.
FriendsAgree ==
    /\ GetNumOnlineFriends <= GetNumFriends
    /\ \A i \in 0..MaxFriends + 1 :
        /\ i \in 1..GetNumFriends <=> GetFriendInfoByIndex(i) # {}
        /\ \A d \in GetFriendInfoByIndex(i) :
            /\ IsFriend([kind |-> "guid", of |-> d.guid])
            /\ d.name # NoPlayer => GetFriendInfo(d.name) = {d}
            /\ d.notes = wanted[d.guid]
            /\ d.connected => Cardinality(d.className) = 1 /\ d.area # {}
    /\ \A p \in Players :
        LET listed == \E i \in DOMAIN friends : friends[i].guid = p
            known == p \in DOMAIN cached \/ GetFriendInfo(p) # {}
        IN  /\ IsFriend([kind |-> "guid", of |-> p]) = listed
            /\ IsFriend([kind |-> "name", of |-> p]) = (listed /\ known)
            /\ IsIgnored([kind |-> "name", of |-> p]) = (IsGuidIgnored(p) /\ p \in DOMAIN cached)
    /\ \A t \in UnitTokens : LET who == {units[t]} \ {NoPlayer} IN
        /\ IsFriend([kind |-> "unit", of |-> t]) = \E p \in who : IsFriend([kind |-> "guid", of |-> p])
        /\ IsIgnored([kind |-> "unit", of |-> t]) = \E p \in who : IsGuidIgnored(p)

-----------------------------------------------------------------------------
(* What the steps keep, for the theorems (Queries).                         *)

\* What an entry of the list says is so.
EntryOK(e) ==
    /\ e.name \in {NoPlayer, e.guid} /\ (e.guid \in DOMAIN cached => e.name = e.guid)
    /\ e.note = wanted[e.guid]
    /\ e.connected => e.class \in DOMAIN Classes /\ e.area \in DOMAIN Areas

\* A friend is listed once, with the name and the note there are.
FriendsInv ==
    /\ SocialTypeOK
    /\ \A i, j \in DOMAIN friends : friends[i].guid = friends[j].guid => i = j
    /\ \A i \in DOMAIN friends : EntryOK(friends[i])

=============================================================================

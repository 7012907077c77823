------------------------ MODULE IncomingResurrection ------------------------
(***************************************************************************)
(* src/src/unit/IncomingResurrection.cpp: the resurrections being cast,    *)
(* known from SMSG_SPELL_START, _GO and _FAILURE, which the server sends   *)
(* of the casters in view only; OnFrame ends those whose caster has left.  *)
(* UnitHasIncomingResurrection answers for a unit and for its corpse.  The *)
(* entries are looked up by caster and cast and counted by none, so they   *)
(* are a set here; their order shows nowhere.                              *)
(***************************************************************************)
EXTENDS DataStore

CONSTANTS
    Player, Casters,
    Units, Corpses, Owner,  \* whose corpse each corpse is
    Resurrects,             \* the spells with effect 18 or 113
    BackWithinAFrame,       \* a caster may leave view and be back with no
                            \* frame between
    CorpsesMove             \* a corpse may come into view, or leave it, while
                            \* a resurrection is cast at it

\* Assumed of the constants by the module that composes this one.
ResurrectionAssumption ==
    /\ Player \in Casters
    /\ Owner \in [Corpses -> Units]
    /\ Units \cap Corpses = {}
    /\ 0 \notin Casters \cup Units \cup Corpses          \* no object has GUID 0
    /\ BackWithinAFrame \in BOOLEAN /\ CorpsesMove \in BOOLEAN

VARIABLES
    entries,        \* g_entries
    inView,         \* casters the client has as objects
    left,           \* those that left view since the last frame
    corpses,        \* corpses the client has as objects
    casting,        \* the server's casts in progress, by caster
    told            \* ghost: the answer each unit had when
                    \* INCOMING_RESURRECT_CHANGED last named it

rezVars == <<entries, inView, left, corpses, told>>

Guids == Units \cup Corpses

ResurrectionTypeOK ==
    /\ entries \subseteq [target: Guids, unit: Guids, caster: Casters,
                          castCount: Nat, spellID: Resurrects]
    /\ \A e, f \in entries : e.caster = f.caster => e = f
    /\ Player \in inView /\ inView \subseteq Casters
    /\ left \subseteq Casters
    /\ corpses \subseteq Corpses
    /\ told \in [Units -> BOOLEAN]

Init ==
    /\ entries = {}
    /\ inView = Casters
    /\ left = {}
    /\ corpses = Corpses
    /\ told = [u \in Units |-> FALSE]

-----------------------------------------------------------------------------
(* What UnitHasIncomingResurrection answers with the given entries.        *)

CorpseOwner(guid) == IF guid \in corpses THEN Owner[guid] ELSE 0

CorpseByOwner(u) == {k \in corpses : Owner[k] = u}

Targeted(list, guid) == \E e \in list : e.target = guid

HasIncomingResurrection(list, u) ==
    Targeted(list, u) \/ \E k \in CorpseByOwner(u) : Targeted(list, k)

-----------------------------------------------------------------------------

UnitsOf(some) == {e.unit : e \in some}

EntriesOf(caster) == {e \in entries : e.caster = caster}

EntriesOfCast(caster, castCount, spellID) ==
    {e \in EntriesOf(caster) : e.castCount = castCount /\ e.spellID = spellID}

\* Signal: handlers of INCOMING_RESURRECT_CHANGED ask for the new value.
Signal(units, list) ==
    told' = [u \in Units |->
               IF u \in units THEN HasIncomingResurrection(list, u) ELSE told[u]]

EndWhere(ended) ==
    /\ entries' = entries \ ended
    /\ Signal(UnitsOf(ended), entries \ ended)

End(caster, castCount, spellID) ==
    EndWhere(EntriesOfCast(caster, castCount, spellID))

\* Mutant: the corpse itself is signalled, not its owner.
BeginAtTarget(target, caster, castCount, spellID) ==
    LET entry == [target |-> target, unit |-> target, caster |-> caster,
                  castCount |-> castCount, spellID |-> spellID]
    IN  /\ entries' = (entries \ EntriesOf(caster)) \cup {entry}
        /\ Signal(UnitsOf(EntriesOf(caster)) \cup {target}, entries')

Begin(target, caster, castCount, spellID) ==
    LET owner == CorpseOwner(target)
        unit == IF owner # 0 THEN owner ELSE target
        entry == [target |-> target, unit |-> unit, caster |-> caster,
                  castCount |-> castCount, spellID |-> spellID]
    IN  IF \E e \in EntriesOfCast(caster, castCount, spellID) : e.target = target
          THEN UNCHANGED <<entries, told>>
          ELSE /\ entries' = (entries \ EntriesOf(caster)) \cup {entry}
               /\ Signal(UnitsOf(EntriesOf(caster)) \cup {unit}, entries')

\* The read of SMSG_SPELL_START and SMSG_SPELL_GO.
OnSpellCastPacket(msgId, msg, cursor) ==
    LET caster == Read(msg, cursor, 2)
        castCount == Read(msg, cursor, 3)
        spellID == Read(msg, cursor, 4)
        hasTarget == Read(msg, cursor, 7) # 0
        target == Read(msg, cursor, 8)
    IN  IF msgId = "go"
          THEN End(caster, castCount, spellID)
        ELSE IF \/ Overrun(msg, cursor, IF hasTarget THEN 8 ELSE 7)
                \/ caster = 0 \/ ~hasTarget \/ target = 0
                \/ spellID \notin Resurrects
          THEN UNCHANGED <<entries, told>>
        ELSE Begin(target, caster, castCount, spellID)

\* The read of SMSG_SPELL_FAILURE.
OnSpellFailurePacket(msg, cursor) ==
    End(Read(msg, cursor, 1), Read(msg, cursor, 2), Read(msg, cursor, 3))

\* OnFrame: the casts of those out of view end.
OnFrame ==
    /\ EndWhere({e \in entries : e.caster \notin inView})
    /\ left' = {}
    /\ UNCHANGED <<inView, corpses>>

-----------------------------------------------------------------------------
(* The world.                                                              *)

LeaveView(c) ==
    /\ c \in inView \ {Player}
    /\ inView' = inView \ {c}
    /\ left' = left \cup {c}
    /\ UNCHANGED <<entries, corpses, told>>

EnterView(c) ==
    /\ c \in Casters \ inView
    /\ c \in left => BackWithinAFrame
    /\ inView' = inView \cup {c}
    /\ UNCHANGED <<entries, left, corpses, told>>

CastAt(guid) == \E c \in Casters : \E x \in casting[c] : x.target = guid

\* A corpse is created or destroyed, or comes and goes with the distance.
CorpseChanges(k) ==
    /\ CastAt(k) \/ Targeted(entries, k) => CorpsesMove
    /\ corpses' = IF k \in corpses THEN corpses \ {k} ELSE corpses \cup {k}
    /\ UNCHANGED <<entries, inView, left, told>>

-----------------------------------------------------------------------------
(* Properties.                                                             *)

Seen(c) == {x \in casting[c] : x.seen /\ x.spell \in Resurrects}

SameCast(e, c, x) ==
    /\ e.caster = c /\ e.target = x.target
    /\ e.castCount = x.count /\ e.spellID = x.spell

\* "Returns true while somebody casts a resurrection spell at unit" and "false
\* when the cast stops, for any reason" (docs/API.md): of a caster in view, the
\* entry is the resurrection it is casting, if the client has seen it begin.
ShowsTheCasts ==
    \A c \in inView \ left :
       /\ \A e \in EntriesOf(c) : \E x \in Seen(c) : SameCast(e, c, x)
       /\ \A x \in Seen(c) : \E e \in EntriesOf(c) : SameCast(e, c, x)

\* "INCOMING_RESURRECT_CHANGED fires at each change" (docs/API.md): the answer
\* for a unit is the one it had when the event last named it.
ToldOfEachChange ==
    \A u \in Units : told[u] = HasIncomingResurrection(entries, u)

-----------------------------------------------------------------------------
(* What the two rest on: each entry is of a caster that is in view, or has  *)
(* just left, and names the unit its target stands for; the casts of those  *)
(* out of view have not been seen.                                          *)

UnitOf(guid) == IF guid \in Corpses THEN Owner[guid] ELSE guid

EntriesKnown ==
    \A e \in entries :
       /\ e.caster \in inView \cup left
       /\ e.unit = UnitOf(e.target)
       /\ e.target \in Corpses => e.target \in corpses

UnseenOutOfView == \A c \in Casters \ inView : \A x \in casting[c] : ~x.seen

ResurrectionInv ==
    /\ inView \cap left = {}
    /\ EntriesKnown /\ UnseenOutOfView
    /\ ShowsTheCasts /\ ToldOfEachChange
=============================================================================

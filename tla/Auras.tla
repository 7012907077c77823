-------------------------------- MODULE Auras --------------------------------
(***************************************************************************)
(* C_UnitAuras (src/src/aura/Data.cpp, aura/Api.cpp): the auras of one     *)
(* unit by index, by spell, all at once and in batches of slots.  The      *)
(* entries stand in the unit until there are too many, then in an array    *)
(* beside it; a slot is a place of the array, and the server fills and     *)
(* empties places while an add-on stands between two batches.              *)
(***************************************************************************)
EXTENDS Integers, Sequences, FiniteSets, FiniteSetsExt

CONSTANTS
    SpellDbc,   \* Spell.dbc: spell |-> [hidden, noIcon, effects], effects in Tracking or not
    Tracking,   \* the aura names of tracked and stalked units
    AuraEntries,\* what the server may put in a place: [spell, harmful, effective, caster]
    InlineSize  \* entries that fit in the unit

AurasAssumption ==
    /\ InlineSize \in Nat \ {0}
    /\ \A e \in AuraEntries : e.spell \in Nat /\ {e.harmful, e.effective} \subseteq BOOLEAN

VARIABLES
    inView,     \* the token names a unit
    inlineCount,\* OFF_CGUNIT_AURA_INLINE_COUNT, -1 once the entries are beside the unit
    inlined,    \* the entries in the unit, which stay as they were after the move
    overflow,   \* OFF_CGUNIT_AURA_OVERFLOW_BASE_PTR and COUNT
    scan        \* ghost: an add-on's scan with GetAuraSlots

auraVars == <<inView, inlineCount, inlined, overflow, scan>>

EmptyEntry == [spell |-> 0, harmful |-> FALSE, effective |-> FALSE, caster |-> "nil"]
NoScan == [on |-> FALSE]
Filters == {"HELPFUL", "HARMFUL"}

\* A set of slots in the order the loops meet them, and a sequence's first n.
Ascending(S) ==
    [i \in 1..Cardinality(S) |-> CHOOSE x \in S : Cardinality({y \in S : y < x}) = i - 1]
Take(s, n) == [i \in 1..n |-> s[i]]

-----------------------------------------------------------------------------
(* Data.cpp.                                                               *)

SlotCount == IF ~inView THEN 0
             ELSE IF inlineCount # -1 THEN inlineCount ELSE Len(overflow)

EntryAt(slot) == IF inlineCount # -1 THEN inlined[slot + 1] ELSE overflow[slot + 1]

Slots == 0..SlotCount - 1

IsLiveSlot(e) == e.spell # 0 /\ e.effective

MatchesFilter(e, filter) == e.harmful = (filter = "HARMFUL")

\* Neither an attribute hides the spell nor are all its effects tracking; without a
\* record it is hidden.
IsVisible(spell) ==
    /\ spell \in DOMAIN SpellDbc
    /\ ~SpellDbc[spell].hidden /\ ~SpellDbc[spell].noIcon
    /\ LET effects == SpellDbc[spell].effects IN
        effects = {} \/ ~(effects \subseteq Tracking)

\* The slots the loops of the getters accept.
Matching(filter, hidden) ==
    {s \in Slots : LET e == EntryAt(s) IN
        IsLiveSlot(e) /\ MatchesFilter(e, filter) /\ (hidden \/ IsVisible(e.spell))}

FindNthSlot(n, filter, hidden) ==
    {s \in Matching(filter, hidden) :
        Cardinality({t \in Matching(filter, hidden) : t <= s}) = n}

NextSlot(from, filter, hidden) ==
    LET rest == {s \in Matching(filter, hidden) : s >= from}
    IN  IF rest = {} THEN -1 ELSE Min(rest)

\* A set of no filter at all, or of one.
FindSlotBySpellID(spell, filters) ==
    LET found == {s \in Slots : LET e == EntryAt(s) IN
                    IsLiveSlot(e) /\ e.spell = spell /\ \A f \in filters : MatchesFilter(e, f)}
    IN  IF found = {} THEN {} ELSE {Min(found)}

ResolveAura(slot) ==
    LET e == EntryAt(slot) IN
    [slot |-> slot, spellId |-> e.spell, isHelpful |-> ~e.harmful, sourceUnit |-> e.caster,
     named |-> e.spell \in DOMAIN SpellDbc,
     isFromPlayerOrPlayerPet |-> e.caster \in {"player", "pet"}]

PushBySlot(slot) ==
    IF slot \in Slots /\ IsLiveSlot(EntryAt(slot)) THEN {ResolveAura(slot)} ELSE {}

-----------------------------------------------------------------------------
(* Api.cpp.  An answer is a set: empty for nil.                            *)

GetAuraDataByIndex(n, filter, hidden) == {ResolveAura(s) : s \in FindNthSlot(n, filter, hidden)}

GetUnitAuraBySpellID(spell, filters) == {ResolveAura(s) : s \in FindSlotBySpellID(spell, filters)}

\* Mutant: the batch resumes after the first slot it left out.
ResumesPast(filter, hidden, maxSlots, token) ==
    LET first == IF token > 0 THEN token ELSE 0
        left == Ascending({s \in Matching(filter, hidden) : s >= first})
        n == IF maxSlots > 0 /\ Len(left) > maxSlots THEN maxSlots ELSE Len(left)
    IN  [slots |-> Take(left, n), token |-> IF n < Len(left) THEN left[n + 1] + 1 ELSE 0]

\* The token is the slot to resume at, plus one; 0 stands for nil.
GetAuraSlots(filter, hidden, maxSlots, token) ==
    LET first == IF token > 0 THEN token - 1 ELSE 0
        left == Ascending({s \in Matching(filter, hidden) : s >= first})
        n == IF maxSlots > 0 /\ Len(left) > maxSlots THEN maxSlots ELSE Len(left)
    IN  [slots |-> Take(left, n), token |-> IF n < Len(left) THEN left[n + 1] + 1 ELSE 0]

\* No filter means both kinds.
GetUnitAuras(filters, hidden) ==
    LET shown == {s \in Slots : LET e == EntryAt(s) IN
            /\ IsLiveSlot(e) /\ \A f \in filters : e.harmful = (f = "HARMFUL")
            /\ hidden \/ IsVisible(e.spell)}
        order == Ascending(shown)
    IN  [i \in DOMAIN order |-> ResolveAura(order[i])]

-----------------------------------------------------------------------------
(* A scan: the first batch, then one for each token, with any of the       *)
(* server's updates between.                                               *)

Collects(filter, hidden, maxSlots, token, found, steady) ==
    LET batch == GetAuraSlots(filter, hidden, maxSlots, token)
    IN  scan' = [on |-> TRUE, filter |-> filter, hidden |-> hidden, max |-> maxSlots,
                 token |-> batch.token, found |-> found \o batch.slots, steady |-> steady]

ScanStarts(filter, hidden, maxSlots) ==
    /\ ~scan.on
    /\ Collects(filter, hidden, maxSlots, 0, <<>>, Matching(filter, hidden))
    /\ UNCHANGED <<inView, inlineCount, inlined, overflow>>

ScanContinues ==
    /\ scan.on /\ scan.token # 0
    /\ Collects(scan.filter, scan.hidden, scan.max, scan.token, scan.found, scan.steady)
    /\ UNCHANGED <<inView, inlineCount, inlined, overflow>>

ScanEnds ==
    /\ scan.on /\ scan.token = 0
    /\ scan' = NoScan
    /\ UNCHANGED <<inView, inlineCount, inlined, overflow>>

\* The engine: an entry is written to a place, the entries move when the unit is full,
\* and a unit leaves the view or comes back with other auras.
Forgets(slots) == scan' = IF scan.on THEN [scan EXCEPT !.steady = @ \ slots] ELSE scan

AuraUpdated(slot, e) ==
    /\ slot \in Slots
    /\ IF inlineCount # -1
         THEN inlined' = [inlined EXCEPT ![slot + 1] = e] /\ UNCHANGED overflow
         ELSE overflow' = [overflow EXCEPT ![slot + 1] = e] /\ UNCHANGED inlined
    /\ Forgets({slot})
    /\ UNCHANGED <<inView, inlineCount>>

AuraAdded(e) ==
    /\ inView /\ SlotCount <= InlineSize
    /\ IF SlotCount < InlineSize
         THEN /\ inlineCount' = inlineCount + 1
              /\ inlined' = [inlined EXCEPT ![inlineCount + 1] = e]
              /\ UNCHANGED overflow
         ELSE /\ inlineCount' = -1
              /\ overflow' = (IF inlineCount # -1 THEN inlined ELSE overflow) \o <<e>>
              /\ UNCHANGED inlined
    /\ UNCHANGED <<inView, scan>>

LeavesView ==
    /\ inView
    /\ inView' = FALSE
    /\ Forgets(Slots)
    /\ UNCHANGED <<inlineCount, inlined, overflow>>

ComesBack ==
    /\ ~inView
    /\ inView' = TRUE
    /\ inlineCount' = 0 /\ overflow' = <<>>
    /\ UNCHANGED <<inlined, scan>>

AurasInit ==
    /\ inView = TRUE /\ inlineCount = 0 /\ overflow = <<>>
    /\ inlined = [i \in 1..InlineSize |-> EmptyEntry]
    /\ scan = NoScan

AurasNext ==
    \/ \E f \in Filters, h \in BOOLEAN, n \in 0..1 : ScanStarts(f, h, n)
    \/ ScanContinues \/ ScanEnds
    \/ \E s \in Slots, e \in AuraEntries \cup {EmptyEntry} : AuraUpdated(s, e)
    \/ \E e \in AuraEntries : AuraAdded(e)
    \/ LeavesView \/ ComesBack

AurasTypeOK ==
    /\ inView \in BOOLEAN /\ inlineCount \in -1..InlineSize
    /\ inlined \in [1..InlineSize -> AuraEntries \cup {EmptyEntry}]
    /\ overflow \in Seq(AuraEntries \cup {EmptyEntry}) /\ Len(overflow) <= InlineSize + 1

-----------------------------------------------------------------------------
(* Properties.                                                             *)

\* The getters show the same auras in the same order: the n-th by index, the n-th slot of
\* the batches and the n-th of the whole table; no filter shows both kinds; what is hidden
\* is found by its spell all the same, and a spell of an aura shown is found.
AurasAgree ==
    /\ \A f \in Filters, h \in BOOLEAN :
        LET whole == GetUnitAuras({f}, h)
            slots == GetAuraSlots(f, h, 0, 0).slots
        IN  /\ Len(slots) = Len(whole)
            /\ \A n \in 1..Len(whole) + 1 :
                GetAuraDataByIndex(n, f, h) =
                    IF n \in DOMAIN whole THEN {whole[n]} \cap PushBySlot(slots[n]) ELSE {}
            /\ \A d \in Range(whole) :
                /\ h \/ d.named
                /\ \E d2 \in GetUnitAuraBySpellID(d.spellId, {f}) : d2.slot <= d.slot
                /\ GetUnitAuraBySpellID(d.spellId, {}) # {}
    /\ \A h \in BOOLEAN : Len(GetUnitAuras({}, h)) =
        Len(GetUnitAuras({"HELPFUL"}, h)) + Len(GetUnitAuras({"HARMFUL"}, h))

\* A scan in batches meets, once, each aura that was there from its first batch to its
\* last, whatever comes and goes between two batches; a slot that it met is met only once,
\* and asking for it later gives nil or an aura.
ScanMissesNothing ==
    scan.on =>
        /\ IsInjective(scan.found)
        /\ scan.token = 0 => scan.steady \subseteq Range(scan.found)
        /\ \A s \in Range(scan.found) : \A d \in PushBySlot(s) : d.spellId # 0

-----------------------------------------------------------------------------
(* What the steps keep, for the theorems (Queries).                         *)

\* What a slot may hold.
Entries == AuraEntries \cup {EmptyEntry}

\* Where a scan goes on, and what it has met.
ScanInv ==
    scan.on =>
        /\ scan.filter \in Filters /\ scan.hidden \in BOOLEAN /\ scan.max \in 0..1
        /\ scan.token \in Nat /\ scan.found \in Seq(Nat)
        /\ \A i, j \in DOMAIN scan.found : i < j => scan.found[i] < scan.found[j]
        /\ scan.token # 0 => \A i \in DOMAIN scan.found : scan.found[i] < scan.token - 1
        /\ scan.steady \subseteq Matching(scan.filter, scan.hidden)
        /\ \A s \in scan.steady : (scan.token = 0 \/ s < scan.token - 1) => s \in Range(scan.found)

\* The entries in their block, and where a scan is.
AurasInv ==
    /\ AurasTypeOK
    /\ inlineCount = -1 => Len(overflow) = InlineSize + 1
    /\ scan \in [on : {FALSE}] \cup
                [on : {TRUE}, filter : Filters, hidden : BOOLEAN, max : 0..1, token : Nat,
                 found : Seq(Nat), steady : SUBSET Nat]
    /\ ScanInv

\* The slots a whole table shows.
Shown(filters, hidden) ==
    {s \in Slots : LET e == EntryAt(s) IN
        /\ IsLiveSlot(e) /\ \A f \in filters : e.harmful = (f = "HARMFUL")
        /\ hidden \/ IsVisible(e.spell)}

=============================================================================

------------------------------- MODULE Notices -------------------------------
(***************************************************************************)
(* Two events behind an engine hook: WEAPON_SLOT_CHANGED, marked in        *)
(* InventoryUpdate_h and fired by the next frame that can                  *)
(* (src/src/player/WeaponSlot.cpp), and QUEST_TURNED_IN, fired in          *)
(* QuestComplete_h (quest/TurnedIn.cpp).                                   *)
(***************************************************************************)
EXTENDS Integers, Sequences

CONSTANTS
    InventorySlots,     \* 16 main hand, 17 off hand, 18 ranged, others
    RelicClasses,       \* the classes whose ranged slot holds a relic
    PlayerClasses,
    MaxNotices          \* bound: changes and completions counted

NoticesAssumption == RelicClasses \subseteq PlayerClasses /\ MaxNotices \in Nat

VARIABLES
    class,      \* VAR_LOCAL_PLAYER_CLASS_BYTE
    registered, \* the engine's event table has the two events
    weaponDirty,\* g_weaponDirty
    unheard,    \* ghost: a weapon has changed since the last WEAPON_SLOT_CHANGED
    completion, \* the passes of a completion still to be processed
    completed, turnedIn \* ghosts: completions, and QUEST_TURNED_IN events

noticeVars == <<class, registered, weaponDirty, unheard, completion, completed, turnedIn>>

IsWeapon(slot, c) == slot \in {16, 17} \/ (slot = 18 /\ c \notin RelicClasses)

PlayerHasRelicSlot == class \in RelicClasses

IsWeaponSlot(slot) == slot \in {16, 17} \/ (slot = 18 /\ ~PlayerHasRelicSlot)

InventoryUpdate(slot) ==
    /\ weaponDirty' = (weaponDirty \/ IsWeaponSlot(slot))
    /\ unheard' = (unheard \/ IsWeapon(slot, class))
    /\ UNCHANGED <<class, registered, completion, completed, turnedIn>>

\* Mutant: the mark is cleared before the event is looked up.
ClearsFirst ==
    /\ weaponDirty
    /\ weaponDirty' = FALSE
    /\ unheard' = (unheard /\ ~registered)
    /\ UNCHANGED <<class, registered, completion, completed, turnedIn>>

WeaponTick ==
    /\ weaponDirty /\ registered
    /\ weaponDirty' = FALSE /\ unheard' = FALSE
    /\ UNCHANGED <<class, registered, completion, completed, turnedIn>>

\* The engine processes a completion twice, with and without granting the reward.
QuestCompletes(questID, reward) ==
    /\ completion = <<>> /\ registered
    /\ completed < MaxNotices
    /\ completion' = <<[quest |-> questID, reward |-> reward, process |-> 0],
                       [quest |-> questID, reward |-> reward, process |-> 1]>>
    /\ completed' = IF questID # 0 /\ reward THEN completed + 1 ELSE completed
    /\ UNCHANGED <<class, registered, weaponDirty, unheard, turnedIn>>

QuestComplete ==
    /\ completion # <<>>
    /\ LET pass == completion[1] IN
        turnedIn' = IF pass.process # 0 /\ pass.reward /\ pass.quest # 0 THEN turnedIn + 1 ELSE turnedIn
    /\ completion' = IF completion[1].process = 0 THEN <<completion[2]>> ELSE <<>>
    /\ UNCHANGED <<class, registered, weaponDirty, unheard, completed>>

\* The UI is built for a character, or goes; the mark stays.
UIBuilt(c) ==
    /\ completion = <<>> /\ ~registered
    /\ registered' = TRUE /\ class' = c
    /\ UNCHANGED <<weaponDirty, unheard, completion, completed, turnedIn>>

UIGoes ==
    /\ completion = <<>> /\ registered
    /\ registered' = FALSE
    /\ UNCHANGED <<class, weaponDirty, unheard, completion, completed, turnedIn>>

NoticesInit ==
    /\ class \in PlayerClasses /\ registered = FALSE /\ weaponDirty = FALSE /\ unheard = FALSE
    /\ completion = <<>> /\ completed = 0 /\ turnedIn = 0

NoticesNext ==
    \/ \E s \in InventorySlots : InventoryUpdate(s)
    \/ WeaponTick \/ QuestComplete \/ UIGoes
    \/ \E q \in 0..1, r \in BOOLEAN : QuestCompletes(q, r)
    \/ \E c \in PlayerClasses : UIBuilt(c)

\* No change of a weapon goes unheard for want of the event, no change of a relic is heard
\* of, and each completion with a reward is heard of once.
NoticesKept ==
    /\ weaponDirty = unheard
    /\ completion = <<>> => turnedIn = completed

\* A completion's pass, and what the steps keep: a completion with a reward is one ahead of
\* its event until its second pass.
Pass(q, r, p) == [quest |-> q, reward |-> r, process |-> p]
NoticesInv ==
    /\ weaponDirty \in BOOLEAN /\ unheard \in BOOLEAN /\ weaponDirty = unheard
    /\ completed \in Int /\ turnedIn \in Int
    /\ completion = <<>> => turnedIn = completed
    /\ completion # <<>> => \E q \in 0..1, r \in BOOLEAN :
        /\ completion \in {<<Pass(q, r, 0), Pass(q, r, 1)>>, <<Pass(q, r, 1)>>}
        /\ completed = turnedIn + (IF q # 0 /\ r THEN 1 ELSE 0)
=============================================================================

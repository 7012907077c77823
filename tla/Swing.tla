-------------------------------- MODULE Swing --------------------------------
(***************************************************************************)
(* src/src/combat/Swing.cpp: the player's three swing timers, kept by the  *)
(* client as the tick each ends at and derived from packets alone, and the *)
(* PLAYER_SWING events.  The server counts its own timers down and stops   *)
(* the melee ones during a cast that leaves auto-attacks alone; its rules  *)
(* are those the head of the file gives, and its packets arrive at once.   *)
(***************************************************************************)
EXTENDS DataStore

CONSTANTS
    Player,
    Flags,              \* ReadSpellFlags of each spell
    AttackTimeMs,       \* hasted swing time of each type, in ticks
    UnhastedDelayMs,    \* the weapon's own delay, of each hand
    Ticks, Starts,      \* modulus of GetTickCount; its values at first
    MaxTime,            \* bound: ticks of a behaviour
    WeaponSets,         \* bound: the equipment considered
    ActsWhilePaused     \* parries and attack starts come during such a cast

MAIN_HAND == "main"
OFF_HAND == "off"
RANGED == "ranged"
Hands == {MAIN_HAND, OFF_HAND}
SwingTypes == Hands \cup {RANGED}

kAttackDisplayDelayMs == 1      \* one tick is 200 ms
SMSG_SPELL_START == "start"
SMSG_SPELL_GO == "go"

\* Assumed of the constants by the module that composes this one.
SwingAssumption ==
    /\ AttackTimeMs \in [SwingTypes -> Nat \ {0}]
    /\ UnhastedDelayMs \in [Hands -> Nat \ {0}]
    /\ \A h \in Hands : UnhastedDelayMs[h] % 5 = 0    \* a fifth is exact
    /\ Ticks \in Nat /\ Starts \subseteq 0..(Ticks - 1)
    /\ MaxTime \in Nat /\ MaxTime < Ticks \div 2
    \* No swing takes half of GetTickCount's range, 24 days.
    /\ \A t \in SwingTypes : AttackTimeMs[t] < Ticks \div 2
    /\ AttackTimeMs[MAIN_HAND] + AttackTimeMs[MAIN_HAND] \div 2 < Ticks \div 2
    /\ \A w \in WeaponSets : w \subseteq SwingTypes /\ MAIN_HAND \in w
    /\ ActsWhilePaused \in BOOLEAN

VARIABLES
    start, uptime,      \* GetTickCount at first, and since
    weapons,            \* the types HasWeapon says apply
    swing,              \* g_swing
    cast,               \* g_cast
    casting,            \* the server's casts in progress, by caster
    timers,             \* the server's timers
    shown               \* ghost: the tick the last PLAYER_SWING of each type
                        \* told a bar to end at

swingVars == <<start, uptime, weapons, swing, cast, timers, shown>>

\* The equipment, which swing types apply.
HasWeapon(type) == type \in weapons

GetTickCount == (start + uptime) % Ticks

NotPaused == [h \in Hands |-> 0]
NoCast == [valid |-> FALSE, castCount |-> 0, spellID |-> 0, castTimeMs |-> 0,
           pauses |-> FALSE, pausedLeft |-> NotPaused]

Lefts == 0..(Ticks \div 2)
States == [SwingTypes -> [endMs: 0..(Ticks - 1), active: BOOLEAN, dirty: BOOLEAN]]
CastRecords == [valid: BOOLEAN, castCount: Nat, spellID: DOMAIN Flags \cup {0},
                castTimeMs: Nat, pauses: BOOLEAN, pausedLeft: [Hands -> Lefts]]

SwingTypeOK ==
    /\ start \in Starts /\ uptime \in 0..MaxTime
    /\ weapons \in WeaponSets
    /\ swing \in States
    /\ cast \in CastRecords
    /\ timers \in [SwingTypes -> Lefts]
    /\ shown \in [SwingTypes -> -1..(Ticks - 1)]

\* A session that has had no swing yet on a machine just started, or one whose
\* timers ran out as it was a few ticks before GetTickCount wraps.
Init ==
    /\ start \in Starts /\ uptime = 0
    /\ weapons \in WeaponSets
    /\ swing = [t \in SwingTypes |->
                  [endMs |-> start, active |-> start # 0, dirty |-> FALSE]]
    /\ cast = NoCast
    /\ timers = [t \in SwingTypes |-> 0]
    /\ shown = [t \in SwingTypes |-> -1]

-----------------------------------------------------------------------------
(* The timers: each operator takes and gives a value of g_swing.           *)

\* Mutant: the difference is left unsigned.
UnsignedRemaining(s, type) == (s[type].endMs - GetTickCount) % Ticks

\* Remaining: positive as a signed difference.
Remaining(s, type) ==
    LET delta == (s[type].endMs - GetTickCount) % Ticks
    IN  IF delta < Ticks \div 2 THEN delta ELSE 0

\* Mutant: a timer that is running already is taken to be shown.
DirtyWhenIdle(s, type, left) ==
    IF ~HasWeapon(type) THEN s
    ELSE [s EXCEPT ![type] = [endMs |-> (GetTickCount + left) % Ticks,
                              active |-> TRUE, dirty |-> Remaining(s, type) = 0]]

SetRemaining(s, type, left) ==
    IF ~HasWeapon(type) THEN s
    ELSE [s EXCEPT ![type] = [endMs |-> (GetTickCount + left) % Ticks,
                              active |-> TRUE, dirty |-> TRUE]]

Reset(s, type) == SetRemaining(s, type, AttackTimeMs[type])

ResetAll(s) == Reset(Reset(Reset(s, MAIN_HAND), OFF_HAND), RANGED)

OtherHand(hand) == IF hand = MAIN_HAND THEN OFF_HAND ELSE MAIN_HAND

OnMeleeSwing(s, hand) ==
    LET swung == Reset(Reset(s, hand), RANGED)
        other == OtherHand(hand)
    IN  IF Remaining(swung, other) < kAttackDisplayDelayMs
          THEN SetRemaining(swung, other, kAttackDisplayDelayMs)
          ELSE swung

\* What a parry leaves of `left`, from 20% and 60% of the unhasted delay.
Hasted(left, delay) ==
    LET p20 == delay \div 5
    IN  IF left > 3 * p20 THEN left - 2 * p20
        ELSE IF left > p20 THEN p20
        ELSE left

ApplyParryHaste(s) ==
    LET hand == IF /\ HasWeapon(OFF_HAND)
                   /\ Remaining(s, OFF_HAND) < Remaining(s, MAIN_HAND)
                  THEN OFF_HAND ELSE MAIN_HAND
        left == Remaining(s, hand)
        hasted == Hasted(left, UnhastedDelayMs[hand])
    IN  IF s[hand].active /\ hasted # left THEN SetRemaining(s, hand, hasted)
        ELSE s

-----------------------------------------------------------------------------
(* The server.                                                             *)

\* Spell::IsAutoActionResetSpell and the checks around it, which CastResets
\* repeats.
CastResets(f, castCount, castTimeMs) ==
    /\ castCount # 0
    /\ f.interrupt
    /\ ~f.leavesAutoAttack
    /\ castTimeMs > 0 \/ (~f.noResetIfInstant /\ f.baseCastTimeMs = 0)

Pauses(f, castTimeMs) == castTimeMs > 0 /\ f.leavesAutoAttack

\* A cast that stops the melee timers is in progress.
Paused ==
    \E c \in casting[Player] : Pauses(Flags[c.spell], c.castTime)

AtLeast(left, bound) == IF left < bound THEN bound ELSE left

\* The timers once a hand has swung.
Swung(hand) ==
    [t \in SwingTypes |->
       IF t \in {hand, RANGED} THEN AttackTimeMs[t]
       ELSE AtLeast(timers[t], kAttackDisplayDelayMs)]

AllReset == AttackTimeMs

\* Time passes on both sides.
Tick ==
    /\ uptime < MaxTime
    /\ uptime' = uptime + 1
    /\ timers' = [t \in SwingTypes |->
                    IF timers[t] = 0 \/ (Paused /\ t \in Hands)
                      THEN timers[t] ELSE timers[t] - 1]
    /\ UNCHANGED <<start, weapons, swing, cast, shown>>

-----------------------------------------------------------------------------
(* Packets that are not about spells.                                      *)

\* AttackRoundUnpack_h, the player's own swing.
MeleeSwing(hand) ==
    /\ HasWeapon(hand)
    /\ casting[Player] = {} /\ timers[hand] = 0
    /\ timers' = Swung(hand)
    /\ swing' = OnMeleeSwing(swing, hand)
    /\ UNCHANGED <<start, uptime, weapons, cast, shown>>

\* AttackRoundUnpack_h, a swing at the player that was parried.
Parry ==
    /\ Paused => ActsWhilePaused
    /\ LET hand == IF HasWeapon(OFF_HAND) /\ timers[OFF_HAND] < timers[MAIN_HAND]
                     THEN OFF_HAND ELSE MAIN_HAND
       IN  timers' = [timers EXCEPT ![hand] = Hasted(@, UnhastedDelayMs[hand])]
    /\ swing' = ApplyParryHaste(swing)
    /\ UNCHANGED <<start, uptime, weapons, cast, shown>>

\* SetAttacking_h: a target in melee range.  Out of it nothing changes.
SetAttacking ==
    /\ Paused => ActsWhilePaused
    /\ timers' = IF timers[OFF_HAND] = 0
                   THEN [timers EXCEPT ![OFF_HAND] =
                           timers[MAIN_HAND] + AttackTimeMs[MAIN_HAND] \div 2]
                   ELSE timers
    /\ swing' = IF Remaining(swing, OFF_HAND) = 0
                  THEN SetRemaining(swing, OFF_HAND,
                         Remaining(swing, MAIN_HAND) + AttackTimeMs[MAIN_HAND] \div 2)
                  ELSE swing
    /\ UNCHANGED <<start, uptime, weapons, cast, shown>>

-----------------------------------------------------------------------------
(* Spell packets: the client's side.                                       *)

\* Mutant: a cast is known by its spell alone.
SameSpell(castCount, spellID) == cast.valid /\ cast.spellID = spellID

IsCurrentCast(castCount, spellID) ==
    cast.valid /\ cast.castCount = castCount /\ cast.spellID = spellID

\* EndCast: the paused timers run again from where they stopped.
Continued(s, hand) ==
    IF cast.pauses /\ cast.pausedLeft[hand] # 0
      THEN SetRemaining(s, hand, cast.pausedLeft[hand])
      ELSE s

EndCast == Continued(Continued(swing, MAIN_HAND), OFF_HAND)

OnSpellStart(spellID, castCount, castTimeMs) ==
    /\ cast' = IF castCount = 0 THEN cast
               ELSE LET pauses == Pauses(Flags[spellID], castTimeMs)
                    IN  [valid |-> TRUE, castCount |-> castCount,
                         spellID |-> spellID, castTimeMs |-> castTimeMs,
                         pauses |-> pauses,
                         pausedLeft |-> IF pauses
                                          THEN [h \in Hands |-> Remaining(swing, h)]
                                          ELSE NotPaused]
    /\ UNCHANGED swing

OnSpellGo(spellID, castCount) ==
    LET f == Flags[spellID]
        current == IsCurrentCast(castCount, spellID)
        ended == IF current THEN EndCast ELSE swing
        castTimeMs == IF current THEN cast.castTimeMs ELSE 0
    IN  IF f.onNextSwing
          THEN swing' = OnMeleeSwing(swing, MAIN_HAND) /\ UNCHANGED cast
        ELSE IF f.autorepeat
          THEN swing' = ResetAll(swing) /\ UNCHANGED cast
        ELSE /\ cast' = IF current THEN [cast EXCEPT !.valid = FALSE] ELSE cast
             /\ swing' = IF CastResets(f, castCount, castTimeMs)
                           THEN ResetAll(ended) ELSE ended

\* Swing's read of SMSG_SPELL_START and SMSG_SPELL_GO.
OnSpellCastPacket(msgId, msg, cursor) ==
    LET caster == Read(msg, cursor, 2)
        castCount == Read(msg, cursor, 3)
        spellID == Read(msg, cursor, 4)
    IN  IF caster # Player \/ spellID = 0
          THEN UNCHANGED <<swing, cast>>
        ELSE IF msgId = SMSG_SPELL_START
          THEN OnSpellStart(spellID, castCount, Read(msg, cursor, 6))
        ELSE OnSpellGo(spellID, castCount)

\* The cursor after it.
CastReadTo(cursor) == cursor + 6

\* Swing's read of SMSG_SPELL_FAILURE.
OnSpellFailurePacket(msg, cursor) ==
    IF /\ cast.valid
       /\ Read(msg, cursor, 1) = Player
       /\ IsCurrentCast(Read(msg, cursor, 2), Read(msg, cursor, 3))
      THEN swing' = EndCast /\ cast' = [cast EXCEPT !.valid = FALSE]
      ELSE UNCHANGED <<swing, cast>>

FailureReadTo(cursor) == IF cast.valid THEN cursor + 3 ELSE cursor

-----------------------------------------------------------------------------

\* OnFrame: one PLAYER_SWING for each type that changed and is still running.
OnFrame ==
    /\ swing' = [t \in SwingTypes |-> [swing[t] EXCEPT !.dirty = FALSE]]
    /\ shown' = [t \in SwingTypes |->
                   IF swing[t].dirty /\ Remaining(swing, t) # 0
                     THEN (GetTickCount + Remaining(swing, t)) % Ticks
                     ELSE shown[t]]
    /\ UNCHANGED <<start, uptime, weapons, cast, timers>>

-----------------------------------------------------------------------------
(* Properties.                                                             *)

Counting(t) == HasWeapon(t) /\ ~(Paused /\ t \in Hands)

\* The end ticks the client derives from packets agree with the server's
\* countdowns, across the casts that stop them and the wrap of GetTickCount
\* ("GetTickCount wraps every ~49 days; a signed difference stays correct").
TracksServer ==
    \A t \in SwingTypes : Counting(t) => Remaining(swing, t) = timers[t]

\* "swingDuration: seconds from now until the next attack of this type"
\* (docs/API.md): when no event is due, the last one ends a bar at the moment
\* the server's timer runs out, however many packets a frame had.
BarsAreRight ==
    \A t \in SwingTypes :
       Counting(t) /\ ~swing[t].dirty /\ timers[t] > 0
         => shown[t] = (GetTickCount + timers[t]) % Ticks

-----------------------------------------------------------------------------
(* What the two rest on, for a value s of g_swing and m of the server's     *)
(* timers: a timer that runs ends at its tick, one that is out ended at     *)
(* some tick of this behaviour; a cast in progress is the one in g_cast,    *)
(* with what was left when it stopped the timers.                           *)

Tracks(s, m, t) ==
    IF m[t] > 0
      THEN /\ s[t].endMs = (start + uptime + m[t]) % Ticks /\ s[t].active
           /\ ~s[t].dirty => shown[t] = s[t].endMs
      ELSE \E e \in 0..uptime : s[t].endMs = (start + e) % Ticks

AllTrack(s, m) == \A t \in weapons : Tracks(s, m, t)

TracksWhatCounts ==
    \A t \in weapons : Counting(t) \/ timers[t] = 0 => Tracks(swing, timers, t)

CastKnown ==
    /\ cast.valid => cast.castCount # 0
    /\ \A x \in casting[Player] :
         /\ IsCurrentCast(x.count, x.spell) /\ cast.castTimeMs = x.castTime
         /\ cast.pauses <=> Pauses(Flags[x.spell], x.castTime)
         /\ cast.pauses => \A h \in Hands \cap weapons : cast.pausedLeft[h] = timers[h]

Bounded(m) ==
    /\ m \in [SwingTypes -> 0..((Ticks \div 2) - 1)]
    /\ m[MAIN_HAND] <= AttackTimeMs[MAIN_HAND]

SwingInv == TracksWhatCounts /\ CastKnown /\ Bounded(timers)
=============================================================================

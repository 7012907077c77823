------------------------------ MODULE SwingRange ------------------------------
(***************************************************************************)
(* PLAYER_SWING_RANGE_UPDATE (src/src/combat/SwingRange.cpp): a poll of    *)
(* each frame that fires on a change, for the swing types that are on.     *)
(***************************************************************************)
EXTENDS Integers, Sequences, FiniteSets

CONSTANTS
    SwingTypes,     \* MAIN_HAND 0, OFF_HAND 1, RANGED 2 in the code
    RangedWeapons   \* subset of {"none", "wand", "thrown", "bow"}

RANGED == 2
Nobody == -1
Friend == 0
RangeStates == {"NoCheck", "InRange", "OutOfRange"}
Distances == {4, 29, 34, 40}    \* yards: in reach of each of the probes below, or of none

RangeAssumption ==
    SwingTypes \subseteq 0..2 /\ RangedWeapons \subseteq {"none", "wand", "thrown", "bow"}

VARIABLES
    gear,       \* ranged, offHand, knowsAutoShot, and the spell that repeats, "none" or its own
    target,     \* a foe's distance, or who is targeted else
    rangeEnabled, lastState,
    at,         \* the swing type OnFrame has come to; 3 between frames
    firing,     \* a handler of the event runs
    known       \* ghost: what a listener knows of each type that is on

rangeVars == <<gear, target, rangeEnabled, lastState, at, firing, known>>

RangeInit ==
    /\ gear \in [ranged : RangedWeapons, offHand : BOOLEAN, knowsAutoShot : BOOLEAN,
                 repeating : {"none", "auto shot"}]
    /\ target = Nobody
    /\ rangeEnabled = [t \in SwingTypes |-> FALSE]
    /\ lastState = [t \in SwingTypes |-> "NoCheck"]
    /\ at = 3 /\ firing = FALSE
    /\ known = [t \in SwingTypes |-> "NoCheck"]

\* Combat::Swing::HasWeapon.
HasWeapon(t) == CASE t = 0 -> TRUE [] t = 1 -> gear.offHand [] t = 2 -> gear.ranged # "none"

\* RangedProbeSpellID, by the yards the spell reaches.
ProbeRange ==
    IF gear.repeating = "auto shot" THEN 35
    ELSE IF gear.ranged \in {"wand", "thrown"} THEN 30
    ELSE IF gear.knowsAutoShot THEN 35 ELSE 30

Evaluate(t) ==
    IF ~HasWeapon(t) \/ target <= 0 THEN "NoCheck"
    ELSE IF target <= (IF t = RANGED THEN ProbeRange ELSE 5) THEN "InRange" ELSE "OutOfRange"

\* Mutant: the change detector keeps what it knew.
EnableUnseeded(t, on) ==
    /\ rangeEnabled' = [rangeEnabled EXCEPT ![t] = on]
    /\ known' = [known EXCEPT ![t] = Evaluate(t)]
    /\ UNCHANGED lastState

\* Script_EnableRangeCheck; the caller reads IsTargetWithinSwingRange right after.
EnableRangeCheck(t, on) ==
    /\ rangeEnabled' = [rangeEnabled EXCEPT ![t] = on]
    /\ lastState' = [lastState EXCEPT ![t] = IF on THEN Evaluate(t) ELSE "NoCheck"]
    /\ known' = [known EXCEPT ![t] = Evaluate(t)]

Enable(t, on) ==
    /\ at = 3 \/ firing
    /\ EnableRangeCheck(t, on)
    /\ UNCHANGED <<gear, target, at, firing>>

FrameBegins ==
    /\ at = 3
    /\ at' = 0
    /\ UNCHANGED <<gear, target, rangeEnabled, lastState, firing, known>>

\* OnFrame, one swing type.
Polls ==
    /\ at < 3 /\ ~firing
    /\ IF at \in SwingTypes /\ rangeEnabled[at] /\ Evaluate(at) # lastState[at]
         THEN /\ lastState' = [lastState EXCEPT ![at] = Evaluate(at)]
              /\ known' = [known EXCEPT ![at] = Evaluate(at)]
              /\ firing' = TRUE /\ UNCHANGED at
         ELSE at' = at + 1 /\ UNCHANGED <<lastState, known, firing>>
    /\ UNCHANGED <<gear, target, rangeEnabled>>

EventHandled ==
    /\ firing
    /\ firing' = FALSE /\ at' = at + 1
    /\ UNCHANGED <<gear, target, rangeEnabled, lastState, known>>

\* The world between two frames: who is targeted, how far, a shot that repeats.
Moves ==
    /\ at = 3
    /\ \/ target' \in {Nobody, Friend} \cup Distances /\ UNCHANGED gear
       \/ \E r \in {"none", "auto shot"} :
            gear' = [gear EXCEPT !.repeating = r] /\ UNCHANGED target
    /\ UNCHANGED <<rangeEnabled, lastState, at, firing, known>>

RangeReload ==
    /\ at = 3
    /\ rangeEnabled' = [t \in SwingTypes |-> FALSE]
    /\ lastState' = [t \in SwingTypes |-> "NoCheck"]
    /\ UNCHANGED <<gear, target, at, firing, known>>

RangeNext ==
    \/ \E t \in SwingTypes, on \in BOOLEAN : Enable(t, on)
    \/ FrameBegins \/ Polls \/ EventHandled \/ Moves \/ RangeReload

RangeTypeOK ==
    /\ at \in 0..3 /\ firing \in BOOLEAN
    /\ lastState \in [SwingTypes -> RangeStates] /\ rangeEnabled \in [SwingTypes -> BOOLEAN]

\* An add-on that reads the range when it turns a check on and listens from then on is
\* right about it at each point of a frame that has passed its type, its own handlers
\* turning checks on and off in the event included.
RangeTold ==
    \A t \in SwingTypes : rangeEnabled[t] =>
        /\ at \in t + 1..2 \/ (at = t /\ firing) => known[t] = Evaluate(t)
        /\ at = 3 => known[t] = lastState[t]

\* What the steps keep: a listener knows what the change detector does, and the detector is
\* up to date for each type that OnFrame has passed.
RangeInv ==
    /\ at \in 0..3 /\ firing \in BOOLEAN /\ (at = 3 => ~firing)
    /\ rangeEnabled \in [SwingTypes -> BOOLEAN]
    /\ lastState \in [SwingTypes -> RangeStates] /\ known \in [SwingTypes -> RangeStates]
    /\ \A t \in SwingTypes : rangeEnabled[t] =>
        /\ known[t] = lastState[t]
        /\ (t < at /\ at < 3) \/ (at = t /\ firing) => lastState[t] = Evaluate(t)
=============================================================================

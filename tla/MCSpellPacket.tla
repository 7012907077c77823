---------------------------- MODULE MCSpellPacket ----------------------------
(* A player with a healer near by, a dead player and the corpse it left, and  *)
(* one spell of each kind that CastResets and OnSpellGo tell apart.           *)
EXTENDS SpellPacket

CONSTANTS player, healer, dead, corpse, rebirth, slam, strike, shot

MCOwner == [k \in {corpse} |-> dead]

Plain == [onNextSwing |-> FALSE, autorepeat |-> FALSE, interrupt |-> FALSE,
          leavesAutoAttack |-> FALSE, noResetIfInstant |-> FALSE,
          baseCastTimeMs |-> 0, resurrect |-> FALSE]

MCFlags ==
    [s \in {rebirth, slam, strike, shot} |->
       CASE s = rebirth -> [Plain EXCEPT !.interrupt = TRUE, !.baseCastTimeMs = 1,
                                         !.resurrect = TRUE]
         [] s = slam    -> [Plain EXCEPT !.interrupt = TRUE, !.baseCastTimeMs = 1,
                                         !.leavesAutoAttack = TRUE]
         [] s = strike  -> [Plain EXCEPT !.onNextSwing = TRUE]
         [] s = shot    -> [Plain EXCEPT !.autorepeat = TRUE]]

\* Ticks of 200 ms: a main hand of 0.8 s, weapons of 1 s before haste.
MCAttackTimeMs == [t \in {"main", "off", "ranged"} |-> IF t = "main" THEN 4 ELSE 3]
MCWeaponSets == {{"main"}, {"main", "off", "ranged"}}
MCUnhastedDelayMs == [h \in {"main", "off"} |-> 5]
=============================================================================

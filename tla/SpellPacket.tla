----------------------------- MODULE SpellPacket -----------------------------
(***************************************************************************)
(* src/src/net/SpellPacket.cpp: the hooks on the spell packet handlers     *)
(* hand each packet to the swing timers and to the incoming resurrections, *)
(* and put the read cursor back after each.  Around them a server: casters *)
(* begin, finish and lose casts, the client hears of those in view.        *)
(***************************************************************************)
EXTENDS DataStore, TLAPS

CONSTANTS
    Player, Casters, Units, Corpses, Owner,
    Spells, Flags, CastTimes,
    AttackTimeMs, UnhastedDelayMs, Ticks, Starts, MaxTime, WeaponSets,
    ActsWhilePaused, BackWithinAFrame, CorpsesMove,
    StartsInCast,   \* an on-next-swing spell may be queued during a cast
    MaxPackets      \* bound: events from the server

Resurrects == {s \in Spells : Flags[s].resurrect}
OnNextSwing == {s \in Spells : Flags[s].onNextSwing}
Autorepeat == {s \in Spells \ OnNextSwing : Flags[s].autorepeat}
CastSpells == Spells \ (OnNextSwing \cup Autorepeat)

VARIABLES
    start, uptime, weapons, swing, cast, timers, shown,
    entries, inView, left, corpses, told,
    casting,        \* the server: the cast in progress of each caster
    queued,         \* the server: the player's on-next-swing spell
    count,          \* the server: the last castCount of each caster
    packets         \* how much the server has sent

SwingTimers == INSTANCE Swing
Rez == INSTANCE IncomingResurrection

ASSUME PacketAssumption ==
    /\ SwingTimers!SwingAssumption /\ Rez!ResurrectionAssumption
    /\ 0 \notin Spells /\ DOMAIN Flags = Spells /\ CastTimes \subseteq Nat
    /\ StartsInCast \in BOOLEAN /\ MaxPackets \in Nat

swings == <<start, uptime, weapons, swing, cast, timers, shown>>
rez == <<entries, inView, left, corpses, told>>
server == <<casting, queued, count, packets>>
vars == <<swings, rez, server>>

Casts == [spell: CastSpells, count: 1..2, castTime: CastTimes,
          target: Units \cup Corpses \cup {0}, seen: BOOLEAN]

ServerTypeOK ==
    /\ casting \in [Casters -> {{}} \cup {{x} : x \in Casts}]
    /\ queued \in {{}} \cup {{x} : x \in OnNextSwing \X (1..2)}
    /\ count \in [Casters -> 1..2]
    /\ packets \in 0..MaxPackets

TypeOK == SwingTimers!SwingTypeOK /\ Rez!ResurrectionTypeOK /\ ServerTypeOK

Init ==
    /\ SwingTimers!Init /\ Rez!Init
    /\ casting = [c \in Casters |-> {}]
    /\ queued = {}
    /\ count = [c \in Casters |-> 2]
    /\ packets = 0

-----------------------------------------------------------------------------
(* The hooks.                                                              *)

\* Mutant: the second observer goes on where the first stopped.
GoesOn(from, read) == read

\* `cursor = start` after an observer that has read to `read`.
CursorAfter(from, read) == from

\* SpellCast_h, RunCastObservers.
RunCastObservers(msgId, msg) ==
    LET from == 1
    IN  /\ SwingTimers!OnSpellCastPacket(msgId, msg, from)
        /\ Rez!OnSpellCastPacket(msgId, msg,
             CursorAfter(from, SwingTimers!CastReadTo(from)))

\* SpellFailure_h, RunFailureObservers.
RunFailureObservers(msg) ==
    LET from == 1
    IN  /\ SwingTimers!OnSpellFailurePacket(msg, from)
        /\ Rez!OnSpellFailurePacket(msg,
             CursorAfter(from, SwingTimers!FailureReadTo(from)))

\* What a caster out of view sends is not received.
Receives(c, Handled) ==
    IF c \in inView THEN Handled ELSE UNCHANGED <<swing, cast, entries, told>>

StartPacket(c, x) ==
    IF x.target = 0 THEN <<0, c, x.count, x.spell, 0, x.castTime, 0>>
    ELSE <<0, c, x.count, x.spell, 0, x.castTime, 1, x.target>>
GoPacket(c, castCount, spell) == <<0, c, castCount, spell, 0, 0>>
FailurePacket(c, x) == <<c, x.count, x.spell>>

-----------------------------------------------------------------------------
(* The server.                                                             *)

Sends == packets < MaxPackets /\ packets' = packets + 1
OutsideSpells == UNCHANGED <<start, uptime, weapons, shown, inView, left, corpses>>

NextCount(c) == (count[c] % 2) + 1

\* A cast begins; one with no cast time is about to finish.
StartCast(c, spell, castTime, target) ==
    /\ Sends /\ OutsideSpells
    /\ spell \in CastSpells /\ casting[c] = {}
    /\ spell \in Resurrects <=> target # 0
    /\ target \in Corpses => target \in corpses
    /\ count' = [count EXCEPT ![c] = NextCount(c)]
    /\ LET x == [spell |-> spell, count |-> NextCount(c), castTime |-> castTime,
                 target |-> target, seen |-> c \in inView]
       IN  /\ casting' = [casting EXCEPT ![c] = {x}]
           /\ Receives(c, RunCastObservers("start", StartPacket(c, x)))
    /\ UNCHANGED <<queued, timers>>

\* A cast goes off, and resets the timers if it interrupts auto-attacks.
FinishCast(c) ==
    /\ Sends /\ OutsideSpells
    /\ \E x \in casting[c] :
         /\ timers' = IF c = Player /\ SwingTimers!CastResets(Flags[x.spell], x.count, x.castTime)
                        THEN SwingTimers!AllReset ELSE timers
         /\ Receives(c, RunCastObservers("go", GoPacket(c, x.count, x.spell)))
    /\ casting' = [casting EXCEPT ![c] = {}]
    /\ UNCHANGED <<queued, count>>

\* A cast is interrupted or cancelled.
FailCast(c) ==
    /\ Sends /\ OutsideSpells
    /\ \E x \in casting[c] : Receives(c, RunFailureObservers(FailurePacket(c, x)))
    /\ casting' = [casting EXCEPT ![c] = {}]
    /\ UNCHANGED <<queued, count, timers>>

\* A spell another one triggers, which has no SPELL_START and castCount 0.
TriggeredSpell(spell) ==
    /\ Sends /\ OutsideSpells
    /\ spell \in CastSpells
    /\ RunCastObservers("go", GoPacket(Player, 0, spell))
    /\ UNCHANGED <<casting, queued, count, timers>>

\* An on-next-swing spell waits for the main hand.
QueueOnNextSwing(spell) ==
    /\ Sends /\ OutsideSpells
    /\ spell \in OnNextSwing /\ queued = {}
    /\ casting[Player] # {} => StartsInCast
    /\ count' = [count EXCEPT ![Player] = NextCount(Player)]
    /\ queued' = {<<spell, NextCount(Player)>>}
    /\ RunCastObservers("start",
         StartPacket(Player, [spell |-> spell, count |-> NextCount(Player),
                              castTime |-> 0, target |-> 0]))
    /\ UNCHANGED <<casting, timers>>

\* It goes off in place of a main-hand swing.
NextSwing ==
    /\ Sends /\ OutsideSpells
    /\ casting[Player] = {} /\ timers[SwingTimers!MAIN_HAND] = 0
    /\ \E x \in queued : RunCastObservers("go", GoPacket(Player, x[2], x[1]))
    /\ timers' = SwingTimers!Swung(SwingTimers!MAIN_HAND)
    /\ queued' = {}
    /\ UNCHANGED <<casting, count>>

AutorepeatShot(spell) ==
    /\ Sends /\ OutsideSpells
    /\ spell \in Autorepeat
    /\ SwingTimers!RANGED \in weapons /\ timers[SwingTimers!RANGED] = 0
    /\ casting[Player] = {}
    /\ RunCastObservers("go", GoPacket(Player, count[Player], spell))
    /\ timers' = SwingTimers!AllReset
    /\ UNCHANGED <<casting, queued, count>>

SpellSteps ==
    \/ \E c \in Casters, spell \in Spells, castTime \in CastTimes,
          target \in Units \cup Corpses \cup {0} :
         StartCast(c, spell, castTime, target)
    \/ \E c \in Casters : FinishCast(c) \/ FailCast(c)
    \/ \E spell \in Spells :
         TriggeredSpell(spell) \/ QueueOnNextSwing(spell) \/ AutorepeatShot(spell)
    \/ NextSwing

\* Swings, parries, attack starts.
Attacks ==
    /\ Sends
    /\ \/ \E hand \in SwingTimers!Hands : queued = {} /\ SwingTimers!MeleeSwing(hand)
       \/ SwingTimers!Parry
       \/ SwingTimers!SetAttacking
    /\ UNCHANGED <<casting, queued, count, rez>>

TimePasses == SwingTimers!Tick /\ UNCHANGED <<rez, server>>

\* A caster that leaves view takes its cast out of the client's sight.
Moves ==
    /\ Sends
    /\ \/ \E c \in Casters :
            /\ Rez!LeaveView(c)
            /\ casting' = [casting EXCEPT
                 ![c] = {[x EXCEPT !.seen = FALSE] : x \in casting[c]}]
       \/ /\ \/ \E c \in Casters : Rez!EnterView(c)
             \/ \E k \in Corpses : Rez!CorpseChanges(k)
          /\ UNCHANGED casting
    /\ UNCHANGED <<queued, count, swings>>

\* FireOnUpdate_h calls both subscribers.
Frame ==
    /\ SwingTimers!OnFrame
    /\ Rez!OnFrame
    /\ UNCHANGED server

Next == SpellSteps \/ Attacks \/ TimePasses \/ Moves \/ Frame

Spec == Init /\ [][Next]_vars

-----------------------------------------------------------------------------
(* Properties, named for the runs; each is stated in its module.           *)

TracksServer == SwingTimers!TracksServer
BarsAreRight == SwingTimers!BarsAreRight
ShowsTheCasts == Rez!ShowsTheCasts
ToldOfEachChange == Rez!ToldOfEachChange

-----------------------------------------------------------------------------
(* The proofs.                                                             *)

IInv == TypeOK /\ SwingTimers!SwingInv /\ Rez!ResurrectionInv

\* The cases the code does not handle are kept out.
Handled == ~ActsWhilePaused /\ ~StartsInCast /\ ~BackWithinAFrame /\ ~CorpsesMove

-----------------------------------------------------------------------------
(* Remainders.                                                             *)

LEMMA ModUnique ==
  ASSUME NEW T \in Nat \ {0}, NEW q \in Int, NEW r \in 0..(T - 1)
  PROVE  (q * T + r) % T = r
  OBVIOUS

LEMMA ModQuotient ==
  ASSUME NEW T \in Nat \ {0}, NEW a \in Int
  PROVE  a \div T \in Int /\ (a % T) \in 0..(T - 1) /\ a = (a \div T) * T + (a % T)
  <1>1. a = T * (a \div T) + (a % T)  BY Z3T(30)
  <1>2. a \div T \in Int /\ (a % T) \in 0..(T - 1)  OBVIOUS
  <1>3. \A k \in Int : T * k = k * T  OBVIOUS
  <1> QED  BY <1>1, <1>2, <1>3

LEMMA ModAdd ==
  ASSUME NEW T \in Nat \ {0}, NEW a \in Int, NEW d \in Int
  PROVE  ((a % T) + d) % T = (a + d) % T
  <1> DEFINE p == a \div T
             q == (a + d) \div T
             r == (a + d) % T
  <1>1. p \in Int /\ a = p * T + (a % T) /\ (a % T) \in Int  BY ModQuotient
  <1>2. q \in Int /\ r \in 0..(T - 1) /\ a + d = q * T + r  BY a + d \in Int, ModQuotient
  <1> HIDE DEF p, q, r
  <1>3. (a % T) + d = (q - p) * T + r
    <2>1. (q - p) * T = q * T - p * T  BY <1>1, <1>2
    <2>2. q * T \in Int /\ p * T \in Int BY <1>1, <1>2
    <2> QED BY <1>1, <1>2, <2>1, <2>2
  <1>4. ((q - p) * T + r) % T = r  BY <1>1, <1>2, q - p \in Int, ModUnique
  <1> QED  BY <1>3, <1>4 DEF r

LEMMA ModDifference ==
  ASSUME NEW T \in Nat \ {0}, NEW a \in Int, NEW b \in Int, -T < a - b, a - b < T
  PROVE  ((a % T) - (b % T)) % T = IF a >= b THEN a - b ELSE a - b + T
  <1> DEFINE p == a \div T
             q == b \div T
             d == (a % T) - (b % T)
  <1>1. p \in Int /\ q \in Int /\ p * T \in Int /\ q * T \in Int  BY ModQuotient
  <1>2. d = (q * T) - (p * T) + a - b
    <2>1. a % T \in Int /\ a = p * T + (a % T)  BY ModQuotient
    <2>2. b % T \in Int /\ b = q * T + (b % T)  BY ModQuotient
    <2>3. a % T = a - (p * T)  BY <1>1, <2>1
    <2>4. b % T = b - (q * T)  BY <1>1, <2>2
    <2> HIDE DEF p, q
    <2> QED  BY <1>1, <2>3, <2>4
  <1> HIDE DEF p, q, d
  <1>3. CASE a >= b
    <2>1. d = (q - p) * T + (a - b)
      <3>1. (q - p) * T = (q * T) - (p * T)  BY <1>1
      <3> QED  BY <1>1, <1>2, <3>1
    <2>2. q - p \in Int /\ a - b \in 0..(T - 1)  BY <1>1, <1>3
    <2>3. ((q - p) * T + (a - b)) % T = a - b  BY <2>2, ModUnique
    <2> QED  BY <1>3, <2>1, <2>3 DEF d
  <1>4. CASE a < b
    <2>1. d = (q - p - 1) * T + (a - b + T)
      <3>1. (q - p - 1) * T = (q * T) - (p * T) - T  BY <1>1
      <3> QED  BY <1>1, <1>2, <3>1
    <2>2. q - p - 1 \in Int /\ a - b + T \in 0..(T - 1)  BY <1>1, <1>4
    <2>3. ((q - p - 1) * T + (a - b + T)) % T = a - b + T  BY <2>2, ModUnique
    <2> QED  BY <1>4, <2>1, <2>3 DEF d
  <1> QED  BY <1>3, <1>4

-----------------------------------------------------------------------------
(* The swing timers.  States of g_swing and of the server's timers are      *)
(* compared type by type (Tracks).                                          *)

LEMMA TicksAre ==
  ASSUME SwingTimers!SwingAssumption
  PROVE  /\ Ticks \in Nat \ {0} /\ Ticks \div 2 \in Nat /\ 2 * (Ticks \div 2) <= Ticks
         /\ Ticks < 2 * (Ticks \div 2) + 2 /\ 1 < Ticks \div 2
         /\ MaxTime \in Nat /\ MaxTime < Ticks \div 2
         /\ Starts \subseteq 0..(Ticks - 1)
  <1> USE DEF SwingTimers!SwingAssumption, SwingTimers!SwingTypes, SwingTimers!Hands,
              SwingTimers!MAIN_HAND
  <1>1. Ticks \in Nat /\ Starts \subseteq 0..(Ticks - 1) /\ MaxTime \in Nat /\ MaxTime < Ticks \div 2
    OBVIOUS
  <1>2. AttackTimeMs["main"] \in Nat \ {0} /\ AttackTimeMs["main"] < Ticks \div 2  OBVIOUS
  <1>3. Ticks \div 2 \in Nat /\ 2 * (Ticks \div 2) <= Ticks /\ Ticks < 2 * (Ticks \div 2) + 2
    BY <1>1
  <1> HIDE DEF SwingTimers!SwingAssumption
  <1> QED  BY <1>1, <1>2, <1>3

LEMMA RemainingTypes ==
  ASSUME SwingTimers!SwingAssumption, NEW s \in SwingTimers!States,
         NEW t \in SwingTimers!SwingTypes, start \in Nat, uptime \in Nat
  PROVE  SwingTimers!Remaining(s, t) \in 0..((Ticks \div 2) - 1)
  <1>1. Ticks \in Nat \ {0} /\ 1 < Ticks \div 2 /\ Ticks \div 2 \in Nat  BY TicksAre
  <1> DEFINE d == (s[t].endMs - SwingTimers!GetTickCount) % Ticks
  <1>2. s[t].endMs \in Int  BY DEF SwingTimers!States
  <1>3. SwingTimers!GetTickCount \in Int  BY <1>1 DEF SwingTimers!GetTickCount
  <1>4. d \in 0..(Ticks - 1)
    <2> DEFINE a == s[t].endMs - SwingTimers!GetTickCount
    <2>1. a \in Int  BY <1>2, <1>3
    <2> HIDE DEF a
    <2>2. a % Ticks \in 0..(Ticks - 1)  BY <1>1, <2>1
    <2> QED  BY <2>2 DEF a
  <1> HIDE DEF d
  <1>5. SwingTimers!Remaining(s, t) = IF d < Ticks \div 2 THEN d ELSE 0
    BY DEF SwingTimers!Remaining, d
  <1> QED  BY <1>1, <1>4, <1>5

\* A timer that tracks the server's shows what is left of it.
LEMMA RemainingIsLeft ==
  ASSUME SwingTimers!SwingAssumption, NEW s \in SwingTimers!States,
         NEW t \in SwingTimers!SwingTypes, start \in Nat, uptime \in 0..MaxTime,
         NEW m, m[t] \in 0..((Ticks \div 2) - 1), SwingTimers!Tracks(s, m, t)
  PROVE  SwingTimers!Remaining(s, t) = m[t]
  <1>1. /\ Ticks \in Nat \ {0} /\ Ticks \div 2 \in Nat /\ 2 * (Ticks \div 2) <= Ticks
        /\ MaxTime \in Nat /\ MaxTime < Ticks \div 2
    BY TicksAre
  <1> DEFINE now == start + uptime
             d == (s[t].endMs - (now % Ticks)) % Ticks
  <1>2. now \in Nat /\ uptime \in Nat  BY <1>1
  <1>3. SwingTimers!Remaining(s, t) = IF d < Ticks \div 2 THEN d ELSE 0
    BY DEF SwingTimers!Remaining, SwingTimers!GetTickCount
  <1> HIDE DEF d
  <1>4. CASE m[t] > 0
    <2>1. s[t].endMs = (now + m[t]) % Ticks  BY <1>4 DEF SwingTimers!Tracks
    <2> DEFINE a == now + m[t]
    <2>2. /\ a \in Int /\ now \in Int /\ a - now = m[t] /\ a >= now
          /\ -Ticks < a - now /\ a - now < Ticks
      BY <1>1, <1>2
    <2>3. d = ((a % Ticks) - (now % Ticks)) % Ticks  BY <2>1 DEF d
    <2> HIDE DEF now, a
    <2>4. ((a % Ticks) - (now % Ticks)) % Ticks = IF a >= now THEN a - now ELSE a - now + Ticks
      BY <1>1, <2>2, ModDifference
    <2>5. d = m[t]  BY <2>2, <2>3, <2>4
    <2> QED  BY <1>1, <1>3, <2>5
  <1>5. CASE m[t] = 0
    <2>1. PICK e \in 0..uptime : s[t].endMs = (start + e) % Ticks
      BY <1>5 DEF SwingTimers!Tracks
    <2> DEFINE a == start + e
    <2>2. /\ a \in Int /\ now \in Int /\ a - now \in (-MaxTime)..0
          /\ -Ticks < a - now /\ a - now < Ticks
      BY <1>1, <1>2
    <2>3. d = ((a % Ticks) - (now % Ticks)) % Ticks  BY <2>1 DEF d
    <2> HIDE DEF now, a
    <2>4. ((a % Ticks) - (now % Ticks)) % Ticks = IF a >= now THEN a - now ELSE a - now + Ticks
      BY <1>1, <2>2, ModDifference
    <2>5. d = 0 \/ ~(d < Ticks \div 2)  BY <1>1, <2>2, <2>3, <2>4
    <2> QED  BY <1>3, <1>5, <2>5
  <1> QED  BY <1>4, <1>5

\* SetRemaining is about one type that has a weapon, and then tracks what it is given.
LEMMA SettingTracks ==
  ASSUME SwingTimers!SwingAssumption, NEW s \in SwingTimers!States,
         NEW t \in SwingTimers!SwingTypes, start \in Nat, uptime \in Nat, NEW rest \in Nat
  PROVE  /\ SwingTimers!SetRemaining(s, t, rest) \in SwingTimers!States
         /\ \A u \in SwingTimers!SwingTypes : u # t \/ t \notin weapons =>
              SwingTimers!SetRemaining(s, t, rest)[u] = s[u]
         /\ \A m : t \in weapons /\ m[t] = rest =>
              SwingTimers!Tracks(SwingTimers!SetRemaining(s, t, rest), m, t)
  <1> DEFINE r == SwingTimers!SetRemaining(s, t, rest)
             end == (SwingTimers!GetTickCount + rest) % Ticks
  <1>1. Ticks \in Nat \ {0}  BY TicksAre
  <1>2. SwingTimers!GetTickCount \in Int  BY <1>1 DEF SwingTimers!GetTickCount
  <1>3. end \in 0..(Ticks - 1)
    <2> DEFINE a == SwingTimers!GetTickCount + rest
    <2>1. a \in Int  BY <1>2
    <2> HIDE DEF a
    <2>2. a % Ticks \in 0..(Ticks - 1)  BY <1>1, <2>1
    <2> QED  BY <2>2 DEF a
  <1>4. end = (start + uptime + rest) % Ticks
    <2> DEFINE now == start + uptime
    <2>1. now \in Int  OBVIOUS
    <2>2. end = ((now % Ticks) + rest) % Ticks  BY DEF SwingTimers!GetTickCount
    <2>3. rest \in Int  OBVIOUS
    <2> HIDE DEF now, end
    <2>4. ((now % Ticks) + rest) % Ticks = (now + rest) % Ticks  BY <1>1, <2>1, <2>3, ModAdd
    <2> QED  BY <2>2, <2>4 DEF now
  <1> HIDE DEF end
  <1>5. CASE t \notin weapons
    BY <1>5 DEF SwingTimers!SetRemaining, SwingTimers!HasWeapon
  <1>6. CASE t \in weapons
    <2>1. r = [s EXCEPT ![t] = [endMs |-> end, active |-> TRUE, dirty |-> TRUE]]
      BY <1>6 DEF SwingTimers!SetRemaining, SwingTimers!HasWeapon, end
    <2> HIDE DEF r
    <2>2. r[t] = [endMs |-> end, active |-> TRUE, dirty |-> TRUE]
      BY <2>1 DEF SwingTimers!States
    <2>3. r \in SwingTimers!States  BY <1>3, <2>1 DEF SwingTimers!States
    <2>4. \A u \in SwingTimers!SwingTypes : u # t => r[u] = s[u]
      BY <2>1 DEF SwingTimers!States
    <2>5. ASSUME NEW m, m[t] = rest  PROVE SwingTimers!Tracks(r, m, t)
      <3>1. CASE rest > 0
        BY <1>4, <2>2, <2>5, <3>1 DEF SwingTimers!Tracks
      <3>2. CASE rest = 0
        <4>1. uptime \in 0..uptime /\ r[t].endMs = (start + uptime) % Ticks
          BY <1>4, <2>2, <3>2
        <4> QED  BY <2>5, <3>2, <4>1 DEF SwingTimers!Tracks
      <3> QED  BY <3>1, <3>2
    <2> QED  BY <1>6, <2>3, <2>4, <2>5 DEF r
  <1> QED  BY <1>5, <1>6

LEMMA Clocks ==
  ASSUME TypeOK
  PROVE  /\ SwingTimers!SwingAssumption
         /\ start \in Nat /\ uptime \in Nat /\ uptime \in 0..MaxTime
         /\ weapons \subseteq SwingTimers!SwingTypes /\ SwingTimers!MAIN_HAND \in weapons
         /\ swing \in SwingTimers!States
         /\ AttackTimeMs \in [SwingTimers!SwingTypes -> Nat \ {0}]
         /\ UnhastedDelayMs \in [SwingTimers!Hands -> Nat \ {0}]
  <1> USE PacketAssumption DEF PacketAssumption, TypeOK, SwingTimers!SwingTypeOK
  <1>1. start \in 0..(Ticks - 1) /\ MaxTime \in Nat  BY TicksAre
  <1>2. /\ weapons \subseteq SwingTimers!SwingTypes /\ SwingTimers!MAIN_HAND \in weapons
        /\ AttackTimeMs \in [SwingTimers!SwingTypes -> Nat \ {0}]
        /\ UnhastedDelayMs \in [SwingTimers!Hands -> Nat \ {0}]
    BY DEF SwingTimers!SwingAssumption
  <1> QED  BY <1>1, <1>2

LEMMA SetTracks ==
  ASSUME TypeOK, NEW s \in SwingTimers!States, NEW t \in SwingTimers!SwingTypes,
         NEW rest \in Nat, NEW n, t \in weapons => n[t] = rest
  PROVE  /\ SwingTimers!SetRemaining(s, t, rest) \in SwingTimers!States
         /\ \A u \in SwingTimers!SwingTypes : u # t =>
              SwingTimers!SetRemaining(s, t, rest)[u] = s[u]
         /\ \A u \in weapons : u = t \/ SwingTimers!Tracks(s, n, u) =>
              SwingTimers!Tracks(SwingTimers!SetRemaining(s, t, rest), n, u)
  <1> DEFINE r == SwingTimers!SetRemaining(s, t, rest)
  <1>1. /\ r \in SwingTimers!States
        /\ \A u \in SwingTimers!SwingTypes : u # t \/ t \notin weapons => r[u] = s[u]
        /\ t \in weapons => SwingTimers!Tracks(r, n, t)
    BY Clocks, SettingTracks, ZenonT(60)
  <1>2. ASSUME NEW u \in weapons, u # t, SwingTimers!Tracks(s, n, u)
        PROVE  SwingTimers!Tracks(r, n, u)
    <2>1. r[u] = s[u]  BY <1>1, <1>2, Clocks
    <2> HIDE DEF r
    <2> QED  BY <1>2, <2>1 DEF SwingTimers!Tracks
  <1> QED  BY <1>1, <1>2

LEMMA ResetTracks ==
  ASSUME TypeOK, NEW s \in SwingTimers!States
  PROVE  /\ SwingTimers!ResetAll(s) \in SwingTimers!States
         /\ SwingTimers!AllTrack(SwingTimers!ResetAll(s), SwingTimers!AllReset)
  <1> USE Clocks DEF SwingTimers!Reset, SwingTimers!AllReset
  <1> DEFINE s1 == SwingTimers!Reset(s, SwingTimers!MAIN_HAND)
             s2 == SwingTimers!Reset(s1, SwingTimers!OFF_HAND)
             s3 == SwingTimers!Reset(s2, SwingTimers!RANGED)
  <1>0. /\ SwingTimers!SwingTypes = {SwingTimers!MAIN_HAND, SwingTimers!OFF_HAND, SwingTimers!RANGED}
        /\ \A t \in SwingTimers!SwingTypes : AttackTimeMs[t] \in Nat
    BY DEF SwingTimers!SwingTypes, SwingTimers!Hands
  <1>1. /\ s1 \in SwingTimers!States
        /\ SwingTimers!MAIN_HAND \in weapons =>
             SwingTimers!Tracks(s1, AttackTimeMs, SwingTimers!MAIN_HAND)
    BY <1>0, SetTracks
  <1> HIDE DEF s1
  <1>2. /\ s2 \in SwingTimers!States
        /\ \A u \in weapons \cap {SwingTimers!MAIN_HAND, SwingTimers!OFF_HAND} :
             SwingTimers!Tracks(s2, AttackTimeMs, u)
    BY <1>0, <1>1, SetTracks
  <1> HIDE DEF s2
  <1>3. s3 \in SwingTimers!States /\ \A u \in weapons : SwingTimers!Tracks(s3, AttackTimeMs, u)
    BY <1>0, <1>2, SetTracks
  <1> HIDE DEF s3
  <1>4. SwingTimers!ResetAll(s) = s3  BY DEF SwingTimers!ResetAll, s1, s2, s3
  <1> QED  BY <1>3, <1>4 DEF SwingTimers!AllTrack

\* The server's rules keep its timers below half of GetTickCount's range.
LEMMA TimersStayBounded ==
  ASSUME TypeOK, SwingTimers!Bounded(timers)
  PROVE  /\ SwingTimers!Bounded(SwingTimers!AllReset)
         /\ \A hand \in SwingTimers!Hands : SwingTimers!Bounded(SwingTimers!Swung(hand))
         /\ \A hand \in SwingTimers!Hands : SwingTimers!Bounded(
              [timers EXCEPT ![hand] = SwingTimers!Hasted(@, UnhastedDelayMs[hand])])
         /\ SwingTimers!Bounded([timers EXCEPT ![SwingTimers!OFF_HAND] =
              timers[SwingTimers!MAIN_HAND] + AttackTimeMs[SwingTimers!MAIN_HAND] \div 2])
  <1>1. /\ Ticks \div 2 \in Nat /\ 1 < Ticks \div 2
        /\ AttackTimeMs \in [SwingTimers!SwingTypes -> Nat \ {0}]
        /\ UnhastedDelayMs \in [SwingTimers!Hands -> Nat \ {0}]
        /\ \A t \in SwingTimers!SwingTypes : AttackTimeMs[t] < Ticks \div 2
        /\ AttackTimeMs["main"] + AttackTimeMs["main"] \div 2 < Ticks \div 2
    BY Clocks, TicksAre DEF SwingTimers!SwingAssumption, SwingTimers!MAIN_HAND
  <1>2. AttackTimeMs["main"] \in Nat \ {0} /\ AttackTimeMs["main"] \div 2 \in Nat
    BY <1>1 DEF SwingTimers!SwingTypes, SwingTimers!Hands, SwingTimers!MAIN_HAND
  <1> USE DEF SwingTimers!Bounded, SwingTimers!SwingTypes, SwingTimers!Hands,
              SwingTimers!MAIN_HAND, SwingTimers!OFF_HAND, SwingTimers!RANGED
  <1>3. SwingTimers!Bounded(SwingTimers!AllReset)  BY <1>1 DEF SwingTimers!AllReset
  <1>4. ASSUME NEW hand \in SwingTimers!Hands  PROVE SwingTimers!Bounded(SwingTimers!Swung(hand))
    BY <1>1 DEF SwingTimers!Swung, SwingTimers!AtLeast, SwingTimers!kAttackDisplayDelayMs
  <1>5. ASSUME NEW hand \in SwingTimers!Hands
        PROVE  SwingTimers!Bounded(
                 [timers EXCEPT ![hand] = SwingTimers!Hasted(@, UnhastedDelayMs[hand])])
    <2>1. timers[hand] \in Nat /\ UnhastedDelayMs[hand] \in Nat  BY <1>1, <1>5
    <2>2. SwingTimers!Hasted(timers[hand], UnhastedDelayMs[hand]) \in 0..timers[hand]
      BY <2>1 DEF SwingTimers!Hasted
    <2> QED  BY <1>1, <2>1, <2>2
  <1>6. SwingTimers!Bounded([timers EXCEPT !["off"] = timers["main"] + AttackTimeMs["main"] \div 2])
    BY <1>1, <1>2
  <1> QED  BY <1>3, <1>4, <1>5, <1>6

LEMMA LeftIs ==
  ASSUME TypeOK, NEW s \in SwingTimers!States, NEW m, NEW t \in weapons,
         SwingTimers!Bounded(m), SwingTimers!Tracks(s, m, t)
  PROVE  SwingTimers!Remaining(s, t) = m[t]
  <1>1. m[t] \in 0..((Ticks \div 2) - 1)  BY Clocks DEF SwingTimers!Bounded
  <1> QED  BY <1>1, Clocks, RemainingIsLeft

\* OnMeleeSwing is the server's Swung.
LEMMA MeleeTracks ==
  ASSUME TypeOK, SwingTimers!Bounded(timers), SwingTimers!AllTrack(swing, timers),
         NEW hand \in SwingTimers!Hands
  PROVE  /\ SwingTimers!OnMeleeSwing(swing, hand) \in SwingTimers!States
         /\ SwingTimers!AllTrack(SwingTimers!OnMeleeSwing(swing, hand), SwingTimers!Swung(hand))
  <1> USE Clocks
  <1> DEFINE other == SwingTimers!OtherHand(hand)
             n == SwingTimers!Swung(hand)
             s1 == SwingTimers!Reset(swing, hand)
             s2 == SwingTimers!Reset(s1, SwingTimers!RANGED)
             s3 == SwingTimers!SetRemaining(s2, other, 1)
  <1>0. /\ hand # other /\ other # SwingTimers!RANGED /\ hand # SwingTimers!RANGED
        /\ SwingTimers!SwingTypes = {hand, other, SwingTimers!RANGED}
        /\ \A t \in SwingTimers!SwingTypes : AttackTimeMs[t] \in Nat
    BY DEF SwingTimers!SwingTypes, SwingTimers!Hands, SwingTimers!OtherHand,
           SwingTimers!MAIN_HAND, SwingTimers!OFF_HAND, SwingTimers!RANGED
  <1>1. /\ n[hand] = AttackTimeMs[hand] /\ n[SwingTimers!RANGED] = AttackTimeMs[SwingTimers!RANGED]
        /\ n[other] = SwingTimers!AtLeast(timers[other], 1)
    BY <1>0 DEF SwingTimers!Swung, SwingTimers!kAttackDisplayDelayMs
  <1>2. SwingTimers!OnMeleeSwing(swing, hand)
          = IF SwingTimers!Remaining(s2, other) < 1 THEN s3 ELSE s2
    BY DEF SwingTimers!OnMeleeSwing, SwingTimers!kAttackDisplayDelayMs
  <1>3. s1 = SwingTimers!SetRemaining(swing, hand, AttackTimeMs[hand])
    BY DEF SwingTimers!Reset
  <1>4. s2 = SwingTimers!SetRemaining(s1, SwingTimers!RANGED, AttackTimeMs[SwingTimers!RANGED])
    BY DEF SwingTimers!Reset
  <1> HIDE DEF other, n, s1, s2
  <1>5. /\ s1 \in SwingTimers!States
        /\ \A u \in weapons : u = hand => SwingTimers!Tracks(s1, n, u)
        /\ \A u \in weapons : SwingTimers!Tracks(swing, timers, u) /\ u # hand
             => SwingTimers!Tracks(s1, timers, u)
    <2>1. s1 \in SwingTimers!States /\ \A u \in weapons : u = hand => SwingTimers!Tracks(s1, n, u)
      BY <1>0, <1>1, <1>3, SetTracks
    <2>2. \A u \in SwingTimers!SwingTypes : u # hand => s1[u] = swing[u]
      BY <1>3 DEF SwingTimers!SetRemaining, SwingTimers!States
    <2> QED  BY <2>1, <2>2 DEF SwingTimers!Tracks
  <1>6. /\ s2 \in SwingTimers!States
        /\ \A u \in weapons : u \in {hand, SwingTimers!RANGED} => SwingTimers!Tracks(s2, n, u)
        /\ other \in weapons => SwingTimers!Tracks(s2, timers, other)
    <2>0. SwingTimers!RANGED \in SwingTimers!SwingTypes
          /\ AttackTimeMs[SwingTimers!RANGED] \in Nat
      BY <1>0
    <2>1. s2 \in SwingTimers!States
          /\ \A u \in weapons : u \in {hand, SwingTimers!RANGED} => SwingTimers!Tracks(s2, n, u)
      BY <1>1, <1>4, <1>5, <2>0, SetTracks
    <2>2. \A u \in SwingTimers!SwingTypes : u # SwingTimers!RANGED => s2[u] = s1[u]
      BY <1>4, <1>5 DEF SwingTimers!SetRemaining, SwingTimers!States
    <2>3. other \in weapons => SwingTimers!Tracks(s1, timers, other)
      BY <1>0, <1>5 DEF SwingTimers!AllTrack
    <2> QED  BY <1>0, <2>1, <2>2, <2>3 DEF SwingTimers!Tracks
  <1>7. CASE other \in weapons
    <2>1. SwingTimers!Remaining(s2, other) = timers[other] /\ timers[other] \in Nat
      <3>1. SwingTimers!Remaining(s2, other) = timers[other]  BY <1>6, <1>7, LeftIs
      <3>2. timers[other] \in Nat  BY <1>0, TicksAre DEF SwingTimers!Bounded
      <3> QED  BY <3>1, <3>2
    <2>2. CASE timers[other] < 1
      <3>1. n[other] = 1  BY <1>1, <2>2 DEF SwingTimers!AtLeast
      <3>2. s3 \in SwingTimers!States /\ \A u \in weapons : SwingTimers!Tracks(s3, n, u)
        BY <1>0, <1>6, <3>1, SetTracks
      <3> QED  BY <1>2, <2>1, <2>2, <3>2 DEF SwingTimers!AllTrack, n
    <2>3. CASE ~(timers[other] < 1)
      <3>1. n[other] = timers[other]  BY <1>1, <2>3 DEF SwingTimers!AtLeast
      <3>2. SwingTimers!Tracks(s2, n, other)
        BY <1>6, <1>7, <3>1 DEF SwingTimers!Tracks
      <3>3. \A u \in weapons : SwingTimers!Tracks(s2, n, u)  BY <1>0, <1>6, <3>2
      <3> QED  BY <1>2, <1>6, <2>1, <2>3, <3>3 DEF SwingTimers!AllTrack, n
    <2> QED  BY <2>2, <2>3
  <1>8. CASE other \notin weapons
    <2>1. s3 = s2  BY <1>8 DEF SwingTimers!SetRemaining, SwingTimers!HasWeapon
    <2>2. \A u \in weapons : SwingTimers!Tracks(s2, n, u)  BY <1>0, <1>6, <1>8
    <2> QED  BY <1>2, <1>6, <2>1, <2>2 DEF SwingTimers!AllTrack, n
  <1> QED  BY <1>7, <1>8

\* ApplyParryHaste picks the hand the server hastes, and hastes it alike.
LEMMA ParryTracks ==
  ASSUME TypeOK, SwingTimers!Bounded(timers), SwingTimers!AllTrack(swing, timers),
         NEW hand,
         hand = IF /\ SwingTimers!HasWeapon(SwingTimers!OFF_HAND)
                   /\ timers[SwingTimers!OFF_HAND] < timers[SwingTimers!MAIN_HAND]
                  THEN SwingTimers!OFF_HAND ELSE SwingTimers!MAIN_HAND,
         NEW n, n = [timers EXCEPT ![hand] = SwingTimers!Hasted(@, UnhastedDelayMs[hand])]
  PROVE  /\ SwingTimers!ApplyParryHaste(swing) \in SwingTimers!States
         /\ SwingTimers!AllTrack(SwingTimers!ApplyParryHaste(swing), n)
  <1> USE Clocks
  <1> DEFINE rest == SwingTimers!Remaining(swing, hand)
             hasted == SwingTimers!Hasted(rest, UnhastedDelayMs[hand])
  <1>0. hand \in weapons /\ hand \in SwingTimers!Hands /\ hand \in SwingTimers!SwingTypes
    BY DEF SwingTimers!HasWeapon, SwingTimers!SwingTypes, SwingTimers!Hands
  <1>1. \A t \in weapons : SwingTimers!Remaining(swing, t) = timers[t]
    BY LeftIs DEF SwingTimers!AllTrack
  <1>2. timers \in [SwingTimers!SwingTypes -> Nat]
    BY TicksAre DEF SwingTimers!Bounded
  <1>3. rest = timers[hand] /\ rest \in Nat  BY <1>0, <1>1, <1>2
  <1>4. hand = IF /\ SwingTimers!HasWeapon(SwingTimers!OFF_HAND)
                  /\ SwingTimers!Remaining(swing, SwingTimers!OFF_HAND)
                       < SwingTimers!Remaining(swing, SwingTimers!MAIN_HAND)
                 THEN SwingTimers!OFF_HAND ELSE SwingTimers!MAIN_HAND
    BY <1>1 DEF SwingTimers!HasWeapon
  <1>5. SwingTimers!ApplyParryHaste(swing)
          = IF swing[hand].active /\ hasted # rest
              THEN SwingTimers!SetRemaining(swing, hand, hasted) ELSE swing
    BY <1>4 DEF SwingTimers!ApplyParryHaste
  <1>6. n[hand] = hasted /\ \A t \in SwingTimers!SwingTypes : t # hand => n[t] = timers[t]
    BY <1>0, <1>2, <1>3
  <1>7. hasted \in Nat
    <2>1. UnhastedDelayMs[hand] \in Nat  BY <1>0
    <2> HIDE DEF rest
    <2> QED  BY <1>3, <2>1 DEF SwingTimers!Hasted
  <1>8. rest = 0 => hasted = 0
    <2>1. UnhastedDelayMs[hand] \in Nat  BY <1>0
    <2> HIDE DEF rest
    <2> QED  BY <1>3, <2>1 DEF SwingTimers!Hasted
  <1>9. rest > 0 => swing[hand].active
    BY <1>0, <1>3 DEF SwingTimers!AllTrack, SwingTimers!Tracks
  <1>10. \A u \in weapons : u # hand => SwingTimers!Tracks(swing, n, u)
    BY <1>6 DEF SwingTimers!AllTrack, SwingTimers!Tracks
  <1> HIDE DEF rest, hasted
  <1>11. CASE swing[hand].active /\ hasted # rest
    <2>1. /\ SwingTimers!SetRemaining(swing, hand, hasted) \in SwingTimers!States
          /\ \A u \in weapons : u = hand \/ SwingTimers!Tracks(swing, n, u) =>
               SwingTimers!Tracks(SwingTimers!SetRemaining(swing, hand, hasted), n, u)
      <3>1. hand \in weapons => n[hand] = hasted  BY <1>6
      <3> QED  BY <1>0, <1>7, <3>1, SetTracks
    <2> QED  BY <1>5, <1>10, <1>11, <2>1 DEF SwingTimers!AllTrack
  <1>12. CASE ~(swing[hand].active /\ hasted # rest)
    <2>1. hasted = rest
      <3>1. rest = 0 \/ rest > 0  BY <1>3
      <3> QED  BY <1>8, <1>9, <1>12, <3>1
    <2>2. SwingTimers!Tracks(swing, n, hand)
      BY <1>0, <1>3, <1>6, <2>1 DEF SwingTimers!AllTrack, SwingTimers!Tracks
    <2> QED  BY <1>5, <1>10, <1>12, <2>2 DEF SwingTimers!AllTrack
  <1> QED  BY <1>11, <1>12

\* What SetAttacking_h starts, the server starts.
LEMMA AttackTracks ==
  ASSUME TypeOK, SwingTimers!Bounded(timers), SwingTimers!AllTrack(swing, timers),
         NEW n, n = IF timers[SwingTimers!OFF_HAND] = 0
                      THEN [timers EXCEPT ![SwingTimers!OFF_HAND] =
                              timers[SwingTimers!MAIN_HAND]
                                + AttackTimeMs[SwingTimers!MAIN_HAND] \div 2]
                      ELSE timers,
         NEW s, s = IF SwingTimers!Remaining(swing, SwingTimers!OFF_HAND) = 0
                      THEN SwingTimers!SetRemaining(swing, SwingTimers!OFF_HAND,
                             SwingTimers!Remaining(swing, SwingTimers!MAIN_HAND)
                               + AttackTimeMs[SwingTimers!MAIN_HAND] \div 2)
                      ELSE swing
  PROVE  s \in SwingTimers!States /\ SwingTimers!AllTrack(s, n)
  <1> USE Clocks
  <1> DEFINE off == SwingTimers!OFF_HAND
             main == SwingTimers!MAIN_HAND
             rest == SwingTimers!Remaining(swing, main) + AttackTimeMs[main] \div 2
  <1>0. main \in SwingTimers!SwingTypes /\ off \in SwingTimers!SwingTypes /\ main \in weapons
    BY DEF SwingTimers!SwingTypes, SwingTimers!Hands
  <1>1. \A t \in weapons : SwingTimers!Remaining(swing, t) = timers[t]
    BY LeftIs DEF SwingTimers!AllTrack
  <1>2. timers \in [SwingTimers!SwingTypes -> Nat]
    BY TicksAre DEF SwingTimers!Bounded
  <1>3. rest = timers[main] + AttackTimeMs[main] \div 2 /\ rest \in Nat
    <2>1. AttackTimeMs[main] \in Nat /\ timers[main] \in Nat  BY <1>0, <1>2
    <2> QED  BY <1>0, <1>1, <2>1
  <1>4. s = IF SwingTimers!Remaining(swing, off) = 0
              THEN SwingTimers!SetRemaining(swing, off, rest) ELSE swing
    OBVIOUS
  <1>5. /\ \A t \in SwingTimers!SwingTypes : t # off => n[t] = timers[t]
        /\ n[off] = IF timers[off] = 0 THEN rest ELSE timers[off]
    BY <1>0, <1>2, <1>3
  <1>6. \A u \in weapons : u # off => SwingTimers!Tracks(swing, n, u)
    BY <1>5 DEF SwingTimers!AllTrack, SwingTimers!Tracks
  <1> HIDE DEF rest, off, main
  <1>7. CASE off \notin weapons
    <2>1. s = swing  BY <1>4, <1>7 DEF SwingTimers!SetRemaining, SwingTimers!HasWeapon
    <2> QED  BY <1>6, <1>7, <2>1 DEF SwingTimers!AllTrack
  <1>8. CASE off \in weapons /\ timers[off] = 0
    <2>1. s = SwingTimers!SetRemaining(swing, off, rest) /\ n[off] = rest
      BY <1>1, <1>4, <1>5, <1>8
    <2>2. /\ SwingTimers!SetRemaining(swing, off, rest) \in SwingTimers!States
          /\ \A u \in weapons : u = off \/ SwingTimers!Tracks(swing, n, u) =>
               SwingTimers!Tracks(SwingTimers!SetRemaining(swing, off, rest), n, u)
      BY <1>0, <1>3, <2>1, SetTracks
    <2> QED  BY <1>6, <2>1, <2>2 DEF SwingTimers!AllTrack
  <1>9. CASE off \in weapons /\ timers[off] # 0
    <2>1. s = swing /\ n[off] = timers[off]  BY <1>1, <1>4, <1>5, <1>9
    <2>2. SwingTimers!Tracks(swing, n, off)
      BY <1>9, <2>1 DEF SwingTimers!AllTrack, SwingTimers!Tracks
    <2> QED  BY <1>6, <2>1, <2>2 DEF SwingTimers!AllTrack
  <1> QED  BY <1>7, <1>8, <1>9

\* When the player's cast ends, EndCast has all timers at what the server has.
LEMMA EndCastTracks ==
  ASSUME IInv, NEW x \in casting[Player]
  PROVE  /\ SwingTimers!EndCast \in SwingTimers!States
         /\ SwingTimers!AllTrack(SwingTimers!EndCast, timers)
  <1> USE Clocks DEF IInv
  <1> DEFINE s1 == SwingTimers!Continued(swing, SwingTimers!MAIN_HAND)
             s2 == SwingTimers!Continued(s1, SwingTimers!OFF_HAND)
  <1>0. /\ SwingTimers!SwingTypes =
             {SwingTimers!MAIN_HAND, SwingTimers!OFF_HAND, SwingTimers!RANGED}
        /\ SwingTimers!Hands = {SwingTimers!MAIN_HAND, SwingTimers!OFF_HAND}
        /\ SwingTimers!RANGED \notin SwingTimers!Hands
        /\ SwingTimers!MAIN_HAND # SwingTimers!OFF_HAND
    BY DEF SwingTimers!SwingTypes, SwingTimers!Hands, SwingTimers!MAIN_HAND,
           SwingTimers!OFF_HAND, SwingTimers!RANGED
  <1>1. timers \in [SwingTimers!SwingTypes -> Nat]
    BY TicksAre DEF SwingTimers!SwingInv, SwingTimers!Bounded
  <1>2. \A t \in weapons : SwingTimers!Counting(t) \/ timers[t] = 0
                             => SwingTimers!Tracks(swing, timers, t)
    BY DEF SwingTimers!SwingInv, SwingTimers!TracksWhatCounts
  <1>3. \A h \in SwingTimers!Hands \cap weapons :
          cast.pauses => cast.pausedLeft[h] = timers[h]
    BY DEF SwingTimers!SwingInv, SwingTimers!CastKnown
  <1>4. CASE cast.pauses
    <2>0. \A h \in SwingTimers!Hands : cast.pausedLeft[h] \in Nat
      BY TicksAre DEF TypeOK, SwingTimers!SwingTypeOK, SwingTimers!CastRecords, SwingTimers!Lefts
    <2>1. \A h \in SwingTimers!Hands : \A s :
            SwingTimers!Continued(s, h) = IF cast.pausedLeft[h] # 0
                                            THEN SwingTimers!SetRemaining(s, h, cast.pausedLeft[h])
                                            ELSE s
      BY <1>4 DEF SwingTimers!Continued
    <2>2. ASSUME NEW s \in SwingTimers!States, NEW h \in SwingTimers!Hands,
                 h \in weapons /\ timers[h] = 0 => SwingTimers!Tracks(s, timers, h)
          PROVE  /\ SwingTimers!Continued(s, h) \in SwingTimers!States
                 /\ h \in weapons => SwingTimers!Tracks(SwingTimers!Continued(s, h), timers, h)
                 /\ \A u \in SwingTimers!SwingTypes :
                      u # h => SwingTimers!Continued(s, h)[u] = s[u]
      <3>1. h \in SwingTimers!SwingTypes  BY DEF SwingTimers!SwingTypes
      <3>2. h \in weapons => timers[h] = cast.pausedLeft[h]  BY <1>3, <1>4
      <3>3. CASE cast.pausedLeft[h] # 0
        <4>1. SwingTimers!Continued(s, h)
                = SwingTimers!SetRemaining(s, h, cast.pausedLeft[h])
          BY <2>1, <3>3
        <4>2. cast.pausedLeft[h] \in Nat  BY <2>0
        <4>3. /\ SwingTimers!SetRemaining(s, h, cast.pausedLeft[h]) \in SwingTimers!States
              /\ h \in weapons => SwingTimers!Tracks(
                   SwingTimers!SetRemaining(s, h, cast.pausedLeft[h]), timers, h)
          BY <3>1, <3>2, <4>2, SetTracks
        <4>4. \A u \in SwingTimers!SwingTypes :
                u # h => SwingTimers!SetRemaining(s, h, cast.pausedLeft[h])[u] = s[u]
          BY DEF SwingTimers!SetRemaining, SwingTimers!States
        <4> QED  BY <4>1, <4>3, <4>4
      <3>4. CASE cast.pausedLeft[h] = 0
        BY <2>1, <2>2, <3>2, <3>4
      <3> QED  BY <3>3, <3>4
    <2>3. \A u \in weapons : timers[u] = 0 \/ u \notin SwingTimers!Hands
            => SwingTimers!Tracks(swing, timers, u)
      BY <1>2 DEF SwingTimers!Counting, SwingTimers!HasWeapon
    <2>4. /\ s1 \in SwingTimers!States
          /\ SwingTimers!MAIN_HAND \in weapons =>
               SwingTimers!Tracks(s1, timers, SwingTimers!MAIN_HAND)
          /\ \A u \in SwingTimers!SwingTypes : u # SwingTimers!MAIN_HAND => s1[u] = swing[u]
      <3>1. SwingTimers!MAIN_HAND \in SwingTimers!Hands  BY <1>0
      <3>2. SwingTimers!MAIN_HAND \in weapons /\ timers[SwingTimers!MAIN_HAND] = 0
              => SwingTimers!Tracks(swing, timers, SwingTimers!MAIN_HAND)
        BY <2>3
      <3> QED  BY <2>2, <3>1, <3>2
    <2> HIDE DEF s1
    <2>5. \A u \in weapons : u # SwingTimers!MAIN_HAND
            /\ (timers[u] = 0 \/ u \notin SwingTimers!Hands) => SwingTimers!Tracks(s1, timers, u)
      BY <2>3, <2>4 DEF SwingTimers!Tracks
    <2>6. /\ s2 \in SwingTimers!States
          /\ SwingTimers!OFF_HAND \in weapons =>
               SwingTimers!Tracks(s2, timers, SwingTimers!OFF_HAND)
          /\ \A u \in SwingTimers!SwingTypes : u # SwingTimers!OFF_HAND => s2[u] = s1[u]
      <3>1. SwingTimers!OFF_HAND \in SwingTimers!Hands  BY <1>0
      <3>2. SwingTimers!OFF_HAND \in weapons /\ timers[SwingTimers!OFF_HAND] = 0
              => SwingTimers!Tracks(s1, timers, SwingTimers!OFF_HAND)
        BY <1>0, <2>5
      <3> QED  BY <2>2, <2>4, <3>1, <3>2
    <2> HIDE DEF s2
    <2>7. \A u \in weapons : u # SwingTimers!OFF_HAND
            /\ SwingTimers!Tracks(s1, timers, u) => SwingTimers!Tracks(s2, timers, u)
      BY <2>6 DEF SwingTimers!Tracks
    <2>8. \A u \in weapons : SwingTimers!Tracks(s2, timers, u)
      BY <1>0, <2>4, <2>5, <2>6, <2>7
    <2> QED  BY <2>6, <2>8 DEF SwingTimers!EndCast, SwingTimers!AllTrack, s1, s2
  <1>5. CASE ~cast.pauses
    <2>1. SwingTimers!EndCast = swing
      BY <1>5 DEF SwingTimers!EndCast, SwingTimers!Continued
    <2>2. ~SwingTimers!Paused
      <3>1. \A y \in casting[Player] : ~SwingTimers!Pauses(Flags[y.spell], y.castTime)
        BY <1>5 DEF SwingTimers!SwingInv, SwingTimers!CastKnown
      <3> QED  BY <3>1 DEF SwingTimers!Paused
    <2> QED  BY <1>2, <2>1, <2>2 DEF SwingTimers!Counting, SwingTimers!HasWeapon,
                                     SwingTimers!AllTrack
  <1> QED  BY <1>4, <1>5

-----------------------------------------------------------------------------
(* What the observers read.                                                *)

LEMMA ReadsAre ==
  /\ \A m, k, n : SwingTimers!Read(m, k, n) = Read(m, k, n) /\ Rez!Read(m, k, n) = Read(m, k, n)
  /\ \A m, k, n : Rez!Overrun(m, k, n) <=> Overrun(m, k, n)
  BY DEF Read, SwingTimers!Read, Rez!Read, Overrun, Rez!Overrun

LEMMA GoObserved ==
  ASSUME NEW c, NEW n, NEW spell \in Spells, RunCastObservers("go", GoPacket(c, n, spell))
  PROVE  /\ c # Player => UNCHANGED <<swing, cast>>
         /\ c = Player => SwingTimers!OnSpellGo(spell, n)
         /\ Rez!End(c, n, spell)
  <1> DEFINE msg == GoPacket(c, n, spell)
  <1>1. Read(msg, 1, 2) = c /\ Read(msg, 1, 3) = n /\ Read(msg, 1, 4) = spell
    BY DEF Read, GoPacket
  <1>2. spell # 0  BY PacketAssumption DEF PacketAssumption
  <1>3. /\ SwingTimers!OnSpellCastPacket("go", msg, 1)
        /\ Rez!OnSpellCastPacket("go", msg, 1)
    BY DEF RunCastObservers, CursorAfter
  <1> HIDE DEF msg
  <1> QED
    BY <1>1, <1>2, <1>3, ReadsAre DEF SwingTimers!OnSpellCastPacket, Rez!OnSpellCastPacket,
       SwingTimers!SMSG_SPELL_START

LEMMA StartObserved ==
  ASSUME NEW c \in Casters, NEW x, x.spell \in Spells,
         RunCastObservers("start", StartPacket(c, x))
  PROVE  /\ c # Player => UNCHANGED <<swing, cast>>
         /\ c = Player => SwingTimers!OnSpellStart(x.spell, x.count, x.castTime)
         /\ x.target = 0 \/ x.spell \notin Resurrects => UNCHANGED <<entries, told>>
         /\ x.target # 0 /\ x.spell \in Resurrects => Rez!Begin(x.target, c, x.count, x.spell)
  <1> DEFINE msg == StartPacket(c, x)
  <1>1. /\ Read(msg, 1, 2) = c /\ Read(msg, 1, 3) = x.count /\ Read(msg, 1, 4) = x.spell
        /\ Read(msg, 1, 6) = x.castTime
    BY DEF Read, StartPacket
  <1>2. x.target = 0 => Read(msg, 1, 7) = 0  BY DEF Read, StartPacket
  <1>3. x.target # 0 => Read(msg, 1, 7) = 1 /\ Read(msg, 1, 8) = x.target /\ ~Overrun(msg, 1, 8)
    BY DEF Read, StartPacket, Overrun
  <1>4. x.spell # 0 /\ c # 0
    BY PacketAssumption DEF PacketAssumption, Rez!ResurrectionAssumption
  <1>5. /\ SwingTimers!OnSpellCastPacket("start", msg, 1)
        /\ Rez!OnSpellCastPacket("start", msg, 1)
    BY DEF RunCastObservers, CursorAfter
  <1> HIDE DEF msg
  <1> QED
    BY <1>1, <1>2, <1>3, <1>4, <1>5, ReadsAre
       DEF SwingTimers!OnSpellCastPacket, Rez!OnSpellCastPacket, SwingTimers!SMSG_SPELL_START

LEMMA FailureObserved ==
  ASSUME NEW c, NEW x, RunFailureObservers(FailurePacket(c, x))
  PROVE  /\ c # Player => UNCHANGED <<swing, cast>>
         /\ c = Player /\ SwingTimers!IsCurrentCast(x.count, x.spell)
              => swing' = SwingTimers!EndCast /\ cast' = [cast EXCEPT !.valid = FALSE]
         /\ Rez!End(c, x.count, x.spell)
  <1> DEFINE msg == FailurePacket(c, x)
  <1>1. Read(msg, 1, 1) = c /\ Read(msg, 1, 2) = x.count /\ Read(msg, 1, 3) = x.spell
    BY DEF Read, FailurePacket
  <1>2. SwingTimers!OnSpellFailurePacket(msg, 1) /\ Rez!OnSpellFailurePacket(msg, 1)
    BY DEF RunFailureObservers, CursorAfter
  <1> HIDE DEF msg
  <1> QED
    BY <1>1, <1>2, ReadsAre DEF SwingTimers!OnSpellFailurePacket, Rez!OnSpellFailurePacket,
       SwingTimers!IsCurrentCast

-----------------------------------------------------------------------------
(* SwingInv, step by step.                                                 *)

SwingKept == SwingTimers!SwingTypeOK' /\ SwingTimers!SwingInv'

Clock == <<start, uptime, weapons, shown>>

\* With no timer stopped, all are tracked.
LEMMA TracksWhenGoing ==
  ASSUME IInv, ~SwingTimers!Paused
  PROVE  SwingTimers!AllTrack(swing, timers)
  BY DEF IInv, SwingTimers!SwingInv, SwingTimers!TracksWhatCounts, SwingTimers!AllTrack,
     SwingTimers!Counting, SwingTimers!HasWeapon

LEMMA GoingBetweenCasts ==
  ASSUME casting[Player] = {}
  PROVE  ~SwingTimers!Paused
  BY DEF SwingTimers!Paused

LEMMA TrackingIsEnough ==
  ASSUME IInv, UNCHANGED Clock, swing' \in SwingTimers!States,
         SwingTimers!AllTrack(swing', timers'), SwingTimers!Bounded(timers'),
         cast' \in SwingTimers!CastRecords, SwingTimers!CastKnown'
  PROVE  SwingKept
  <1> USE DEF Clock
  <1>1. timers' \in [SwingTimers!SwingTypes -> SwingTimers!Lefts]
    BY Clocks, TicksAre DEF IInv, SwingTimers!Bounded, SwingTimers!Lefts
  <1>2. SwingTimers!SwingTypeOK'
    BY <1>1 DEF IInv, TypeOK, SwingTimers!SwingTypeOK, SwingTimers!States,
       SwingTimers!CastRecords, SwingTimers!Lefts
  <1>3. SwingTimers!TracksWhatCounts'
    BY DEF SwingTimers!TracksWhatCounts, SwingTimers!AllTrack, SwingTimers!Tracks
  <1>4. SwingTimers!Bounded(timers)'  BY DEF SwingTimers!Bounded
  <1> QED  BY <1>2, <1>3, <1>4 DEF SwingKept, SwingTimers!SwingInv

\* Steps that are not about the player.
LEMMA OthersSteps ==
  ASSUME IInv, UNCHANGED <<Clock, swing, cast, timers>>, casting'[Player] = casting[Player]
  PROVE  SwingKept
  <1> USE DEF Clock
  <1>1. SwingTimers!SwingTypeOK'
    BY DEF IInv, TypeOK, SwingTimers!SwingTypeOK, SwingTimers!States,
       SwingTimers!CastRecords, SwingTimers!Lefts
  <1>2. SwingTimers!TracksWhatCounts'
    BY DEF IInv, SwingTimers!SwingInv, SwingTimers!TracksWhatCounts, SwingTimers!Tracks,
       SwingTimers!Counting, SwingTimers!Paused, SwingTimers!HasWeapon
  <1>3. SwingTimers!CastKnown'
    BY DEF IInv, SwingTimers!SwingInv, SwingTimers!CastKnown, SwingTimers!IsCurrentCast
  <1>4. SwingTimers!Bounded(timers)'
    BY DEF IInv, SwingTimers!SwingInv, SwingTimers!Bounded
  <1> QED  BY <1>1, <1>2, <1>3, <1>4 DEF SwingKept, SwingTimers!SwingInv

\* With no cast in progress, only a valid record's castCount matters.
LEMMA NoCastIsKnown ==
  ASSUME casting'[Player] = {}, cast'.valid => cast'.castCount # 0
  PROVE  SwingTimers!CastKnown'
  BY DEF SwingTimers!CastKnown

LEMMA CastIsTyped ==
  ASSUME TypeOK
  PROVE  /\ cast \in SwingTimers!CastRecords
         /\ \A spell \in Spells : spell \in DOMAIN Flags
         /\ [cast EXCEPT !.valid = FALSE] \in SwingTimers!CastRecords
         /\ [cast EXCEPT !.valid = FALSE].valid = FALSE
  BY PacketAssumption DEF TypeOK, SwingTimers!SwingTypeOK, SwingTimers!CastRecords,
     PacketAssumption

\* The player begins a cast, or queues a spell for the next swing: OnSpellStart keeps what
\* is left of the timers that the cast stops.
LEMMA PlayerStarts ==
  ASSUME IInv, UNCHANGED <<Clock, timers>>, casting[Player] = {},
         NEW spell \in Spells, NEW n \in 1..2, NEW castTime \in Nat,
         SwingTimers!OnSpellStart(spell, n, castTime),
         \A y \in casting'[Player] : y.spell = spell /\ y.count = n /\ y.castTime = castTime
  PROVE  SwingKept
  <1> USE DEF IInv
  <1>1. SwingTimers!AllTrack(swing, timers)  BY GoingBetweenCasts, TracksWhenGoing
  <1>2. SwingTimers!Bounded(timers)  BY DEF SwingTimers!SwingInv
  <1>3. /\ \A h \in SwingTimers!Hands : SwingTimers!Remaining(swing, h) \in SwingTimers!Lefts
        /\ \A h \in SwingTimers!Hands \cap weapons :
             SwingTimers!Remaining(swing, h) = timers[h]
    <2>1. \A h \in SwingTimers!Hands :
            SwingTimers!Remaining(swing, h) \in 0..((Ticks \div 2) - 1)
      BY Clocks, RemainingTypes DEF SwingTimers!SwingTypes
    <2>2. \A h \in SwingTimers!Hands \cap weapons :
            SwingTimers!Remaining(swing, h) = timers[h]
      BY <1>1, <1>2, Clocks, LeftIs DEF SwingTimers!AllTrack
    <2> QED  BY <2>1, <2>2, Clocks, TicksAre DEF SwingTimers!Lefts
  <1> DEFINE pauses == SwingTimers!Pauses(Flags[spell], castTime)
             lefts == IF pauses THEN [h \in SwingTimers!Hands |-> SwingTimers!Remaining(swing, h)]
                                ELSE SwingTimers!NotPaused
  <1>4. cast' = [valid |-> TRUE, castCount |-> n, spellID |-> spell, castTimeMs |-> castTime,
                 pauses |-> pauses, pausedLeft |-> lefts]
        /\ swing' = swing
    BY DEF SwingTimers!OnSpellStart
  <1>5. lefts \in [SwingTimers!Hands -> SwingTimers!Lefts] /\ pauses \in BOOLEAN
    <2>1. 0 \in SwingTimers!Lefts  BY Clocks, TicksAre DEF SwingTimers!Lefts
    <2> QED  BY <1>3, <2>1 DEF SwingTimers!NotPaused, SwingTimers!Pauses
  <1>6. pauses => \A h \in SwingTimers!Hands \cap weapons : lefts[h] = timers[h]
    BY <1>3
  <1>7. \A y \in casting'[Player] : pauses <=> SwingTimers!Pauses(Flags[y.spell], y.castTime)
    OBVIOUS
  <1> HIDE DEF pauses, lefts
  <1>8. cast' \in SwingTimers!CastRecords
    BY <1>4, <1>5, CastIsTyped DEF SwingTimers!CastRecords
  <1>9. SwingTimers!CastKnown'
    <2>1. \A y \in casting'[Player] : SwingTimers!IsCurrentCast(y.count, y.spell)'
      BY <1>4 DEF SwingTimers!IsCurrentCast
    <2>2. \A y \in casting'[Player] : cast'.castTimeMs = y.castTime
      BY <1>4
    <2>3. \A y \in casting'[Player] :
            cast'.pauses <=> SwingTimers!Pauses(Flags[y.spell], y.castTime)
      BY <1>4, <1>7
    <2>4. cast'.pauses => \A h \in SwingTimers!Hands \cap weapons' :
                            cast'.pausedLeft[h] = timers'[h]
      BY <1>4, <1>6 DEF Clock
    <2>5. cast'.valid => cast'.castCount # 0  BY <1>4
    <2> QED  BY <2>1, <2>2, <2>3, <2>4, <2>5 DEF SwingTimers!CastKnown
  <1>10. swing' \in SwingTimers!States /\ SwingTimers!AllTrack(swing', timers')
    BY <1>1, <1>4, Clocks DEF SwingTimers!AllTrack, SwingTimers!Tracks
  <1>11. SwingTimers!Bounded(timers')  BY <1>2 DEF SwingTimers!Bounded
  <1> QED  BY <1>8, <1>9, <1>10, <1>11, TrackingIsEnough

LEMMA CastSpellIsPlain ==
  ASSUME NEW spell \in CastSpells
  PROVE  spell \in Spells /\ ~Flags[spell].onNextSwing /\ ~Flags[spell].autorepeat
  BY DEF CastSpells, OnNextSwing, Autorepeat

\* The player's cast goes off: OnSpellGo ends the cast it knows, then resets if the server does.
LEMMA PlayerFinishes ==
  ASSUME IInv, UNCHANGED Clock, NEW x \in casting[Player], casting'[Player] = {},
         x.spell \in CastSpells, SwingTimers!OnSpellGo(x.spell, x.count),
         timers' = IF SwingTimers!CastResets(Flags[x.spell], x.count, x.castTime)
                     THEN SwingTimers!AllReset ELSE timers
  PROVE  SwingKept
  <1> DEFINE resets == SwingTimers!CastResets(Flags[x.spell], x.count, x.castTime)
  <1>0. TypeOK /\ SwingTimers!Bounded(timers)  BY DEF IInv, SwingTimers!SwingInv
  <1>1. SwingTimers!IsCurrentCast(x.count, x.spell) /\ cast.castTimeMs = x.castTime
    BY DEF IInv, SwingTimers!SwingInv, SwingTimers!CastKnown
  <1>2. /\ cast' = [cast EXCEPT !.valid = FALSE]
        /\ swing' = IF resets THEN SwingTimers!ResetAll(SwingTimers!EndCast)
                              ELSE SwingTimers!EndCast
    BY <1>1, CastSpellIsPlain DEF SwingTimers!OnSpellGo
  <1>3. /\ SwingTimers!EndCast \in SwingTimers!States
        /\ SwingTimers!AllTrack(SwingTimers!EndCast, timers)
    BY EndCastTracks
  <1>4. /\ SwingTimers!ResetAll(SwingTimers!EndCast) \in SwingTimers!States
        /\ SwingTimers!AllTrack(SwingTimers!ResetAll(SwingTimers!EndCast), SwingTimers!AllReset)
    BY <1>0, <1>3, ResetTracks
  <1>5. SwingTimers!Bounded(SwingTimers!AllReset)  BY <1>0, TimersStayBounded
  <1> HIDE DEF resets
  <1>6. cast' \in SwingTimers!CastRecords /\ ~cast'.valid  BY <1>0, <1>2, CastIsTyped
  <1>7. SwingTimers!CastKnown'  BY <1>6, NoCastIsKnown
  <1>8. CASE resets
    <2>1. swing' = SwingTimers!ResetAll(SwingTimers!EndCast) /\ timers' = SwingTimers!AllReset
      BY <1>2, <1>8 DEF resets
    <2> QED  BY <1>4, <1>5, <1>6, <1>7, <2>1, TrackingIsEnough
  <1>9. CASE ~resets
    <2>1. swing' = SwingTimers!EndCast /\ timers' = timers  BY <1>2, <1>9 DEF resets
    <2> QED  BY <1>0, <1>3, <1>6, <1>7, <2>1, TrackingIsEnough
  <1> QED  BY <1>8, <1>9

LEMMA PlayerFails ==
  ASSUME IInv, UNCHANGED <<Clock, timers>>, NEW x \in casting[Player], casting'[Player] = {},
         SwingTimers!IsCurrentCast(x.count, x.spell)
           => swing' = SwingTimers!EndCast /\ cast' = [cast EXCEPT !.valid = FALSE]
  PROVE  SwingKept
  <1>0. TypeOK /\ SwingTimers!Bounded(timers)  BY DEF IInv, SwingTimers!SwingInv
  <1>1. swing' = SwingTimers!EndCast /\ cast' = [cast EXCEPT !.valid = FALSE]
    BY DEF IInv, SwingTimers!SwingInv, SwingTimers!CastKnown
  <1>2. /\ SwingTimers!EndCast \in SwingTimers!States
        /\ SwingTimers!AllTrack(SwingTimers!EndCast, timers)
    BY EndCastTracks
  <1>3. cast' \in SwingTimers!CastRecords /\ ~cast'.valid  BY <1>0, <1>1, CastIsTyped
  <1>4. SwingTimers!CastKnown'  BY <1>3, NoCastIsKnown
  <1> QED  BY <1>0, <1>1, <1>2, <1>3, <1>4, TrackingIsEnough

\* A triggered spell's castCount of 0 is no cast's, and resets nothing.
LEMMA TriggeredIsNothing ==
  ASSUME IInv, NEW spell \in CastSpells, SwingTimers!OnSpellGo(spell, 0)
  PROVE  UNCHANGED <<swing, cast>>
  <1>1. ~SwingTimers!IsCurrentCast(0, spell)
    BY DEF IInv, SwingTimers!SwingInv, SwingTimers!CastKnown, SwingTimers!IsCurrentCast
  <1>2. ~SwingTimers!CastResets(Flags[spell], 0, 0)  BY DEF SwingTimers!CastResets
  <1> QED  BY <1>1, <1>2, CastSpellIsPlain DEF SwingTimers!OnSpellGo

\* Between casts a swing, a parry or an attack start leaves g_cast alone.
LEMMA SwingsAreKept ==
  ASSUME IInv, UNCHANGED <<Clock, cast>>, ~SwingTimers!Paused, casting'[Player] = casting[Player],
         swing' \in SwingTimers!States, SwingTimers!AllTrack(swing', timers'),
         SwingTimers!Bounded(timers')
  PROVE  SwingKept
  <1>1. cast' \in SwingTimers!CastRecords  BY CastIsTyped DEF IInv
  <1>2. SwingTimers!CastKnown'
    <2>1. \A x \in casting[Player] : ~SwingTimers!Pauses(Flags[x.spell], x.castTime)
      BY DEF SwingTimers!Paused
    <2> QED  BY <2>1 DEF IInv, SwingTimers!SwingInv, SwingTimers!CastKnown,
                         SwingTimers!IsCurrentCast
  <1> QED  BY <1>1, <1>2, TrackingIsEnough

LEMMA HandSwings ==
  ASSUME IInv, UNCHANGED <<Clock, cast>>, casting[Player] = {}, casting'[Player] = {},
         NEW hand \in SwingTimers!Hands, swing' = SwingTimers!OnMeleeSwing(swing, hand),
         timers' = SwingTimers!Swung(hand)
  PROVE  SwingKept
  <1>1. TypeOK /\ SwingTimers!Bounded(timers)  BY DEF IInv, SwingTimers!SwingInv
  <1>2. ~SwingTimers!Paused /\ SwingTimers!AllTrack(swing, timers)
    BY GoingBetweenCasts, TracksWhenGoing
  <1>3. /\ SwingTimers!OnMeleeSwing(swing, hand) \in SwingTimers!States
        /\ SwingTimers!AllTrack(SwingTimers!OnMeleeSwing(swing, hand), SwingTimers!Swung(hand))
    BY <1>1, <1>2, MeleeTracks
  <1>4. SwingTimers!Bounded(SwingTimers!Swung(hand))  BY <1>1, TimersStayBounded
  <1> QED  BY <1>2, <1>3, <1>4, SwingsAreKept

LEMMA ShotIsKept ==
  ASSUME IInv, UNCHANGED <<Clock, cast>>, casting[Player] = {}, casting'[Player] = {},
         swing' = SwingTimers!ResetAll(swing), timers' = SwingTimers!AllReset
  PROVE  SwingKept
  <1>1. TypeOK /\ SwingTimers!Bounded(timers)  BY DEF IInv, SwingTimers!SwingInv
  <1>2. ~SwingTimers!Paused  BY GoingBetweenCasts
  <1>3. /\ SwingTimers!ResetAll(swing) \in SwingTimers!States
        /\ SwingTimers!AllTrack(SwingTimers!ResetAll(swing), SwingTimers!AllReset)
    BY <1>1, Clocks, ResetTracks
  <1>4. SwingTimers!Bounded(SwingTimers!AllReset)  BY <1>1, TimersStayBounded
  <1> QED  BY <1>2, <1>3, <1>4, SwingsAreKept

LEMMA ParryIsKept ==
  ASSUME IInv, ~ActsWhilePaused, SwingTimers!Parry, casting'[Player] = casting[Player]
  PROVE  SwingKept
  <1>1. TypeOK /\ SwingTimers!Bounded(timers)  BY DEF IInv, SwingTimers!SwingInv
  <1>2. ~SwingTimers!Paused  BY DEF SwingTimers!Parry
  <1>3. SwingTimers!AllTrack(swing, timers)  BY <1>2, TracksWhenGoing
  <1> DEFINE hand == IF /\ SwingTimers!HasWeapon(SwingTimers!OFF_HAND)
                        /\ timers[SwingTimers!OFF_HAND] < timers[SwingTimers!MAIN_HAND]
                       THEN SwingTimers!OFF_HAND ELSE SwingTimers!MAIN_HAND
  <1>4. /\ timers' = [timers EXCEPT ![hand] = SwingTimers!Hasted(@, UnhastedDelayMs[hand])]
        /\ swing' = SwingTimers!ApplyParryHaste(swing) /\ UNCHANGED <<Clock, cast>>
    BY DEF SwingTimers!Parry, Clock
  <1>5. hand \in SwingTimers!Hands  BY DEF SwingTimers!Hands
  <1>6. hand = IF /\ SwingTimers!HasWeapon(SwingTimers!OFF_HAND)
                  /\ timers[SwingTimers!OFF_HAND] < timers[SwingTimers!MAIN_HAND]
                 THEN SwingTimers!OFF_HAND ELSE SwingTimers!MAIN_HAND
    OBVIOUS
  <1> HIDE DEF hand
  <1>7. swing' \in SwingTimers!States /\ SwingTimers!AllTrack(swing', timers')
    BY <1>1, <1>3, <1>4, <1>6, ParryTracks
  <1>8. SwingTimers!Bounded(timers')  BY <1>1, <1>4, <1>5, TimersStayBounded
  <1> QED  BY <1>2, <1>4, <1>7, <1>8, SwingsAreKept

LEMMA AttackIsKept ==
  ASSUME IInv, ~ActsWhilePaused, SwingTimers!SetAttacking, casting'[Player] = casting[Player]
  PROVE  SwingKept
  <1>1. TypeOK /\ SwingTimers!Bounded(timers)  BY DEF IInv, SwingTimers!SwingInv
  <1>2. ~SwingTimers!Paused  BY DEF SwingTimers!SetAttacking
  <1>3. SwingTimers!AllTrack(swing, timers)  BY <1>2, TracksWhenGoing
  <1>4. UNCHANGED <<Clock, cast>>  BY DEF SwingTimers!SetAttacking, Clock
  <1>5. swing' \in SwingTimers!States /\ SwingTimers!AllTrack(swing', timers')
    BY <1>1, <1>3, AttackTracks DEF SwingTimers!SetAttacking
  <1>6. SwingTimers!Bounded(timers')
    BY <1>1, TimersStayBounded DEF SwingTimers!SetAttacking
  <1> QED  BY <1>2, <1>4, <1>5, <1>6, SwingsAreKept

\* Time takes as much from what is left of a timer as from what the server has of it.
LEMMA TickIsKept ==
  ASSUME IInv, SwingTimers!Tick, casting'[Player] = casting[Player]
  PROVE  SwingKept
  <1> USE DEF SwingTimers!Tick
  <1>0. TypeOK /\ SwingTimers!SwingInv  BY DEF IInv
  <1>1. /\ start \in Nat /\ uptime \in Nat /\ MaxTime \in Nat /\ Ticks \div 2 \in Nat
        /\ weapons \subseteq SwingTimers!SwingTypes
        /\ SwingTimers!Hands \subseteq SwingTimers!SwingTypes
        /\ SwingTimers!MAIN_HAND \in SwingTimers!SwingTypes
        /\ AttackTimeMs[SwingTimers!MAIN_HAND] \in Nat
    BY <1>0, Clocks, TicksAre DEF SwingTimers!SwingTypes, SwingTimers!Hands
  <1>2. /\ timers \in [SwingTimers!SwingTypes -> 0..((Ticks \div 2) - 1)]
        /\ timers[SwingTimers!MAIN_HAND] <= AttackTimeMs[SwingTimers!MAIN_HAND]
    BY <1>0 DEF SwingTimers!SwingInv, SwingTimers!Bounded
  <1>3. \A t \in SwingTimers!SwingTypes :
          timers'[t] = IF timers[t] = 0 \/ (SwingTimers!Paused /\ t \in SwingTimers!Hands)
                         THEN timers[t] ELSE timers[t] - 1
    OBVIOUS
  <1>4. SwingTimers!Bounded(timers)'
    <2>1. timers' \in [SwingTimers!SwingTypes -> 0..((Ticks \div 2) - 1)]  BY <1>1, <1>2
    <2>2. timers'[SwingTimers!MAIN_HAND] <= AttackTimeMs[SwingTimers!MAIN_HAND]
      BY <1>1, <1>2, <1>3
    <2> QED  BY <2>1, <2>2 DEF SwingTimers!Bounded
  <1>5. SwingTimers!SwingTypeOK'
    <2>1. timers' \in [SwingTimers!SwingTypes -> SwingTimers!Lefts]
      BY <1>1, <1>4 DEF SwingTimers!Bounded, SwingTimers!Lefts
    <2>2. uptime' \in 0..MaxTime  BY <1>1
    <2> QED  BY <1>0, <2>1, <2>2 DEF TypeOK, SwingTimers!SwingTypeOK, SwingTimers!States,
                SwingTimers!CastRecords, SwingTimers!Lefts
  <1>6. SwingTimers!CastKnown'
    <2>1. ASSUME NEW x \in casting[Player], cast.pauses  PROVE SwingTimers!Paused
      BY <1>0, <2>1 DEF SwingTimers!SwingInv, SwingTimers!CastKnown, SwingTimers!Paused
    <2>2. SwingTimers!Paused => \A h \in SwingTimers!Hands : timers'[h] = timers[h]
      BY <1>1, <1>3
    <2> QED  BY <1>0, <2>1, <2>2 DEF SwingTimers!SwingInv, SwingTimers!CastKnown,
                SwingTimers!IsCurrentCast
  <1>7. SwingTimers!TracksWhatCounts'
    <2> SUFFICES ASSUME NEW t \in weapons, SwingTimers!Counting(t)' \/ timers'[t] = 0
                 PROVE  SwingTimers!Tracks(swing, timers, t)'
      BY DEF SwingTimers!TracksWhatCounts
    <2>1. timers[t] \in Nat /\ timers'[t] \in Nat  BY <1>1, <1>2, <1>3
    <2>2. SwingTimers!Counting(t)' = SwingTimers!Counting(t)
      BY DEF SwingTimers!Counting, SwingTimers!HasWeapon, SwingTimers!Paused
    <2>3. SwingTimers!Counting(t) \/ timers[t] = 0 => SwingTimers!Tracks(swing, timers, t)
      BY <1>0 DEF SwingTimers!SwingInv, SwingTimers!TracksWhatCounts
    <2>4. CASE timers[t] = 0
      <3>1. timers'[t] = 0  BY <1>1, <1>3, <2>4
      <3>2. PICK e \in 0..uptime : swing[t].endMs = (start + e) % Ticks
        BY <2>3, <2>4 DEF SwingTimers!Tracks
      <3>3. e \in 0..uptime'  BY <1>1
      <3> QED  BY <3>1, <3>2, <3>3 DEF SwingTimers!Tracks
    <2>5. CASE timers[t] > 0
      <3>1. SwingTimers!Counting(t) /\ timers'[t] = timers[t] - 1
        BY <1>1, <1>3, <2>1, <2>2, <2>5 DEF SwingTimers!Counting, SwingTimers!HasWeapon
      <3>2. /\ swing[t].endMs = (start + uptime + timers[t]) % Ticks /\ swing[t].active
            /\ ~swing[t].dirty => shown[t] = swing[t].endMs
        BY <2>3, <2>5, <3>1 DEF SwingTimers!Tracks
      <3>3. start + uptime + timers[t] = start + uptime' + timers'[t]
        BY <1>1, <2>1, <3>1
      <3>4. CASE timers'[t] > 0
        BY <3>2, <3>3, <3>4 DEF SwingTimers!Tracks
      <3>5. CASE timers'[t] = 0
        <4>1. start + uptime' + timers'[t] = start + uptime'  BY <1>1, <3>5
        <4>2. uptime' \in 0..uptime' /\ swing'[t].endMs = (start' + uptime') % Ticks
          BY <1>1, <3>2, <3>3, <4>1
        <4> QED  BY <3>5, <4>2 DEF SwingTimers!Tracks
      <3> QED  BY <2>1, <3>4, <3>5
    <2> QED  BY <2>1, <2>4, <2>5
  <1> QED  BY <1>4, <1>5, <1>6, <1>7 DEF SwingKept, SwingTimers!SwingInv

\* A frame tells of each changed timer that runs, and what it tells is when the timer ends.
LEMMA FrameIsKept ==
  ASSUME IInv, SwingTimers!OnFrame, casting'[Player] = casting[Player]
  PROVE  SwingKept
  <1> USE DEF SwingTimers!OnFrame
  <1>0. TypeOK /\ SwingTimers!SwingInv /\ SwingTimers!Bounded(timers)
    BY DEF IInv, SwingTimers!SwingInv
  <1>1. /\ Ticks \in Nat \ {0} /\ start \in Nat /\ uptime \in Nat
        /\ swing \in SwingTimers!States /\ weapons \subseteq SwingTimers!SwingTypes
        /\ \A t \in SwingTimers!SwingTypes : timers[t] \in Nat
    BY <1>0, Clocks, TicksAre DEF SwingTimers!Bounded
  <1>2. swing' \in SwingTimers!States
    BY <1>1 DEF SwingTimers!States
  <1>3. \A t \in SwingTimers!SwingTypes :
          /\ swing'[t].endMs = swing[t].endMs /\ swing'[t].active = swing[t].active
          /\ ~swing'[t].dirty
    BY <1>1 DEF SwingTimers!States
  <1>4. \A t \in SwingTimers!SwingTypes :
          (SwingTimers!GetTickCount + SwingTimers!Remaining(swing, t)) % Ticks \in 0..(Ticks - 1)
    <2> TAKE t \in SwingTimers!SwingTypes
    <2> DEFINE a == SwingTimers!GetTickCount + SwingTimers!Remaining(swing, t)
    <2>1. a \in Int
      <3>1. SwingTimers!Remaining(swing, t) \in 0..((Ticks \div 2) - 1)
        BY <1>0, <1>1, Clocks, RemainingTypes
      <3>2. SwingTimers!GetTickCount \in Int  BY <1>1 DEF SwingTimers!GetTickCount
      <3> QED  BY <3>1, <3>2
    <2> HIDE DEF a
    <2>2. a % Ticks \in 0..(Ticks - 1)  BY <1>1, <2>1
    <2> QED  BY <2>2 DEF a
  <1>5. SwingTimers!SwingTypeOK'
    <2>1. shown' \in [SwingTimers!SwingTypes -> -1..(Ticks - 1)]
      <3>1. shown \in [SwingTimers!SwingTypes -> -1..(Ticks - 1)]
        BY <1>0 DEF TypeOK, SwingTimers!SwingTypeOK
      <3>2. 0..(Ticks - 1) \subseteq -1..(Ticks - 1)  BY <1>1
      <3> QED  BY <1>4, <3>1, <3>2
    <2> QED  BY <1>0, <1>2, <2>1 DEF TypeOK, SwingTimers!SwingTypeOK, SwingTimers!States,
                SwingTimers!CastRecords, SwingTimers!Lefts
  <1>6. ASSUME NEW t \in weapons, SwingTimers!Tracks(swing, timers, t)
        PROVE  SwingTimers!Tracks(swing, timers, t)'
    <2>1. CASE timers[t] > 0
      <3>1. /\ swing[t].endMs = (start + uptime + timers[t]) % Ticks /\ swing[t].active
            /\ ~swing[t].dirty => shown[t] = swing[t].endMs
        BY <1>6, <2>1 DEF SwingTimers!Tracks
      <3>2. SwingTimers!Remaining(swing, t) = timers[t]  BY <1>0, <1>1, <1>6, LeftIs
      <3>3. (SwingTimers!GetTickCount + timers[t]) % Ticks = (start + uptime + timers[t]) % Ticks
        <4> DEFINE now == start + uptime
                   m == timers[t]
        <4>1. now \in Int /\ m \in Int  BY <1>1
        <4> HIDE DEF now, m
        <4>2. ((now % Ticks) + m) % Ticks = (now + m) % Ticks  BY <1>1, <4>1, ModAdd
        <4> QED  BY <4>2 DEF now, m, SwingTimers!GetTickCount
      <3>4. shown'[t] = swing[t].endMs
        <4>1. shown'[t] = IF swing[t].dirty /\ SwingTimers!Remaining(swing, t) # 0
                            THEN (SwingTimers!GetTickCount + SwingTimers!Remaining(swing, t)) % Ticks
                            ELSE shown[t]
          BY <1>1
        <4>2. timers[t] # 0  BY <1>1, <2>1
        <4> QED  BY <3>1, <3>2, <3>3, <4>1, <4>2
      <3>5. swing'[t].endMs = swing[t].endMs /\ swing'[t].active  BY <1>1, <1>3, <3>1
      <3> QED  BY <2>1, <3>1, <3>4, <3>5 DEF SwingTimers!Tracks
    <2>2. CASE timers[t] = 0
      BY <1>1, <1>3, <1>6, <2>2 DEF SwingTimers!Tracks
    <2> QED  BY <1>1, <2>1, <2>2
  <1>7. SwingTimers!TracksWhatCounts'
    <2>1. ASSUME NEW t \in weapons  PROVE SwingTimers!Counting(t)' = SwingTimers!Counting(t)
      BY DEF SwingTimers!Counting, SwingTimers!HasWeapon, SwingTimers!Paused
    <2> QED  BY <1>0, <1>6, <2>1 DEF SwingTimers!SwingInv, SwingTimers!TracksWhatCounts
  <1>8. SwingTimers!CastKnown'
    BY <1>0 DEF SwingTimers!SwingInv, SwingTimers!CastKnown, SwingTimers!IsCurrentCast
  <1>9. SwingTimers!Bounded(timers)'  BY <1>0 DEF SwingTimers!Bounded
  <1> QED  BY <1>5, <1>7, <1>8, <1>9 DEF SwingKept, SwingTimers!SwingInv

-----------------------------------------------------------------------------
(* ResurrectionInv, step by step.                                          *)

RezKept == Rez!ResurrectionTypeOK' /\ Rez!ResurrectionInv'

Sights == <<inView, left, corpses>>

LEMMA EntriesAre ==
  ASSUME IInv
  PROVE  /\ \A e \in entries : /\ e.target \in Units \cup Corpses /\ e.unit = Rez!UnitOf(e.target)
                               /\ e.target \in Corpses => e.target \in corpses
                               /\ e.unit \in Units /\ e.caster \in Casters
         /\ corpses \in SUBSET Corpses
         /\ told \in [Units -> BOOLEAN]
  <1>1. \A e \in entries : e.target \in Units \cup Corpses /\ e.caster \in Casters
    BY DEF IInv, TypeOK, Rez!ResurrectionTypeOK, Rez!Guids
  <1>2. \A e \in entries : /\ e.unit = Rez!UnitOf(e.target)
                           /\ e.target \in Corpses => e.target \in corpses
    BY DEF IInv, Rez!ResurrectionInv, Rez!EntriesKnown
  <1>3. \A e \in entries : e.unit \in Units
    BY <1>1, <1>2, PacketAssumption DEF Rez!UnitOf, PacketAssumption, Rez!ResurrectionAssumption
  <1> QED  BY <1>1, <1>2, <1>3 DEF IInv, TypeOK, Rez!ResurrectionTypeOK

\* Each answer is the one last told as long as the units signalled are those of the
\* entries that come or go.
LEMMA SignalTells ==
  ASSUME IInv, UNCHANGED corpses, NEW some, Rez!Signal(some, entries'),
         \A e \in entries' : /\ e.target \in Units \cup Corpses /\ e.unit = Rez!UnitOf(e.target)
                             /\ e.target \in Corpses => e.target \in corpses,
         \A e \in entries \cup entries' : (e \in entries <=> e \in entries') \/ e.unit \in some
  PROVE  told' \in [Units -> BOOLEAN] /\ Rez!ToldOfEachChange'
  <1> USE DEF Rez!Signal
  <1>1. \A u \in Units : Rez!HasIncomingResurrection(entries, u)
                          <=> \E e \in entries : e.unit = u
    <2> TAKE u \in Units
    <2> DEFINE L == entries
    <2>0. corpses \in SUBSET Corpses  BY EntriesAre
    <2>1. \A e \in L : /\ e.target \in Units \cup Corpses /\ e.unit = Rez!UnitOf(e.target)
                       /\ e.target \in Corpses => e.target \in corpses
      BY EntriesAre
    <2> HIDE DEF L
    <2>2. (\E e \in L : e.target = u)
            \/ (\E k \in corpses : Owner[k] = u /\ \E e \in L : e.target = k)
          <=> \E e \in L : e.unit = u
      BY <2>0, <2>1, PacketAssumption
         DEF PacketAssumption, Rez!ResurrectionAssumption, Rez!UnitOf
    <2> QED  BY <2>2 DEF L, Rez!HasIncomingResurrection, Rez!Targeted, Rez!CorpseByOwner
  <1>2. \A u \in Units : Rez!HasIncomingResurrection(entries', u)
                          <=> \E e \in entries' : e.unit = u
    <2> TAKE u \in Units
    <2> DEFINE L == entries'
    <2>0. corpses \in SUBSET Corpses  BY EntriesAre
    <2>1. \A e \in L : /\ e.target \in Units \cup Corpses /\ e.unit = Rez!UnitOf(e.target)
                       /\ e.target \in Corpses => e.target \in corpses
      OBVIOUS
    <2> HIDE DEF L
    <2>2. (\E e \in L : e.target = u)
            \/ (\E k \in corpses : Owner[k] = u /\ \E e \in L : e.target = k)
          <=> \E e \in L : e.unit = u
      BY <2>0, <2>1, PacketAssumption
         DEF PacketAssumption, Rez!ResurrectionAssumption, Rez!UnitOf
    <2> QED  BY <2>2 DEF L, Rez!HasIncomingResurrection, Rez!Targeted, Rez!CorpseByOwner
  <1>3. \A u \in Units : Rez!HasIncomingResurrection(entries, u)'
                          <=> Rez!HasIncomingResurrection(entries', u)
    <2> TAKE u \in Units
    <2>1. corpses' = corpses  OBVIOUS
    <2> QED  BY <2>1 DEF Rez!HasIncomingResurrection, Rez!Targeted, Rez!CorpseByOwner
  <1>4. \A u \in Units : told[u] = Rez!HasIncomingResurrection(entries, u)
    BY DEF IInv, Rez!ResurrectionInv, Rez!ToldOfEachChange
  <1>5. \A u \in Units : told'[u] = Rez!HasIncomingResurrection(entries', u)
    <2> TAKE u \in Units
    <2>1. CASE u \in some  BY <2>1
    <2>2. CASE u \notin some
      <3>1. (\E e \in entries : e.unit = u) <=> \E e \in entries' : e.unit = u  BY <2>2
      <3>2. told'[u] = told[u]  BY <2>2
      <3>3. Rez!HasIncomingResurrection(entries', u) \in BOOLEAN
            /\ Rez!HasIncomingResurrection(entries, u) \in BOOLEAN
        BY DEF Rez!HasIncomingResurrection, Rez!Targeted
      <3> QED  BY <1>1, <1>2, <1>4, <3>1, <3>2, <3>3
    <2> QED  BY <2>1, <2>2
  <1>6. told' \in [Units -> BOOLEAN]
    BY EntriesAre DEF Rez!HasIncomingResurrection, Rez!Targeted
  <1>7. \A u \in Units : told'[u] = Rez!HasIncomingResurrection(entries, u)'
    <2> TAKE u \in Units
    <2>1. Rez!HasIncomingResurrection(entries', u) \in BOOLEAN
          /\ Rez!HasIncomingResurrection(entries, u)' \in BOOLEAN
      BY DEF Rez!HasIncomingResurrection, Rez!Targeted
    <2> QED  BY <1>3, <1>5, <2>1
  <1> QED  BY <1>6, <1>7 DEF Rez!ToldOfEachChange

\* A caster in view has an entry for the resurrection it casts, and no other.
LEMMA EntriesAreCasts ==
  ASSUME IInv, NEW c \in inView
  PROVE  /\ c \notin left /\ c \in Casters
         /\ \A e \in Rez!EntriesOf(c) : \E x \in Rez!Seen(c) : Rez!SameCast(e, c, x)
         /\ \A x \in Rez!Seen(c) : \E e \in Rez!EntriesOf(c) : Rez!SameCast(e, c, x)
  BY DEF IInv, TypeOK, Rez!ResurrectionTypeOK, Rez!ResurrectionInv, Rez!ShowsTheCasts

\* Steps at which no entry, and no cast that has been seen of a resurrection, changes.
LEMMA RezUntouched ==
  ASSUME IInv, UNCHANGED <<entries, told, Sights>>,
         \A c \in inView : Rez!Seen(c)' = Rez!Seen(c), Rez!UnseenOutOfView'
  PROVE  RezKept
  <1> USE DEF Sights
  <1>1. Rez!ResurrectionTypeOK'
    BY DEF IInv, TypeOK, Rez!ResurrectionTypeOK, Rez!Guids
  <1>2. inView' \cap left' = {} /\ Rez!EntriesKnown' /\ Rez!ToldOfEachChange'
    BY DEF IInv, Rez!ResurrectionInv, Rez!EntriesKnown, Rez!UnitOf, Rez!ToldOfEachChange,
           Rez!HasIncomingResurrection, Rez!Targeted, Rez!CorpseByOwner
  <1>3. Rez!ShowsTheCasts'
    BY EntriesAreCasts DEF Rez!ShowsTheCasts, Rez!EntriesOf, Rez!SameCast
  <1> QED  BY <1>1, <1>2, <1>3 DEF RezKept, Rez!ResurrectionInv

\* A packet about a cast that has no entry ends none.
LEMMA NoneEnds ==
  ASSUME IInv, NEW c, NEW n, NEW spell, Rez!EntriesOfCast(c, n, spell) = {},
         Rez!End(c, n, spell)
  PROVE  UNCHANGED <<entries, told>>
  <1>1. entries' = entries  BY DEF Rez!End, Rez!EndWhere
  <1>2. told' = [u \in Units |-> told[u]]
    BY DEF Rez!End, Rez!EndWhere, Rez!Signal, Rez!UnitsOf
  <1> QED  BY <1>1, <1>2, EntriesAre

\* End takes away the entry of the cast that has ended.
LEMMA CastEnds ==
  ASSUME IInv, UNCHANGED Sights, NEW c \in inView, NEW x \in casting[c],
         Rez!End(c, x.count, x.spell), casting' = [casting EXCEPT ![c] = {}]
  PROVE  RezKept
  <1> USE DEF Sights
  <1> DEFINE ended == Rez!EntriesOfCast(c, x.count, x.spell)
  <1>0. casting \in [Casters -> {{}} \cup {{y} : y \in Casts}] /\ casting[c] = {x} /\ c \in Casters
    <2>1. c \in Casters /\ casting \in [Casters -> {{}} \cup {{y} : y \in Casts}]
      BY EntriesAreCasts DEF IInv, TypeOK, ServerTypeOK
    <2> QED  BY <2>1
  <1>1. entries' = entries \ ended /\ Rez!Signal(Rez!UnitsOf(ended), entries')
    BY DEF Rez!End, Rez!EndWhere
  <1>2. ended = Rez!EntriesOf(c)
    <2>1. \A y \in Rez!Seen(c) : y = x  BY <1>0 DEF Rez!Seen
    <2>2. \A e \in Rez!EntriesOf(c) : e.castCount = x.count /\ e.spellID = x.spell
      BY <2>1, EntriesAreCasts DEF Rez!SameCast
    <2> QED  BY <2>2 DEF Rez!EntriesOfCast
  <1> HIDE DEF ended
  <1>3. ended \subseteq entries /\ \A e \in entries' : e \in entries /\ e.caster # c
    BY <1>1, <1>2 DEF Rez!EntriesOf
  <1>4. told' \in [Units -> BOOLEAN] /\ Rez!ToldOfEachChange'
    <2>1. \A e \in entries' : /\ e.target \in Units \cup Corpses /\ e.unit = Rez!UnitOf(e.target)
                              /\ e.target \in Corpses => e.target \in corpses
      BY <1>3, EntriesAre
    <2>2. \A e \in entries \cup entries' :
            (e \in entries <=> e \in entries') \/ e.unit \in Rez!UnitsOf(ended)
      BY <1>1, <1>3 DEF Rez!UnitsOf
    <2> QED  BY <1>1, <2>1, <2>2, SignalTells
  <1>5. Rez!ResurrectionTypeOK'
    BY <1>3, <1>4 DEF IInv, TypeOK, Rez!ResurrectionTypeOK, Rez!Guids
  <1>6. inView' \cap left' = {} /\ Rez!EntriesKnown'
    BY <1>3 DEF IInv, Rez!ResurrectionInv, Rez!EntriesKnown, Rez!UnitOf
  <1>7. Rez!UnseenOutOfView'
    BY <1>0 DEF IInv, Rez!ResurrectionInv, Rez!UnseenOutOfView
  <1>8. Rez!ShowsTheCasts'
    <2> SUFFICES ASSUME NEW d \in inView
                 PROVE  /\ \A e \in Rez!EntriesOf(d)' : \E y \in Rez!Seen(d)' : Rez!SameCast(e, d, y)
                        /\ \A y \in Rez!Seen(d)' : \E e \in Rez!EntriesOf(d)' : Rez!SameCast(e, d, y)
      BY DEF Rez!ShowsTheCasts, Rez!SameCast
    <2>1. CASE d = c
      <3>1. Rez!EntriesOf(c)' = {}  BY <1>3 DEF Rez!EntriesOf
      <3>2. Rez!Seen(c)' = {}  BY <1>0 DEF Rez!Seen
      <3> QED  BY <2>1, <3>1, <3>2
    <2>2. CASE d # c
      <3>1. Rez!EntriesOf(d)' = Rez!EntriesOf(d)
        BY <1>1, <1>2, <2>2 DEF Rez!EntriesOf
      <3>2. Rez!Seen(d)' = Rez!Seen(d)
        BY <1>0, <2>2, EntriesAreCasts DEF Rez!Seen
      <3> QED  BY <3>1, <3>2, EntriesAreCasts
    <2> QED  BY <2>1, <2>2
  <1> QED  BY <1>5, <1>6, <1>7, <1>8, <1>4 DEF RezKept, Rez!ResurrectionInv

\* Begin adds the entry of a cast that has begun.
LEMMA CastBegins ==
  ASSUME IInv, UNCHANGED Sights, NEW c \in inView, casting[c] = {}, NEW x \in Casts,
         casting' = [casting EXCEPT ![c] = {x}], x.seen, x.spell \in Resurrects,
         x.target \in Units \cup Corpses, x.target \in Corpses => x.target \in corpses,
         Rez!Begin(x.target, c, x.count, x.spell)
  PROVE  RezKept
  <1> USE DEF Sights
  <1> DEFINE entry == [target |-> x.target, unit |-> Rez!UnitOf(x.target), caster |-> c,
                       castCount |-> x.count, spellID |-> x.spell]
  <1>0. casting \in [Casters -> {{}} \cup {{y} : y \in Casts}] /\ c \in Casters
    BY EntriesAreCasts DEF IInv, TypeOK, ServerTypeOK
  <1>1. Rez!EntriesOf(c) = {}
    BY EntriesAreCasts DEF Rez!Seen
  <1>2. /\ Owner \in [Corpses -> Units] /\ 0 \notin Units /\ 0 \notin Corpses
        /\ Units \cap Corpses = {}
    BY PacketAssumption DEF PacketAssumption, Rez!ResurrectionAssumption
  <1>3. corpses \subseteq Corpses  BY EntriesAre
  <1>4. (IF Rez!CorpseOwner(x.target) # 0 THEN Rez!CorpseOwner(x.target) ELSE x.target)
          = Rez!UnitOf(x.target)
    BY <1>2, <1>3 DEF Rez!CorpseOwner, Rez!UnitOf
  <1>5. Rez!UnitOf(x.target) \in Units  BY <1>2 DEF Rez!UnitOf
  <1>6. entries' = entries \cup {entry} /\ Rez!Signal({Rez!UnitOf(x.target)}, entries')
    <2>1. Rez!EntriesOfCast(c, x.count, x.spell) = {}  BY <1>1 DEF Rez!EntriesOfCast
    <2>2. Rez!UnitsOf(Rez!EntriesOf(c)) = {}  BY <1>1 DEF Rez!UnitsOf
    <2> HIDE DEF entry
    <2>3. entries' = (entries \ Rez!EntriesOf(c)) \cup {entry}
          /\ Rez!Signal(Rez!UnitsOf(Rez!EntriesOf(c)) \cup {Rez!UnitOf(x.target)}, entries')
      BY <1>4, <2>1 DEF Rez!Begin, entry
    <2>4. Rez!UnitsOf(Rez!EntriesOf(c)) \cup {Rez!UnitOf(x.target)} = {Rez!UnitOf(x.target)}
      BY <2>2
    <2> QED  BY <1>1, <2>3, <2>4
  <1>7. /\ entry.target = x.target /\ entry.unit = Rez!UnitOf(x.target) /\ entry.caster = c
        /\ entry.castCount = x.count /\ entry.spellID = x.spell
    OBVIOUS
  <1>8. entry \in [target: Rez!Guids, unit: Rez!Guids, caster: Casters, castCount: Nat,
                   spellID: Resurrects]
    BY <1>0, <1>5 DEF Casts, Rez!Guids
  <1>9. entry \notin entries /\ \A e \in entries : e.caster # c
    BY <1>1, <1>7 DEF Rez!EntriesOf
  <1> HIDE DEF entry
  <1>10. told' \in [Units -> BOOLEAN] /\ Rez!ToldOfEachChange'
    <2>1. \A e \in entries' : /\ e.target \in Units \cup Corpses /\ e.unit = Rez!UnitOf(e.target)
                              /\ e.target \in Corpses => e.target \in corpses
      BY <1>6, <1>7, EntriesAre
    <2>2. \A e \in entries \cup entries' :
            (e \in entries <=> e \in entries') \/ e.unit \in {Rez!UnitOf(x.target)}
      BY <1>6, <1>7
    <2> QED  BY <1>6, <2>1, <2>2, SignalTells
  <1>11. Rez!ResurrectionTypeOK'
    BY <1>6, <1>7, <1>8, <1>9, <1>10 DEF IInv, TypeOK, Rez!ResurrectionTypeOK, Rez!Guids
  <1>12. inView' \cap left' = {} /\ Rez!EntriesKnown'
    BY <1>6, <1>7 DEF IInv, Rez!ResurrectionInv, Rez!EntriesKnown, Rez!UnitOf
  <1>13. Rez!UnseenOutOfView'
    BY <1>0 DEF IInv, Rez!ResurrectionInv, Rez!UnseenOutOfView
  <1>14. Rez!ShowsTheCasts'
    <2> SUFFICES ASSUME NEW d \in inView
                 PROVE  /\ \A e \in Rez!EntriesOf(d)' : \E y \in Rez!Seen(d)' : Rez!SameCast(e, d, y)
                        /\ \A y \in Rez!Seen(d)' : \E e \in Rez!EntriesOf(d)' : Rez!SameCast(e, d, y)
      BY DEF Rez!ShowsTheCasts, Rez!SameCast
    <2>1. CASE d = c
      <3>1. Rez!EntriesOf(c)' = {entry}  BY <1>6, <1>7, <1>9 DEF Rez!EntriesOf
      <3>2. Rez!Seen(c)' = {x}  BY <1>0 DEF Rez!Seen
      <3>3. Rez!SameCast(entry, c, x)  BY <1>7 DEF Rez!SameCast
      <3> QED  BY <2>1, <3>1, <3>2, <3>3
    <2>2. CASE d # c
      <3>1. Rez!EntriesOf(d)' = Rez!EntriesOf(d)
        BY <1>6, <1>7, <2>2 DEF Rez!EntriesOf
      <3>2. Rez!Seen(d)' = Rez!Seen(d)
        BY <1>0, <2>2, EntriesAreCasts DEF Rez!Seen
      <3> QED  BY <3>1, <3>2, EntriesAreCasts
    <2> QED  BY <2>1, <2>2
  <1> QED  BY <1>10, <1>11, <1>12, <1>13, <1>14 DEF RezKept, Rez!ResurrectionInv

\* What a caster does as it leaves view has not been seen when it is back.
LEMMA CasterLeaves ==
  ASSUME IInv, NEW c \in Casters, Rez!LeaveView(c),
         casting' = [casting EXCEPT ![c] = {[x EXCEPT !.seen = FALSE] : x \in casting[c]}]
  PROVE  RezKept
  <1> USE DEF Rez!LeaveView
  <1>0. casting \in [Casters -> {{}} \cup {{y} : y \in Casts}]  BY DEF IInv, TypeOK, ServerTypeOK
  <1>1. \A x \in casting'[c] : ~x.seen
    <2>1. \A x \in casting[c] : x \in Casts  BY <1>0
    <2>2. casting'[c] = {[x EXCEPT !.seen = FALSE] : x \in casting[c]}  BY <1>0
    <2> QED  BY <2>1, <2>2 DEF Casts
  <1>2. \A d \in Casters : d # c => casting'[d] = casting[d]  BY <1>0
  <1>3. Rez!ResurrectionTypeOK'
    BY DEF IInv, TypeOK, Rez!ResurrectionTypeOK, Rez!Guids
  <1>4. inView' \cap left' = {} /\ Rez!EntriesKnown' /\ Rez!ToldOfEachChange'
    BY DEF IInv, Rez!ResurrectionInv, Rez!EntriesKnown, Rez!UnitOf, Rez!ToldOfEachChange,
           Rez!HasIncomingResurrection, Rez!Targeted, Rez!CorpseByOwner
  <1>5. Rez!UnseenOutOfView'
    BY <1>1, <1>2 DEF IInv, Rez!ResurrectionInv, Rez!UnseenOutOfView
  <1>6. Rez!ShowsTheCasts'
    <2>1. \A d \in inView' : d \in inView /\ d # c /\ Rez!Seen(d)' = Rez!Seen(d)
      BY <1>2, EntriesAreCasts DEF Rez!Seen
    <2> QED  BY <2>1, EntriesAreCasts DEF Rez!ShowsTheCasts, Rez!EntriesOf, Rez!SameCast
  <1> QED  BY <1>3, <1>4, <1>5, <1>6 DEF RezKept, Rez!ResurrectionInv

LEMMA CasterEnters ==
  ASSUME IInv, ~BackWithinAFrame, NEW c \in Casters, Rez!EnterView(c), UNCHANGED casting
  PROVE  RezKept
  <1> USE DEF Rez!EnterView
  <1>1. c \notin left /\ c \notin inView /\ inView' = inView \cup {c}  OBVIOUS
  <1>2. Rez!ResurrectionTypeOK'
    BY DEF IInv, TypeOK, Rez!ResurrectionTypeOK, Rez!Guids
  <1>3. inView' \cap left' = {} /\ Rez!EntriesKnown' /\ Rez!ToldOfEachChange'
    BY DEF IInv, Rez!ResurrectionInv, Rez!EntriesKnown, Rez!UnitOf, Rez!ToldOfEachChange,
           Rez!HasIncomingResurrection, Rez!Targeted, Rez!CorpseByOwner
  <1>4. Rez!UnseenOutOfView'
    BY DEF IInv, Rez!ResurrectionInv, Rez!UnseenOutOfView
  <1>5. Rez!ShowsTheCasts'
    <2>1. Rez!EntriesOf(c) = {}
      BY <1>1 DEF IInv, Rez!ResurrectionInv, Rez!EntriesKnown, Rez!EntriesOf
    <2>2. Rez!Seen(c) = {}
      BY <1>1 DEF IInv, Rez!ResurrectionInv, Rez!UnseenOutOfView, Rez!Seen
    <2>3. \A d \in Casters : Rez!Seen(d)' = Rez!Seen(d) /\ Rez!EntriesOf(d)' = Rez!EntriesOf(d)
      BY DEF Rez!Seen, Rez!EntriesOf
    <2>4. \A d \in inView' : d \in Casters /\ (d \in inView \/ d = c)
      BY <1>1, EntriesAreCasts
    <2> QED  BY <2>1, <2>2, <2>3, <2>4, EntriesAreCasts DEF Rez!ShowsTheCasts, Rez!SameCast
  <1> QED  BY <1>2, <1>3, <1>4, <1>5 DEF RezKept, Rez!ResurrectionInv

\* A corpse that no resurrection is cast at says nothing of its owner.
LEMMA CorpseComesOrGoes ==
  ASSUME IInv, ~CorpsesMove, NEW k \in Corpses, Rez!CorpseChanges(k), UNCHANGED casting
  PROVE  RezKept
  <1> USE DEF Rez!CorpseChanges
  <1>1. \A e \in entries : e.target # k  BY DEF Rez!Targeted
  <1>2. corpses' \subseteq Corpses /\ \A j : j # k => (j \in corpses <=> j \in corpses')
    BY EntriesAre
  <1>3. Rez!ResurrectionTypeOK'
    BY <1>2 DEF IInv, TypeOK, Rez!ResurrectionTypeOK, Rez!Guids
  <1>4. inView' \cap left' = {} /\ Rez!EntriesKnown' /\ Rez!UnseenOutOfView'
    BY <1>1, <1>2, EntriesAre
       DEF IInv, Rez!ResurrectionInv, Rez!EntriesKnown, Rez!UnitOf, Rez!UnseenOutOfView
  <1>5. Rez!ShowsTheCasts'
    BY DEF IInv, Rez!ResurrectionInv, Rez!ShowsTheCasts, Rez!EntriesOf, Rez!Seen, Rez!SameCast
  <1>6. Rez!ToldOfEachChange'
    <2>1. ASSUME NEW u \in Units
          PROVE  Rez!HasIncomingResurrection(entries, u)' = Rez!HasIncomingResurrection(entries, u)
      BY <1>1, <1>2 DEF Rez!HasIncomingResurrection, Rez!Targeted, Rez!CorpseByOwner
    <2> QED  BY <2>1 DEF IInv, Rez!ResurrectionInv, Rez!ToldOfEachChange
  <1> QED  BY <1>3, <1>4, <1>5, <1>6 DEF RezKept, Rez!ResurrectionInv

\* A frame ends the casts of those that have left.
LEMMA FrameSweeps ==
  ASSUME IInv, Rez!OnFrame, UNCHANGED casting
  PROVE  RezKept
  <1> USE DEF Rez!OnFrame
  <1> DEFINE ended == {e \in entries : e.caster \notin inView}
  <1>1. entries' = entries \ ended /\ Rez!Signal(Rez!UnitsOf(ended), entries')
    BY DEF Rez!EndWhere
  <1>2. ended \subseteq entries /\ \A e \in entries' : e \in entries /\ e.caster \in inView
    BY <1>1
  <1>3. \A e \in entries : e.caster \in inView => e \in entries'  BY <1>1
  <1> HIDE DEF ended
  <1>4. told' \in [Units -> BOOLEAN] /\ Rez!ToldOfEachChange'
    <2>1. \A e \in entries' : /\ e.target \in Units \cup Corpses /\ e.unit = Rez!UnitOf(e.target)
                              /\ e.target \in Corpses => e.target \in corpses
      BY <1>2, EntriesAre
    <2>2. \A e \in entries \cup entries' :
            (e \in entries <=> e \in entries') \/ e.unit \in Rez!UnitsOf(ended)
      BY <1>1, <1>2 DEF Rez!UnitsOf
    <2> QED  BY <1>1, <2>1, <2>2, SignalTells
  <1>5. Rez!ResurrectionTypeOK'
    BY <1>2, <1>4 DEF IInv, TypeOK, Rez!ResurrectionTypeOK, Rez!Guids
  <1>6. inView' \cap left' = {} /\ Rez!EntriesKnown' /\ Rez!UnseenOutOfView'
    BY <1>2 DEF IInv, Rez!ResurrectionInv, Rez!EntriesKnown, Rez!UnitOf, Rez!UnseenOutOfView
  <1>7. Rez!ShowsTheCasts'
    <2>1. \A c \in inView : Rez!EntriesOf(c)' = Rez!EntriesOf(c) /\ Rez!Seen(c)' = Rez!Seen(c)
      BY <1>2, <1>3 DEF Rez!EntriesOf, Rez!Seen
    <2> QED  BY <2>1, EntriesAreCasts DEF Rez!ShowsTheCasts, Rez!SameCast
  <1> QED  BY <1>4, <1>5, <1>6, <1>7 DEF RezKept, Rez!ResurrectionInv

-----------------------------------------------------------------------------
(* Each step.                                                              *)

Kept == SwingKept /\ RezKept /\ ServerTypeOK'

LEMMA PlayerIsInView ==
  ASSUME IInv
  PROVE  Player \in inView /\ Player \in Casters
  BY DEF IInv, TypeOK, Rez!ResurrectionTypeOK

LEMMA ServerTypes ==
  ASSUME IInv
  PROVE  /\ casting \in [Casters -> {{}} \cup {{x} : x \in Casts}]
         /\ \A c \in Casters : casting[c] = {} \/ \E x \in Casts : casting[c] = {x}
         /\ queued \in {{}} \cup {{x} : x \in OnNextSwing \X (1..2)}
         /\ count \in [Casters -> 1..2]
         /\ packets \in 0..MaxPackets /\ MaxPackets \in Nat
         /\ \A c \in Casters : NextCount(c) \in 1..2
  <1>1. /\ casting \in [Casters -> {{}} \cup {{x} : x \in Casts}]
        /\ queued \in {{}} \cup {{x} : x \in OnNextSwing \X (1..2)}
        /\ count \in [Casters -> 1..2]
        /\ packets \in 0..MaxPackets
    BY DEF IInv, TypeOK, ServerTypeOK
  <1>2. \A c \in Casters : NextCount(c) \in 1..2
    <2> TAKE c \in Casters
    <2>1. count[c] \in 1..2  BY <1>1
    <2> QED  BY <2>1 DEF NextCount
  <1>3. MaxPackets \in Nat  BY PacketAssumption DEF PacketAssumption
  <1> QED  BY <1>1, <1>2, <1>3

\* A cast seen elsewhere, or not of a resurrection, changes no caster's entries.
LEMMA OtherCasts ==
  ASSUME IInv, UNCHANGED <<entries, told, Sights>>, NEW c \in Casters, NEW X,
         casting' = [casting EXCEPT ![c] = X],
         c \in inView => /\ \A x \in casting[c] : x.spell \notin Resurrects
                        /\ \A x \in X : x.spell \notin Resurrects,
         c \notin inView => \A x \in X : ~x.seen
  PROVE  RezKept
  <1>1. casting'[c] = X /\ \A d \in Casters : d # c => casting'[d] = casting[d]
    BY ServerTypes
  <1>2. \A d \in inView : d \in Casters  BY EntriesAreCasts
  <1>3. \A d \in inView : Rez!Seen(d)' = Rez!Seen(d)
    <2> TAKE d \in inView
    <2>1. CASE d = c
      <3>1. Rez!Seen(c) = {}  BY <2>1 DEF Rez!Seen
      <3>2. Rez!Seen(c)' = {}  BY <1>1, <2>1 DEF Rez!Seen
      <3> QED  BY <2>1, <3>1, <3>2
    <2>2. CASE d # c  BY <1>1, <1>2, <2>2 DEF Rez!Seen
    <2> QED  BY <2>1, <2>2
  <1>4. Rez!UnseenOutOfView'
    BY <1>1 DEF IInv, Rez!ResurrectionInv, Rez!UnseenOutOfView, Sights
  <1> QED  BY <1>3, <1>4, RezUntouched

LEMMA RezStands ==
  ASSUME IInv, UNCHANGED <<entries, told, Sights, casting>>
  PROVE  RezKept
  BY RezUntouched DEF IInv, Rez!ResurrectionInv, Rez!UnseenOutOfView, Rez!Seen, Sights

LEMMA StartCastKeeps ==
  ASSUME IInv, NEW c \in Casters, NEW spell \in Spells, NEW castTime \in CastTimes,
         NEW target \in Units \cup Corpses \cup {0}, StartCast(c, spell, castTime, target)
  PROVE  Kept
  <1> DEFINE x == [spell |-> spell, count |-> NextCount(c), castTime |-> castTime,
                   target |-> target, seen |-> c \in inView]
  <1>1. /\ Sends /\ UNCHANGED <<Clock, Sights, queued, timers>>
        /\ spell \in CastSpells /\ casting[c] = {} /\ (spell \in Resurrects <=> target # 0)
        /\ target \in Corpses => target \in corpses
        /\ count' = [count EXCEPT ![c] = NextCount(c)]
        /\ casting' = [casting EXCEPT ![c] = {x}]
        /\ Receives(c, RunCastObservers("start", StartPacket(c, x)))
    BY DEF StartCast, OutsideSpells, Clock, Sights
  <1>2. /\ x.spell = spell /\ x.count = NextCount(c) /\ x.castTime = castTime
        /\ x.target = target /\ x.seen = (c \in inView) /\ x \in Casts
    BY <1>1, ServerTypes DEF Casts
  <1> HIDE DEF x
  <1>3. ServerTypeOK'
    BY <1>1, <1>2, ServerTypes DEF ServerTypeOK, Sends
  <1>4. \A d \in Casters : casting'[d] = IF d = c THEN {x} ELSE casting[d]
    BY <1>1, ServerTypes
  <1>5. CASE c \in inView
    <2>1. RunCastObservers("start", StartPacket(c, x))  BY <1>1, <1>5 DEF Receives
    <2>2. /\ c # Player => UNCHANGED <<swing, cast>>
          /\ c = Player => SwingTimers!OnSpellStart(spell, NextCount(c), castTime)
          /\ target = 0 \/ spell \notin Resurrects => UNCHANGED <<entries, told>>
          /\ target # 0 /\ spell \in Resurrects =>
               Rez!Begin(target, c, NextCount(c), spell)
      BY <1>2, <2>1, StartObserved
    <2>3. SwingKept
      <3>1. CASE c = Player
        <4>1. NextCount(c) \in 1..2 /\ castTime \in Nat
          BY ServerTypes, PacketAssumption DEF PacketAssumption
        <4>2. \A y \in casting'[Player] :
                y.spell = spell /\ y.count = NextCount(c) /\ y.castTime = castTime
          BY <1>2, <1>4, <3>1
        <4>3. UNCHANGED <<Clock, timers>> /\ casting[Player] = {}  BY <1>1, <3>1
        <4> HIDE DEF Clock
        <4> QED  BY <2>2, <3>1, <4>1, <4>2, <4>3, PlayerStarts
      <3>2. CASE c # Player
        <4>1. casting'[Player] = casting[Player]  BY <1>4, <3>2, PlayerIsInView
        <4> QED  BY <1>1, <2>2, <3>2, <4>1, OthersSteps
      <3> QED  BY <3>1, <3>2
    <2>4. RezKept
      <3>1. CASE spell \in Resurrects
        <4>1. target # 0 /\ target \in Units \cup Corpses  BY <1>1, <3>1
        <4>2. Rez!Begin(x.target, c, x.count, x.spell)  BY <1>2, <2>2, <3>1, <4>1
        <4> QED  BY <1>1, <1>2, <1>5, <3>1, <4>1, <4>2, CastBegins
      <3>2. CASE spell \notin Resurrects
        <4>1. UNCHANGED <<entries, told, Sights>>  BY <1>1, <2>2, <3>2
        <4> QED  BY <1>1, <1>2, <1>5, <3>2, <4>1, OtherCasts
      <3> QED  BY <3>1, <3>2
    <2> QED  BY <1>3, <2>3, <2>4 DEF Kept
  <1>6. CASE c \notin inView
    <2>1. UNCHANGED <<swing, cast, entries, told>> /\ c # Player
      BY <1>1, <1>6, PlayerIsInView DEF Receives
    <2>2. casting'[Player] = casting[Player]  BY <1>4, <2>1, PlayerIsInView
    <2>3. SwingKept  BY <1>1, <2>1, <2>2, OthersSteps
    <2>4. UNCHANGED <<entries, told, Sights>>  BY <1>1, <2>1
    <2>5. RezKept  BY <1>1, <1>2, <1>6, <2>4, OtherCasts
    <2> QED  BY <1>3, <2>3, <2>5 DEF Kept
  <1> QED  BY <1>5, <1>6

\* The end of a cast, for the resurrections.
LEMMA RezOfEnd ==
  ASSUME IInv, NEW c \in Casters, NEW x \in casting[c], UNCHANGED Sights,
         casting' = [casting EXCEPT ![c] = {}],
         c \in inView => Rez!End(c, x.count, x.spell),
         c \notin inView => UNCHANGED <<entries, told>>
  PROVE  RezKept
  <1>1. CASE c \in inView  BY <1>1, CastEnds
  <1>2. CASE c \notin inView  BY <1>2, OtherCasts
  <1> QED  BY <1>1, <1>2

LEMMA FinishCastKeeps ==
  ASSUME IInv, NEW c \in Casters, FinishCast(c)
  PROVE  Kept
  <1>1. PICK x \in casting[c] :
          /\ timers' = IF c = Player /\ SwingTimers!CastResets(Flags[x.spell], x.count, x.castTime)
                         THEN SwingTimers!AllReset ELSE timers
          /\ Receives(c, RunCastObservers("go", GoPacket(c, x.count, x.spell)))
    BY DEF FinishCast
  <1>2. /\ Sends /\ UNCHANGED <<Clock, Sights, queued, count>>
        /\ casting' = [casting EXCEPT ![c] = {}]
    BY DEF FinishCast, OutsideSpells, Clock, Sights
  <1>3. ServerTypeOK'  BY <1>2, ServerTypes DEF ServerTypeOK, Sends
  <1>4. \A d \in Casters : casting'[d] = IF d = c THEN {} ELSE casting[d]
    BY <1>2, ServerTypes
  <1>5. x \in Casts /\ x.spell \in CastSpells /\ x.spell \in Spells
    BY ServerTypes DEF Casts, CastSpells
  <1>6. /\ c # Player => UNCHANGED <<swing, cast>>
        /\ c = Player => SwingTimers!OnSpellGo(x.spell, x.count)
        /\ c \in inView => Rez!End(c, x.count, x.spell)
        /\ c \notin inView => UNCHANGED <<entries, told>>
    <2>1. CASE c \in inView  BY <1>1, <1>5, <2>1, GoObserved DEF Receives
    <2>2. CASE c \notin inView  BY <1>1, <2>2, PlayerIsInView DEF Receives
    <2> QED  BY <2>1, <2>2
  <1>7. SwingKept
    <2>1. CASE c = Player
      <3>1. /\ UNCHANGED Clock /\ casting'[Player] = {} /\ x \in casting[Player]
            /\ SwingTimers!OnSpellGo(x.spell, x.count)
            /\ timers' = IF SwingTimers!CastResets(Flags[x.spell], x.count, x.castTime)
                           THEN SwingTimers!AllReset ELSE timers
        BY <1>1, <1>2, <1>4, <1>6, <2>1
      <3> QED  BY <1>5, <3>1, PlayerFinishes
    <2>2. CASE c # Player
      <3>1. UNCHANGED <<Clock, swing, cast, timers>> /\ casting'[Player] = casting[Player]
        BY <1>1, <1>2, <1>4, <1>6, <2>2, PlayerIsInView
      <3> QED  BY <3>1, OthersSteps
    <2> QED  BY <2>1, <2>2
  <1>8. RezKept  BY <1>2, <1>6, RezOfEnd
  <1> QED  BY <1>3, <1>7, <1>8 DEF Kept

LEMMA FailCastKeeps ==
  ASSUME IInv, NEW c \in Casters, FailCast(c)
  PROVE  Kept
  <1>1. PICK x \in casting[c] : Receives(c, RunFailureObservers(FailurePacket(c, x)))
    BY DEF FailCast
  <1>2. /\ Sends /\ UNCHANGED <<Clock, Sights, queued, count, timers>>
        /\ casting' = [casting EXCEPT ![c] = {}]
    BY DEF FailCast, OutsideSpells, Clock, Sights
  <1>3. ServerTypeOK'  BY <1>2, ServerTypes DEF ServerTypeOK, Sends
  <1>4. \A d \in Casters : casting'[d] = IF d = c THEN {} ELSE casting[d]
    BY <1>2, ServerTypes
  <1>5. /\ c # Player => UNCHANGED <<swing, cast>>
        /\ c = Player /\ SwingTimers!IsCurrentCast(x.count, x.spell)
             => swing' = SwingTimers!EndCast /\ cast' = [cast EXCEPT !.valid = FALSE]
        /\ c \in inView => Rez!End(c, x.count, x.spell)
        /\ c \notin inView => UNCHANGED <<entries, told>>
    <2>1. CASE c \in inView  BY <1>1, <2>1, FailureObserved DEF Receives
    <2>2. CASE c \notin inView  BY <1>1, <2>2, PlayerIsInView DEF Receives
    <2> QED  BY <2>1, <2>2
  <1>6. SwingKept
    <2>1. CASE c = Player
      <3>1. /\ UNCHANGED <<Clock, timers>> /\ casting'[Player] = {} /\ x \in casting[Player]
            /\ SwingTimers!IsCurrentCast(x.count, x.spell)
                 => swing' = SwingTimers!EndCast /\ cast' = [cast EXCEPT !.valid = FALSE]
        BY <1>2, <1>4, <1>5, <2>1
      <3> QED  BY <3>1, PlayerFails
    <2>2. CASE c # Player
      <3>1. UNCHANGED <<Clock, swing, cast, timers>> /\ casting'[Player] = casting[Player]
        BY <1>2, <1>4, <1>5, <2>2, PlayerIsInView
      <3> QED  BY <3>1, OthersSteps
    <2> QED  BY <2>1, <2>2
  <1>7. RezKept  BY <1>2, <1>5, RezOfEnd
  <1> QED  BY <1>3, <1>6, <1>7 DEF Kept

LEMMA TriggeredSpellKeeps ==
  ASSUME IInv, NEW spell \in Spells, TriggeredSpell(spell)
  PROVE  Kept
  <1>1. /\ Sends /\ UNCHANGED <<Clock, Sights, casting, queued, count, timers>>
        /\ spell \in CastSpells /\ RunCastObservers("go", GoPacket(Player, 0, spell))
    BY DEF TriggeredSpell, OutsideSpells, Clock, Sights
  <1>2. ServerTypeOK'  BY <1>1, ServerTypes DEF ServerTypeOK, Sends
  <1>3. SwingTimers!OnSpellGo(spell, 0) /\ Rez!End(Player, 0, spell)
    BY <1>1, GoObserved
  <1>4. SwingKept
    <2>1. UNCHANGED <<swing, cast>>  BY <1>1, <1>3, TriggeredIsNothing
    <2> QED  BY <1>1, <2>1, OthersSteps
  <1>5. RezKept
    <2>1. \A x \in casting[Player] : x.count # 0
      BY PlayerIsInView, ServerTypes DEF Casts
    <2>2. Rez!EntriesOfCast(Player, 0, spell) = {}
      BY <2>1, PlayerIsInView, EntriesAreCasts DEF Rez!EntriesOfCast, Rez!Seen, Rez!SameCast
    <2>3. UNCHANGED <<entries, told>>  BY <1>3, <2>2, NoneEnds
    <2> QED  BY <1>1, <2>3, RezStands
  <1> QED  BY <1>2, <1>4, <1>5 DEF Kept

LEMMA QueueKeeps ==
  ASSUME IInv, ~StartsInCast, NEW spell \in Spells, QueueOnNextSwing(spell)
  PROVE  Kept
  <1> DEFINE x == [spell |-> spell, count |-> NextCount(Player), castTime |-> 0, target |-> 0]
  <1>1. /\ Sends /\ UNCHANGED <<Clock, Sights, casting, timers>>
        /\ spell \in OnNextSwing /\ casting[Player] = {}
        /\ count' = [count EXCEPT ![Player] = NextCount(Player)]
        /\ queued' = {<<spell, NextCount(Player)>>}
        /\ RunCastObservers("start", StartPacket(Player, x))
    BY DEF QueueOnNextSwing, OutsideSpells, Clock, Sights
  <1>2. x.spell = spell /\ x.count = NextCount(Player) /\ x.castTime = 0 /\ x.target = 0
    OBVIOUS
  <1> HIDE DEF x
  <1>3. NextCount(Player) \in 1..2  BY PlayerIsInView, ServerTypes
  <1>4. ServerTypeOK'
    BY <1>1, <1>3, PlayerIsInView, ServerTypes DEF ServerTypeOK, Sends
  <1>5. SwingTimers!OnSpellStart(spell, NextCount(Player), 0) /\ UNCHANGED <<entries, told>>
    BY <1>1, <1>2, PlayerIsInView, StartObserved
  <1>6. SwingKept
    <2>1. UNCHANGED <<Clock, timers>> /\ \A y \in casting'[Player] : FALSE  BY <1>1
    <2>2. 0 \in Nat  OBVIOUS
    <2> QED  BY <1>1, <1>3, <1>5, <2>1, <2>2, PlayerStarts
  <1>7. RezKept  BY <1>1, <1>5, RezStands
  <1> QED  BY <1>4, <1>6, <1>7 DEF Kept

\* A player that casts nothing has no entry that a packet of its own could end.
LEMMA PlayersPacketEndsNothing ==
  ASSUME IInv, casting[Player] = {}, NEW n, NEW spell, Rez!End(Player, n, spell),
         UNCHANGED <<Sights, casting>>
  PROVE  RezKept
  <1>1. Rez!EntriesOfCast(Player, n, spell) = {}
    BY PlayerIsInView, EntriesAreCasts DEF Rez!EntriesOfCast, Rez!Seen
  <1>2. UNCHANGED <<entries, told>>  BY <1>1, NoneEnds
  <1> QED  BY <1>2, RezStands

LEMMA NextSwingKeeps ==
  ASSUME IInv, NextSwing
  PROVE  Kept
  <1>1. /\ Sends /\ UNCHANGED <<Clock, Sights, casting, count>> /\ casting[Player] = {}
        /\ timers' = SwingTimers!Swung(SwingTimers!MAIN_HAND) /\ queued' = {}
    BY DEF NextSwing, OutsideSpells, Clock, Sights
  <1>2. PICK x \in queued : RunCastObservers("go", GoPacket(Player, x[2], x[1]))
    BY DEF NextSwing
  <1>3. ServerTypeOK'  BY <1>1, ServerTypes DEF ServerTypeOK, Sends
  <1>4. x[1] \in OnNextSwing /\ x[1] \in Spells /\ Flags[x[1]].onNextSwing
    BY ServerTypes DEF OnNextSwing
  <1>5. SwingTimers!OnSpellGo(x[1], x[2]) /\ Rez!End(Player, x[2], x[1])
    BY <1>2, <1>4, GoObserved
  <1>6. swing' = SwingTimers!OnMeleeSwing(swing, SwingTimers!MAIN_HAND) /\ UNCHANGED cast
    BY <1>4, <1>5 DEF SwingTimers!OnSpellGo
  <1>7. SwingKept
    <2>1. SwingTimers!MAIN_HAND \in SwingTimers!Hands  BY DEF SwingTimers!Hands
    <2>2. UNCHANGED <<Clock, cast>> /\ casting'[Player] = {}  BY <1>1, <1>6
    <2> QED  BY <1>1, <1>6, <2>1, <2>2, HandSwings
  <1>8. RezKept  BY <1>1, <1>5, PlayersPacketEndsNothing
  <1> QED  BY <1>3, <1>7, <1>8 DEF Kept

LEMMA AutorepeatKeeps ==
  ASSUME IInv, NEW spell \in Spells, AutorepeatShot(spell)
  PROVE  Kept
  <1>1. /\ Sends /\ UNCHANGED <<Clock, Sights, casting, queued, count>> /\ casting[Player] = {}
        /\ timers' = SwingTimers!AllReset /\ spell \in Autorepeat
        /\ RunCastObservers("go", GoPacket(Player, count[Player], spell))
    BY DEF AutorepeatShot, OutsideSpells, Clock, Sights
  <1>2. ServerTypeOK'  BY <1>1, ServerTypes DEF ServerTypeOK, Sends
  <1>3. SwingTimers!OnSpellGo(spell, count[Player]) /\ Rez!End(Player, count[Player], spell)
    BY <1>1, GoObserved
  <1>4. ~Flags[spell].onNextSwing /\ Flags[spell].autorepeat
    BY <1>1 DEF Autorepeat, OnNextSwing
  <1>5. swing' = SwingTimers!ResetAll(swing) /\ UNCHANGED cast
    BY <1>3, <1>4 DEF SwingTimers!OnSpellGo
  <1>6. SwingKept
    <2>1. UNCHANGED <<Clock, cast>> /\ casting'[Player] = {}  BY <1>1, <1>5
    <2> QED  BY <1>1, <1>5, <2>1, ShotIsKept
  <1>7. RezKept  BY <1>1, <1>3, PlayersPacketEndsNothing
  <1> QED  BY <1>2, <1>6, <1>7 DEF Kept

LEMMA AttacksKeep ==
  ASSUME IInv, ~ActsWhilePaused, Attacks
  PROVE  Kept
  <1>1. Sends /\ UNCHANGED <<casting, queued, count, entries, told, Sights>>
    BY DEF Attacks, rez, Sights
  <1>2. ServerTypeOK'  BY <1>1, ServerTypes DEF ServerTypeOK, Sends
  <1>3. RezKept  BY <1>1, RezStands
  <1>4. casting'[Player] = casting[Player]  BY <1>1
  <1>5. CASE SwingTimers!Parry  BY <1>2, <1>3, <1>4, <1>5, ParryIsKept DEF Kept
  <1>6. CASE SwingTimers!SetAttacking  BY <1>2, <1>3, <1>4, <1>6, AttackIsKept DEF Kept
  <1>7. ASSUME NEW hand \in SwingTimers!Hands, SwingTimers!MeleeSwing(hand)  PROVE Kept
    <2>1. /\ casting[Player] = {} /\ casting'[Player] = {} /\ UNCHANGED <<Clock, cast>>
          /\ swing' = SwingTimers!OnMeleeSwing(swing, hand)
          /\ timers' = SwingTimers!Swung(hand)
      BY <1>4, <1>7 DEF SwingTimers!MeleeSwing, Clock
    <2>2. SwingKept  BY <2>1, HandSwings
    <2> QED  BY <1>2, <1>3, <2>2 DEF Kept
  <1> QED  BY <1>5, <1>6, <1>7 DEF Attacks

LEMMA TimePassesKeeps ==
  ASSUME IInv, TimePasses
  PROVE  Kept
  <1>1. UNCHANGED <<casting, queued, count, packets, entries, told, Sights>>
    BY DEF TimePasses, rez, server, Sights
  <1>2. ServerTypeOK'  BY <1>1, ServerTypes DEF ServerTypeOK
  <1>3. RezKept  BY <1>1, RezStands
  <1>4. SwingKept  BY <1>1, TickIsKept DEF TimePasses
  <1> QED  BY <1>2, <1>3, <1>4 DEF Kept

LEMMA MovesKeep ==
  ASSUME IInv, ~BackWithinAFrame, ~CorpsesMove, Moves
  PROVE  Kept
  <1>1. Sends /\ UNCHANGED <<Clock, swing, cast, timers, queued, count>>
    BY DEF Moves, swings, Clock
  <1>2. ASSUME NEW c \in Casters, Rez!LeaveView(c),
               casting' = [casting EXCEPT ![c] = {[x EXCEPT !.seen = FALSE] : x \in casting[c]}]
        PROVE  Kept
    <2>1. c # Player  BY <1>2 DEF Rez!LeaveView
    <2>2. SwingKept
      <3>1. casting'[Player] = casting[Player]  BY <1>2, <2>1, PlayerIsInView, ServerTypes
      <3> QED  BY <1>1, <3>1, OthersSteps
    <2>3. RezKept  BY <1>2, CasterLeaves
    <2>4. ServerTypeOK'
      <3> DEFINE unseen == {[x EXCEPT !.seen = FALSE] : x \in casting[c]}
      <3>1. unseen \in {{}} \cup {{x} : x \in Casts}
        <4>1. CASE casting[c] = {}  BY <4>1
        <4>2. ASSUME NEW y \in Casts, casting[c] = {y}
              PROVE  unseen \in {{}} \cup {{x} : x \in Casts}
          <5>1. unseen = {[y EXCEPT !.seen = FALSE]}  BY <4>2
          <5>2. [y EXCEPT !.seen = FALSE] \in Casts  BY DEF Casts
          <5> QED  BY <5>1, <5>2
        <4> QED  BY <4>1, <4>2, ServerTypes
      <3> HIDE DEF unseen
      <3>2. casting' = [casting EXCEPT ![c] = unseen]  BY <1>2 DEF unseen
      <3> QED  BY <1>1, <3>1, <3>2, ServerTypes DEF ServerTypeOK, Sends
    <2> QED  BY <2>2, <2>3, <2>4 DEF Kept
  <1>3. ASSUME UNCHANGED casting, RezKept  PROVE Kept
    <2>1. SwingKept  BY <1>1, <1>3, OthersSteps
    <2>2. ServerTypeOK'  BY <1>1, <1>3, ServerTypes DEF ServerTypeOK, Sends
    <2> QED  BY <1>3, <2>1, <2>2 DEF Kept
  <1>4. ASSUME UNCHANGED casting, NEW c \in Casters, Rez!EnterView(c)  PROVE RezKept
    BY <1>4, CasterEnters
  <1>5. ASSUME UNCHANGED casting, NEW k \in Corpses, Rez!CorpseChanges(k)  PROVE RezKept
    BY <1>5, CorpseComesOrGoes
  <1> QED  BY <1>2, <1>3, <1>4, <1>5 DEF Moves

LEMMA FrameKeeps ==
  ASSUME IInv, Frame
  PROVE  Kept
  <1>1. UNCHANGED <<casting, queued, count, packets>>  BY DEF Frame, server
  <1>2. ServerTypeOK'  BY <1>1, ServerTypes DEF ServerTypeOK
  <1>3. RezKept  BY <1>1, FrameSweeps DEF Frame
  <1>4. SwingKept  BY <1>1, FrameIsKept DEF Frame
  <1> QED  BY <1>2, <1>3, <1>4 DEF Kept

-----------------------------------------------------------------------------
(* The theorems.                                                           *)

LEMMA InitHolds ==
  ASSUME Init
  PROVE  IInv
  <1> USE PacketAssumption DEF Init, PacketAssumption
  <1>1. /\ Ticks \in Nat \ {0} /\ Ticks \div 2 \in Nat /\ 1 < Ticks \div 2 /\ MaxTime \in Nat
        /\ Starts \subseteq 0..(Ticks - 1)
    BY TicksAre
  <1>2. SwingTimers!SwingTypeOK
    <2>1. start \in 0..(Ticks - 1) /\ 0 \in SwingTimers!Lefts
      BY <1>1 DEF SwingTimers!Init, SwingTimers!Lefts
    <2>2. swing \in SwingTimers!States  BY <2>1 DEF SwingTimers!Init, SwingTimers!States
    <2>3. cast \in SwingTimers!CastRecords
      BY <2>1 DEF SwingTimers!Init, SwingTimers!NoCast, SwingTimers!NotPaused,
                  SwingTimers!CastRecords
    <2> QED  BY <1>1, <2>1, <2>2, <2>3 DEF SwingTimers!Init, SwingTimers!SwingTypeOK
  <1>3. Rez!ResurrectionTypeOK
    BY DEF Rez!Init, Rez!ResurrectionTypeOK, Rez!ResurrectionAssumption
  <1>4. ServerTypeOK  BY DEF ServerTypeOK
  <1>5. Player \in Casters  BY DEF Rez!ResurrectionAssumption
  <1>6. SwingTimers!SwingInv
    <2>1. SwingTimers!TracksWhatCounts
      <3> SUFFICES ASSUME NEW t \in weapons  PROVE SwingTimers!Tracks(swing, timers, t)
        BY DEF SwingTimers!TracksWhatCounts
      <3>1. t \in SwingTimers!SwingTypes
        BY DEF SwingTimers!Init, SwingTimers!SwingAssumption
      <3>2. timers[t] = 0 /\ swing[t].endMs = start /\ uptime = 0
        BY <3>1 DEF SwingTimers!Init
      <3>3. start \in 0..(Ticks - 1)  BY <1>1 DEF SwingTimers!Init
      <3>4. (start + 0) % Ticks = start
        <4>1. (0 * Ticks + start) % Ticks = start  BY <1>1, <3>3, ModUnique
        <4> QED  BY <1>1, <3>3, <4>1
      <3>5. 0 \in 0..uptime /\ swing[t].endMs = (start + 0) % Ticks  BY <3>2, <3>4
      <3> HIDE DEF Init
      <3>6. \E e \in 0..uptime : swing[t].endMs = (start + e) % Ticks  BY <3>5
      <3>7. ~(timers[t] > 0)  BY <3>2
      <3> QED  BY ONLY <3>6, <3>7 DEF SwingTimers!Tracks
    <2>2. SwingTimers!CastKnown
      BY <1>5 DEF SwingTimers!CastKnown, SwingTimers!Init, SwingTimers!NoCast
    <2>3. SwingTimers!Bounded(timers)
      <3>1. AttackTimeMs[SwingTimers!MAIN_HAND] \in Nat
        BY DEF SwingTimers!SwingAssumption, SwingTimers!SwingTypes, SwingTimers!Hands
      <3> QED  BY <1>1, <3>1 DEF SwingTimers!Bounded, SwingTimers!Init, SwingTimers!SwingTypes,
                                 SwingTimers!Hands
    <2> QED  BY <2>1, <2>2, <2>3 DEF SwingTimers!SwingInv
  <1>7. Rez!ResurrectionInv
    BY <1>5 DEF Rez!ResurrectionInv, Rez!Init, Rez!EntriesKnown, Rez!UnseenOutOfView,
       Rez!ShowsTheCasts, Rez!EntriesOf, Rez!Seen, Rez!ToldOfEachChange,
       Rez!HasIncomingResurrection, Rez!Targeted
  <1> QED  BY <1>2, <1>3, <1>4, <1>6, <1>7 DEF IInv, TypeOK

LEMMA StepKeeps ==
  ASSUME IInv, Handled, [Next]_vars
  PROVE  IInv'
  <1>1. Kept => IInv'  BY DEF Kept, SwingKept, RezKept, IInv, TypeOK
  <1>2. CASE SpellSteps
    <2>1. ASSUME NEW c \in Casters, NEW spell \in Spells, NEW castTime \in CastTimes,
                 NEW target \in Units \cup Corpses \cup {0}, StartCast(c, spell, castTime, target)
          PROVE  Kept
      BY <2>1, StartCastKeeps
    <2>2. ASSUME NEW c \in Casters, FinishCast(c) \/ FailCast(c)  PROVE Kept
      BY <2>2, FinishCastKeeps, FailCastKeeps
    <2>3. ASSUME NEW spell \in Spells,
                 TriggeredSpell(spell) \/ QueueOnNextSwing(spell) \/ AutorepeatShot(spell)
          PROVE  Kept
      BY <2>3, TriggeredSpellKeeps, QueueKeeps, AutorepeatKeeps DEF Handled
    <2> QED  BY <1>1, <1>2, <2>1, <2>2, <2>3, NextSwingKeeps DEF SpellSteps
  <1>3. CASE Attacks  BY <1>1, <1>3, AttacksKeep DEF Handled
  <1>4. CASE TimePasses  BY <1>1, <1>4, TimePassesKeeps
  <1>5. CASE Moves  BY <1>1, <1>5, MovesKeep DEF Handled
  <1>6. CASE Frame  BY <1>1, <1>6, FrameKeeps
  <1>7. CASE UNCHANGED vars
    <2>1. UNCHANGED <<Clock, swing, cast, timers, casting, queued, count, packets,
                      entries, told, Sights>>
      BY <1>7 DEF vars, swings, rez, server, Clock, Sights
    <2>2. ServerTypeOK'  BY <2>1, ServerTypes DEF ServerTypeOK
    <2>3. RezKept  BY <2>1, RezStands
    <2>4. SwingKept  BY <2>1, OthersSteps
    <2> QED  BY <1>1, <2>2, <2>3, <2>4 DEF Kept
  <1> QED  BY <1>2, <1>3, <1>4, <1>5, <1>6, <1>7 DEF Next

LEMMA InvariantHolds ==
  ASSUME Handled
  PROVE  Spec => []IInv
  <1>1. Init => IInv  BY InitHolds
  <1>2. IInv /\ [Next]_vars => IInv'  BY StepKeeps
  <1> QED  BY <1>1, <1>2, PTL DEF Spec

\* Every variable keeps its type: an end tick stays below GetTickCount's modulus, what is
\* left of a paused timer below half of it, and no caster has two resurrections.
THEOREM TypesAreKept ==
  ASSUME Handled
  PROVE  Spec => []TypeOK
  <1>1. IInv => TypeOK  BY DEF IInv
  <1> QED  BY <1>1, InvariantHolds, PTL

\* Whatever casts, swings, parries and triggered spells the packets tell of, and wherever
\* GetTickCount wraps, each of the player's timers that counts down shows what the
\* server has left of it (Swing.cpp's Remaining).
THEOREM TimersTrackTheServer ==
  ASSUME Handled
  PROVE  Spec => []TracksServer
  <1>1. IInv => TracksServer
    <2> SUFFICES ASSUME IInv, NEW t \in SwingTimers!SwingTypes, SwingTimers!Counting(t)
                 PROVE  SwingTimers!Remaining(swing, t) = timers[t]
      BY DEF TracksServer, SwingTimers!TracksServer
    <2>1. t \in weapons  BY DEF SwingTimers!Counting, SwingTimers!HasWeapon
    <2>2. TypeOK /\ SwingTimers!Bounded(timers) /\ SwingTimers!Tracks(swing, timers, t)
      BY <2>1 DEF IInv, SwingTimers!SwingInv, SwingTimers!TracksWhatCounts
    <2>3. swing \in SwingTimers!States  BY <2>2, Clocks
    <2> QED  BY <2>1, <2>2, <2>3, LeftIs
  <1> QED  BY <1>1, InvariantHolds, PTL

\* A bar that no event is due for ends when the timer does: the last PLAYER_SWING of the
\* type told the tick at which the server's countdown is over (Swing.cpp's OnFrame).
THEOREM BarsEndWithTheTimers ==
  ASSUME Handled
  PROVE  Spec => []BarsAreRight
  <1>1. IInv => BarsAreRight
    <2> SUFFICES ASSUME IInv, NEW t \in SwingTimers!SwingTypes, SwingTimers!Counting(t),
                        ~swing[t].dirty, timers[t] > 0
                 PROVE  shown[t] = (SwingTimers!GetTickCount + timers[t]) % Ticks
      BY DEF BarsAreRight, SwingTimers!BarsAreRight
    <2>1. t \in weapons  BY DEF SwingTimers!Counting, SwingTimers!HasWeapon
    <2>2. TypeOK /\ SwingTimers!Bounded(timers) /\ SwingTimers!Tracks(swing, timers, t)
      BY <2>1 DEF IInv, SwingTimers!SwingInv, SwingTimers!TracksWhatCounts
    <2>3. shown[t] = (start + uptime + timers[t]) % Ticks
      BY <2>2 DEF SwingTimers!Tracks
    <2> DEFINE now == start + uptime
               m == timers[t]
    <2>4. now \in Int /\ m \in Int /\ Ticks \in Nat \ {0}
      BY <2>2, Clocks, TicksAre DEF SwingTimers!Bounded
    <2> HIDE DEF now, m
    <2>5. ((now % Ticks) + m) % Ticks = (now + m) % Ticks  BY <2>4, ModAdd
    <2> QED  BY <2>3, <2>5 DEF now, m, SwingTimers!GetTickCount
  <1> QED  BY <1>1, InvariantHolds, PTL

\* UnitHasIncomingResurrection answers from the resurrections that casters in view are
\* casting, each once and no other, however casts begin, fail, go off or leave view
\* (IncomingResurrection.cpp's Begin, End and OnFrame).
THEOREM EntriesAreTheCasts ==
  ASSUME Handled
  PROVE  Spec => []ShowsTheCasts
  <1>1. IInv => ShowsTheCasts  BY DEF IInv, Rez!ResurrectionInv, ShowsTheCasts
  <1> QED  BY <1>1, InvariantHolds, PTL

\* No answer changes without INCOMING_RESURRECT_CHANGED for its unit: Signal names the
\* owner of a corpse as well as the unit itself.
THEOREM EachChangeIsTold ==
  ASSUME Handled
  PROVE  Spec => []ToldOfEachChange
  <1>1. IInv => ToldOfEachChange  BY DEF IInv, Rez!ResurrectionInv, ToldOfEachChange
  <1> QED  BY <1>1, InvariantHolds, PTL
=============================================================================

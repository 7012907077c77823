------------------------------ MODULE ServerTime ------------------------------
(***************************************************************************)
(* The server's clock by the second (src/src/time/Server.cpp) out of game  *)
(* time that the protocol carries by the minute, and calendar arithmetic   *)
(* (time/DateAndTime.cpp) through the C library.  A minute of the clock    *)
(* has SecondsPerMinute seconds, and GetTickCount wraps at TickRange, so   *)
(* that both boundaries are met.                                           *)
(***************************************************************************)
EXTENDS Integers, Sequences

CONSTANTS
    SecondsPerMinute, TickRange,    \* 60, and 2^32 ms, in the code
    MaxClock,
    Dates,                          \* CalendarTime tables an add-on starts from
    DayShifts, MinuteShifts, MaxShifts

\* The days and the minutes whose seconds an int holds.
IntDays == 24855
IntMinutes == IntDays * 1440 + 194

TimeAssumption ==
    /\ SecondsPerMinute \in Nat \ {0} /\ TickRange \in Nat /\ SecondsPerMinute < TickRange
    /\ MaxClock \in Nat /\ SecondsPerMinute - 1 <= MaxClock /\ MaxShifts \in Nat
    /\ Dates \subseteq [year : Int, month : Int, monthDay : Int, hour : Int, minute : Int]
    /\ DayShifts \cup MinuteShifts \subseteq Int
    /\ \A days \in DayShifts : -IntDays <= days /\ days <= IntDays
    /\ \A minutes \in MinuteShifts : -IntMinutes <= minutes /\ minutes <= IntMinutes

VARIABLES
    clock,              \* the realm's time in seconds, behind the engine's minutes
    ticks,              \* GetTickCount
    lastMinute, anchor, \* g_lastYear .. g_lastMinute, g_anchorTick
    answer, before,     \* ghosts: this second's answer and the one before, on this realm; -1 for none
    ours, rolled,       \* ghost: the anchor is of this realm; it is at the minute's first second
    cal, from, shift, shifts    \* a CalendarTime, and ghosts: what it came from, the minutes added

clockVars == <<clock, ticks, lastMinute, anchor, answer, before, ours, rolled>>
calVars == <<cal, from, shift, shifts>>
timeVars == <<clockVars, calVars>>

-----------------------------------------------------------------------------
(* The C library.  There is no time before 1970.                           *)

\* Days from 1970, months counted from March.
DayNumber(year, month, day) ==
    LET m == (month + 9) % 12
        y == year + (month + 9) \div 12 - 1
    IN  365 * y + y \div 4 - y \div 100 + y \div 400 + (153 * m + 2) \div 5 + day - 719469

\* _mkgmtime: any month, day, hour and minute counts on.
mkgmtime(t) ==
    LET epoch == ((DayNumber(t.year, t.month, t.monthDay) * 24 + t.hour) * 60 + t.minute) * 60
    IN  IF epoch < 0 THEN -1 ELSE epoch

\* The years that a day from 1970 on may be in.
YearsNear(days) == (days \div 366 + 1969)..(days \div 365 + 1971)

gmtime(epoch) ==
    LET days == epoch \div 86400
        y == CHOOSE x \in YearsNear(days) :
                DayNumber(x, 1, 1) <= days /\ days < DayNumber(x + 1, 1, 1)
        m == CHOOSE x \in 1..12 : DayNumber(y, x, 1) <= days /\ days < DayNumber(y, x + 1, 1)
    IN  [year |-> y, month |-> m, monthDay |-> days - DayNumber(y, m, 1) + 1,
         hour |-> (epoch % 86400) \div 3600, minute |-> (epoch % 3600) \div 60]

-----------------------------------------------------------------------------
(* Server.cpp.                                                             *)

Minute == clock \div SecondsPerMinute

\* Mutant: the tick counts are compared as if they never wrapped.
ElapsedSigned(a) == IF ticks >= a THEN ticks - a ELSE 0

\* elapsedMs in DWORD arithmetic, clamped at the minute's end.
Elapsed(a) ==
    LET e == (ticks - a) % TickRange
    IN  IF e > SecondsPerMinute - 1 THEN SecondsPerMinute - 1 ELSE e

Latest == IF answer = -1 THEN before ELSE answer

\* ComputeCurrentEpoch, for Script_GetServerTime.
GetServerTime ==
    /\ lastMinute' = Minute
    /\ anchor' = IF Minute # lastMinute THEN ticks ELSE anchor
    /\ answer' = Minute * SecondsPerMinute + Elapsed(anchor')
    /\ before' = Latest
    /\ ours' = (ours \/ Minute # lastMinute)
    /\ rolled' = IF Minute # lastMinute THEN clock % SecondsPerMinute = 0 ELSE rolled
    /\ UNCHANGED <<clock, ticks, calVars>>

SecondPasses ==
    /\ clock < MaxClock
    /\ clock' = clock + 1 /\ ticks' = (ticks + 1) % TickRange
    /\ answer' = -1 /\ before' = Latest
    /\ UNCHANGED <<lastMinute, anchor, ours, rolled, calVars>>

\* Another realm, whose clock is another; nothing is reset.
SwitchRealm ==
    /\ clock' \in 0..MaxClock \ {clock}
    /\ answer' = -1 /\ before' = -1
    /\ ours' = FALSE /\ rolled' = FALSE
    /\ UNCHANGED <<ticks, lastMinute, anchor, calVars>>

-----------------------------------------------------------------------------
(* DateAndTime.cpp.                                                        *)

\* Mutant: days and minutes are added to their fields.
AdjustsFields(t, seconds) ==
    [t EXCEPT !.monthDay = @ + seconds \div 86400, !.minute = @ + (seconds % 86400) \div 60]

\* AdjustAndPush, for Script_AdjustTimeByDays and Script_AdjustTimeByMinutes.
Adjust(t, seconds) == gmtime(mkgmtime(t) + seconds)

\* Before 1970 a call returns nothing.
AdjustTime(days, minutes) ==
    /\ shifts < MaxShifts
    /\ mkgmtime(cal) >= 0 /\ mkgmtime(cal) + days * 86400 + minutes * 60 >= 0
    /\ cal' = Adjust(cal, days * 86400 + minutes * 60)
    /\ shift' = shift + days * 1440 + minutes
    /\ shifts' = shifts + 1
    /\ UNCHANGED <<clockVars, from>>

CompareCalendarTime(a, b) ==
    IF mkgmtime(a) < mkgmtime(b) THEN -1 ELSE IF mkgmtime(a) > mkgmtime(b) THEN 1 ELSE 0

GetCalendarTimeFromEpoch(epoch) == gmtime(epoch)

TimeInit ==
    /\ clock \in 0..SecondsPerMinute - 1 /\ ticks \in 0..TickRange - 1
    /\ lastMinute = -1 /\ anchor = 0
    /\ answer = -1 /\ before = -1 /\ ours = FALSE /\ rolled = FALSE
    /\ from \in Dates /\ cal = from /\ shift = 0 /\ shifts = 0

ClockNext == GetServerTime \/ SecondPasses \/ SwitchRealm

CalendarNext ==
    \/ \E d \in DayShifts : AdjustTime(d, 0)
    \/ \E m \in MinuteShifts : AdjustTime(0, m)

ClockTypes ==
    ticks \in 0..TickRange - 1 /\ anchor \in 0..TickRange - 1 /\ clock \in 0..MaxClock

TimeTypeOK ==
    /\ ClockTypes
    /\ cal \in [year : Nat, month : 1..12, monthDay : 1..31, hour : 0..23, minute : 0..59]
       \/ cal = from

\* GetServerTime is in the minute the server is in, whatever realm was played before.  On
\* one realm it is never ahead and never runs backwards, the tick count's wrap included.  It
\* is exact through a minute whose first second was asked for, and only that: a call that
\* finds the minute begun anchors there, and the minute's answers stay behind (AnchorsAtRollover).
ClockRight == answer # -1 =>
    /\ answer \div SecondsPerMinute = Minute
    /\ ours => answer <= clock /\ before <= answer
    /\ rolled => answer = clock

\* "After the first minute rollover we observe, the anchor lands at the rollover boundary and
\* subsequent calls are accurate" (Server.cpp:38-40; Server.h:26-28): a call that finds another
\* minute than the last one did, on this realm, answers the server's time.
AnchorsAtRollover == ours /\ lastMinute' # lastMinute => answer' = clock'

\* What the steps keep: ticks since the anchor are seconds since it, and no answer was more
\* than the one the next call gives.
SinceAnchor == (ticks - anchor) % TickRange
ClockInv ==
    /\ clock \in Nat /\ ticks \in 0..TickRange - 1 /\ anchor \in 0..TickRange - 1
    /\ {lastMinute, answer, before} \subseteq Int /\ {ours, rolled} \subseteq BOOLEAN
    /\ rolled => ours
    /\ ours \/ Latest # -1 => lastMinute <= Minute
    /\ Latest # -1 => Latest < (lastMinute + 1) * SecondsPerMinute
    /\ ours /\ lastMinute = Minute =>
        /\ SinceAnchor <= clock % SecondsPerMinute
        /\ rolled => SinceAnchor = clock % SecondsPerMinute
        /\ Latest <= Minute * SecondsPerMinute + SinceAnchor
    /\ answer # -1 =>
        /\ lastMinute = Minute /\ answer = Minute * SecondsPerMinute + Elapsed(anchor)
        /\ ours => before <= answer

\* What the steps keep: the date is the one that the minutes added lead to.
CalendarInv ==
    /\ from \in Dates /\ shift \in Int /\ shifts \in Nat
    /\ shifts = 0 => cal = from /\ shift = 0
    /\ shifts > 0 =>
        /\ mkgmtime(from) >= 0 /\ mkgmtime(from) + shift * 60 >= 0
        /\ cal = Adjust(from, shift * 60)

\* Adjusting a date in steps, forth and back over months, leap days and years, is one
\* adjustment by their sum; order and epoch of the result are those of the minutes added.
CalendarRight ==
    LET sum == IF shift = 0 THEN 0 ELSE IF shift > 0 THEN -1 ELSE 1 IN
    /\ shifts > 0 => cal = Adjust(from, shift * 60)
    /\ CompareCalendarTime(from, cal) = sum /\ CompareCalendarTime(cal, from) = -sum
    /\ shifts > 0 => GetCalendarTimeFromEpoch(mkgmtime(cal)) = cal
=============================================================================

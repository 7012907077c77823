-------------------------------- MODULE Timer --------------------------------
(***************************************************************************)
(* src/src/timer/Timer.cpp: C_Timer.After, NewTimer and NewTicker.  The    *)
(* pending timers are entries of a heap ordered by fireAt; a timer's Lua   *)
(* callback sits in a registry table under its refID, and Cancel only      *)
(* clears that slot.  Tick runs at the end of every rendered frame, after  *)
(* the frame's own Lua (events, OnUpdate), and pops what is due; callbacks *)
(* start and cancel timers themselves.                                     *)
(***************************************************************************)
EXTENDS Integers, FiniteSets

CONSTANTS
    MaxTimers,      \* bound: timers started in one UI session
    Delays,         \* the seconds argument
    Iterations,     \* the iterations argument (0: omitted)
    MaxClock,       \* bound: time modelled
    Wrap,           \* GetTickCount() starts over after this much time
    MaxReloads      \* bound

ASSUME TimerAssumption ==
    /\ MaxTimers \in Nat \ {0}
    /\ Delays \subseteq Nat
    /\ Iterations \subseteq Nat
    /\ MaxClock \in Nat
    /\ Wrap \in Nat \ {0}
    /\ MaxReloads \in Nat

Ids == 1..MaxTimers

VARIABLES
    uptime,                 \* time since boot
    heap,                   \* g_heap: the refIDs with an entry
    fireAt, period, left,   \* the entry's fields (left: iterationsLeft)
    refs,                   \* refs table: the refIDs that hold a callback
    nextRef,                \* g_nextRef
    cancelled,              \* timer tables with _cancelled
    pc, now, running,       \* Tick: where it is, its `now`, whose callback runs
    reloads,
    asked,                  \* ghost: iterations asked for (0: no limit)
    due,                    \* ghost: uptime before which it must not fire
    fires,                  \* ghost: how often it fired
    fresh, ranThisFrame     \* ghost: started, fired, since the last frame ended

entryVars == <<heap, fireAt, period, left>>
tickVars  == <<pc, now, running>>
ghosts    == <<asked, due, fires, fresh, ranThisFrame>>
vars == <<uptime, entryVars, refs, nextRef, cancelled, tickVars, reloads, ghosts>>

TypeOK ==
    /\ uptime \in Nat
    /\ heap \in SUBSET Ids
    /\ fireAt \in [Ids -> Nat]
    /\ period \in [Ids -> Nat]
    /\ left \in [Ids -> Int]
    /\ refs \in SUBSET Ids
    /\ nextRef \in 1..(MaxTimers + 1)
    /\ cancelled \in SUBSET Ids
    /\ pc \in {"lua", "tick", "callback"}
    /\ now \in Nat
    /\ running \in Ids \cup {0}
    /\ reloads \in Nat
    /\ asked \in [Ids -> Nat]
    /\ due \in [Ids -> Nat]
    /\ fires \in [Ids -> Nat]
    /\ fresh \in SUBSET Ids
    /\ ranThisFrame \in SUBSET Ids

Zero == [id \in Ids |-> 0]

Init ==
    /\ uptime = 0
    /\ heap = {} /\ fireAt = Zero /\ period = Zero /\ left = Zero
    /\ refs = {}
    /\ nextRef = 1
    /\ cancelled = {}
    /\ pc = "lua" /\ now = 0 /\ running = 0
    /\ reloads = 0
    /\ asked = Zero /\ due = Zero /\ fires = Zero
    /\ fresh = {} /\ ranThisFrame = {}

\* Mutant: the tick count is read as a signed number.
NowSigned == (uptime % Wrap) - Wrap

NowSec == uptime % Wrap

Started == 1..(nextRef - 1)

-----------------------------------------------------------------------------
(* The Lua functions.  Lua runs between ticks and inside a callback.       *)

LuaRuns == pc \in {"lua", "callback"}

Push(id, at) ==
    /\ heap' = heap \cup {id}
    /\ fireAt' = [fireAt EXCEPT ![id] = at]

\* Mutant: Tick walks a copy of the heap, and what callbacks push is lost.
StartLostInCallback(sec, every, iterations) ==
    LET id == nextRef
    IN  /\ LuaRuns
        /\ nextRef <= MaxTimers
        /\ uptime + sec <= MaxClock
        /\ nextRef' = nextRef + 1
        /\ refs' = refs \cup {id}
        /\ IF pc = "callback"
             THEN UNCHANGED <<heap, fireAt>>
             ELSE Push(id, NowSec + sec)
        /\ period' = [period EXCEPT ![id] = every]
        /\ left' = [left EXCEPT ![id] = IF iterations > 0 THEN iterations ELSE -1]
        /\ asked' = [asked EXCEPT ![id] = iterations]
        /\ due' = [due EXCEPT ![id] = uptime + sec]
        /\ fresh' = fresh \cup {id}
        /\ UNCHANGED <<uptime, cancelled, tickVars, reloads, fires, ranThisFrame>>

\* RefCallback and the heap push of all three functions.
Start(sec, every, iterations) ==
    LET id == nextRef
    IN  /\ LuaRuns
        /\ nextRef <= MaxTimers
        /\ uptime + sec <= MaxClock
        /\ nextRef' = nextRef + 1
        /\ refs' = refs \cup {id}
        /\ Push(id, NowSec + sec)
        /\ period' = [period EXCEPT ![id] = every]
        /\ left' = [left EXCEPT ![id] = IF iterations > 0 THEN iterations ELSE -1]
        /\ asked' = [asked EXCEPT ![id] = iterations]
        /\ due' = [due EXCEPT ![id] = uptime + sec]
        /\ fresh' = fresh \cup {id}
        /\ UNCHANGED <<uptime, cancelled, tickVars, reloads, fires, ranThisFrame>>

NewTimer(sec) == Start(sec, 0, 1)
NewTicker(sec, iterations) == Start(sec, sec, iterations)

\* Mutant: Cancel only sets the flag.
CancelFlagsOnly(id) ==
    /\ LuaRuns
    /\ id \in Started
    /\ cancelled' = cancelled \cup {id}
    /\ UNCHANGED <<uptime, entryVars, refs, nextRef, tickVars, reloads, ghosts>>

\* timer:Cancel(), at any time in the life of the timer or after it.
Cancel(id) ==
    /\ LuaRuns
    /\ id \in Started
    /\ refs' = refs \ {id}
    /\ cancelled' = cancelled \cup {id}
    /\ UNCHANGED <<uptime, entryVars, nextRef, tickVars, reloads, ghosts>>

-----------------------------------------------------------------------------
(* Tick.                                                                   *)

Due(t) == {id \in heap : fireAt[id] <= t}

\* The heap's top: any of the entries with the least fireAt.
Top(t) == {id \in Due(t) : \A other \in Due(t) : fireAt[id] <= fireAt[other]}

NewFrame == fresh' = {} /\ ranThisFrame' = {}

\* The fast path looks at the top and leaves; otherwise `now` is captured.
TickStarts ==
    /\ pc = "lua"
    /\ IF Due(NowSec) = {}
         THEN NewFrame /\ UNCHANGED tickVars
         ELSE /\ pc' = "tick"
              /\ now' = NowSec
              /\ UNCHANGED <<running, fresh, ranThisFrame>>
    /\ UNCHANGED <<uptime, entryVars, refs, nextRef, cancelled, reloads, asked,
                   due, fires>>

\* The entry leaves the heap; its callback runs if the slot still holds one.
Pop(id) ==
    /\ pc = "tick"
    /\ id \in Top(now)
    /\ heap' = heap \ {id}
    /\ IF id \in refs
         THEN /\ pc' = "callback"
              /\ running' = id
              /\ fires' = [fires EXCEPT ![id] = @ + 1]
              /\ ranThisFrame' = ranThisFrame \cup {id}
         ELSE UNCHANGED <<pc, running, fires, ranThisFrame>>
    /\ UNCHANGED <<uptime, fireAt, period, left, refs, nextRef, cancelled, now,
                   reloads, asked, due, fresh>>

\* The rest of Tick's loop, once the callback is back: push the entry again
\* with n iterations left, or give up its slot.
Reschedule(n, again, at, freed) ==
    /\ pc = "callback"
    /\ pc' = "tick"
    /\ running' = 0
    /\ left' = [left EXCEPT ![running] = n]
    /\ IF again
         THEN /\ Push(running, at)
              /\ due' = [due EXCEPT ![running] = due[running] + period[running]]
              /\ UNCHANGED refs
         ELSE /\ refs' = IF freed THEN refs \ {running} ELSE refs
              /\ UNCHANGED <<heap, fireAt, due>>
    /\ UNCHANGED <<uptime, period, nextRef, cancelled, now, reloads, asked,
                   fires, fresh, ranThisFrame>>

\* iterationsLeft after this run: counted down for a limited ticker.
Remaining ==
    IF period[running] > 0 /\ left[running] > 0
      THEN left[running] - 1
      ELSE left[running]

\* Mutant: only one-shots give up their slot.
TickerKeepsRef ==
    Reschedule(Remaining, period[running] > 0 /\ Remaining # 0,
               now + period[running], period[running] = 0)

\* Mutant: the limit is tested before it is counted down.
CountedLate ==
    Reschedule(Remaining, period[running] > 0 /\ left[running] # 0,
               now + period[running], TRUE)

\* Mutant: a late ticker catches up, one period after the other.
CatchesUp ==
    Reschedule(Remaining, period[running] > 0 /\ Remaining # 0,
               fireAt[running] + period[running], TRUE)

\* After the callback: a ticker with iterations to go is pushed again, any
\* other timer gives up its slot.
CallbackReturns ==
    Reschedule(Remaining, period[running] > 0 /\ Remaining # 0,
               now + period[running], TRUE)

TickEnds ==
    /\ pc = "tick"
    /\ Due(now) = {}
    /\ pc' = "lua"
    /\ now' = 0
    /\ NewFrame
    /\ UNCHANGED <<uptime, entryVars, refs, nextRef, cancelled, running, reloads,
                   asked, due, fires>>

\* PrepareForReload, and the Lua state with its timer tables going away.
PrepareForReload ==
    /\ pc = "lua"
    /\ reloads < MaxReloads
    /\ reloads' = reloads + 1
    /\ heap' = {} /\ fireAt' = Zero /\ period' = Zero /\ left' = Zero
    /\ refs' = {} /\ nextRef' = 1 /\ cancelled' = {}
    /\ asked' = Zero /\ due' = Zero /\ fires' = Zero
    /\ fresh' = {} /\ ranThisFrame' = {}
    /\ UNCHANGED <<uptime, tickVars>>

Advance ==
    /\ uptime < MaxClock
    /\ uptime' = uptime + 1
    /\ UNCHANGED <<entryVars, refs, nextRef, cancelled, tickVars, reloads, ghosts>>

Next ==
    \/ \E sec \in Delays : NewTimer(sec)
    \/ \E sec \in Delays, n \in Iterations : NewTicker(sec, n)
    \/ \E id \in Ids : Cancel(id) \/ Pop(id)
    \/ TickStarts \/ CallbackReturns \/ TickEnds
    \/ PrepareForReload
    \/ Advance

Spec == Init /\ [][Next]_vars

\* Time passes, frames go on being drawn, callbacks return.
Fairness ==
    /\ WF_vars(Advance)
    /\ SF_vars(TickStarts)
    /\ WF_vars(\E id \in Ids : Pop(id))
    /\ WF_vars(CallbackReturns)
    /\ WF_vars(TickEnds)

FairSpec == Spec /\ Fairness

-----------------------------------------------------------------------------
(* Properties.                                                             *)

\* A cancelled timer holds no callback, so it never fires again: not from
\* the heap entry Cancel leaves behind, not when its own callback cancels it
\* and the ticker is pushed again, not under a refID reused after a reload.
CancelledHoldsNoCallback == cancelled \cap refs = {}

\* No callback leaks: each one in the registry has a heap entry that will
\* release it, or is running.
NoLeakedCallback ==
    refs \subseteq heap \cup (IF pc = "callback" THEN {running} ELSE {})

\* Neither cancelled nor at its limit; a one-shot's limit is one.
Unfinished(id) ==
    id \notin cancelled /\ (asked[id] > 0 => fires[id] < asked[id])

Pending(id) == id \in heap \/ (pc = "callback" /\ running = id)

\* A timer fires no more often than it was asked to, a one-shot once, and
\* until then it is not given up: it keeps its callback and its heap entry.
\* Exempt is a ticker of 0 seconds, which the code drops after its first run
\* (TickersRunOn).
IterationsKept ==
    \A id \in Started :
        /\ asked[id] > 0 => fires[id] <= asked[id]
        /\ Unfinished(id) /\ (period[id] > 0 \/ fires[id] = 0)
             => id \in refs /\ Pending(id)

\* "Omitted / non-positive iterations means infinite - runs until :Cancel()
\* is called" (docs/API.md): a ticker of any number of seconds is not given
\* up before it is cancelled or at its limit.
TickersRunOn == \A id \in Started : Unfinished(id) => id \in refs

\* A timer never fires before its time, a ticker never twice in one frame.
FiresOnTime ==
    [][\A id \in Ids : fires'[id] > fires[id] =>
          /\ uptime >= due[id]
          /\ id \notin ranThisFrame]_vars

\* A timer fires, or is cancelled, or its UI session ends.
EveryTimerFires ==
    \A id \in Ids : id \in Started ~>
        fires[id] > 0 \/ id \in cancelled \/ id \notin Started

\* "C_Timer.After(0, function() print("next frame") end)" (docs/API.md): a
\* timer does not fire in the frame that started it.
FiresInALaterFrame ==
    [][\A id \in Ids : fires'[id] > fires[id] => id \notin fresh]_vars
=============================================================================

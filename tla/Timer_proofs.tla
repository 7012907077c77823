---------------------------- MODULE Timer_proofs ----------------------------
(***************************************************************************)
(* Proofs about Timer, for any number of timers, any delays, iterations,   *)
(* clock and reloads.                                                      *)
(***************************************************************************)
EXTENDS Timer, TLAPS

Running(id) == pc = "callback" /\ running = id

\* Everything the module keeps is about timers started in this session.
OnlyStarted == heap \cup refs \cup cancelled \subseteq Started

RunningIsPopped ==
    pc = "callback" => running \in Started /\ running \notin heap

\* A limited ticker has fired as often as it was counted down; while its
\* callback runs, the last firing is still to be counted.
CountedTicker(id) ==
    asked[id] > 0 /\ period[id] > 0 =>
        /\ id \in heap => left[id] >= 1 /\ fires[id] + left[id] = asked[id]
        /\ Running(id) => left[id] >= 1 /\ fires[id] + left[id] = asked[id] + 1
        /\ fires[id] <= asked[id]

FiredOnce(id) ==
    period[id] = 0 =>
        /\ id \in heap => fires[id] = 0
        /\ fires[id] <= 1

\* A timer with runs left is not given up.
GoesOn(id) ==
    /\ Running(id) => fires[id] > 0
    /\ asked[id] = 0 => left[id] = -1
    /\ Unfinished(id) /\ (period[id] > 0 \/ fires[id] = 0)
         => id \in refs /\ Pending(id)

Unstarted(id) == fires[id] = 0

IInv == /\ TypeOK
        /\ OnlyStarted
        /\ RunningIsPopped
        /\ CancelledHoldsNoCallback
        /\ NoLeakedCallback
        /\ \A id \in Started : CountedTicker(id) /\ FiredOnce(id) /\ GoesOn(id)
        /\ \A id \in Ids \ Started : Unstarted(id)

USE DEF Ids, Started

LEMMA StartedAreIds == TypeOK => Started \subseteq Ids
  BY TimerAssumption DEF TypeOK

LEMMA TypeInit == Init => TypeOK
  BY TimerAssumption DEF Init, TypeOK, Zero

LEMMA NowIsNat == TypeOK => NowSec \in Nat
  BY TimerAssumption DEF TypeOK, NowSec

LEMMA StartType ==
  ASSUME TypeOK, NEW s \in Nat, NEW e \in Nat, NEW n \in Nat, Start(s, e, n)
  PROVE  TypeOK'
  <1>1. NowSec + s \in Nat  BY NowIsNat
  <1>2. nextRef \in 1..MaxTimers /\ nextRef' \in 1..(MaxTimers + 1)
    BY TimerAssumption DEF Start, TypeOK
  <1>3. fireAt' \in [1..MaxTimers -> Nat]
    BY <1>1, <1>2 DEF Start, Push, TypeOK
  <1>4. left' \in [1..MaxTimers -> Int]
    BY <1>2 DEF Start, TypeOK
  <1>5. due' \in [1..MaxTimers -> Nat] /\ asked' \in [1..MaxTimers -> Nat]
        /\ period' \in [1..MaxTimers -> Nat]
    BY <1>2 DEF Start, TypeOK
  <1> QED  BY <1>2, <1>3, <1>4, <1>5 DEF Start, Push, TypeOK, tickVars

LEMMA TypeStep == TypeOK /\ RunningIsPopped /\ [Next]_vars => TypeOK'
  <1> SUFFICES ASSUME TypeOK, RunningIsPopped, [Next]_vars PROVE TypeOK'  OBVIOUS
  <1>1. ASSUME NEW s \in Delays, NewTimer(s) PROVE TypeOK'
    BY <1>1, StartType, TimerAssumption DEF NewTimer
  <1>2. ASSUME NEW s \in Delays, NEW n \in Iterations, NewTicker(s, n)
        PROVE  TypeOK'
    <2>1. s \in Nat /\ n \in Nat  BY TimerAssumption
    <2> QED  BY <1>2, <2>1, StartType DEF NewTicker
  <1>3. ASSUME NEW id \in Ids, Cancel(id) PROVE TypeOK'
    BY <1>3 DEF Cancel, TypeOK, entryVars, tickVars, ghosts
  <1>4. ASSUME NEW id \in Ids, Pop(id) PROVE TypeOK'
    <2>1. CASE id \in refs
      <3>1. pc' = "callback" /\ running' = id
        BY <1>4, <2>1 DEF Pop
      <3>2. fires' \in [Ids -> Nat]  BY <1>4, <2>1 DEF Pop, TypeOK
      <3> QED  BY <1>4, <2>1, <3>1, <3>2 DEF Pop, TypeOK
    <2>2. CASE id \notin refs
      BY <1>4, <2>2 DEF Pop, TypeOK
    <2> QED  BY <2>1, <2>2
  <1>5. CASE TickStarts
    BY <1>5, NowIsNat DEF TickStarts, NewFrame, TypeOK, entryVars, tickVars
  <1>6. CASE CallbackReturns
    <2>1. running' = 0 /\ pc' = "tick"
      BY <1>6 DEF CallbackReturns, Reschedule
    <2>2. running \in Ids /\ Remaining \in Int
      BY <1>6 DEF CallbackReturns, Reschedule, Remaining, RunningIsPopped, TypeOK
    <2>3. left' \in [Ids -> Int]
      BY <1>6, <2>2 DEF CallbackReturns, Reschedule, TypeOK
    <2>4. now + period[running] \in Nat /\ due[running] + period[running] \in Nat
      BY <2>2, SMTT(30) DEF TypeOK
    <2>5. /\ heap' \in SUBSET Ids /\ fireAt' \in [Ids -> Nat]
          /\ due' \in [Ids -> Nat] /\ refs' \in SUBSET Ids
      BY <1>6, <2>2, <2>4 DEF CallbackReturns, Reschedule, Push, TypeOK
    <2> QED  BY <1>6, <2>1, <2>3, <2>5 DEF CallbackReturns, Reschedule, TypeOK
  <1>7. CASE TickEnds
    BY <1>7 DEF TickEnds, NewFrame, TypeOK, entryVars
  <1>8. CASE PrepareForReload
    BY <1>8, TimerAssumption DEF PrepareForReload, TypeOK, Zero, tickVars
  <1>9. CASE Advance
    BY <1>9 DEF Advance, TypeOK, entryVars, tickVars, ghosts
  <1>10. CASE UNCHANGED vars
    BY <1>10 DEF vars, TypeOK, entryVars, tickVars, ghosts
  <1> QED
    BY <1>1, <1>2, <1>3, <1>4, <1>5, <1>6, <1>7, <1>8, <1>9, <1>10 DEF Next

-----------------------------------------------------------------------------
(* The inductive step of the rest, action by action.                       *)

Rest == /\ OnlyStarted
        /\ RunningIsPopped
        /\ CancelledHoldsNoCallback
        /\ NoLeakedCallback
        /\ \A id \in Started : CountedTicker(id) /\ FiredOnce(id)
        /\ \A id \in Ids \ Started : Unstarted(id)

LEMMA StartKeeps ==
  ASSUME IInv, NEW s \in Nat, NEW e \in Nat, NEW n \in Nat, Start(s, e, n)
  PROVE  Rest'
  <1> USE DEF IInv
  <1>1. /\ nextRef \in Ids /\ nextRef' = nextRef + 1
        /\ heap' = heap \cup {nextRef} /\ refs' = refs \cup {nextRef}
        /\ cancelled' = cancelled /\ pc' = pc /\ running' = running
        /\ nextRef \notin heap \cup refs \cup cancelled
    BY DEF Start, Push, TypeOK, OnlyStarted, tickVars
  <1>2. OnlyStarted'
    BY <1>1 DEF OnlyStarted, TypeOK
  <1>3. RunningIsPopped'
    BY <1>1 DEF RunningIsPopped, TypeOK
  <1>4. CancelledHoldsNoCallback' /\ NoLeakedCallback'
    BY <1>1 DEF CancelledHoldsNoCallback, NoLeakedCallback
  <1>5. /\ fires' = fires
        /\ period' = [period EXCEPT ![nextRef] = e]
        /\ left' = [left EXCEPT ![nextRef] = IF n > 0 THEN n ELSE -1]
        /\ asked' = [asked EXCEPT ![nextRef] = n]
    BY DEF Start
  <1>6. ASSUME NEW id \in Started' PROVE CountedTicker(id)' /\ FiredOnce(id)'
    <2>1. CASE id = nextRef
      <3>1. fires[id] = 0  BY <1>1, <2>1 DEF Unstarted
      <3>2. ~Running(id)'
        BY <1>1, <2>1 DEF Running, RunningIsPopped, TypeOK
      <3> QED  BY <1>1, <1>5, <2>1, <3>1, <3>2
               DEF CountedTicker, FiredOnce, TypeOK
    <2>2. CASE id # nextRef
      <3>1. id \in Started  BY <1>1, <1>6, <2>2 DEF TypeOK
      <3> QED  BY <1>1, <1>5, <2>2, <3>1
               DEF CountedTicker, FiredOnce, Running, TypeOK
    <2> QED  BY <2>1, <2>2
  <1>7. ASSUME NEW id \in (Ids \ Started)' PROVE Unstarted(id)'
    BY <1>1, <1>5, <1>7 DEF Unstarted, TypeOK
  <1> QED  BY <1>2, <1>3, <1>4, <1>6, <1>7 DEF Rest

LEMMA RestStep == IInv /\ [Next]_vars => Rest'
  <1> SUFFICES ASSUME IInv, [Next]_vars PROVE Rest'  OBVIOUS
  <1> USE DEF IInv
  <1>1. ASSUME NEW s \in Delays, NewTimer(s) PROVE Rest'
    BY <1>1, StartKeeps, TimerAssumption DEF NewTimer
  <1>2. ASSUME NEW s \in Delays, NEW n \in Iterations, NewTicker(s, n)
        PROVE  Rest'
    <2>1. s \in Nat /\ n \in Nat  BY TimerAssumption
    <2> QED  BY <1>2, <2>1, StartKeeps DEF NewTicker
  <1>3. ASSUME NEW id \in Ids, Cancel(id) PROVE Rest'
    BY <1>3 DEF Cancel, Rest, OnlyStarted, RunningIsPopped,
                CancelledHoldsNoCallback, NoLeakedCallback, CountedTicker,
                FiredOnce, Unstarted, Running, entryVars, tickVars, ghosts
  <1>4. ASSUME NEW id \in Ids, Pop(id) PROVE Rest'
    <2>1. /\ pc = "tick" /\ id \in heap /\ heap' = heap \ {id}
          /\ UNCHANGED <<refs, nextRef, cancelled, left, period, asked>>
      BY <1>4 DEF Pop, Top, Due
    <2>2. CASE id \in refs
      <3>1. /\ pc' = "callback" /\ running' = id
            /\ fires' = [fires EXCEPT ![id] = @ + 1]
        BY <1>4, <2>2 DEF Pop
      <3>2. /\ OnlyStarted' /\ RunningIsPopped'
            /\ CancelledHoldsNoCallback' /\ NoLeakedCallback'
        BY <2>1, <3>1 DEF OnlyStarted, RunningIsPopped,
                          CancelledHoldsNoCallback, NoLeakedCallback
      <3>3. ASSUME NEW j \in Started'
            PROVE  CountedTicker(j)' /\ FiredOnce(j)'
        <4>1. j \in Started /\ j \in Ids  BY <2>1, <3>3, StartedAreIds
        <4>2. CASE j = id
          <5>1. /\ fires[j] \in Nat /\ left[j] \in Int /\ asked[j] \in Nat
                /\ period[j] \in Nat
            BY <4>1 DEF TypeOK
          <5>2. /\ fires'[j] = fires[j] + 1 /\ left'[j] = left[j]
                /\ asked'[j] = asked[j] /\ period'[j] = period[j]
                /\ j \notin heap' /\ j \in heap
            BY <2>1, <3>1, <4>1, <4>2 DEF TypeOK
          <5>3. CountedTicker(j) /\ FiredOnce(j)  BY <4>1
          <5> QED  BY <5>1, <5>2, <5>3 DEF CountedTicker, FiredOnce
        <4>3. CASE j # id
          BY <2>1, <3>1, <4>1, <4>3 DEF CountedTicker, FiredOnce, Running, TypeOK
        <4> QED  BY <4>2, <4>3
      <3>4. ASSUME NEW j \in (Ids \ Started)' PROVE Unstarted(j)'
        BY <2>1, <3>1, <3>4 DEF Unstarted, OnlyStarted, TypeOK
      <3> QED  BY <3>2, <3>3, <3>4 DEF Rest
    <2>3. CASE id \notin refs
      <3>1. UNCHANGED <<pc, running, fires>>  BY <1>4, <2>3 DEF Pop
      <3> QED  BY <2>1, <2>3, <3>1
               DEF Rest, OnlyStarted, RunningIsPopped, CancelledHoldsNoCallback,
                   NoLeakedCallback, CountedTicker, FiredOnce, Unstarted,
                   Running
    <2> QED  BY <2>2, <2>3
  <1>5. CASE TickStarts \/ TickEnds
    <2>1. /\ UNCHANGED <<heap, left, period, refs, nextRef, cancelled, asked, fires>>
          /\ pc # "callback" /\ pc' # "callback"
      BY <1>5 DEF TickStarts, TickEnds, entryVars, tickVars
    <2> QED  BY <2>1
             DEF Rest, OnlyStarted, RunningIsPopped, CancelledHoldsNoCallback,
                 NoLeakedCallback, CountedTicker, FiredOnce, Unstarted, Running
  <1>6. CASE CallbackReturns
    <2> DEFINE id == running
               again == period[id] > 0 /\ Remaining # 0
    <2>1. /\ pc = "callback" /\ pc' = "tick"
          /\ left' = [left EXCEPT ![id] = Remaining]
          /\ UNCHANGED <<nextRef, cancelled, period, asked, fires>>
          /\ id \in Started /\ id \notin heap /\ Running(id) /\ id \in Ids
      BY <1>6 DEF CallbackReturns, Reschedule, RunningIsPopped, Running, TypeOK
    <2>2. \/ again /\ heap' = heap \cup {id} /\ refs' = refs
          \/ ~again /\ heap' = heap /\ refs' = refs \ {id}
      BY <1>6 DEF CallbackReturns, Reschedule, Push
    <2>3. /\ OnlyStarted' /\ RunningIsPopped'
          /\ CancelledHoldsNoCallback' /\ NoLeakedCallback'
      BY <2>1, <2>2 DEF OnlyStarted, RunningIsPopped, CancelledHoldsNoCallback,
                        NoLeakedCallback
    <2>4. ASSUME NEW j \in Started' PROVE CountedTicker(j)' /\ FiredOnce(j)'
      <3>1. j \in Started /\ j \in Ids  BY <2>1, <2>4, StartedAreIds
      <3>2. ~Running(j)'  BY <2>1 DEF Running
      <3>3. CASE j = id
        <4>1. CASE period[j] = 0
          <5>1. ~again  BY <3>3, <4>1
          <5> QED  BY <2>1, <2>2, <3>1, <3>2, <3>3, <4>1, <5>1
                   DEF CountedTicker, FiredOnce
        <4>2. CASE period[j] > 0 /\ asked[j] > 0
          <5>1. left[j] >= 1 /\ fires[j] + left[j] = asked[j] + 1
            BY <2>1, <3>1, <3>3, <4>2 DEF CountedTicker
          <5>2. left'[j] = left[j] - 1
            BY <2>1, <3>1, <3>3, <4>2, <5>1 DEF Remaining, TypeOK
          <5>3. j \in heap' => left'[j] # 0
            BY <2>1, <2>2, <3>3 DEF TypeOK
          <5>4. fires[j] \in Nat /\ left[j] \in Int /\ asked[j] \in Nat
            BY <3>1 DEF TypeOK
          <5>5. fires'[j] = fires[j] /\ asked'[j] = asked[j] /\ period'[j] = period[j]
            BY <2>1
          <5> QED  BY <3>2, <4>2, <5>1, <5>2, <5>3, <5>4, <5>5
                   DEF CountedTicker, FiredOnce
        <4>3. CASE period[j] > 0 /\ ~(asked[j] > 0)
          BY <2>1, <4>3 DEF CountedTicker, FiredOnce
        <4> QED  BY <3>1, <4>1, <4>2, <4>3 DEF TypeOK
      <3>4. CASE j # id
        <4>1. left'[j] = left[j] /\ (j \in heap' <=> j \in heap)
          BY <2>1, <2>2, <3>1, <3>4 DEF TypeOK
        <4> QED  BY <2>1, <3>1, <3>2, <4>1 DEF CountedTicker, FiredOnce
      <3> QED  BY <3>3, <3>4
    <2>5. ASSUME NEW j \in (Ids \ Started)' PROVE Unstarted(j)'
      BY <2>1, <2>5 DEF Unstarted
    <2> QED  BY <2>3, <2>4, <2>5 DEF Rest
  <1>7. CASE PrepareForReload
    <2>1. /\ heap' = {} /\ refs' = {} /\ cancelled' = {} /\ nextRef' = 1
          /\ pc' = "lua" /\ fires' = Zero
      BY <1>7 DEF PrepareForReload, tickVars
    <2> QED  BY <2>1 DEF Rest, OnlyStarted, RunningIsPopped,
                         CancelledHoldsNoCallback, NoLeakedCallback, Unstarted,
                         Zero
  <1>8. CASE Advance \/ UNCHANGED vars
    BY <1>8 DEF Advance, vars, Rest, OnlyStarted, RunningIsPopped,
                CancelledHoldsNoCallback, NoLeakedCallback, CountedTicker,
                FiredOnce, Unstarted, Running, entryVars, tickVars, ghosts
  <1> QED
    BY <1>1, <1>2, <1>3, <1>4, <1>5, <1>6, <1>7, <1>8 DEF Next

\* No step gives up a timer with runs left.
LEMMA StartGoesOn ==
  ASSUME IInv, NEW s \in Nat, NEW e \in Nat, NEW n \in Nat, Start(s, e, n),
         NEW id \in Started'
  PROVE  GoesOn(id)'
  <1> USE DEF IInv
  <1>1. /\ nextRef \in Ids /\ nextRef' = nextRef + 1
        /\ heap' = heap \cup {nextRef} /\ refs' = refs \cup {nextRef}
        /\ cancelled' = cancelled /\ pc' = pc /\ running' = running
    BY DEF Start, Push, TypeOK, OnlyStarted, tickVars
  <1>2. /\ fires' = fires
        /\ period' = [period EXCEPT ![nextRef] = e]
        /\ left' = [left EXCEPT ![nextRef] = IF n > 0 THEN n ELSE -1]
        /\ asked' = [asked EXCEPT ![nextRef] = n]
    BY DEF Start
  <1>3. CASE id = nextRef
    <2>1. ~Running(id)'
      BY <1>1, <1>3 DEF Running, RunningIsPopped, TypeOK
    <2>2. asked'[id] = n /\ left'[id] = IF n > 0 THEN n ELSE -1
      BY <1>1, <1>2, <1>3 DEF TypeOK
    <2> QED  BY <1>1, <1>3, <2>1, <2>2 DEF GoesOn, Pending
  <1>4. CASE id # nextRef
    <2>1. id \in Started /\ id \in Ids
      BY <1>1, <1>4, StartedAreIds DEF TypeOK
    <2>2. /\ left'[id] = left[id] /\ asked'[id] = asked[id]
          /\ period'[id] = period[id]
      BY <1>1, <1>2, <1>4, <2>1 DEF TypeOK
    <2> QED  BY <1>1, <1>2, <2>1, <2>2
             DEF GoesOn, Unfinished, Pending, Running
  <1> QED  BY <1>3, <1>4

LEMMA GoesOnStep ==
  ASSUME IInv, [Next]_vars, NEW id \in Started'
  PROVE  GoesOn(id)'
  <1> USE DEF IInv
  <1>1. ASSUME NEW s \in Delays, NewTimer(s) PROVE GoesOn(id)'
    BY <1>1, StartGoesOn, TimerAssumption DEF NewTimer
  <1>2. ASSUME NEW s \in Delays, NEW n \in Iterations, NewTicker(s, n)
        PROVE  GoesOn(id)'
    <2>1. s \in Nat /\ n \in Nat  BY TimerAssumption
    <2> QED  BY <1>2, <2>1, StartGoesOn DEF NewTicker
  <1>3. ASSUME NEW c \in Ids, Cancel(c) PROVE GoesOn(id)'
    BY <1>3 DEF Cancel, GoesOn, Unfinished, Pending, Running, entryVars,
                tickVars, ghosts
  <1>4. ASSUME NEW c \in Ids, Pop(c) PROVE GoesOn(id)'
    <2>1. /\ pc = "tick" /\ c \in heap /\ heap' = heap \ {c}
          /\ UNCHANGED <<refs, nextRef, cancelled, left, period, asked>>
      BY <1>4 DEF Pop, Top, Due
    <2>2. id \in Started /\ id \in Ids  BY <2>1, StartedAreIds
    <2>3. GoesOn(id)  BY <2>2
    <2>4. CASE c \in refs
      <3>1. /\ pc' = "callback" /\ running' = c
            /\ fires' = [fires EXCEPT ![c] = @ + 1]
        BY <1>4, <2>4 DEF Pop
      <3>2. fires[id] \in Nat /\ asked[id] \in Nat  BY <2>2 DEF TypeOK
      <3>3. CASE id = c
        BY <2>1, <2>2, <2>3, <2>4, <3>1, <3>2, <3>3
           DEF GoesOn, Pending, Running, TypeOK
      <3>4. CASE id # c
        BY <2>1, <2>2, <2>3, <3>1, <3>4
           DEF GoesOn, Unfinished, Pending, Running, TypeOK
      <3> QED  BY <3>3, <3>4
    <2>5. CASE c \notin refs
      <3>1. UNCHANGED <<pc, running, fires>>  BY <1>4, <2>5 DEF Pop
      <3> QED  BY <2>1, <2>3, <2>5, <3>1
               DEF GoesOn, Unfinished, Pending, Running
    <2> QED  BY <2>4, <2>5
  <1>5. CASE TickStarts \/ TickEnds
    <2>1. /\ UNCHANGED <<heap, left, period, refs, nextRef, cancelled, asked, fires>>
          /\ pc # "callback" /\ pc' # "callback"
      BY <1>5 DEF TickStarts, TickEnds, entryVars, tickVars
    <2> QED  BY <2>1 DEF GoesOn, Unfinished, Pending, Running
  <1>6. CASE CallbackReturns
    <2> DEFINE c == running
               again == period[c] > 0 /\ Remaining # 0
    <2>1. /\ pc = "callback" /\ pc' = "tick" /\ left' = [left EXCEPT ![c] = Remaining]
          /\ UNCHANGED <<nextRef, cancelled, period, asked, fires>>
          /\ c \in Started /\ Running(c) /\ c \in Ids
      BY <1>6 DEF CallbackReturns, Reschedule, RunningIsPopped, Running, TypeOK
    <2>2. \/ again /\ heap' = heap \cup {c} /\ refs' = refs
          \/ ~again /\ heap' = heap /\ refs' = refs \ {c}
      BY <1>6 DEF CallbackReturns, Reschedule, Push
    <2>3. id \in Started /\ id \in Ids /\ ~Running(id)'
      BY <2>1, StartedAreIds DEF Running
    <2>4. GoesOn(id) /\ CountedTicker(id)  BY <2>3
    <2>5. CASE id # c
      BY <2>1, <2>2, <2>3, <2>4, <2>5
         DEF GoesOn, Unfinished, Pending, Running, TypeOK
    <2>6. CASE id = c
      <3>1. /\ fires[id] \in Nat /\ fires[id] > 0 /\ asked[id] \in Nat
            /\ period[id] \in Nat /\ left[id] \in Int
        BY <2>1, <2>3, <2>4, <2>6 DEF GoesOn, TypeOK
      <3>2. CASE asked[id] = 0
        <4>1. Remaining = -1 /\ left'[id] = -1
          BY <2>1, <2>3, <2>4, <2>6, <3>2 DEF GoesOn, Remaining, TypeOK
        <4> QED  BY <2>1, <2>2, <2>3, <2>4, <2>6, <3>1, <4>1
                 DEF GoesOn, Unfinished, Pending
      <3>3. CASE asked[id] > 0 /\ period[id] > 0
        <4>1. left[id] >= 1 /\ fires[id] + left[id] = asked[id] + 1
          BY <2>1, <2>4, <2>6, <3>3 DEF CountedTicker
        <4>2. Remaining = left[id] - 1  BY <2>6, <3>1, <3>3, <4>1 DEF Remaining
        <4>3. fires[id] < asked[id] => Remaining # 0  BY <3>1, <4>1, <4>2
        <4> QED  BY <2>1, <2>2, <2>3, <2>4, <2>6, <3>3, <4>3
                 DEF GoesOn, Unfinished, Pending
      <3>4. CASE asked[id] > 0 /\ period[id] = 0
        BY <2>1, <2>3, <3>1, <3>4 DEF GoesOn
      <3> QED  BY <3>1, <3>2, <3>3, <3>4
    <2> QED  BY <2>5, <2>6
  <1>7. CASE PrepareForReload
    BY <1>7 DEF PrepareForReload
  <1>8. CASE Advance \/ UNCHANGED vars
    BY <1>8 DEF Advance, vars, GoesOn, Unfinished, Pending, Running, entryVars,
                tickVars, ghosts
  <1> QED
    BY <1>1, <1>2, <1>3, <1>4, <1>5, <1>6, <1>7, <1>8 DEF Next

LEMMA InductiveInvariant == Spec => []IInv
  <1>1. Init => IInv
    BY TypeInit, TimerAssumption
       DEF IInv, Init, OnlyStarted, RunningIsPopped, CancelledHoldsNoCallback,
           NoLeakedCallback, Unstarted, Zero
  <1>2. IInv /\ [Next]_vars => IInv'
    BY TypeStep, RestStep, GoesOnStep DEF IInv, Rest
  <1> QED  BY <1>1, <1>2, PTL DEF Spec

\* The variables keep their types.
THEOREM TypeCorrect == Spec => []TypeOK
  BY InductiveInvariant, PTL DEF IInv

\* A cancelled timer never holds a callback again, so it never fires.
THEOREM CancelIsFinal == Spec => []CancelledHoldsNoCallback
  BY InductiveInvariant, PTL DEF IInv

\* Every callback in the registry has a heap entry that will release it, or
\* is running.
THEOREM NoLeak == Spec => []NoLeakedCallback
  BY InductiveInvariant, PTL DEF IInv

\* A timer never fires more often than its iterations allow, and is not given
\* up before; a ticker of 0 seconds only has the first run for certain.
THEOREM IterationLimit == Spec => []IterationsKept
  <1>1. IInv => IterationsKept
    <2> SUFFICES ASSUME IInv, NEW id \in Started
                 PROVE  /\ asked[id] > 0 => fires[id] <= asked[id]
                        /\ Unfinished(id) /\ (period[id] > 0 \/ fires[id] = 0)
                             => id \in refs /\ Pending(id)
      BY DEF IterationsKept
    <2>1. /\ id \in Ids /\ fires[id] \in Nat /\ asked[id] \in Nat
          /\ period[id] \in Nat
      BY StartedAreIds DEF IInv, TypeOK
    <2>2. CountedTicker(id) /\ FiredOnce(id) /\ GoesOn(id)  BY DEF IInv
    <2> QED  BY <2>1, <2>2 DEF CountedTicker, FiredOnce, GoesOn
  <1> QED  BY <1>1, InductiveInvariant, PTL

-----------------------------------------------------------------------------
(* Nothing fires before its time, the tick count's start-over included.    *)

\* The uptime at which the present tick count began.
Turn == uptime - NowSec

\* Whenever the tick count reaches the entry's fireAt, its time has come.
OnTime(id) == due[id] <= fireAt[id] + Turn

FrameInv ==
    /\ uptime <= MaxClock
    /\ \A id \in heap : OnTime(id)
    /\ pc = "callback" => OnTime(running) /\ fireAt[running] <= now
    /\ now <= uptime
    /\ ranThisFrame \subseteq Started
    /\ pc = "lua" => ranThisFrame = {}
    /\ \A id \in ranThisFrame : id \in heap => fireAt[id] > now

LEMMA Divided ==
  ASSUME NEW u \in Nat, NEW w \in Nat \ {0}
  PROVE  u \div w \in Int /\ u % w \in 0..w - 1 /\ u = ((u \div w) * w) + (u % w)
  OBVIOUS

LEMMA Products ==
  ASSUME NEW w \in Nat \ {0}, NEW q \in Int, NEW r \in Int, q < r
  PROVE  (q * w) + w <= r * w
  <1>1. r - q - 1 \in Nat
    OBVIOUS
  <1>2. \A n \in Nat : n * w \in Nat
    OBVIOUS
  <1>3. (r - q - 1) * w >= 0
    BY <1>1, <1>2
  <1>4. (r - q - 1) * w = r * w - q * w - w
    OBVIOUS
  <1> QED BY <1>3, <1>4

\* The tick count starts over at most once in a step of the clock.
LEMMA TurnGrows ==
  ASSUME NEW u \in Nat, NEW w \in Nat \ {0}
  PROVE  (u + 1) % w <= (u % w) + 1
  <1> DEFINE q == u \div w
             r == u % w
             q2 == (u + 1) \div w
             r2 == (u + 1) % w
  <1>1. /\ q \in Int /\ r \in 0..w - 1 /\ u = q * w + r
        /\ q2 \in Int /\ r2 \in 0..w - 1 /\ u + 1 = q2 * w + r2
    BY Divided
  <1> HIDE DEF q, r, q2, r2
  <1> SUFFICES ASSUME r2 > r + 1 PROVE FALSE
    BY <1>1 DEF r, r2
  <1>2. q <= q2 => q * w <= q2 * w
    <2>1. q < q2 => q * w + w <= q2 * w
      BY <1>1, Products
    <2> QED BY <1>1, <2>1
  <1>3. q2 < q
    BY <1>1, <1>2
  <1>4. q2 * w + w <= q * w
    BY <1>1, <1>3, Products
  <1> QED BY <1>1, <1>4

LEMMA TurnType ==
  ASSUME TypeOK
  PROVE  NowSec \in Nat /\ NowSec <= uptime /\ Turn \in Nat
  <1>1. uptime \in Nat /\ Wrap \in Nat \ {0}
    BY TimerAssumption DEF TypeOK
  <1>2. /\ uptime \div Wrap \in Int /\ NowSec \in 0..Wrap - 1
        /\ uptime = (uptime \div Wrap) * Wrap + NowSec
    BY <1>1, Divided DEF NowSec
  <1>3. uptime \div Wrap >= 0
    <2>1. uptime \div Wrap < 0 => (uptime \div Wrap) * Wrap + Wrap <= 0 * Wrap
      BY <1>1, <1>2, Products
    <2> QED BY <1>1, <1>2, <2>1
  <1>4. (uptime \div Wrap) * Wrap >= 0
    BY <1>1, <1>2, <1>3
  <1> QED BY <1>1, <1>2, <1>4 DEF Turn

LEMMA TurnMoves == TypeOK /\ [Next]_vars => Turn <= Turn' /\ Turn \in Nat /\ Turn' \in Nat
  <1> SUFFICES ASSUME TypeOK, [Next]_vars PROVE Turn <= Turn' /\ Turn \in Nat /\ Turn' \in Nat
    OBVIOUS
  <1>1. Turn \in Nat /\ NowSec \in Nat /\ uptime \in Nat
    BY TurnType DEF TypeOK
  <1>2. CASE Advance
    <2>1. uptime' = uptime + 1
      BY <1>2 DEF Advance
    <2>2. NowSec' \in Nat /\ NowSec' <= NowSec + 1
      <3>1. Wrap \in Nat \ {0}
        BY TimerAssumption
      <3>2. (uptime + 1) % Wrap \in 0..Wrap - 1 /\ (uptime + 1) % Wrap <= (uptime % Wrap) + 1
        <4>1. uptime + 1 \in Nat
          BY <1>1
        <4>2. (uptime + 1) % Wrap \in 0..Wrap - 1
          BY <3>1, <4>1, Divided
        <4>3. (uptime + 1) % Wrap <= (uptime % Wrap) + 1
          BY <1>1, <3>1, TurnGrows
        <4> QED BY <4>2, <4>3
      <3> QED BY <2>1, <3>1, <3>2 DEF NowSec
    <2>3. Turn' = (uptime + 1) - NowSec' /\ Turn = uptime - NowSec
      BY <2>1 DEF Turn
    <2>4. \A n \in Nat : n <= NowSec + 1 =>
            (uptime + 1) - n \in Nat /\ uptime - NowSec <= (uptime + 1) - n
      <3>1. uptime - NowSec \in Nat
        BY <1>1, <2>3
      <3> HIDE DEF NowSec
      <3> QED BY <1>1, <3>1
    <2>5. (uptime + 1) - NowSec' \in Nat /\ uptime - NowSec <= (uptime + 1) - NowSec'
      BY <2>2, <2>4
    <2> QED BY <1>1, <2>3, <2>5
  <1>3. CASE ~Advance
    <2>1. uptime' = uptime
      BY <1>3 DEF Next, NewTimer, NewTicker, Start, Cancel, Pop, TickStarts, CallbackReturns,
                  Reschedule, TickEnds, PrepareForReload, vars
    <2> QED BY <1>1, <2>1 DEF Turn, NowSec
  <1> QED BY <1>2, <1>3

\* A timer started now is due when the count reaches its fireAt.
LEMMA StartInTime ==
  ASSUME IInv, FrameInv, NEW s \in Nat, NEW e \in Nat, NEW n \in Nat, Start(s, e, n)
  PROVE  FrameInv'
  <1>1. /\ nextRef \in Ids /\ nextRef' = nextRef + 1
        /\ heap' = heap \cup {nextRef}
        /\ fireAt' = [fireAt EXCEPT ![nextRef] = NowSec + s]
        /\ due' = [due EXCEPT ![nextRef] = uptime + s]
        /\ UNCHANGED <<uptime, pc, now, running, ranThisFrame>>
    BY DEF Start, Push, TypeOK, IInv, tickVars
  <1>2. Turn' = Turn /\ Turn \in Nat /\ NowSec \in Nat /\ uptime = NowSec + Turn
    BY <1>1, TurnType, SMTT(60) DEF Turn, NowSec, IInv, TypeOK
  <1>3. ASSUME NEW id \in heap' PROVE OnTime(id)'
    <2>1. CASE id = nextRef
      <3>1. due'[id] = uptime + s /\ fireAt'[id] = NowSec + s
        BY <1>1, <2>1 DEF IInv, TypeOK
      <3> QED BY <1>2, <3>1 DEF OnTime
    <2>2. CASE id # nextRef
      <3>1. id \in heap /\ due'[id] = due[id] /\ fireAt'[id] = fireAt[id]
        BY <1>1, <2>2 DEF IInv, TypeOK
      <3> QED BY <1>2, <3>1 DEF OnTime, FrameInv
    <2> QED BY <2>1, <2>2
  <1>4. pc' = "callback" => OnTime(running)' /\ fireAt'[running'] <= now'
    <2> SUFFICES ASSUME pc = "callback" PROVE OnTime(running)' /\ fireAt'[running'] <= now'
      BY <1>1
    <2>1. running # nextRef
      BY DEF IInv, RunningIsPopped, TypeOK
    <2>2. due'[running] = due[running] /\ fireAt'[running] = fireAt[running]
      BY <1>1, <2>1 DEF IInv, TypeOK
    <2> QED BY <1>1, <1>2, <2>2 DEF OnTime, FrameInv
  <1>5. ranThisFrame' \subseteq Started'
    BY <1>1 DEF FrameInv, IInv, TypeOK
  <1>6. ASSUME NEW id \in ranThisFrame', id \in heap' PROVE fireAt'[id] > now'
    <2>1. id # nextRef
      BY <1>1, <1>6 DEF FrameInv, IInv, TypeOK
    <2> QED BY <1>1, <1>6, <2>1 DEF FrameInv, IInv, TypeOK
  <1> QED BY <1>1, <1>3, <1>4, <1>5, <1>6 DEF FrameInv

\* A ticker pushed again is ahead of the tick's time, and no earlier than its own.
LEMMA RescheduledInTime ==
  ASSUME IInv, FrameInv, CallbackReturns
  PROVE  FrameInv'
  <1> DEFINE id == running
             again == period[id] > 0 /\ Remaining # 0
  <1>1. /\ pc = "callback" /\ pc' = "tick" /\ id \in Ids /\ id \in Started /\ id \notin heap
        /\ UNCHANGED <<uptime, now, nextRef, ranThisFrame>>
        /\ Turn' = Turn /\ Turn \in Nat /\ now \in Nat
    BY TurnType, SMTT(30)
       DEF CallbackReturns, Reschedule, IInv, RunningIsPopped, TypeOK, Turn, NowSec
  <1>2. OnTime(id) /\ fireAt[id] <= now
    BY <1>1 DEF FrameInv
  <1>3. ranThisFrame' \subseteq Started' /\ uptime' <= MaxClock
    BY <1>1 DEF FrameInv
  <1>4. CASE again
    <2>1. /\ heap' = heap \cup {id} /\ fireAt' = [fireAt EXCEPT ![id] = now + period[id]]
          /\ due' = [due EXCEPT ![id] = due[id] + period[id]]
      BY <1>4 DEF CallbackReturns, Reschedule, Push
    <2>2. /\ fireAt'[id] = now + period[id] /\ due'[id] = due[id] + period[id]
          /\ period[id] \in Nat /\ period[id] > 0 /\ due[id] \in Nat /\ fireAt[id] \in Nat
      BY <1>1, <1>4, <2>1 DEF IInv, TypeOK
    <2>3. \A j \in heap : j # id /\ due'[j] = due[j] /\ fireAt'[j] = fireAt[j]
      BY <1>1, <2>1 DEF IInv, TypeOK
    <2>4. due'[id] <= fireAt'[id] + Turn' /\ fireAt'[id] > now'
      BY <1>1, <1>2, <2>2 DEF OnTime
    <2>5. ASSUME NEW j \in heap' PROVE OnTime(j)'
      BY <1>1, <2>1, <2>3, <2>4, <2>5 DEF OnTime, FrameInv
    <2>6. ASSUME NEW j \in ranThisFrame', j \in heap' PROVE fireAt'[j] > now'
      BY <1>1, <2>1, <2>3, <2>4, <2>6 DEF FrameInv
    <2> QED BY <1>1, <1>3, <2>5, <2>6 DEF FrameInv
  <1>5. CASE ~again
    <2>1. UNCHANGED <<heap, fireAt, due>>
      BY <1>5 DEF CallbackReturns, Reschedule
    <2> QED BY <1>1, <1>3, <2>1 DEF FrameInv, OnTime
  <1> QED BY <1>4, <1>5

LEMMA FrameStep == IInv /\ FrameInv /\ [Next]_vars => FrameInv'
  <1> SUFFICES ASSUME IInv, FrameInv, [Next]_vars PROVE FrameInv'  OBVIOUS
  <1>t. Turn \in Nat /\ TypeOK
    BY TurnType DEF IInv
  <1>1. ASSUME NEW s \in Delays, NewTimer(s) PROVE FrameInv'
    BY <1>1, StartInTime, TimerAssumption DEF NewTimer
  <1>2. ASSUME NEW s \in Delays, NEW n \in Iterations, NewTicker(s, n) PROVE FrameInv'
    <2>1. s \in Nat /\ n \in Nat  BY TimerAssumption
    <2> QED  BY <1>2, <2>1, StartInTime DEF NewTicker
  <1>3. ASSUME NEW id \in Ids, Cancel(id) PROVE FrameInv'
    BY <1>3 DEF Cancel, FrameInv, OnTime, Turn, NowSec, entryVars, tickVars, ghosts
  <1>4. ASSUME NEW id \in Ids, Pop(id) PROVE FrameInv'
    <2>1. /\ pc = "tick" /\ id \in heap /\ id \in Started /\ fireAt[id] <= now
          /\ heap' = heap \ {id}
          /\ UNCHANGED <<uptime, fireAt, due, now, nextRef>>
      BY <1>4 DEF Pop, Top, Due, IInv, OnlyStarted
    <2>2. Turn' = Turn
      BY <2>1 DEF Turn, NowSec
    <2>3. CASE id \in refs
      <3>1. pc' = "callback" /\ running' = id /\ ranThisFrame' = ranThisFrame \cup {id}
        BY <1>4, <2>3 DEF Pop
      <3> QED BY <2>1, <2>2, <3>1 DEF FrameInv, OnTime
    <2>4. CASE id \notin refs
      <3>1. UNCHANGED <<pc, running, ranThisFrame>>
        BY <1>4, <2>4 DEF Pop
      <3> QED BY <2>1, <2>2, <3>1 DEF FrameInv, OnTime
    <2> QED BY <2>3, <2>4
  <1>5. CASE TickStarts
    <2>1. pc = "lua" /\ ranThisFrame = {} /\ ranThisFrame' = {} /\ pc' # "callback"
          /\ UNCHANGED <<uptime, heap, fireAt, due, nextRef>>
          /\ now' <= uptime
      BY <1>5, <1>t, TurnType DEF TickStarts, FrameInv, NewFrame, entryVars, tickVars
    <2> QED BY <2>1 DEF FrameInv, OnTime, Turn, NowSec
  <1>6. CASE TickEnds
    <2>1. pc' = "lua" /\ ranThisFrame' = {}
          /\ UNCHANGED <<uptime, heap, fireAt, due, nextRef>> /\ now' <= uptime'
      BY <1>6, <1>t DEF TypeOK, TickEnds, NewFrame, entryVars
    <2> QED BY <2>1 DEF FrameInv, OnTime, Turn, NowSec
  <1>7. CASE CallbackReturns
    BY <1>7, RescheduledInTime
  <1>8. CASE PrepareForReload
    <2>1. heap' = {} /\ pc' = "lua" /\ ranThisFrame' = {} /\ UNCHANGED <<uptime, now>>
      BY <1>8 DEF PrepareForReload, tickVars
    <2> QED BY <2>1 DEF FrameInv
  <1>9. CASE Advance
    <2>1. /\ uptime < MaxClock /\ uptime' = uptime + 1 /\ uptime \in Nat /\ MaxClock \in Nat
          /\ UNCHANGED <<heap, fireAt, due, pc, now, running, nextRef, ranThisFrame>>
      BY <1>9, <1>t, TimerAssumption DEF Advance, TypeOK, entryVars, tickVars, ghosts
    <2>2. Turn <= Turn' /\ Turn' \in Nat
      BY <1>t, TurnMoves
    <2>3. ASSUME NEW id \in Ids, OnTime(id) PROVE OnTime(id)'
      <3>1. due[id] \in Nat /\ fireAt[id] \in Nat
        BY <1>t DEF TypeOK
      <3> QED BY <1>t, <2>1, <2>2, <2>3, <3>1 DEF OnTime
    <2>4. heap \subseteq Ids /\ (pc = "callback" => running \in Ids)
      BY <1>t DEF TypeOK, IInv, RunningIsPopped
    <2>5. /\ \A id \in heap' : OnTime(id)'
          /\ pc' = "callback" => OnTime(running)' /\ fireAt'[running'] <= now'
      <3>1. pc = "callback" => OnTime(running)'
        BY <2>1, <2>3, <2>4 DEF FrameInv, OnTime
      <3> QED BY <2>1, <2>3, <2>4, <3>1 DEF FrameInv
    <2>6. uptime' <= MaxClock /\ now' <= uptime'
      BY <1>t, <2>1 DEF FrameInv, TypeOK
    <2> QED BY <2>1, <2>5, <2>6 DEF FrameInv
  <1>10. CASE UNCHANGED vars
    BY <1>10 DEF vars, FrameInv, OnTime, Turn, NowSec, entryVars, tickVars, ghosts
  <1> QED
    BY <1>1, <1>2, <1>3, <1>4, <1>5, <1>6, <1>7, <1>8, <1>9, <1>10 DEF Next

LEMMA FrameInvariant == Spec => [](IInv /\ FrameInv)
  <1>1. Init => FrameInv
    BY TimerAssumption DEF Init, FrameInv
  <1>2. IInv /\ FrameInv /\ [Next]_vars => FrameInv'
    BY FrameStep
  <1> QED BY <1>1, <1>2, InductiveInvariant, PTL DEF Spec

\* What fires is due: over any number of wraps, but for the one that happens while a tick runs.
LEMMA FiringIsDue ==
  ASSUME IInv, FrameInv, [Next]_vars, NEW id \in Ids, fires'[id] > fires[id]
  PROVE  /\ now <= NowSec => uptime >= due[id]
         /\ id \notin ranThisFrame
  <1>1. ASSUME ~\E j \in Ids : Pop(j) PROVE FALSE
    <2>2. fires[id] \in Nat
      BY DEF IInv, TypeOK
    <2>1. CASE PrepareForReload
      BY <2>1, <2>2 DEF PrepareForReload, Zero
    <2>3. CASE ~PrepareForReload
      BY <1>1, <2>2, <2>3 DEF Next, NewTimer, NewTicker, Start, Cancel, TickStarts, CallbackReturns,
                  Reschedule, TickEnds, Advance, vars, ghosts
    <2> QED BY <2>1, <2>3
  <1>2. PICK j \in Ids : Pop(j)
    BY <1>1
  <1>3. /\ pc = "tick" /\ j \in heap /\ fireAt[j] <= now
        /\ fires' = fires \/ fires' = [fires EXCEPT ![j] = @ + 1]
    BY <1>2 DEF Pop, Top, Due
  <1>4. j = id
    <2>1. fires[id] \in Nat /\ fires \in [Ids -> Nat]
      BY DEF IInv, TypeOK
    <2>2. j # id => fires'[id] = fires[id]
      BY <1>3, <2>1
    <2> QED BY <2>1, <2>2
  <1>5. id \notin ranThisFrame
    <2>1. fireAt[id] \in Nat /\ now \in Nat
      BY DEF IInv, TypeOK
    <2> QED BY <1>3, <1>4, <2>1 DEF FrameInv
  <1>6. now <= NowSec => uptime >= due[id]
    <2>1. /\ fireAt[id] \in Nat /\ now \in Nat /\ due[id] \in Nat /\ uptime \in Nat
          /\ Turn \in Nat /\ NowSec \in Nat
      BY TurnType DEF IInv, TypeOK
    <2>2. due[id] <= fireAt[id] + Turn
      BY <1>3, <1>4 DEF FrameInv, OnTime
    <2>3. uptime = NowSec + Turn
      BY <2>1 DEF Turn
    <2> HIDE DEF NowSec, Turn
    <2> QED BY <1>3, <1>4, <2>1, <2>2, <2>3
  <1> QED BY <1>5, <1>6

\* A timer fires when it is due and once in a frame, over any number of wraps of the tick
\* count; only a wrap while a tick runs could have it fire too early.
THEOREM FiresOnTimeOverWraps ==
  Spec => [][\A id \in Ids : fires'[id] > fires[id] =>
                /\ now <= NowSec => uptime >= due[id]
                /\ id \notin ranThisFrame]_vars
  <1>1. IInv /\ FrameInv /\ [Next]_vars =>
          [\A id \in Ids : fires'[id] > fires[id] =>
                /\ now <= NowSec => uptime >= due[id]
                /\ id \notin ranThisFrame]_vars
    BY FiringIsDue
  <1> QED BY <1>1, FrameInvariant, PTL DEF Spec

\* FiresOnTime: before the tick count first starts over, no timer fires before its time
\* and no ticker twice in a frame.
THEOREM NothingFiresEarly == MaxClock < Wrap => (Spec => FiresOnTime)
  <1> SUFFICES ASSUME MaxClock < Wrap PROVE Spec => FiresOnTime
    OBVIOUS
  <1>1. IInv /\ FrameInv => now <= NowSec
    <2> SUFFICES ASSUME IInv, FrameInv PROVE now <= NowSec
      OBVIOUS
    <2>1. /\ uptime \in Nat /\ Wrap \in Nat \ {0} /\ MaxClock \in Nat
          /\ uptime <= MaxClock /\ now <= uptime
      BY TimerAssumption DEF IInv, TypeOK, FrameInv
    <2>2. uptime \in 0..Wrap - 1
      BY <2>1
    <2>3. uptime % Wrap = uptime
      BY <2>1, <2>2
    <2> QED BY <2>1, <2>3 DEF NowSec
  <1>2. IInv /\ FrameInv /\ [Next]_vars =>
          [\A id \in Ids : fires'[id] > fires[id] =>
                /\ uptime >= due[id]
                /\ id \notin ranThisFrame]_vars
    BY <1>1, FiringIsDue
  <1> QED BY <1>2, FrameInvariant, PTL DEF Spec, FiresOnTime
=============================================================================

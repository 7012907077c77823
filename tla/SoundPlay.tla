------------------------------ MODULE SoundPlay ------------------------------
(***************************************************************************)
(* src/src/sound/Play.cpp: sounds played with runFinishCallback are kept   *)
(* in g_tracked, which OnFrame walks once per frame: what still plays is   *)
(* moved to the front, SOUNDKIT_FINISHED is fired for the rest, and the    *)
(* vector is cut to what was kept.  Event handlers run in the middle of    *)
(* the walk; the audio thread ends sounds at any time.                     *)
(***************************************************************************)
EXTENDS Naturals, Sequences, SequencesExt

CONSTANTS
    MaxSounds,      \* bound: sounds started
    HandlersPlay    \* event handlers ask for SOUNDKIT_FINISHED themselves

\* Assumed of the constants by the module that composes this one.
SoundAssumption ==
    /\ MaxSounds \in Nat
    /\ HandlersPlay \in BOOLEAN

Handles == 1..MaxSounds

VARIABLES
    playing,        \* the engine's live sounds
    nextSound,      \* the next sound id; ids are not used again
    tracked,        \* g_tracked
    capacity,       \* how many ids its buffer holds
    walk,           \* OnFrame: its place, see below
    finished,       \* ghost: the sounds whose event was fired
    wanted          \* ghost: the sounds whose event is still owed

soundVars == <<playing, nextSound, tracked, capacity, walk, finished, wanted>>

\* at: outside OnFrame, between two ids, or inside a handler; i, n: the range
\* for's iterator and end; keep: the ids kept; stale: the buffer the iterators
\* point into is gone.
Idle == [at |-> "idle", i |-> 0, n |-> 0, keep |-> 0, stale |-> FALSE]

SoundTypeOK ==
    /\ playing \subseteq Handles
    /\ nextSound \in 1..(MaxSounds + 1)
    /\ tracked \in Seq(IF HandlersPlay THEN 0..MaxSounds ELSE Handles)
    /\ capacity \in Nat
    /\ walk \in [at: {"idle", "walk", "handler"}, i: Nat, n: Nat, keep: Nat,
                 stale: BOOLEAN]
    /\ finished \subseteq 0..MaxSounds
    /\ wanted \subseteq Handles

Init ==
    /\ playing = {}
    /\ nextSound = 1
    /\ tracked = <<>> /\ capacity = 0
    /\ walk = Idle
    /\ finished = {} /\ wanted = {}

InHandler == walk.at = "handler"

\* vector growth: half as much again, at least one more.
Grown == IF capacity < 2 THEN capacity + 1 ELSE capacity + capacity \div 2

\* Mutant: a sound that did not start is tracked, under the id 0.
PlayTracksUnstarted(ask, starts) ==
    LET id == IF starts THEN nextSound ELSE 0
        tracks == ask
        full == Len(tracked) = capacity
    IN  /\ nextSound <= MaxSounds
        /\ InHandler => (ask => HandlersPlay)
        /\ IF starts
             THEN playing' = playing \cup {id} /\ nextSound' = id + 1
             ELSE UNCHANGED <<playing, nextSound>>
        /\ IF tracks
             THEN /\ tracked' = Append(tracked, id)
                  /\ capacity' = IF full THEN Grown ELSE capacity
                  /\ walk' = [walk EXCEPT !.stale = @ \/ (InHandler /\ full)]
                  /\ wanted' = wanted \cup {id}
             ELSE UNCHANGED <<tracked, capacity, walk, wanted>>
        /\ UNCHANGED finished

\* Play, for all three Lua functions.  ask is runFinishCallback; the engine
\* may not start the sound (no such kit, a second copy of one that plays).
Play(ask, starts) ==
    LET id == IF starts THEN nextSound ELSE 0
        tracks == starts /\ ask
        full == Len(tracked) = capacity
    IN  /\ nextSound <= MaxSounds
        /\ InHandler => (ask => HandlersPlay)
        /\ IF starts
             THEN playing' = playing \cup {id} /\ nextSound' = id + 1
             ELSE UNCHANGED <<playing, nextSound>>
        /\ IF tracks
             THEN /\ tracked' = Append(tracked, id)
                  /\ capacity' = IF full THEN Grown ELSE capacity
                  /\ walk' = [walk EXCEPT !.stale = @ \/ (InHandler /\ full)]
                  /\ wanted' = wanted \cup {id}
             ELSE UNCHANGED <<tracked, capacity, walk, wanted>>
        /\ UNCHANGED finished

\* The sound's last sample, or Lua stopping it: FMOD's thread, at any time.
SoundEnds(id) ==
    /\ id \in playing
    /\ playing' = playing \ {id}
    /\ UNCHANGED <<nextSound, tracked, capacity, walk, finished, wanted>>

OnFrame ==
    /\ walk.at = "idle"
    /\ walk' = IF tracked = <<>>
                 THEN walk
                 ELSE [Idle EXCEPT !.at = "walk", !.i = 1, !.n = Len(tracked)]
    /\ UNCHANGED <<playing, nextSound, tracked, capacity, finished, wanted>>

\* What the iterator reads: the id, or whatever a freed buffer holds.
Read(i) == IF walk.stale THEN 0..MaxSounds ELSE {tracked[i]}

IsPlaying(id) == id \in playing

\* Mutant: the id is kept and its event fired all the same.
VisitKeepsFinished ==
    /\ walk.at = "walk"
    /\ walk.i <= walk.n
    /\ \E id \in Read(walk.i) :
         /\ tracked' = [tracked EXCEPT ![walk.keep + 1] = id]
         /\ walk' = [walk EXCEPT !.i = @ + 1, !.keep = @ + 1,
                        !.at = IF IsPlaying(id) THEN "walk" ELSE "handler"]
         /\ finished' = IF IsPlaying(id) THEN finished ELSE finished \cup {id}
         /\ wanted' = IF IsPlaying(id) THEN wanted ELSE wanted \ {id}
    /\ UNCHANGED <<playing, nextSound, capacity>>

\* One round of the loop.
Visit ==
    /\ walk.at = "walk"
    /\ walk.i <= walk.n
    /\ \E id \in Read(walk.i) :
         IF IsPlaying(id)
           THEN /\ tracked' = [tracked EXCEPT ![walk.keep + 1] = id]
                /\ walk' = [walk EXCEPT !.i = @ + 1, !.keep = @ + 1]
                /\ UNCHANGED <<finished, wanted>>
           ELSE /\ walk' = [walk EXCEPT !.i = @ + 1, !.at = "handler"]
                /\ finished' = finished \cup {id}
                /\ wanted' = wanted \ {id}
                /\ UNCHANGED tracked
    /\ UNCHANGED <<playing, nextSound, capacity>>

HandlerReturns ==
    /\ walk.at = "handler"
    /\ walk' = [walk EXCEPT !.at = "walk"]
    /\ UNCHANGED <<playing, nextSound, tracked, capacity, finished, wanted>>

\* Mutant: the vector is cut one short.
ResizeOneShort ==
    /\ walk.at = "walk"
    /\ walk.i > walk.n
    /\ tracked' = SubSeq(tracked, 1, walk.keep - 1)
    /\ walk' = Idle
    /\ UNCHANGED <<playing, nextSound, capacity, finished, wanted>>

\* g_tracked.resize(keep): what handlers pushed behind the walk goes too.
Resize ==
    /\ walk.at = "walk"
    /\ walk.i > walk.n
    /\ tracked' = SubSeq(tracked, 1, walk.keep)
    /\ walk' = Idle
    /\ UNCHANGED <<playing, nextSound, capacity, finished, wanted>>

\* The UI that asked is gone; sounds play on.
PrepareForReload ==
    /\ walk.at = "idle"
    /\ tracked' = <<>>
    /\ wanted' = {}
    /\ UNCHANGED <<playing, nextSound, capacity, walk, finished>>

-----------------------------------------------------------------------------
(* Properties.                                                             *)

\* "SOUNDKIT_FINISHED: when a sound played with runFinishCallback set to true
\* ends" (README): between frames every sound whose event is owed is still
\* tracked, so its end will be noticed.
NoSoundForgotten ==
    walk.at = "idle" => wanted \subseteq ToSet(tracked)

\* SOUNDKIT_FINISHED is fired once for a sound, and only after it ended; a
\* sound that ends while OnFrame is past it waits for the next frame.
FinishedOnce ==
    [][ walk.at = "walk" /\ walk'.at = "handler" =>
          \E id \in wanted \ playing : wanted' = wanted \ {id} ]_soundVars
=============================================================================

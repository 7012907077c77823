------------------------------ MODULE SoundFiles ------------------------------
(***************************************************************************)
(* Muted sound files and the list of those that played lately              *)
(* (src/src/sound/Mute.cpp): one hook where every file sound opens, a ring *)
(* of slots found again by path, and a set of muted paths.                 *)
(***************************************************************************)
EXTENDS Integers, FiniteSets

CONSTANTS
    SoundFileNames,
    Spellings,      \* ways to write a path: case, slashes
    RecentSlots,    \* kRecentSlots, 64 in the code
    MaxOpens

SoundAssumption ==
    IsFiniteSet(SoundFileNames) /\ RecentSlots \in Nat \ {0} /\ MaxOpens \in Nat

VARIABLES
    recent,     \* g_recent
    seq,        \* g_seq
    muted,      \* g_muted, normalized
    opened,     \* ghost: when each file was opened last, 0 for never, and whether it was heard
    silenced    \* ghost: files whose last Mute or Unmute of this UI was a Mute

soundVars == <<recent, seq, muted, opened, silenced>>

SpelledPaths == SoundFileNames \X Spellings
Unused == [path |-> <<>>, seq |-> 0, muted |-> FALSE]

SoundInit ==
    /\ recent = [i \in 1..RecentSlots |-> Unused]
    /\ seq = 0 /\ muted = {}
    /\ opened = [f \in SoundFileNames |-> [seq |-> 0, plays |-> FALSE]] /\ silenced = {}

Normalize(path) == path[1]
SamePath(a, b) == Normalize(a) = Normalize(b)
IsMuted(path) == Normalize(path) \in muted

Oldest == CHOOSE i \in 1..RecentSlots : \A j \in 1..RecentSlots :
    recent[i].seq < recent[j].seq \/ (recent[i].seq = recent[j].seq /\ i <= j)

\* Mutant: a file that plays again takes a slot of its own.
RecordAnew(path, isMuted) ==
    /\ seq' = seq + 1
    /\ recent' = [recent EXCEPT ![Oldest] = [path |-> path, seq |-> seq + 1, muted |-> isMuted]]

\* Record: the path's own slot, or else the oldest.
Record(path, isMuted) ==
    LET own == {i \in 1..RecentSlots : recent[i].seq # 0 /\ SamePath(recent[i].path, path)} IN
    /\ seq' = seq + 1
    /\ recent' = IF own # {}
         THEN [i \in 1..RecentSlots |-> IF i \in own
                 THEN [path |-> recent[i].path, seq |-> seq + 1, muted |-> isMuted] ELSE recent[i]]
         ELSE [recent EXCEPT ![Oldest] = [path |-> path, seq |-> seq + 1, muted |-> isMuted]]

\* CreateWaveData_h: a muted path does not open.
CreateWaveData(path) ==
    /\ seq < MaxOpens
    /\ Record(path, IsMuted(path))
    /\ opened' = [opened EXCEPT ![path[1]] = [seq |-> seq + 1, plays |-> ~IsMuted(path)]]
    /\ UNCHANGED <<muted, silenced>>

MuteSoundFile(path) ==
    /\ muted' = muted \cup {Normalize(path)} /\ silenced' = silenced \cup {path[1]}
    /\ UNCHANGED <<recent, seq, opened>>

UnmuteSoundFile(path) ==
    /\ muted' = muted \ {Normalize(path)} /\ silenced' = silenced \ {path[1]}
    /\ UNCHANGED <<recent, seq, opened>>

UsedSlots == {i \in 1..RecentSlots : recent[i].seq # 0}

\* The slots are sorted by their numbers, which differ.
Newer(i) == {j \in UsedSlots : recent[j].seq > recent[i].seq}

GetRecentSoundFiles == [n \in 1..Cardinality(UsedSlots) |->
    LET r == recent[CHOOSE i \in UsedSlots : Cardinality(Newer(i)) = n - 1]
    IN  [file |-> r.path[1], muted |-> r.muted]]

\* PrepareForReload.
SoundReload ==
    /\ muted' = {} /\ silenced' = {}
    /\ UNCHANGED <<recent, seq, opened>>

SoundNext ==
    \/ \E p \in SpelledPaths : CreateWaveData(p) \/ MuteSoundFile(p) \/ UnmuteSoundFile(p)
    \/ SoundReload

SoundTypeOK ==
    /\ recent \in [1..RecentSlots ->
            [path : SpelledPaths \cup {<<>>}, seq : 0..MaxOpens, muted : BOOLEAN]]
    /\ seq \in 0..MaxOpens /\ muted \subseteq SoundFileNames
    /\ opened \in [SoundFileNames -> [seq : 0..MaxOpens, plays : BOOLEAN]]

\* GetRecentSoundFiles has the last files that were different, each once however it was
\* written, newest first, and says of each whether it was heard; a file that a caller can
\* find there and mutes is the one that is silent from then on.
RecentRight ==
    /\ LET files == {f \in SoundFileNames : opened[f].seq # 0}
       IN  DOMAIN GetRecentSoundFiles = 1..IF Cardinality(files) < RecentSlots
                                           THEN Cardinality(files) ELSE RecentSlots
    /\ \A n \in DOMAIN GetRecentSoundFiles : LET r == GetRecentSoundFiles[n] IN
        /\ Cardinality({f \in SoundFileNames : opened[f].seq > opened[r.file].seq}) = n - 1
        /\ r.muted = ~opened[r.file].plays
    /\ \A p \in SpelledPaths : IsMuted(p) <=> p[1] \in silenced

-----------------------------------------------------------------------------
(* What the steps keep, for the theorems (Answers).                         *)

\* The file a slot is of.
FileAt(i) == recent[i].path[1]

\* The slots hold the files opened last, each once.
RecentInv ==
    /\ SoundTypeOK
    /\ \A i \in UsedSlots :
        /\ recent[i].path \in SpelledPaths
        /\ opened[FileAt(i)].seq = recent[i].seq /\ recent[i].muted = ~opened[FileAt(i)].plays
    /\ \A i, j \in UsedSlots : FileAt(i) = FileAt(j) => i = j
    /\ \A f \in SoundFileNames : opened[f].seq <= seq
    /\ \A f, g \in SoundFileNames : opened[f].seq = opened[g].seq /\ opened[f].seq # 0 => f = g
    /\ \A f \in SoundFileNames : opened[f].seq # 0 =>
        \/ \E i \in UsedSlots : FileAt(i) = f
        \/ \A j \in 1..RecentSlots : recent[j].seq > opened[f].seq
    /\ silenced = muted

=============================================================================

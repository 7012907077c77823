---------------------------- MODULE QuestRemoved ----------------------------
(***************************************************************************)
(* src/src/quest/Removed.cpp: after each rebuild of the quest log,         *)
(* QuestLogRebuild_h fires QUEST_REMOVED for every quest of the snapshot   *)
(* that is not in the log any more, then takes the log as the snapshot.    *)
(* Handlers run in the middle of the loop; if one of them makes the engine *)
(* rebuild the log, the hook is on the stack more than once.               *)
(***************************************************************************)
EXTENDS Naturals, Sequences, SequencesExt

CONSTANTS
    Quests,
    MaxDepth        \* bound: rebuilds on the stack; 1: handlers never rebuild

\* Assumed of the constants by the module that composes this one.
QuestAssumption == MaxDepth \in Nat \ {0}

VARIABLES
    questLog,       \* the engine's log: what a rebuild puts in the entries
    snapshot,       \* g_snapshot, g_snapshotCount
    rebuilds,       \* the calls of QuestLogRebuild_h on the stack
    shownLog,       \* ghost: the entries after the last rebuild
    left, told      \* ghost: how often each quest left the entries, and how
                    \* often QUEST_REMOVED named it

questVars == <<questLog, snapshot, rebuilds, shownLog, left, told>>

\* The entries are in no particular order of the quests.
Orders(S) == SetToSeqs(S)

QuestTypeOK ==
    /\ questLog \in SUBSET Quests /\ shownLog \in SUBSET Quests
    /\ snapshot \in Seq(Quests)
    /\ rebuilds \in Seq([current: Seq(Quests), i: Nat, firing: BOOLEAN])
    /\ left \in [Quests -> Nat] /\ told \in [Quests -> Nat]

Init ==
    /\ questLog = {} /\ shownLog = {}
    /\ snapshot = <<>>
    /\ rebuilds = <<>>
    /\ left = [q \in Quests |-> 0] /\ told = [q \in Quests |-> 0]

Depth == Len(rebuilds)
Current == rebuilds[Depth]
QuestActive == rebuilds # <<>>
Firing == QuestActive /\ Current.firing

\* The server's update of the player's quests, or another character's login;
\* the next rebuild shows it.
QuestLogChanges(log) ==
    /\ questLog' = log
    /\ UNCHANGED <<snapshot, rebuilds, shownLog, left, told>>

\* The engine's rebuild, and ReadLogQuests into the hook's own array.
Rebuild ==
    /\ Depth < MaxDepth
    /\ QuestActive => Firing
    /\ \E current \in Orders(questLog) :
         rebuilds' = Append(rebuilds, [current |-> current, i |-> 1, firing |-> FALSE])
    /\ left' = [q \in Quests |->
                  IF q \in shownLog \ questLog THEN left[q] + 1 ELSE left[q]]
    /\ shownLog' = questLog
    /\ UNCHANGED <<questLog, snapshot, told>>

\* Mutant: Contains reads the current snapshot's count, not the log's.
ComparesWithSnapshot ==
    /\ QuestActive /\ ~Firing
    /\ Current.i <= Len(snapshot)
    /\ LET q == snapshot[Current.i]
           gone == q \notin ToSet(SubSeq(Current.current, 1, Len(snapshot) - 1))
       IN  /\ rebuilds' = [rebuilds EXCEPT ![Depth].i = @ + 1, ![Depth].firing = gone]
           /\ told' = IF gone THEN [told EXCEPT ![q] = @ + 1] ELSE told
    /\ UNCHANGED <<questLog, snapshot, shownLog, left>>

\* One round of the loop over the snapshot, which is read where it is.
Compare ==
    /\ QuestActive /\ ~Firing
    /\ Current.i <= Len(snapshot)
    /\ LET q == snapshot[Current.i]
           gone == ~Contains(Current.current, q)
       IN  /\ rebuilds' = [rebuilds EXCEPT ![Depth].i = @ + 1, ![Depth].firing = gone]
           /\ told' = IF gone THEN [told EXCEPT ![q] = @ + 1] ELSE told
    /\ UNCHANGED <<questLog, snapshot, shownLog, left>>

HandlerReturns ==
    /\ Firing
    /\ rebuilds' = [rebuilds EXCEPT ![Depth].firing = FALSE]
    /\ UNCHANGED <<questLog, snapshot, shownLog, left, told>>

\* Mutant: the count is not taken over when the log shrinks.
SnapshotKeepsTail ==
    /\ QuestActive /\ ~Firing
    /\ Current.i > Len(snapshot)
    /\ snapshot' = Current.current
                   \o SubSeq(snapshot, Len(Current.current) + 1, Len(snapshot))
    /\ rebuilds' = Front(rebuilds)
    /\ UNCHANGED <<questLog, shownLog, left, told>>

\* The loop is over: the log read at the beginning becomes the snapshot.
TakeSnapshot ==
    /\ QuestActive /\ ~Firing
    /\ Current.i > Len(snapshot)
    /\ snapshot' = Current.current
    /\ rebuilds' = Front(rebuilds)
    /\ UNCHANGED <<questLog, shownLog, left, told>>

-----------------------------------------------------------------------------
(* Properties.                                                             *)

\* "QUEST_REMOVED: when a quest leaves the quest log for any reason" (README):
\* once the hook is done, each quest was named once for each time it left.
ToldOfEachRemoval == ~QuestActive => told = left

\* QUEST_REMOVED names a quest that the log does not show.
RemovedIsGone ==
    [][ \A q \in Quests : told'[q] > told[q] => q \notin shownLog ]_questVars
=============================================================================

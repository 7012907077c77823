-------------------------------- MODULE Gossip --------------------------------
(***************************************************************************)
(* C_GossipInfo (src/src/gossip/Info.cpp): options and quests of the NPC   *)
(* the player stands at.  The engine keeps two storages, of the gossip     *)
(* menu and of the quest greeting, and clears neither when it closes; the  *)
(* GUIDs beside them say which, if any, is live.                           *)
(***************************************************************************)
EXTENDS Integers, Sequences, FiniteSets, Functions

CONSTANTS
    Npcs,
    Menus,      \* what SMSG_GOSSIP_MESSAGE fills in: [options, quests]
    Greetings,  \* what SMSG_QUESTGIVER_QUEST_LIST fills in: [active, available]
    GREETING_QUESTS_MAX

NoNpc == "nil"
Statuses == 1..4    \* 3 and 4 are the player's, 4 complete

GossipAssumption ==
    /\ NoNpc \notin Npcs /\ GREETING_QUESTS_MAX \in Nat
    /\ \A m \in Menus :
        /\ m.options \in Seq(Int) /\ m.quests \in Seq([id : Nat, status : Statuses])
    /\ \A g \in Greetings :
        {g.active, g.available} \subseteq Seq([id : Nat, complete : BOOLEAN])

VARIABLES
    gossipNpc,  \* VAR_GOSSIP_NPC_GUID
    menu,       \* VAR_GOSSIP_OPTIONS (-1 for an empty slot) and VAR_GOSSIP_QUESTS
    questgiver, \* VAR_QUESTGIVER_GUID
    greetingNpc,\* VAR_GREETING_NPC_GUID
    greeting,   \* VAR_GREETING_ACTIVE_ENTRIES and VAR_GREETING_AVAILABLE_ENTRIES
    from        \* ghost: whose the two storages are

gossipVars == <<gossipNpc, menu, questgiver, greetingNpc, greeting, from>>

Take(s, n) == [i \in 1..(IF Len(s) > n THEN n ELSE Len(s)) |-> s[i]]

\* A set of slots in the order the loops meet them.
Ascending(S) ==
    [i \in 1..Cardinality(S) |-> CHOOSE x \in S : Cardinality({y \in S : y < x}) = i - 1]

-----------------------------------------------------------------------------
(* The readers.                                                            *)

GossipSessionActive == gossipNpc # NoNpc

\* Mutant: whoever the greeting's entries are of.
AnyGreeting == questgiver # NoNpc

\* A quest clicked in a menu opens a questgiver's panel and leaves the greeting alone.
GreetingSessionActive == questgiver # NoNpc /\ questgiver = greetingNpc

Session == IF GossipSessionActive THEN "gossip"
           ELSE IF GreetingSessionActive THEN "greeting" ELSE "none"

GetText == CASE Session = "gossip" -> {from.menu} [] Session = "greeting" -> {from.greeting}
             [] OTHER -> {}

\* The slots that hold an option, in order.
OptionSlots == IF ~GossipSessionActive THEN <<>>
               ELSE Ascending({s \in DOMAIN menu.options : menu.options[s] >= 0})

GetOptions == [i \in DOMAIN OptionSlots |->
                [gossipOptionID |-> menu.options[OptionSlots[i]], orderIndex |-> i]]

GetNumOptions == IF GossipSessionActive
                   THEN Cardinality({s \in DOMAIN menu.options : menu.options[s] >= 0}) ELSE 0

IsActiveQuest(status) == status \in {3, 4}

\* The menu's quests of one kind, by their places in it.
QuestSlots(active) ==
    Ascending({i \in DOMAIN menu.quests : IsActiveQuest(menu.quests[i].status) = active})

Side(active) == IF active THEN greeting.active ELSE greeting.available

Quests(active) ==
    CASE Session = "gossip" ->
            LET wanted == [i \in DOMAIN QuestSlots(active) |-> menu.quests[QuestSlots(active)[i]]]
            IN  [i \in DOMAIN wanted |->
                    [questID |-> wanted[i].id, isComplete |-> active /\ wanted[i].status = 4]]
      [] Session = "greeting" ->
            LET wanted == Take(Side(active), GREETING_QUESTS_MAX)
            IN  [i \in DOMAIN wanted |->
                    [questID |-> wanted[i].id, isComplete |-> active /\ wanted[i].complete]]
      [] OTHER -> <<>>

GetNumQuests(active) ==
    CASE Session = "gossip" ->
            Cardinality({i \in DOMAIN menu.quests : IsActiveQuest(menu.quests[i].status) = active})
      [] Session = "greeting" -> Len(Take(Side(active), GREETING_QUESTS_MAX))
      [] OTHER -> 0

-----------------------------------------------------------------------------
(* The selectors: the packet each makes the engine send, none for a miss.  *)

\* The engine takes a slot; its own walk skips nothing.
FUN_GOSSIP_SELECT_OPTION(slot) == [npc |-> gossipNpc, option |-> menu.options[slot]]

First(places) == {i \in places : \A j \in places : i <= j}

SelectOption(id) ==
    {FUN_GOSSIP_SELECT_OPTION(s) : s \in First({OptionSlots[i] : i \in
        {j \in DOMAIN OptionSlots : menu.options[OptionSlots[j]] = id}})}

SelectOptionByIndex(n) ==
    {FUN_GOSSIP_SELECT_OPTION(OptionSlots[i]) : i \in {n} \cap DOMAIN OptionSlots}

\* The engine's helpers take the position in a filtered list, or in the greeting's array.
FUN_GOSSIP_SELECT_QUEST(active, idx) ==
    [npc |-> gossipNpc,
     quest |-> menu.quests[QuestSlots(active)[idx + 1]].id]
FUN_GREETING_SELECT_QUEST(active, idx) == [npc |-> questgiver, quest |-> Side(active)[idx + 1].id]

SelectQuestByID(id, active) ==
    {IF GossipSessionActive THEN FUN_GOSSIP_SELECT_QUEST(active, i - 1)
     ELSE FUN_GREETING_SELECT_QUEST(active, i - 1) :
        i \in First({j \in DOMAIN Quests(active) : Quests(active)[j].questID = id})}

-----------------------------------------------------------------------------
(* The engine.                                                             *)

GossipInit ==
    /\ gossipNpc = NoNpc /\ questgiver = NoNpc /\ greetingNpc = NoNpc
    /\ menu = [options |-> <<>>, quests |-> <<>>]
    /\ greeting = [active |-> <<>>, available |-> <<>>]
    /\ from = [menu |-> NoNpc, greeting |-> NoNpc]

GossipMessage(npc, m) ==
    /\ gossipNpc' = npc /\ menu' = m
    /\ from' = [from EXCEPT !.menu = npc]
    /\ UNCHANGED <<questgiver, greetingNpc, greeting>>

QuestgiverQuestList(npc, g) ==
    /\ questgiver' = npc /\ greetingNpc' = npc /\ greeting' = g
    /\ from' = [from EXCEPT !.greeting = npc]
    /\ UNCHANGED <<gossipNpc, menu>>

\* A quest of a menu, or of an item or another player: a panel without a greeting.
QuestPanelOpens(npc) ==
    /\ questgiver' = npc
    /\ UNCHANGED <<gossipNpc, menu, greetingNpc, greeting, from>>

CloseGossip ==
    /\ gossipNpc' = NoNpc
    /\ UNCHANGED <<menu, questgiver, greetingNpc, greeting, from>>

QuestPanelCloses ==
    /\ questgiver' = NoNpc
    /\ UNCHANGED <<gossipNpc, menu, greetingNpc, greeting, from>>

GossipNext ==
    \/ \E npc \in Npcs :
        \/ \E m \in Menus : GossipMessage(npc, m)
        \/ \E g \in Greetings : QuestgiverQuestList(npc, g)
        \/ QuestPanelOpens(npc)
    \/ CloseGossip \/ QuestPanelCloses

GossipTypeOK ==
    /\ {gossipNpc, questgiver, greetingNpc} \subseteq Npcs \cup {NoNpc}
    /\ menu \in Menus \cup {[options |-> <<>>, quests |-> <<>>]}
    /\ greeting \in Greetings \cup {[active |-> <<>>, available |-> <<>>]}
    /\ from \in [menu : Npcs \cup {NoNpc}, greeting : Npcs \cup {NoNpc}]

-----------------------------------------------------------------------------
(* Properties.                                                             *)

\* Nothing of an NPC the player has left is shown, or sent to the one he stands at: what is
\* listed and what is sent are the live session's.  The counts are the lists' lengths, the
\* n-th option listed is the one selected by n and by its ID, and each quest listed, active
\* or available, is the one its ID selects.
GossipAgrees ==
    LET here == IF gossipNpc # NoNpc THEN gossipNpc ELSE questgiver IN
    /\ GetText \subseteq {here} /\ (Session = "none" => GetText = {})
    /\ GetNumOptions = Len(GetOptions)
    /\ \A o \in Range(GetOptions) :
        /\ SelectOptionByIndex(o.orderIndex) = {[npc |-> here, option |-> o.gossipOptionID]}
        /\ SelectOption(o.gossipOptionID) = SelectOptionByIndex(o.orderIndex)
    /\ \A active \in BOOLEAN :
        /\ GetNumQuests(active) = Len(Quests(active))
        /\ \A q \in Range(Quests(active)) :
            /\ SelectQuestByID(q.questID, active) = {[npc |-> here, quest |-> q.questID]}
            /\ q.isComplete => active

-----------------------------------------------------------------------------
(* What the steps keep, for the theorems (Queries).                         *)

\* A menu and a greeting are of who sent them.
GossipInv ==
    /\ GossipTypeOK
    /\ gossipNpc # NoNpc => from.menu = gossipNpc
    /\ from.greeting = greetingNpc

\* What the selector of a quest sends for the i-th of the list.
SentFor(active, i) ==
    IF GossipSessionActive THEN FUN_GOSSIP_SELECT_QUEST(active, i - 1)
    ELSE FUN_GREETING_SELECT_QUEST(active, i - 1)

\* Who the choices go to.
Here == IF gossipNpc # NoNpc THEN gossipNpc ELSE questgiver

=============================================================================

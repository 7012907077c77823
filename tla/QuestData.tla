------------------------------ MODULE QuestData ------------------------------
(***************************************************************************)
(* C_QuestLog.RequestLoadQuestByID (src/src/quest/Data.cpp) over the       *)
(* engine's quest cache: the sibling of ItemData, with explicit requests   *)
(* only and no prefetch, so an entered world leads from the lost queries   *)
(* straight to those that waited.  Items are quests here.                  *)
(***************************************************************************)
EXTENDS ItemData

\* Request.
Request(q) == Track(q, FALSE)

\* Mutant: the success argument is not looked at.
OnQuestLoadedAlways(q) == DeliverAlwaysSuccess(q)

\* OnQuestLoaded, under the cache's response handler.
OnQuestLoaded(q) == Deliver(q)

\* OnTick: is this the first frame in the world?
QuestTickStarts ==
    /\ Idle
    /\ wasInWorld' = inWorld
    /\ entered' = (inWorld /\ ~wasInWorld)
    /\ IF entered' THEN pc' = "resend" /\ todo' = sent ELSE UNCHANGED <<pc, todo>>
    /\ Silent
    /\ UNCHANGED <<cacheVars, worldVars, reqVars, prefetched, reloads>>

\* ... then everything that waited.
WaitingNext ==
    /\ InStage("resend") /\ todo = {}
    /\ pc' = "send" /\ todo' = OwedItems \ sent
    /\ Silent
    /\ UNCHANGED <<cacheVars, worldVars, reqVars, wasInWorld, prefetched, entered, reloads>>

\* Send, one quest of RequestIDs' snapshot; g_requests[questID] makes an entry anew.
Send(q) == SendWaiting(q)

\* The re-ask of one quest: a bare CMSG_QUEST_QUERY if it is still not loaded.
AskAgain(q) == ResendLost(q)

QuestNext ==
    \/ \E q \in Items : Request(q) \/ OnQuestLoaded(q) \/ AskAgain(q) \/ Send(q)
    \/ HandlerReturns
    \/ QuestTickStarts \/ WaitingNext \/ TickEnds
    \/ PrepareForReload
    \/ Network \/ Pump \/ EngineLookup \/ World

QuestSpec == Init /\ [][QuestNext]_vars

\* Every QUEST_DATA_LOAD_RESULT answers one request that is still owed one, says honestly
\* whether the quest is there, and is the only one, through loading screens that swallow
\* queries, handlers that ask again and reloads with answers under way; the queries that
\* are out can still be answered.
QuestPromiseKept == Promise!Spec
=============================================================================

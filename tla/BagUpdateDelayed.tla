-------------------------- MODULE BagUpdateDelayed --------------------------
(***************************************************************************)
(* src/src/bag/UpdateDelayed.cpp: two hooks set g_pending after every      *)
(* BAG_UPDATE; OnFrame turns it into one BAG_UPDATE_DELAYED, held while a  *)
(* loading screen is up.                                                   *)
(***************************************************************************)
EXTENDS Naturals

VARIABLES
    inWorld,        \* VAR_IN_WORLD
    pending,        \* g_pending
    bagHandler,     \* a BAG_UPDATE_DELAYED handler is running
    unseen          \* ghost: BAG_UPDATEs since the last BAG_UPDATE_DELAYED

bagVars == <<inWorld, pending, bagHandler, unseen>>

BagTypeOK ==
    /\ inWorld \in BOOLEAN /\ pending \in BOOLEAN /\ bagHandler \in BOOLEAN
    /\ unseen \in BOOLEAN

Init ==
    /\ inWorld = FALSE
    /\ pending = FALSE
    /\ bagHandler = FALSE
    /\ unseen = FALSE

\* Login, a loading screen coming up or going away.
ChangeWorld ==
    /\ inWorld' = ~inWorld
    /\ UNCHANGED <<pending, bagHandler, unseen>>

\* ItemToBag_h and BagSlotDiff_h: the engine's function fires BAG_UPDATE.
BagUpdate ==
    /\ pending' = TRUE
    /\ unseen' = TRUE
    /\ UNCHANGED <<inWorld, bagHandler>>

\* Mutant: a loading screen discards the flag.
LoadingDiscards ==
    /\ ~bagHandler
    /\ pending' = FALSE
    /\ bagHandler' = (pending /\ inWorld)
    /\ unseen' = (unseen /\ ~(pending /\ inWorld))
    /\ UNCHANGED inWorld

\* Mutant: loading screens are ignored.
LoadingIgnored ==
    /\ ~bagHandler
    /\ IF pending
         THEN pending' = FALSE /\ bagHandler' = TRUE /\ unseen' = FALSE
         ELSE UNCHANGED <<pending, bagHandler, unseen>>
    /\ UNCHANGED inWorld

OnFrame ==
    /\ ~bagHandler
    /\ IF pending /\ inWorld
         THEN pending' = FALSE /\ bagHandler' = TRUE /\ unseen' = FALSE
         ELSE UNCHANGED <<pending, bagHandler, unseen>>
    /\ UNCHANGED inWorld

\* The handler's Lua may equip or move items, which updates bags again.
HandlerReturns ==
    /\ bagHandler
    /\ bagHandler' = FALSE
    /\ UNCHANGED <<inWorld, pending, unseen>>

-----------------------------------------------------------------------------
(* Properties.                                                             *)

\* No update is lost: after a BAG_UPDATE that no BAG_UPDATE_DELAYED has
\* followed, the next frame in the world fires one, also when the update came
\* behind a loading screen or from a handler of the last one.
NoBagUpdateLost == unseen => pending

\* BAG_UPDATE_DELAYED is fired in the world only, and only after an update.
SettledBagsOnly ==
    [][ ~bagHandler /\ bagHandler' => inWorld /\ unseen ]_bagVars
=============================================================================

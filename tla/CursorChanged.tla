---------------------------- MODULE CursorChanged ----------------------------
(***************************************************************************)
(* src/src/cursor/Changed.cpp: once per frame the cursor's globals are     *)
(* compared with the last ones seen, and CURSOR_CHANGED is fired with the  *)
(* new and the old content.  The engine's setters write only the globals   *)
(* of the type they set, and an item the cursor held may be gone by the    *)
(* time the next event names it.                                           *)
(***************************************************************************)
EXTENDS Naturals

CONSTANTS
    Stacks,         \* GUIDs of item stacks
    Amounts,        \* copper
    ItemOf          \* the itemID of each stack

\* Assumed of the constants by the module that composes this one.
CursorAssumption == ItemOf \in [Stacks -> Nat \ {0}] /\ Amounts \subseteq Nat

VARIABLES
    cursorType,             \* VAR_CURSOR_TYPE
    itemGuid, money,        \* the other globals; a setter leaves them stale
    items,                  \* the item stacks that exist
    lastRaw, lastState,     \* g_lastRaw, g_lastState
    cursorHandler,          \* a CURSOR_CHANGED handler is running
    moved,                  \* ghost: set since the frame's look at the cursor
    event                   \* the last event fired: its contents, and (ghost)
                            \* what the cursor really held

cursorVars == <<cursorType, itemGuid, money, items, lastRaw, lastState,
                cursorHandler, moved, event>>

Types == {"none", "item", "money"}
Nothing == [type |-> "none", key |-> 0]

\* What the cursor holds.
Held ==
    IF cursorType = "item" THEN [type |-> "item", key |-> itemGuid]
    ELSE IF cursorType = "money" THEN [type |-> "money", key |-> money]
    ELSE Nothing

NoContent == [type |-> "none", virtualID |-> 0]

Raws == [type: Types, key: Stacks \cup Amounts \cup {0}]
Contents == [type: Types, virtualID: Nat]

CursorTypeOK ==
    /\ cursorType \in Types
    /\ itemGuid \in Stacks \cup {0} /\ money \in Amounts \cup {0}
    /\ items \subseteq Stacks
    /\ lastRaw \in Raws
    /\ lastState \in Contents
    /\ event \in [old: Contents, new: Contents, held: Raws]
    /\ cursorHandler \in BOOLEAN /\ moved \in BOOLEAN

Init ==
    /\ cursorType = "none" /\ itemGuid = 0 /\ money = 0
    /\ items = Stacks
    /\ lastRaw = Nothing /\ lastState = NoContent
    /\ event = [old |-> NoContent, new |-> NoContent, held |-> Nothing]
    /\ cursorHandler = FALSE /\ moved = FALSE

-----------------------------------------------------------------------------
(* The engine's setters, from Lua or the mouse.                            *)

Set(type) ==
    /\ cursorType' = type
    /\ moved' = TRUE
    /\ UNCHANGED <<lastRaw, lastState, cursorHandler, event>>

PickUpItem(guid) ==
    guid \in items /\ Set("item") /\ itemGuid' = guid /\ UNCHANGED <<money, items>>

PickUpMoney(amount) ==
    Set("money") /\ money' = amount /\ UNCHANGED <<itemGuid, items>>

ClearCursor ==
    cursorType # "none" /\ Set("none") /\ UNCHANGED <<itemGuid, money, items>>

\* The server takes the held stack away (sold, used up): the cursor clears.
ItemGone ==
    /\ cursorType = "item"
    /\ items' = items \ {itemGuid}
    /\ Set("none")
    /\ UNCHANGED <<itemGuid, money>>

-----------------------------------------------------------------------------
(* OnTick.                                                                 *)

\* Mutant: only the type is compared.
ReadTypeOnly == [type |-> cursorType, key |-> 0]

\* The type and the globals that identify what that type holds.
ReadRaw ==
    [type |-> cursorType,
     key |-> CASE cursorType = "item"  -> itemGuid
               [] cursorType = "money" -> money
               [] cursorType = "none"  -> 0]

Decode(raw) ==
    [type |-> raw.type,
     virtualID |-> CASE raw.type = "item"  -> IF raw.key \in items
                                                THEN ItemOf[raw.key] ELSE 0
                     [] raw.type = "money" -> raw.key
                     [] raw.type = "none"  -> 0]

\* Mutant: the old content is decoded when it is gone, from g_lastRaw.
PreviousDecodedLate == Decode(lastRaw)

\* The content the event names as old.
Previous == lastState

\* Mutant: g_lastState is left behind.
TickKeepsState ==
    /\ ~cursorHandler
    /\ IF ReadRaw = lastRaw
         THEN UNCHANGED <<lastRaw, lastState, cursorHandler, event>>
         ELSE /\ lastRaw' = ReadRaw
              /\ event' = [old |-> Previous, new |-> Decode(ReadRaw), held |-> Held]
              /\ cursorHandler' = TRUE
              /\ UNCHANGED lastState
    /\ moved' = FALSE
    /\ UNCHANGED <<cursorType, itemGuid, money, items>>

OnTick ==
    /\ ~cursorHandler
    /\ IF ReadRaw = lastRaw
         THEN UNCHANGED <<lastRaw, lastState, cursorHandler, event>>
         ELSE /\ lastRaw' = ReadRaw
              /\ lastState' = Decode(ReadRaw)
              /\ event' = [old |-> Previous, new |-> Decode(ReadRaw), held |-> Held]
              /\ cursorHandler' = TRUE
    /\ moved' = FALSE
    /\ UNCHANGED <<cursorType, itemGuid, money, items>>

HandlerReturns ==
    /\ cursorHandler
    /\ cursorHandler' = FALSE
    /\ UNCHANGED <<cursorType, itemGuid, money, items, lastRaw, lastState, moved, event>>

-----------------------------------------------------------------------------
(* Properties.                                                             *)

\* No change is missed: unless the cursor was set again since the frame looked
\* at it, listeners were told of what it holds now, also after a swap of two
\* stacks of one item, a handler that moves the cursor, or a reload.
CursorShown == ~moved => event.held = Held

\* Each event takes up where the one before it ended: the content it names as
\* old is the content the last event named as new, under the itemID it had
\* then, even when that item no longer exists.
CursorEventsChain ==
    [][event' # event => event'.old = event.new]_cursorVars
=============================================================================

------------------------------- MODULE Inventory -------------------------------
(***************************************************************************)
(* C_Container.SwapItems and MoveItem (src/src/item/Swap.cpp, container/)  *)
(* and the places items are named by (item/Location.cpp, GetLocation.cpp). *)
(* Equipment, bags, backpack, bank and keyring are ranges of one array of  *)
(* the player; a bag holds its own.  A call reads what the client shows    *)
(* and sends a request; the server answers later, if at all.               *)
(***************************************************************************)
EXTENDS Integers, Sequences, FiniteSets

CONSTANTS
    EquipmentSlots, \* linear slots 0..EquipmentSlots - 1
    BagSlot,        \* the linear slot of bag 1
    Ranges,         \* bagID 0, -1 and -2 |-> the first and last linear slot
    SlotCounts,     \* values of OFF_INVMGR_SLOT_COUNT: those of the server's build
    BagSizes,       \* number of slots of bag 1
    MaxStacks,      \* item kind |-> the size of a full stack
    StartingItems,  \* where the items stand at first
    Named,          \* the <<bagID, slot>> callers name, in and out of bounds
    MaxUnderWay     \* bound: requests and answers on their way

Nothing == [id |-> 0, kind |-> "none", count |-> 0]

\* What bag 1 is as an item.
BagItem == [id |-> 19, kind |-> "bag", count |-> 1]

IsStack(s) ==
    \/ s = Nothing
    \/ s = [id |-> s.id, kind |-> s.kind, count |-> s.count] /\ s.kind \in DOMAIN MaxStacks /\ s.count \in Nat

InventoryAssumption ==
    /\ BagSlot \in Nat /\ EquipmentSlots \in 0..BagSlot /\ SlotCounts \cup BagSizes \subseteq Nat
    /\ \A n \in SlotCounts : BagSlot < n
    /\ DOMAIN Ranges = {-2, -1, 0}
    /\ \A b \in DOMAIN Ranges :
        /\ {Ranges[b].first, Ranges[b].last} \subseteq Int
        /\ BagSlot < Ranges[b].first /\ Ranges[b].first <= Ranges[b].last
        /\ \A c \in DOMAIN Ranges \ {b} : Ranges[b].last < Ranges[c].first \/ Ranges[c].last < Ranges[b].first
    /\ "bag" \in DOMAIN MaxStacks /\ \A k \in DOMAIN MaxStacks : MaxStacks[k] \in Nat
    /\ \A p \in DOMAIN StartingItems : LET s == StartingItems[p] IN
        /\ IsStack(s) /\ s.id # BagItem.id
        /\ s.id # 0 => \A q \in DOMAIN StartingItems \ {p} : StartingItems[q].id # s.id
    /\ Named \subseteq Int \X Int
    /\ MaxUnderWay \in Nat

VARIABLES
    slotCount, bagSize, \* 0 without a bag
    held,       \* the server's: place |-> stack
    shown,      \* the client's copy
    requests,   \* sent and not processed
    updates,    \* the server's answers on their way
    moved       \* ghost: what the server did for a MoveItem made with nothing under way

invVars == <<slotCount, bagSize, held, shown, requests, updates, moved>>

\* A place is a container and a linear slot in it.
Player(l) == <<"player", l>>
Bag(l) == <<"bag", l>>
AllPlaces == {Player(l) : l \in 0..slotCount - 1} \cup {Bag(l) : l \in 0..bagSize - 1}

-----------------------------------------------------------------------------
(* Location.cpp.  An item is a set of none or one.                         *)

ItemAt(place) == IF place \in AllPlaces THEN {shown[place].id} \ {0} ELSE {}

ResolveEquipmentSlot(slot) ==
    IF slot \in 1..EquipmentSlots THEN ItemAt(Player(slot - 1)) ELSE {}

ResolveEquippedBag(bagID) == IF bagID = 1 THEN ItemAt(Player(BagSlot)) ELSE {}

GetBagNumSlots(bagID) ==
    IF bagID \in DOMAIN Ranges THEN Ranges[bagID].last - Ranges[bagID].first + 1
    ELSE IF ResolveEquippedBag(bagID) # {} THEN bagSize ELSE 0

ResolveBagSlot(bagID, slot) ==
    IF slot < 1 THEN {}
    ELSE IF bagID \in DOMAIN Ranges THEN
        LET linear == Ranges[bagID].first + slot - 1
        IN  IF linear > Ranges[bagID].last THEN {} ELSE ItemAt(Player(linear))
    ELSE IF ResolveEquippedBag(bagID) # {} THEN ItemAt(Bag(slot - 1)) ELSE {}

Resolve(loc) == IF "equipmentSlotIndex" \in DOMAIN loc
                  THEN ResolveEquipmentSlot(loc.equipmentSlotIndex)
                  ELSE ResolveBagSlot(loc.bagID, loc.slotIndex)

\* The equipment, then the backpack and the bags worn, not the bank nor the keyring.
GetItemLocation(id) ==
    LET worn == {s \in 1..EquipmentSlots : ResolveEquipmentSlot(s) = {id}}
        carried == UNION {{<<b, s>> : s \in {t \in 1..GetBagNumSlots(b) : ResolveBagSlot(b, t) = {id}}} :
                            b \in 0..1}
    IN  IF worn # {} THEN {[equipmentSlotIndex |-> s] : s \in worn}
        ELSE {[bagID |-> c[1], slotIndex |-> c[2]] : c \in carried}

-----------------------------------------------------------------------------
(* Swap.cpp.                                                               *)

\* Mutant: a slot is held against the array's end, not against its range's.
EncodeUnranged(bagID, slot) ==
    IF slot < 1 THEN {}
    ELSE IF bagID \in DOMAIN Ranges THEN
        LET linear == Ranges[bagID].first - 1 + slot
        IN  IF linear >= slotCount THEN {} ELSE {Player(linear)}
    ELSE IF ResolveEquippedBag(bagID) = {} \/ slot > GetBagNumSlots(bagID) THEN {}
    ELSE {Bag(slot - 1)}

\* The engine traps on a linear slot out of bounds.
Encode(bagID, slot) ==
    IF slot < 1 THEN {}
    ELSE IF bagID \in DOMAIN Ranges THEN
        LET linear == Ranges[bagID].first - 1 + slot
        IN  IF linear > Ranges[bagID].last \/ linear >= slotCount THEN {} ELSE {Player(linear)}
    ELSE IF ResolveEquippedBag(bagID) = {} \/ slot > GetBagNumSlots(bagID) THEN {}
    ELSE {Bag(slot - 1)}

Prepare(srcBag, srcSlot, dstBag, dstSlot) ==
    IF <<srcBag, srcSlot>> = <<dstBag, dstSlot>> THEN {}
    ELSE {[from |-> p[1], to |-> p[2], item |-> i] :
            p \in Encode(srcBag, srcSlot) \X Encode(dstBag, dstSlot),
            i \in ResolveBagSlot(srcBag, srcSlot)}

\* What a call of MoveItem sends: count 0 is a swap.
Containers(srcBag, srcSlot, dstBag, dstSlot) ==
    {[from |-> r.from, to |-> r.to, count |-> 0] : r \in Prepare(srcBag, srcSlot, dstBag, dstSlot)}

\* Mutant: a swap for the whole stack, and for any destination that is taken.
MoveOntoSwaps(srcBag, srcSlot, dstBag, dstSlot, count) ==
    IF count < 1 THEN {}
    ELSE {[from |-> r.from, to |-> r.to,
           count |-> IF count = shown[r.from].count \/ shown[r.to] # Nothing THEN 0 ELSE count] :
            r \in {q \in Prepare(srcBag, srcSlot, dstBag, dstSlot) : count <= shown[q.from].count}}

MoveCount(srcBag, srcSlot, dstBag, dstSlot, count) ==
    IF count < 1 THEN {}
    ELSE {[from |-> r.from, to |-> r.to,
           count |-> IF count = shown[r.from].count THEN 0 ELSE count] :
            r \in {q \in Prepare(srcBag, srcSlot, dstBag, dstSlot) : count <= shown[q.from].count}}

Quiet == requests = <<>> /\ updates = <<>>

\* The ghost "asked" is 0 for a swap, and for a call made with something under way.
Sends(built, asked) ==
    /\ built # {}
    /\ \E r \in built :
        requests' = Append(requests, [from |-> r.from, to |-> r.to, count |-> r.count,
                                      asked |-> IF Quiet THEN asked ELSE 0])
    /\ moved' = <<>>
    /\ UNCHANGED <<slotCount, bagSize, held, shown, updates>>

SwapItems(srcBag, srcSlot, dstBag, dstSlot) ==
    Sends(Containers(srcBag, srcSlot, dstBag, dstSlot), 0)

MoveItem(srcBag, srcSlot, dstBag, dstSlot, count) ==
    Sends(MoveCount(srcBag, srcSlot, dstBag, dstSlot, count), count)

-----------------------------------------------------------------------------
(* The server: a split goes to an empty place or a like stack with room,   *)
(* and may not empty its source; a swap merges like stacks.                *)

Room(kind, stack) == IF stack = Nothing THEN MaxStacks[kind]
                     ELSE IF stack.kind = kind THEN MaxStacks[kind] - stack.count ELSE 0

NewId == CHOOSE n \in 1..Cardinality(DOMAIN held) + 1 : \A p \in DOMAIN held : held[p].id # n

After(r) ==
    LET src == held[r.from]  dst == held[r.to]  room == Room(src.kind, dst)
        merged == IF src.count < room THEN src.count ELSE room
        Put(a, b) == [held EXCEPT ![r.from] = a, ![r.to] = b]
    IN  IF r.count > 0
          THEN IF r.count >= src.count \/ room < r.count THEN held
               ELSE Put([src EXCEPT !.count = @ - r.count],
                        IF dst = Nothing THEN [src EXCEPT !.id = NewId, !.count = r.count]
                        ELSE [dst EXCEPT !.count = @ + r.count])
          ELSE IF dst # Nothing /\ dst.kind = src.kind /\ room > 0
                 THEN Put(IF merged = src.count THEN Nothing ELSE [src EXCEPT !.count = @ - merged],
                          [dst EXCEPT !.count = @ + merged])
                 ELSE Put(dst, src)

ServerProcesses ==
    /\ requests # <<>>
    /\ LET r == requests[1]
           refused == {r.from, r.to} \subseteq AllPlaces => held[r.from] = Nothing
       IN   /\ held' = IF refused THEN held ELSE After(r)
            /\ moved' = IF held' = held \/ r.asked = 0 THEN <<>>
                        ELSE [asked |-> r.asked, src |-> held[r.from], dst |-> held[r.to],
                              left |-> held'[r.from], there |-> held'[r.to]]
            /\ updates' = Append(updates, held')
    /\ requests' = Tail(requests)
    /\ UNCHANGED <<slotCount, bagSize, shown>>

ClientUpdated ==
    /\ updates # <<>>
    /\ shown' = updates[1] /\ updates' = Tail(updates)
    /\ UNCHANGED <<slotCount, bagSize, held, requests, moved>>

InventoryInit ==
    /\ slotCount \in SlotCounts /\ bagSize \in BagSizes
    /\ held = [p \in AllPlaces |-> IF p = Player(BagSlot) /\ bagSize > 0
                                  THEN BagItem
                                ELSE IF p \in DOMAIN StartingItems THEN StartingItems[p] ELSE Nothing]
    /\ shown = held
    /\ requests = <<>> /\ updates = <<>> /\ moved = <<>>

InventoryNext ==
    \/ /\ Len(requests) + Len(updates) < MaxUnderWay
       /\ \E f, t \in Named :
            \/ SwapItems(f[1], f[2], t[1], t[2])
            \/ \E n \in 0..2 : MoveItem(f[1], f[2], t[1], t[2], n)
    \/ ServerProcesses \/ ClientUpdated

InventoryTypeOK ==
    /\ DOMAIN held = AllPlaces /\ DOMAIN shown = AllPlaces
    /\ Len(requests) + Len(updates) <= MaxUnderWay

-----------------------------------------------------------------------------
(* Properties.                                                             *)

\* An item is found where it is: the location of an item names that item, and every item
\* worn or carried has one.
LocationsAgree ==
    \A p \in AllPlaces : LET id == shown[p].id IN id # 0 =>
        /\ \A loc \in GetItemLocation(id) : Resolve(loc) = {id}
        /\ Cardinality(GetItemLocation(id)) <= 1
        /\ GetItemLocation(id) = {} <=>
            /\ p[1] = "player" /\ p[2] >= EquipmentSlots
            /\ p[2] \notin Ranges[0].first..Ranges[0].last

\* What a move of m.asked of the stack m.src onto m.dst left and put there.  A split, or the
\* swap of a whole stack, moved all that was asked for ...
MovedAll(m) ==
    /\ m.dst = Nothing \/ m.dst.kind = m.src.kind
    /\ m.left = IF m.asked = m.src.count THEN Nothing ELSE [m.src EXCEPT !.count = @ - m.asked]
    /\ m.there.kind = m.src.kind /\ m.there.count = m.dst.count + m.asked

\* ... or the swap exchanged two stacks that do not merge, or filled one and kept the rest.
Exchanged(m) ==
    /\ m.asked = m.src.count /\ Room(m.src.kind, m.dst) <= 0
    /\ m.left = m.dst /\ m.there = m.src

Filled(m) ==
    LET room == Room(m.src.kind, m.dst)
    IN  /\ m.asked = m.src.count /\ m.dst # Nothing /\ 0 < room /\ room < m.asked
        /\ m.left = [m.src EXCEPT !.count = @ - room]
        /\ m.there = [m.dst EXCEPT !.count = @ + room]

MovedAsAsked ==
    moved # <<>> => MovedAll(moved) \/ Exchanged(moved) \/ Filled(moved)

\* "A destination holding a different item, or one without room for all `count`, is refused
\* outright - nothing partial happens" (docs/API.md, of MoveItem).  The code sends a count of
\* the whole stack as a swap, which fills the destination and leaves the rest.
NothingPartial == moved # <<>> => ~Filled(moved)

\* No request names a place that is not there, or one the caller cannot name: of the
\* equipment, of the bags worn, or of the range after the one that was asked for.  With
\* nothing under way, a call for part of a stack moves that number or none.  One for the
\* whole stack moves it, exchanges it with what it does not merge with, or (NothingPartial)
\* fills a like stack without room for all; no item is made or lost.
MovesAreTrue ==
    /\ \A f \in Named : \A p \in Encode(f[1], f[2]) :
        /\ p \in AllPlaces /\ (p[1] = "player" => p[2] > BagSlot)
        /\ \A t \in Named \ {f} : p \notin Encode(t[1], t[2])
        /\ ItemAt(p) = ResolveBagSlot(f[1], f[2])
    /\ \A i \in DOMAIN requests : requests[i].from # requests[i].to
    /\ MovedAsAsked

Requests == [from : AllPlaces, to : AllPlaces, count : Nat, asked : Nat]

\* What the steps keep: a request made with nothing under way is the first there is, and the
\* client shows what the server has until it has been processed.
MovesInv ==
    /\ slotCount \in Nat /\ bagSize \in Nat
    /\ DOMAIN held = AllPlaces /\ DOMAIN shown = AllPlaces
    /\ \A p \in AllPlaces : IsStack(held[p])
    /\ requests \in Seq(Requests)
    /\ updates \in Seq({updates[i] : i \in DOMAIN updates})
    /\ \A i \in DOMAIN updates : DOMAIN updates[i] = AllPlaces
    /\ IF updates = <<>> THEN shown = held ELSE updates[Len(updates)] = held
    /\ \A i \in DOMAIN requests : LET r == requests[i] IN
        /\ r.from # r.to
        /\ r.asked # 0 =>
            /\ i = 1 /\ updates = <<>>
            /\ r.count = IF r.asked = held[r.from].count THEN 0 ELSE r.asked
            /\ r.asked <= held[r.from].count
    /\ MovedAsAsked

-----------------------------------------------------------------------------
(* What the steps keep, for the theorems (Answers).                         *)

\* No two places hold the item of one ID, and a bag that has slots is there.
OneEach(h) ==
    /\ \A p, q \in AllPlaces : p # q /\ h[p].id # 0 => h[p].id # h[q].id
    /\ bagSize > 0 => h[Player(BagSlot)].id # 0

\* What is carried is carried once, the bag is in its place.
ItemsInv ==
    /\ MovesInv
    /\ BagSlot < slotCount
    /\ OneEach(held) /\ OneEach(shown) /\ \A i \in DOMAIN updates : OneEach(updates[i])
    /\ \A i \in DOMAIN requests : Player(BagSlot) \notin {requests[i].from, requests[i].to}

\* Where a bag's slot is.
SlotAt(b, s) == IF b = 0 THEN Player(Ranges[0].first + s - 1) ELSE Bag(s - 1)

=============================================================================

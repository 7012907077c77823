-------------------------------- MODULE Mask --------------------------------
(***************************************************************************)
(* src/src/texture/Mask.cpp: which masks a texture has, the engine texture *)
(* references the module owns for them, and the batch renderer that draws  *)
(* a masked texture on its own with its masks on texture units 1..Usable.  *)
(* Coordinates, matrices and pixels are left out.                          *)
(***************************************************************************)
EXTENDS Integers, Sequences, FiniteSets, SequencesExt, Functions

CONSTANTS
    Regions,        \* addresses of texture regions (pooled: used again)
    Files,          \* texture files
    Loadable,       \* those that can be loaded
    Usable,         \* texture units for masks: min(7, stages - 1)
    MaxCalls        \* bound: calls on live textures in one UI session

NoTexture == "none"         \* no texture, no handle

MaskAssumption ==
    /\ Loadable \subseteq Files /\ NoTexture \notin Files
    /\ IsFiniteSet(Regions)
    /\ Usable \in 0..7 /\ MaxCalls \in Nat

VARIABLES
    alive,          \* addresses that hold a region
    texture,        \* what a region's own SetTexture put there
    enabled,        \* g_enabled
    pathMasks,      \* g_pathMasks: the file of each texture's SetMask
    baseMasks,      \* g_baseMasks: mask regions in Add order
    maskLoads,      \* g_maskLoads: the file, and the handle: of which file, or none
    draw,           \* the batch being drawn
    device,         \* the device: units with a pushed matrix (0: the journal), UI shaders
    held,           \* ghost: references to loaded files that nobody released
    torn,           \* ghost: what a load that a fault tore released and took besides
    calls           \* calls so far

maskTables == <<pathMasks, baseMasks, maskLoads>>
maskVars == <<alive, texture, enabled, maskTables, draw, device, held, torn, calls>>

Solid == "solid"            \* a colour: a texture with no file
Clear == "no path"          \* SetMask(nil) or SetMask("")
AllMasks == "all"           \* RemoveMaskTexture() without a mask

NoDraw == [batch |-> <<>>, at |-> 0, start |-> 0, drawn |-> <<>>, faulted |-> {}, tail |-> 0]
CleanDevice == [pushed |-> {}, shaders |-> TRUE]
NoneTorn == [released |-> {}, taken |-> {}]

MaskTypeOK ==
    /\ alive \subseteq Regions
    /\ texture \in [Regions -> Files \cup {NoTexture, Solid}]
    /\ enabled \in BOOLEAN
    /\ DOMAIN pathMasks \subseteq Regions /\ Range(pathMasks) \subseteq Loadable
    /\ DOMAIN baseMasks \subseteq Regions
    /\ \A r \in DOMAIN baseMasks :
            /\ baseMasks[r] # <<>> /\ IsInjective(baseMasks[r])
            /\ Range(baseMasks[r]) \subseteq Regions \ {r}
    /\ DOMAIN maskLoads \subseteq Regions
    /\ draw.at \in 0..Len(draw.batch)
    /\ held \in [Files -> Nat]
    /\ torn \in [released : SUBSET Files, taken : SUBSET Files]
    /\ calls \in 0..MaxCalls

MaskInit ==
    /\ alive = {}
    /\ texture = [r \in Regions |-> NoTexture]
    /\ enabled = TRUE
    /\ pathMasks = <<>> /\ baseMasks = <<>> /\ maskLoads = <<>>
    /\ draw = NoDraw /\ device = CleanDevice
    /\ held = [f \in Files |-> 0] /\ torn = NoneTorn
    /\ calls = 0

Without(f, gone) == Restrict(f, DOMAIN f \ gone)
With(f, x, v) == [y \in DOMAIN f \cup {x} |-> IF y = x THEN v ELSE f[y]]

\* The references kept after some owners let go of theirs and one file is loaded.
Released(files) == [f \in Files |-> held[f] - files[f]]
NoFiles == [f \in Files |-> 0]
One(file) == [f \in Files |-> IF f = file THEN 1 ELSE 0]
Plus(a, b) == [f \in Files |-> a[f] + b[f]]
PathRef(r) == IF r \in DOMAIN pathMasks THEN One(pathMasks[r]) ELSE NoFiles
LoadRef(r) == IF r \in DOMAIN maskLoads THEN One(maskLoads[r].handle) ELSE NoFiles

\* Whose SetMask, and whose own load, holds a reference to a file.
SetBy(file) == {r \in DOMAIN pathMasks : pathMasks[r] = file}
LoadedBy(file) == {r \in DOMAIN maskLoads : maskLoads[r].handle = file}

-----------------------------------------------------------------------------
(* The Lua methods.                                                        *)

Drawing == draw # NoDraw

LuaCall ==
    /\ ~Drawing /\ calls < MaxCalls
    /\ calls' = calls + 1
    /\ UNCHANGED <<enabled, draw, device, torn>>

\* The pool's next address; which one it is makes no difference.
FreeAddress == CHOOSE r \in Regions : r \notin alive

\* CreateTexture and CreateMaskTexture at a free address, with their SetTexture.
CreateTexture(r, file) ==
    /\ ~Drawing /\ r \notin alive
    /\ alive' = alive \cup {r}
    /\ texture' = [texture EXCEPT ![r] = file]
    /\ UNCHANGED <<enabled, maskTables, draw, device, held, torn, calls>>

SetTexture(r, file) ==
    /\ LuaCall /\ r \in alive
    /\ texture' = [texture EXCEPT ![r] = file]
    /\ UNCHANGED <<alive, maskTables, held>>

\* Mutant: the new file's reference is taken, the old one's is not given back.
SetMaskLeaks(r, path) ==
    /\ LuaCall /\ r \in alive
    /\ IF path = Clear
         THEN pathMasks' = Without(pathMasks, {r}) /\ held' = Released(PathRef(r))
         ELSE IF path \in Loadable
                THEN pathMasks' = With(pathMasks, r, path) /\ held' = Plus(held, One(path))
                ELSE UNCHANGED <<pathMasks, held>>
    /\ UNCHANGED <<alive, texture, baseMasks, maskLoads>>

\* The file that is set already changes nothing, nor does one that cannot be loaded.
Script_SetMask(r, path) ==
    /\ LuaCall /\ r \in alive
    /\ IF path = Clear
         THEN pathMasks' = Without(pathMasks, {r}) /\ held' = Released(PathRef(r))
         ELSE IF path \in Loadable /\ ~(r \in DOMAIN pathMasks /\ pathMasks[r] = path)
                THEN /\ pathMasks' = With(pathMasks, r, path)
                     /\ held' = Plus(Released(PathRef(r)), One(path))
                ELSE UNCHANGED <<pathMasks, held>>
    /\ UNCHANGED <<alive, texture, baseMasks, maskLoads>>

MasksOf(r) == IF r \in DOMAIN baseMasks THEN baseMasks[r] ELSE <<>>

Script_AddMaskTexture(base, mask) ==
    /\ LuaCall /\ {base, mask} \subseteq alive
    /\ baseMasks' = IF base = mask \/ Contains(MasksOf(base), mask) THEN baseMasks
                    ELSE With(baseMasks, base, Append(MasksOf(base), mask))
    /\ UNCHANGED <<alive, texture, pathMasks, maskLoads, held>>

\* What is left of g_baseMasks without a mask; no base keeps an empty list.
Unmasked(mask) ==
    LET left(r) == RemoveFirst(baseMasks[r], mask)
    IN  [r \in {x \in DOMAIN baseMasks : left(x) # <<>>} |-> left(r)]

\* Mutant: a base keeps its list when the last mask goes.
RemoveLeavesEmpty(base, mask) ==
    /\ LuaCall /\ base \in alive
    /\ baseMasks' = IF base \notin DOMAIN baseMasks THEN baseMasks
                    ELSE [baseMasks EXCEPT ![base] = IF mask = AllMasks THEN <<>> ELSE RemoveFirst(@, mask)]
    /\ UNCHANGED <<alive, texture, pathMasks, maskLoads, held>>

\* Without a mask (or with what is no texture) all of them go.
Script_RemoveMaskTexture(base, mask) ==
    /\ LuaCall /\ base \in alive
    /\ baseMasks' = IF base \notin DOMAIN baseMasks THEN baseMasks
                    ELSE IF mask = AllMasks \/ base \notin DOMAIN Unmasked(mask)
                      THEN Without(baseMasks, {base})
                      ELSE [baseMasks EXCEPT ![base] = RemoveFirst(@, mask)]
    /\ UNCHANGED <<alive, texture, pathMasks, maskLoads, held>>

-----------------------------------------------------------------------------
(* Regions die, and the UI with all of them.                               *)

\* Mutant: only the region's own masks are dropped.
ForgetsAsBase(r) ==
    /\ pathMasks' = Without(pathMasks, {r})
    /\ maskLoads' = Without(maskLoads, {r})
    /\ baseMasks' = Without(baseMasks, {r})
    /\ held' = Released(Plus(PathRef(r), LoadRef(r)))

Forget(r) ==
    /\ pathMasks' = Without(pathMasks, {r})
    /\ maskLoads' = Without(maskLoads, {r})
    /\ baseMasks' = Without(Unmasked(r), {r})
    /\ held' = Released(Plus(PathRef(r), LoadRef(r)))

Dtor(r) ==
    /\ LuaCall /\ r \in alive
    /\ Forget(r)
    /\ alive' = alive \ {r}
    /\ texture' = [texture EXCEPT ![r] = NoTexture]

MaskPrepareForReload ==
    /\ pathMasks' = <<>> /\ baseMasks' = <<>> /\ maskLoads' = <<>>
    /\ held' = [f \in Files |-> held[f] - Cardinality(SetBy(f)) - Cardinality(LoadedBy(f))]

\* The cleanup, then the engine destroys every region.
MaskShutdown ==
    /\ ~Drawing
    /\ MaskPrepareForReload
    /\ alive' = {} /\ texture' = [r \in Regions |-> NoTexture]
    /\ calls' = 0
    /\ UNCHANGED <<enabled, draw, device, torn>>

\* A new process: nothing is left of the old one.
MaskRestart ==
    /\ alive' = {} /\ texture' = [r \in Regions |-> NoTexture]
    /\ enabled' = TRUE
    /\ pathMasks' = <<>> /\ baseMasks' = <<>> /\ maskLoads' = <<>>
    /\ draw' = NoDraw /\ device' = CleanDevice
    /\ held' = NoFiles /\ torn' = NoneTorn
    /\ calls' = 0

-----------------------------------------------------------------------------
(* The batch renderer: draw.at entries are behind it, draw.start of them   *)
(* are drawn.                                                              *)

IsMasked(r) == r \in DOMAIN pathMasks \cup DOMAIN baseMasks

\* The masks a region's draw binds: the path's (which stands as the region itself)
\* first, then in Add order, as many as there are units.
PathMask(r) == IF r \in DOMAIN pathMasks THEN <<r>> ELSE <<>>
MasksBound(r) ==
    LET all == PathMask(r) \o MasksOf(r)
    IN  SubSeq(all, 1, IF Len(all) < Usable THEN Len(all) ELSE Usable)

\* drawRun: the entries not drawn yet up to this one, in one sub-batch.
Run(to) == [i \in 1..(to - draw.start) |-> [entry |-> draw.start + i, masks |-> <<>>]]

BatchDraw(batch) ==
    /\ ~Drawing /\ batch # <<>>
    /\ draw' = [NoDraw EXCEPT !.batch = batch]
    /\ UNCHANGED <<alive, texture, enabled, maskTables, device, held, torn, calls>>

Current == draw.batch[draw.at + 1]
MidBatch == Drawing /\ device = CleanDevice /\ draw.at < Len(draw.batch)

PassEntry ==
    /\ MidBatch
    /\ ~enabled \/ ~IsMasked(Current)
    /\ draw' = [draw EXCEPT !.at = @ + 1]
    /\ UNCHANGED <<alive, texture, enabled, maskTables, device, held, torn, calls>>

\* A mask without a load of its file has one made: at its first draw, and when the file changed.
NeedsLoad(m) == texture[m] \in Files /\ (m \in DOMAIN maskLoads => maskLoads[m].file # texture[m])

\* A file that cannot be loaded is remembered with no handle.
LoadByPath(file) == IF file \in Loadable THEN file ELSE NoTexture
HandleOf(m) == IF m \in DOMAIN maskLoads THEN maskLoads[m].handle ELSE NoTexture

\* MaskHandle for each of these masks; for those in `cut` (one or none) up to a fault in its
\* load, which leaves the new file's name on the old handle.
MaskHandles(masks, cut) ==
    LET stale == {m \in masks : NeedsLoad(m)}
        load(m) == [file |-> texture[m], handle |-> LoadByPath(texture[m])]
        left(m) == [file |-> texture[m], handle |-> HandleOf(m)]
        count(f) == Cardinality({m \in stale : load(m).handle = f})
        gone(f) == Cardinality(stale \cap LoadedBy(f))
    IN  /\ maskLoads' = [m \in DOMAIN maskLoads \cup stale \cup cut |->
                            IF m \in stale THEN load(m)
                            ELSE IF m \in cut THEN left(m) ELSE maskLoads[m]]
        /\ held' = [f \in Files |-> held[f] + count(f) - gone(f)]

BaseMasksIn(masks) == Range(masks) \ {Current}

\* How many masks may be looked at: none after one without a texture.
LookedAt(masks) == {n \in 0..Len(masks) :
    \A m \in BaseMasksIn(SubSeq(masks, 1, n - 1)) : texture[m] # NoTexture}

\* Mutant: an entry that cannot be masked yet is left out.
NotReadySkips(masks) ==
    /\ draw' = [draw EXCEPT !.at = @ + 1, !.start = draw.at + 1, !.drawn = @ \o Run(draw.at)]
    /\ UNCHANGED <<enabled, device>>

\* A mask that cannot be resolved: the entry is drawn without masks.
NotReady(masks) ==
    /\ draw' = [draw EXCEPT !.at = @ + 1, !.start = draw.at + 1,
                            !.drawn = @ \o Run(draw.at + 1)]
    /\ UNCHANGED <<enabled, device>>

\* All resolved: state and matrices are pushed, up to a fault or to the draw.
Masked(masks) ==
    /\ \A m \in BaseMasksIn(masks) : texture[m] # NoTexture
    /\ \E units \in 0..Len(masks) :
         /\ device' = [pushed |-> 0..units, shaders |-> units < Len(masks)]
         /\ draw' = [draw EXCEPT !.start = draw.at, !.drawn = @ \o Run(draw.at)]
    /\ UNCHANGED enabled

\* A fault in the load of mask m, once the masks before it are resolved: the old handle is
\* released (and stays in the table), the new one may be taken (and is lost).
TearsLoad(masks, m) ==
    /\ m # Current /\ NeedsLoad(m)
    /\ MaskHandles(masks, {m})
    /\ \E taken \in {{}, {LoadByPath(texture[m])} \cap Files} :
         torn' = [released |-> {HandleOf(m)} \cap Files, taken |-> taken]

\* Mutant: the feature stays on after a fault.
FaultsGoOn(masks) ==
    /\ \E n \in LookedAt(masks) \ {0} : TearsLoad(BaseMasksIn(SubSeq(masks, 1, n - 1)), masks[n])
    /\ draw' = [draw EXCEPT !.at = @ + 1, !.start = draw.at + 1,
                            !.drawn = @ \o Run(draw.at), !.faulted = {draw.at + 1}]
    /\ UNCHANGED <<enabled, device>>

\* A fault while the masks are resolved, in a load or outside of one: nothing is pushed yet,
\* the entry is dropped and the feature is off.
Faults(masks) ==
    /\ \/ /\ \E n \in LookedAt(masks) : MaskHandles(BaseMasksIn(SubSeq(masks, 1, n)), {})
          /\ UNCHANGED torn
       \/ \E n \in LookedAt(masks) \ {0} : TearsLoad(BaseMasksIn(SubSeq(masks, 1, n - 1)), masks[n])
    /\ draw' = [draw EXCEPT !.at = @ + 1, !.start = draw.at + 1,
                            !.drawn = @ \o Run(draw.at), !.faulted = {draw.at + 1}]
    /\ enabled' = FALSE
    /\ UNCHANGED device

\* SafeDrawMasked on a masked entry; the masks before an unresolved one are loaded.
DrawMasked ==
    LET masks == MasksBound(Current)
    IN  /\ MidBatch /\ enabled /\ IsMasked(Current)
        /\ \/ Masked(masks) /\ MaskHandles(BaseMasksIn(masks), {}) /\ UNCHANGED torn
           \/ /\ NotReady(masks) /\ UNCHANGED torn
              /\ \E n \in LookedAt(masks) : MaskHandles(BaseMasksIn(SubSeq(masks, 1, n)), {})
           \/ Faults(masks)
        /\ UNCHANGED <<alive, texture, pathMasks, baseMasks, calls>>

RestoreAfterDraw == [pushed |-> device.pushed \ (0..7), shaders |-> TRUE]

\* The draw itself, or a fault on the way to it, which turns the feature off.
Drawn ==
    /\ device.pushed # {}
    /\ device' = RestoreAfterDraw
    /\ \/ /\ ~device.shaders
          /\ draw' = [draw EXCEPT !.at = @ + 1, !.start = @ + 1,
                !.drawn = Append(@, [entry |-> draw.at + 1, masks |-> MasksBound(Current)])]
          /\ UNCHANGED enabled
       \/ /\ draw' = [draw EXCEPT !.at = @ + 1, !.start = @ + 1, !.faulted = {draw.at + 1}]
          /\ enabled' = FALSE
    /\ UNCHANGED <<alive, texture, maskTables, held, torn, calls>>

\* The rest of the entries, then the tail lists (font strings, callbacks) once.
BatchTail ==
    /\ Drawing /\ device = CleanDevice /\ draw.at = Len(draw.batch)
    /\ draw.tail = 0
    /\ draw' = [draw EXCEPT !.drawn = @ \o Run(draw.at), !.start = draw.at, !.tail = 1]
    /\ UNCHANGED <<alive, texture, enabled, maskTables, device, held, torn, calls>>

BatchDrawn ==
    /\ draw.tail = 1
    /\ draw' = NoDraw
    /\ UNCHANGED <<alive, texture, enabled, maskTables, device, held, torn, calls>>

-----------------------------------------------------------------------------
(* Lua of an add-on, and the frames it is drawn in.                        *)

MaskCall ==
    \/ \E file \in Loadable : Regions # alive /\ CreateTexture(FreeAddress, file)
    \/ \E r \in alive, file \in Files \cup {NoTexture, Solid} : SetTexture(r, file)
    \/ \E r \in alive, path \in Files \cup {Clear} : Script_SetMask(r, path)
    \/ \E base, mask \in alive : Script_AddMaskTexture(base, mask)
    \/ \E base \in alive, mask \in alive \cup {AllMasks} : Script_RemoveMaskTexture(base, mask)
    \/ \E r \in alive : Dtor(r)

\* What a frame draws: the textures there are, each once; regions are interchangeable,
\* so one order stands for all.
MaskDraws == BatchDraw(SetToSeq(alive))

MaskRuns == PassEntry \/ DrawMasked \/ Drawn \/ BatchTail \/ BatchDrawn

-----------------------------------------------------------------------------
(* Properties.                                                             *)

\* What whole calls took and did not release is what the tables stand for: nothing leaks when
\* masks change, regions die or the UI goes, and nothing is released twice.
RefsCounted == \A f \in Files : held[f] = Cardinality(SetBy(f)) + Cardinality(LoadedBy(f))

\* A load that a fault tore is the exception (its reference is released again with its entry,
\* or is never released): there is none while the feature is on, and one in a process.
TornOnce ==
    /\ torn \in [released : SUBSET Files, taken : SUBSET Files]
    /\ enabled => torn = NoneTorn
    /\ \A f, g \in torn.released : f = g
    /\ \A f, g \in torn.taken : f = g

RefsKept == RefsCounted /\ TornOnce

\* The references there are, with what a fault tore.
References(f) == held[f] + (IF f \in torn.taken THEN 1 ELSE 0)
                         - (IF f \in torn.released THEN 1 ELSE 0)

\* The comments at g_pathMasks and g_maskLoads: a handle in the tables is a reference of our
\* own; so none is released that was released before.  A fault in the middle of a load,
\* which the SEH latch of SafeDrawMasked survives, breaks it.
NothingReleasedTwice == \A f \in Files : References(f) >= 0

\* No table speaks of a dead region, as a base or as a mask: what is created at its
\* address next starts with no masks.
NoDeadMasks ==
    /\ DOMAIN pathMasks \cup DOMAIN baseMasks \cup DOMAIN maskLoads \subseteq alive
    /\ \A r \in DOMAIN baseMasks : Range(baseMasks[r]) \subseteq alive

InOrder(drawn) == \A i, j \in DOMAIN drawn : i < j => drawn[i].entry < drawn[j].entry
Entries(drawn) == {drawn[i].entry : i \in DOMAIN drawn}

\* A batch with masks draws what it would draw without them: every entry once and in
\* order, but for one whose draw faulted, each with masks of its own only, the tail
\* lists once, and with the device as it was.
BatchDrawnWhole == draw.tail = 1 =>
    /\ InOrder(draw.drawn)
    /\ Entries(draw.drawn) = DOMAIN draw.batch \ draw.faulted
    /\ \A i \in DOMAIN draw.drawn :
         LET masks == draw.drawn[i].masks IN
            masks # <<>> => masks = MasksBound(draw.batch[draw.drawn[i].entry])
    /\ device = CleanDevice

MaskRight == RefsKept /\ NoDeadMasks /\ BatchDrawnWhole

-----------------------------------------------------------------------------
(* What makes them hold.                                                   *)

TablesTyped ==
    /\ alive \subseteq Regions
    /\ texture \in [Regions -> Files \cup {NoTexture, Solid}]
    /\ DOMAIN pathMasks \subseteq alive /\ \A r \in DOMAIN pathMasks : pathMasks[r] \in Loadable
    /\ DOMAIN baseMasks \subseteq alive
    /\ \A r \in DOMAIN baseMasks :
            /\ baseMasks[r] \in Seq(alive \ {r}) /\ baseMasks[r] # <<>>
            /\ IsInjective(baseMasks[r])
    /\ DOMAIN maskLoads \subseteq alive
    /\ \A r \in DOMAIN maskLoads :
            maskLoads[r] \in [file : Files, handle : Loadable \cup {NoTexture}]
    /\ held \in [Files -> Nat]
    /\ enabled \in BOOLEAN /\ calls \in 0..MaxCalls

\* What is behind draw.start is drawn, but for what faulted; a fault ends the feature.
DrawnSoFar ==
    /\ draw \in [batch : Seq(alive), at : Nat, start : Nat, faulted : SUBSET Nat, tail : {0, 1},
                 drawn : Seq([entry : Nat, masks : Seq(Regions)])]
    /\ draw.start <= draw.at /\ draw.at <= Len(draw.batch)
    /\ InOrder(draw.drawn)
    /\ draw.faulted \subseteq 1..draw.start
    /\ Entries(draw.drawn) = (1..draw.start) \ draw.faulted
    /\ enabled => draw.faulted = {}
    /\ \A i \in DOMAIN draw.drawn :
         LET d == draw.drawn[i] IN d.masks # <<>> => d.masks = MasksBound(draw.batch[d.entry])
    /\ draw.tail = 1 => draw.start = Len(draw.batch) /\ device = CleanDevice

\* The device is as the engine left it, or one entry's masks are on it.
DeviceInv ==
    \/ device = CleanDevice
    \/ /\ device.pushed # {} /\ device.pushed \subseteq 0..7
       /\ device.shaders \in BOOLEAN
       /\ enabled /\ Drawing /\ draw.start = draw.at /\ draw.at < Len(draw.batch)

MaskInv == TablesTyped /\ RefsCounted /\ TornOnce /\ DrawnSoFar /\ DeviceInv

MaskNext == MaskCall \/ MaskDraws \/ MaskRuns \/ MaskShutdown
MaskSpec == MaskInit /\ [][MaskNext]_maskVars
=============================================================================

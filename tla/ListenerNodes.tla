---------------------------- MODULE ListenerNodes ----------------------------
(***************************************************************************)
(* What RegisterUnitEvent promises: the listener nodes of the 5.4.8        *)
(* client, as src/src/frame/UnitEvent.cpp:33-44 describes them.  A frame   *)
(* has at most one node in an event; its kind, plain or filtered, is fixed *)
(* when it is created, and the filter lives and dies with the node.        *)
(***************************************************************************)
CONSTANTS
    Pairs,      \* <<frame, event>>: what may be registered for what
    Units       \* unit tokens

VARIABLES
    nodes,      \* the node of each pair
    dispatch    \* the event on its way through its listeners

nodeVars == <<nodes, dispatch>>

None == [on |-> FALSE, units |-> {}]
Node(units) == [on |-> TRUE, units |-> units]
Plain == Node({})

Filtered(node) == node.units # {}

\* arg1 of an event that has no string there.
NoUnit == "not a string"

Idle == [event |-> "none", arg |-> NoUnit, todo |-> {}, heard |-> {}]
Quiet == dispatch = Idle

NodesInit ==
    /\ nodes = [p \in Pairs |-> None]
    /\ dispatch = Idle

\* frame:RegisterEvent leaves the node that there is.
Register(p) ==
    /\ nodes' = [nodes EXCEPT ![p] = IF @.on THEN @ ELSE Plain]
    /\ UNCHANGED dispatch

\* frame:RegisterUnitEvent: a plain node stays plain, a filter is replaced; with no
\* usable unit it is RegisterEvent.
RegisterUnits(p, units) ==
    /\ units # {}
    /\ nodes' = [nodes EXCEPT ![p] = IF @ = Plain THEN @ ELSE Node(units)]
    /\ UNCHANGED dispatch

Unregister(ps) ==
    /\ nodes' = [p \in Pairs |-> IF p \in ps THEN None ELSE nodes[p]]
    /\ UNCHANGED dispatch

\* An event fires: it is for the frames that listen now.
Signal(event, arg) ==
    /\ Quiet
    /\ dispatch' = [event |-> event, arg |-> arg, heard |-> {},
                    todo |-> {p \in Pairs : p[2] = event /\ nodes[p].on}]
    /\ UNCHANGED nodes

Wants(node, arg) == node.on /\ (Filtered(node) /\ arg # NoUnit => arg \in node.units)

\* A listener's turn: it hears the event exactly if its node wants it now.
Turn(p) ==
    /\ p \in dispatch.todo
    /\ dispatch' = [dispatch EXCEPT
            !.todo = @ \ {p},
            !.heard = IF Wants(nodes[p], dispatch.arg) THEN @ \cup {p} ELSE @]
    /\ UNCHANGED nodes

Settle ==
    /\ ~Quiet
    /\ dispatch.todo = {}
    /\ dispatch' = Idle
    /\ UNCHANGED nodes

\* The Lua state goes, and every frame and event object with it.
Discard ==
    /\ nodes' = [p \in Pairs |-> None]
    /\ dispatch' = Idle

NodesNext ==
    \/ \E p \in Pairs : Register(p) \/ Turn(p) \/ \E units \in SUBSET Units : RegisterUnits(p, units)
    \/ \E ps \in SUBSET Pairs : Unregister(ps)
    \/ \E p \in Pairs, arg \in Units \cup {NoUnit} : Signal(p[2], arg)
    \/ Settle
    \/ Discard

NodesSpec == NodesInit /\ [][NodesNext]_nodeVars
=============================================================================

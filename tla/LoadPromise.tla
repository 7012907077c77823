----------------------------- MODULE LoadPromise -----------------------------
(***************************************************************************)
(* What the asynchronous load requests of this library promise the Lua     *)
(* side, whatever the cache, the network and the loading screens do:       *)
(*                                                                         *)
(*   - a completion event answers a request that is still owed one, with   *)
(*     the kind that was asked for, and settles it: one event per request; *)
(*   - the only other event is the immediate answer to an explicit request *)
(*     for a record the client already has;                                *)
(*   - `success` is true exactly when the client has the record;           *)
(*   - an explicit request is never answered as an implicit one.           *)
(***************************************************************************)
CONSTANTS Items

VARIABLES
    owed,    \* the request owed an event, per record
    known,   \* the records the client has
    fired    \* the event of the last step: at most one <<kind, item, success>>

pvars == <<owed, known, fired>>

Requests == {"implicit", "explicit"}

Init ==
    /\ owed = [i \in Items |-> "none"]
    /\ known = {}
    /\ fired = {}

Quiet == fired' = {} /\ UNCHANGED owed

\* A request is recorded; an explicit one supersedes an implicit one.
Ask(i) ==
    /\ fired' = {}
    /\ \/ owed' = [owed EXCEPT ![i] = "explicit"]
       \/ owed[i] = "none" /\ owed' = [owed EXCEPT ![i] = "implicit"]

\* An explicit request for a record already here.
AnswerAtOnce(i) ==
    /\ i \in known
    /\ fired' = {<<"explicit", i, TRUE>>}
    /\ UNCHANGED owed

Settle(i) ==
    /\ owed[i] \in Requests
    /\ fired' = {<<owed[i], i, i \in known'>>}
    /\ owed' = [owed EXCEPT ![i] = "none"]

\* The Lua state goes away and every request with it.
ForgetAll ==
    /\ owed' = [i \in Items |-> "none"]
    /\ fired' = {}

Next ==
    /\ known \subseteq known'
    /\ \/ Quiet
       \/ \E i \in Items : Ask(i) \/ AnswerAtOnce(i) \/ Settle(i)
       \/ ForgetAll

Spec == Init /\ [][Next]_pvars
=============================================================================

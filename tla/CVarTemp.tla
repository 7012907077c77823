------------------------------ MODULE CVarTemp ------------------------------
(***************************************************************************)
(* src/src/cvar/Temp.cpp: C_CVar.SetTempCVar puts a value on a cvar for    *)
(* the session, and a co-hook on the write-out of the config files points  *)
(* the cvar back at its saved value while the file is written.  An entry   *)
(* notices that someone else set its cvar by comparing the live value      *)
(* with the one it put there.  CVar::Set runs the cvar's change callback,  *)
(* whose Lua may call all of these functions again.                        *)
(***************************************************************************)
EXTENDS Naturals, Sequences, SequencesExt

CONSTANTS
    CVars, Values,
    Refused,        \* values the change callbacks refuse
    Default,        \* the value of every cvar at first
    MaxDepth,       \* bound: SetTempCVar calls on the stack
    Coincidences,   \* a plain SetCVar, or another character's config, may
                    \* bring just the value an entry put there
    Reentrant       \* change callbacks call these functions on the very
                    \* cvar whose SetTempCVar is running

CVarAssumption ==
    /\ Refused \subseteq Values
    /\ Default \in Values \ Refused
    /\ MaxDepth \in Nat
    /\ Coincidences \in BOOLEAN /\ Reentrant \in BOOLEAN

VARIABLES
    exists,         \* the cvars that exist now
    live,           \* their values
    entries,        \* g_entries; no step goes by their order
    landing,        \* the SetTempCVar calls in their change callback
    file,           \* the config file, as last written
    user            \* ghost: the value the user chose for each cvar

vars == <<exists, live, entries, landing, file, user>>

NoValue == "none"   \* temp of an entry before its value has landed
Entries == [name: CVars, saved: Values, temp: Values \cup {NoValue}]

TypeOK ==
    /\ exists \subseteq CVars
    /\ live \in [CVars -> Values]
    /\ entries \subseteq Entries
    /\ \A e, f \in entries : e.name = f.name => e = f
    /\ landing \in Seq(CVars)
    /\ file \in [CVars -> Values]
    /\ user \in [CVars -> Values]

Init ==
    /\ exists = CVars
    /\ live = [c \in CVars |-> Default]
    /\ entries = {}
    /\ landing = <<>>
    /\ file = [c \in CVars |-> Default]
    /\ user = [c \in CVars |-> Default]

-----------------------------------------------------------------------------

HasEntry(c) == \E e \in entries : e.name = c

FindEntry(c) == CHOOSE e \in entries : e.name = c

\* Mutant: an entry is taken to be good as long as the cvar exists.
StillExists(e) == e.name \in exists

StillTemp(e) == e.name \in exists /\ e.temp = live[e.name]

\* CVar::Set with the change callback's verdict: the value that lands.
Landed(c, value) == IF value \in Refused THEN live[c] ELSE value

\* The entries with the cvar's as given, in place of the one it has.
PutEntry(e) == {f \in entries : f.name # e.name} \cup {e}

NewEntry(c) == [name |-> c, saved |-> live[c], temp |-> NoValue]

\* Mutant: what is live is taken as the saved value every time.
SavesLiveAlways(c) ==
    PutEntry(IF HasEntry(c) THEN [FindEntry(c) EXCEPT !.saved = live[c]] ELSE NewEntry(c))

\* Mutant: a stale entry is left where it is and another one is added.
PushesAnother(c) ==
    IF HasEntry(c) /\ StillTemp(FindEntry(c)) THEN entries ELSE entries \cup {NewEntry(c)}

\* SetTempCVar up to its CVar::Set: a new entry, or a stale one taking the
\* value a plain SetCVar left.
EntryFor(c) ==
    IF ~HasEntry(c) THEN PutEntry(NewEntry(c))
    ELSE IF ~StillTemp(FindEntry(c)) THEN PutEntry([FindEntry(c) EXCEPT !.saved = live[c]])
    ELSE entries

\* A change callback calls back on its own cvar only if Reentrant.
MayReenter(c) == Reentrant \/ c \notin ToSet(landing)

\* Script_SetTempCVar, into the change callback.
SetTempCVar(c, value) ==
    /\ c \in exists
    /\ MayReenter(c)
    /\ Len(landing) < MaxDepth
    /\ entries' = EntryFor(c)
    /\ live' = [live EXCEPT ![c] = Landed(c, value)]
    /\ landing' = Append(landing, c)
    /\ UNCHANGED <<exists, file, user>>

\* The callback is back: the entry, if there still is one, takes the value
\* that landed.
Lands ==
    /\ landing # <<>>
    /\ LET c == Last(landing)
       IN  entries' = IF c \in exists /\ HasEntry(c)
                        THEN PutEntry([FindEntry(c) EXCEPT !.temp = live[c]])
                        ELSE entries
    /\ landing' = Front(landing)
    /\ UNCHANGED <<exists, live, file, user>>

\* Script_RemoveTempCVar; its CVar::Set is the last thing it does.
RemoveTempCVar(c) ==
    /\ c \in exists
    /\ MayReenter(c)
    /\ HasEntry(c)
    /\ LET e == FindEntry(c)
       IN  /\ live' = IF StillTemp(e) THEN [live EXCEPT ![c] = Landed(c, e.saved)] ELSE live
           /\ entries' = entries \ {e}
    /\ UNCHANGED <<exists, landing, file, user>>

Coincides(c, value) == \E e \in entries : e.name = c /\ e.temp = value

\* SetCVar, from Lua or the options: the user's choice, if it lands.
SetCVar(c, value) ==
    /\ c \in exists
    /\ MayReenter(c)
    /\ value \notin Refused
    /\ Coincidences \/ ~Coincides(c, value)
    /\ live' = [live EXCEPT ![c] = value]
    /\ user' = [user EXCEPT ![c] = value]
    /\ UNCHANGED <<exists, entries, landing, file>>

\* Logout and character switch delete the character's cvars, and create them
\* with what the next character's config says.
DeleteCVar(c) ==
    /\ landing = <<>>
    /\ exists' = exists \ {c}
    /\ UNCHANGED <<live, entries, landing, file, user>>

CreateCVar(c, value) ==
    /\ landing = <<>>
    /\ c \notin exists
    /\ value \notin Refused
    /\ Coincidences \/ ~Coincides(c, value)
    /\ exists' = exists \cup {c}
    /\ live' = [live EXCEPT ![c] = value]
    /\ user' = [user EXCEPT ![c] = value]
    /\ UNCHANGED <<entries, landing, file>>

\* Mutant: entries that are not live any more are swapped in all the same.
KeepsStale == {e \in entries : e.name \in exists}

\* The entries that survive the sweep before a write-out.
Kept == {e \in entries : StillTemp(e)}

\* IterateForArchive_h: each entry's cvar reads as its saved value while the
\* file is written.
IterateForArchive ==
    /\ landing = <<>>
    /\ entries' = Kept
    /\ file' = [c \in CVars |->
                  IF c \notin exists THEN file[c]
                  ELSE IF \E e \in Kept : e.name = c
                    THEN (CHOOSE e \in Kept : e.name = c).saved
                  ELSE live[c]]
    /\ UNCHANGED <<exists, live, landing, user>>

Next ==
    \/ \E c \in CVars, value \in Values : SetTempCVar(c, value) \/ SetCVar(c, value)
    \/ \E c \in CVars : RemoveTempCVar(c) \/ DeleteCVar(c)
    \/ \E c \in CVars, value \in Values : CreateCVar(c, value)
    \/ Lands
    \/ IterateForArchive

Spec == Init /\ [][Next]_vars

-----------------------------------------------------------------------------
(* Properties.                                                             *)

\* No session value leaks: a cvar whose value is not the user's choice has
\* an entry that knows both, so RemoveTempCVar can put the choice back and a
\* write-out can hide the session's value.
NoTempLeaks ==
    landing = <<>> =>
        \A c \in exists :
            \/ live[c] = user[c]
            \/ /\ HasEntry(c)
               /\ FindEntry(c).temp = live[c]
               /\ FindEntry(c).saved = user[c]

\* "The game uses the new value at once but never saves it" and "SetCVar on a
\* cvar with a temp value replaces it.  The game saves the new value"
\* (docs/API.md): a write-out writes the user's choice for every cvar.
SavesTheUsersChoice ==
    [][ file' # file =>
          \A c \in exists : file'[c] = user[c] ]_vars

\* "Calling SetTempCVar twice on one cvar: RemoveTempCVar puts back the value
\* from before the first call" (docs/API.md), and after a SetCVar it leaves
\* the cvar alone: when an entry goes, its cvar has the user's value.
RemoveRestoresTheChoice ==
    [][ \A c \in exists :
          HasEntry(c) /\ ~HasEntry(c)' => live'[c] = user'[c] ]_vars

\* What is saved is the user's choice, and so is what RemoveTempCVar puts back.
KeepsTheChoice == SavesTheUsersChoice /\ RemoveRestoresTheChoice

-----------------------------------------------------------------------------
(* NoTempLeaks and KeepsTheChoice for every set of cvars and values, any    *)
(* depth of callbacks, and any refusals; where callbacks leave their own    *)
(* cvar alone and nobody sets the very value that an entry has put there.   *)
(* While a SetTempCVar is in its callback only the saved value of the entry *)
(* is known (ChoiceKnown, first case); else an entry that matches the live  *)
(* value must know the user's, or the next SetTempCVar would keep a wrong   *)
(* one.                                                                     *)

InFlight(c) == c \in ToSet(landing)
Matches(e, c) == e.name = c /\ e.temp = live[c]

ChoiceKnown(c) ==
    IF InFlight(c)
      THEN \E e \in entries : e.name = c /\ e.saved = user[c]
      ELSE /\ live[c] = user[c] \/ \E e \in entries : Matches(e, c)
           /\ \A e \in entries : Matches(e, c) => e.saved = user[c]

CVarInv ==
    /\ TypeOK
    /\ \A c \in CVars : user[c] \notin Refused
    /\ \A c \in exists : ChoiceKnown(c)

Orderly == CVarAssumption /\ ~Coincidences /\ ~Reentrant /\ NoValue \notin Values
=============================================================================

------------------------------- MODULE Queries -------------------------------
(***************************************************************************)
(* The parts of the library that share no state and call nothing of each   *)
(* other: each answers scripts from what the engine keeps, or fires its    *)
(* own events (src/src/Game.cpp registers them side by side).  `part` says *)
(* which one a behaviour is about; the others stand still.                 *)
(***************************************************************************)
EXTENDS Answers

-----------------------------------------------------------------------------
(* Auras.                                                                  *)

CONSTANTS
    SpellDbc, Tracking, AuraEntries, InlineSize

VARIABLES
    inView, inlineCount, inlined, overflow, scan

Aura     == INSTANCE Auras

auraVars == <<inView, inlineCount, inlined, overflow, scan>>

\* Its sets are counted as ours are.
LEMMA AurasCounted ==
  ASSUME NEW S
  PROVE  Aura!Cardinality(S) = Cardinality(S) /\ (Aura!IsFiniteSet(S) <=> IsFiniteSet(S))
  BY DEF Aura!Cardinality, Cardinality, Aura!IsFiniteSet, IsFiniteSet

\* The slots are a sequence as long as the set.
LEMMA AurasAscend ==
  ASSUME NEW S
  PROVE  Aura!Ascending(S) = [i \in 1..Cardinality(S) |-> Aura!Ascending(S)[i]]
  <1>1. Aura!Ascending(S) = InOrder(S)
    BY DEF Aura!Ascending, Aura!Cardinality, Cardinality, InOrder, Below
  <1>2. InOrder(S) = [i \in 1..Cardinality(S) |-> InOrder(S)[i]]
    BY DEF InOrder
  <1> QED BY <1>1, <1>2

\* So it is with the slots of the auras.
LEMMA AuraSlotsInOrder ==
  ASSUME NEW S \in SUBSET Int, IsFiniteSet(S)
  PROVE  LET A == Aura!Ascending(S)
             n == Cardinality(S)
             lower(x) == Cardinality({y \in S : y < x})
         IN  /\ n \in Nat /\ DOMAIN A = 1..n
             /\ \A i \in 1..n : A[i] \in S /\ lower(A[i]) = i - 1
             /\ \A x \in S : lower(x) + 1 \in 1..n /\ A[lower(x) + 1] = x
             /\ \A i, j \in 1..n : i < j => A[i] < A[j]
  <1>1. Aura!Ascending(S) = InOrder(S)
    BY DEF Aura!Ascending, Aura!Cardinality, Cardinality, InOrder, Below
  <1>2. DOMAIN InOrder(S) = 1..Cardinality(S)
    BY DEF InOrder
  <1> QED BY <1>1, <1>2, EachHasItsPlace DEF Below

\* Each slot holds an entry.
LEMMA SlotsAre ==
  ASSUME Aura!AurasAssumption, Aura!AurasInv
  PROVE  /\ Aura!SlotCount \in Nat /\ Aura!Slots \subseteq Nat /\ Aura!Slots \subseteq Int
         /\ IsFiniteSet(Aura!Slots)
         /\ \A s \in Aura!Slots : /\ Aura!EntryAt(s) \in Aura!Entries
                                  /\ Aura!EntryAt(s).spell \in Nat
                                  /\ Aura!EntryAt(s).harmful \in BOOLEAN
  <1>0. \A e \in Aura!Entries : e.spell \in Nat /\ e.harmful \in BOOLEAN
    <2>1. ASSUME NEW e \in AuraEntries PROVE e.spell \in Nat /\ e.harmful \in BOOLEAN
      <3>1. e.spell \in Nat /\ {e.harmful, e.effective} \subseteq BOOLEAN
        BY DEF Aura!AurasAssumption
      <3> QED BY <3>1
    <2>2. Aura!EmptyEntry.spell = 0 /\ Aura!EmptyEntry.harmful = FALSE
      BY DEF Aura!EmptyEntry
    <2>3. \A e \in Aura!Entries : e \in AuraEntries \/ e = Aura!EmptyEntry
      BY DEF Aura!Entries
    <2>4. Aura!EmptyEntry.spell \in Nat
      BY <2>2
    <2>5. Aura!EmptyEntry.harmful \in BOOLEAN
      BY DEF Aura!EmptyEntry
    <2> QED BY <2>1, <2>3, <2>4, <2>5
  <1>1. Aura!SlotCount \in Nat
    <2>1. overflow \in Seq(Aura!Entries) /\ Len(overflow) \in Nat
      BY DEF Aura!AurasInv, Aura!AurasTypeOK, Aura!Entries
    <2>2. inlineCount # -1 => inlineCount \in Nat
      BY DEF Aura!AurasInv, Aura!AurasTypeOK, Aura!AurasAssumption
    <2> QED BY <2>1, <2>2 DEF Aura!SlotCount
  <1>2. Aura!Slots \subseteq Nat /\ Aura!Slots \subseteq Int /\ IsFiniteSet(Aura!Slots)
    BY <1>1, FS_Interval DEF Aura!Slots
  <1>3. ASSUME NEW s \in Aura!Slots PROVE Aura!EntryAt(s) \in Aura!Entries
    <2>1. s \in Nat /\ s + 1 \in 1..Aura!SlotCount
      BY <1>1 DEF Aura!Slots
    <2>2. CASE inlineCount # -1
      <3>0. inlineCount \in -1..InlineSize /\ InlineSize \in Nat
        BY DEF Aura!AurasInv, Aura!AurasTypeOK, Aura!AurasAssumption
      <3>1. s + 1 \in 1..InlineSize
        BY <2>1, <2>2, <3>0 DEF Aura!SlotCount
      <3> QED BY <2>2, <3>1 DEF Aura!EntryAt, Aura!AurasInv, Aura!AurasTypeOK, Aura!Entries
    <2>3. CASE inlineCount = -1
      <3>1. s + 1 \in 1..Len(overflow) /\ overflow \in Seq(Aura!Entries)
        BY <2>1, <2>3 DEF Aura!SlotCount, Aura!AurasInv, Aura!AurasTypeOK, Aura!Entries
      <3> QED BY <2>3, <3>1 DEF Aura!EntryAt
    <2> QED BY <2>2, <2>3
  <1> QED BY <1>0, <1>1, <1>2, <1>3

\* The slots a filter matches are a finite set of numbers.
LEMMA MatchingIs ==
  ASSUME Aura!AurasAssumption, Aura!AurasInv, NEW filter, NEW hidden, NEW S \in SUBSET Aura!Slots
  PROVE  /\ Aura!Matching(filter, hidden) \subseteq Aura!Slots
         /\ S \in SUBSET Int /\ S \in SUBSET Nat /\ IsFiniteSet(S)
  BY SlotsAre, FS_Subset DEF Aura!Matching

-----------------------------------------------------------------------------

\* A batch holds the matching slots from where it starts up to the next, in order.
LEMMA BatchIs ==
  ASSUME Aura!AurasAssumption, Aura!AurasInv, NEW filter \in Aura!Filters, NEW hidden \in BOOLEAN,
         NEW max \in 0..1, NEW token \in Nat
  PROVE  LET batch == Aura!GetAuraSlots(filter, hidden, max, token)
             first == IF token > 0 THEN token - 1 ELSE 0
         IN  /\ batch.token \in Nat /\ batch.slots \in Seq(Nat)
             /\ batch.token # 0 => batch.token - 1 >= first
             /\ \A i \in DOMAIN batch.slots : /\ batch.slots[i] >= first
                                              /\ batch.token # 0 => batch.slots[i] < batch.token
                                                 - 1
             /\ \A i, j \in DOMAIN batch.slots : i < j => batch.slots[i] < batch.slots[j]
             /\ \A s \in Aura!Matching(filter, hidden) :
                 s >= first /\ (batch.token = 0 \/ s < batch.token - 1)
                 => s \in Aura!Range(batch.slots)
  <1> DEFINE batch == Aura!GetAuraSlots(filter, hidden, max, token)
             first == IF token > 0 THEN token - 1 ELSE 0
             S == {s \in Aura!Matching(filter, hidden) : s >= first}
             left == Aura!Ascending(S)
             n == IF max > 0 /\ Len(left) > max THEN max ELSE Len(left)
  <1>1. S \in SUBSET Int /\ S \in SUBSET Nat /\ IsFiniteSet(S) /\ first \in Nat
    <2>1. S \subseteq Aura!Slots
      BY MatchingIs
    <2>2. first \in Nat
      OBVIOUS
    <2> HIDE DEF S, first
    <2> QED BY <2>1, <2>2, MatchingIs
  <1>2. /\ DOMAIN left = 1..Cardinality(S) /\ Cardinality(S) \in Nat
        /\ \A i \in 1..Cardinality(S) : left[i] \in S
        /\ \A x \in S : \E i \in 1..Cardinality(S) : left[i] = x
        /\ \A i, j \in 1..Cardinality(S) : i < j => left[i] < left[j]
    <2> HIDE DEF S
    <2> QED BY <1>1, AuraSlotsInOrder
  <1>3. Len(left) = Cardinality(S)
    <2>1. left = [i \in 1..Cardinality(S) |-> left[i]]
      BY AurasAscend
    <2> HIDE DEF left, S
    <2> QED BY <1>2, <2>1
  <1>4. n \in 0..Len(left) /\ Len(left) \in Nat
    BY <1>2, <1>3
  <1>5. /\ batch.slots = Aura!Take(left, n)
        /\ batch.token = IF n < Len(left) THEN left[n + 1] + 1 ELSE 0
    BY DEF Aura!GetAuraSlots
  <1> DEFINE c == Cardinality(S)
  <1>6. \A i \in 1..c : left[i] \in Nat /\ left[i] >= first
    BY <1>1, <1>2
  <1> HIDE DEF batch, left, S, first, n
  <1>7. batch.token \in Nat /\ (batch.token # 0 => batch.token - 1 >= first)
    BY <1>1, <1>3, <1>4, <1>5, <1>6
  <1>8. /\ batch.slots \in Seq(Nat) /\ DOMAIN batch.slots = 1..n
        /\ \A i \in 1..n : batch.slots[i] = left[i]
    BY <1>3, <1>4, <1>5, <1>6 DEF Aura!Take
  <1>9. ASSUME NEW i \in DOMAIN batch.slots
        PROVE  /\ batch.slots[i] >= first
               /\ batch.token # 0 => batch.slots[i] < batch.token - 1
    <2>1. i \in 1..n /\ i \in 1..c /\ batch.slots[i] = left[i]
      BY <1>3, <1>4, <1>8, <1>9
    <2>2. ASSUME batch.token # 0 PROVE batch.slots[i] < batch.token - 1
      <3>1. n < Len(left) /\ batch.token = left[n + 1] + 1 /\ n + 1 \in 1..c /\ i < n + 1
        BY <1>3, <1>4, <1>5, <2>1, <2>2
      <3>2. left[i] < left[n + 1] /\ left[n + 1] \in Nat
        BY <1>2, <1>6, <2>1, <3>1
      <3> QED BY <2>1, <3>1, <3>2
    <2> QED BY <1>6, <2>1, <2>2
  <1>10. ASSUME NEW i \in DOMAIN batch.slots, NEW j \in DOMAIN batch.slots, i < j
         PROVE  batch.slots[i] < batch.slots[j]
    <2>1. i \in 1..c /\ j \in 1..c /\ batch.slots[i] = left[i] /\ batch.slots[j] = left[j]
      BY <1>3, <1>4, <1>8
    <2> QED BY <1>2, <1>10, <2>1
  <1>11. ASSUME NEW s \in Aura!Matching(filter, hidden), s >= first,
                batch.token = 0 \/ s < batch.token - 1
         PROVE  s \in Aura!Range(batch.slots)
    <2>1. s \in S
      BY <1>11 DEF S
    <2>2. PICK i \in 1..c : left[i] = s
      BY <1>2, <2>1
    <2>3. i \in 1..n
      <3>1. CASE n = c
        BY <3>1, <2>2
      <3>2. CASE n < c
        <4>1. batch.token = left[n + 1] + 1 /\ n + 1 \in 1..c /\ left[n + 1] \in Nat /\ s \in Nat
          BY <1>3, <1>4, <1>5, <1>6, <2>2, <3>2
        <4>2. left[i] < left[n + 1]
          BY <1>11, <2>2, <4>1
        <4>3. ~(n + 1 < i) /\ n + 1 # i
          BY <1>2, <1>6, <2>2, <4>1, <4>2
        <4> QED BY <1>4, <2>2, <4>3
      <3> QED BY <1>3, <1>4, <3>1, <3>2
    <2> QED BY <1>8, <2>2, <2>3 DEF Aura!Range
  <1> QED BY <1>7, <1>8, <1>9, <1>10, <1>11 DEF batch, first

\* A unit has no auras at first, and no scan is on.
LEMMA AurasStart == ASSUME Aura!AurasAssumption, Aura!AurasInit PROVE Aura!AurasInv
  <1>1. Aura!AurasTypeOK
    BY DEF Aura!AurasAssumption, Aura!AurasInit, Aura!AurasTypeOK
  <1>2. scan \in [on : {FALSE}] /\ ~scan.on /\ inlineCount # -1
    BY DEF Aura!AurasInit, Aura!NoScan
  <1> QED BY <1>1, <1>2 DEF Aura!AurasInv, Aura!ScanInv

\* A batch keeps what is said of a scan.
LEMMA BatchesMeetAll ==
  ASSUME Aura!AurasAssumption, Aura!AurasInv, NEW filter \in Aura!Filters, NEW hidden \in BOOLEAN,
         NEW max \in 0..1, NEW token \in Nat, NEW found \in Seq(Nat),
         NEW steady \in SUBSET Aura!Matching(filter, hidden),
         \A i, j \in DOMAIN found : i < j => found[i] < found[j],
         token = 0 => found = <<>>,
         token # 0 => \A i \in DOMAIN found : found[i] < token - 1,
         \A s \in steady : s < token - 1 => s \in Aura!Range(found),
         Aura!Collects(filter, hidden, max, token, found, steady),
         UNCHANGED <<inView, inlineCount, inlined, overflow>>
  PROVE  Aura!AurasInv'
  <1> DEFINE batch == Aura!GetAuraSlots(filter, hidden, max, token)
             first == IF token > 0 THEN token - 1 ELSE 0
             b == batch.slots
             all == found \o b
  <1>1. /\ batch.token \in Nat /\ b \in Seq(Nat)
        /\ batch.token # 0 => batch.token - 1 >= first
        /\ \A i \in DOMAIN b : b[i] >= first /\ (batch.token # 0 => b[i] < batch.token - 1)
        /\ \A i, j \in DOMAIN b : i < j => b[i] < b[j]
        /\ \A s \in Aura!Matching(filter, hidden) :
            s >= first /\ (batch.token = 0 \/ s < batch.token - 1) => s \in Aura!Range(b)
    BY BatchIs
  <1>2. /\ scan' = [on |-> TRUE, filter |-> filter, hidden |-> hidden, max |-> max,
                    token |-> batch.token, found |-> all, steady |-> steady]
    BY DEF Aura!Collects
  <1>3. Aura!Matching(filter, hidden)' = Aura!Matching(filter, hidden) /\ steady \subseteq Nat
        /\ Aura!Matching(filter, hidden) \subseteq Nat
    <2>1. Aura!Matching(filter, hidden)' = Aura!Matching(filter, hidden)
      BY DEF Aura!Matching, Aura!Slots, Aura!SlotCount, Aura!EntryAt
    <2> QED BY <2>1, MatchingIs
  <1> DEFINE new == batch.token
  <1> HIDE DEF batch, b, new
  <1>4. /\ all \in Seq(Nat) /\ Len(found) \in Nat /\ Len(b) \in Nat
        /\ DOMAIN found = 1..Len(found) /\ DOMAIN b = 1..Len(b)
        /\ DOMAIN all = 1..Len(found) + Len(b)
        /\ \A i \in 1..Len(found) : all[i] = found[i] /\ found[i] \in Nat
        /\ \A i \in 1..Len(b) : all[Len(found) + i] = b[i] /\ b[i] \in Nat
    BY <1>1, SMTT(60)
  <1>5. \A i \in DOMAIN found : found[i] < first
    BY <1>4
  <1> HIDE DEF all
  <1>6. ASSUME NEW i \in DOMAIN all, NEW j \in DOMAIN all, i < j PROVE all[i] < all[j]
    <2>0. /\ Len(found) \in Nat /\ Len(b) \in Nat /\ i < j
          /\ i \in 1..Len(found) + Len(b) /\ j \in 1..Len(found) + Len(b)
      BY <1>4, <1>6
    <2>1. CASE j <= Len(found)
      <3>1. i \in 1..Len(found) /\ j \in 1..Len(found)
        BY <2>0, <2>1
      <3> QED BY <1>4, <2>0, <3>1
    <2>2. CASE i > Len(found)
      <3> DEFINE p == i - Len(found)
                 q == j - Len(found)
      <3>1. p \in 1..Len(b) /\ q \in 1..Len(b) /\ p < q /\ i = Len(found) + p
            /\ j = Len(found) + q
        BY <2>0, <2>2
      <3> HIDE DEF p, q
      <3>2. all[i] = b[p] /\ all[j] = b[q]
        BY <1>4, <3>1
      <3> QED BY <1>1, <1>4, <3>1, <3>2
    <2>3. CASE i <= Len(found) /\ j > Len(found)
      <3> DEFINE q == j - Len(found)
      <3>1. q \in 1..Len(b) /\ j = Len(found) + q /\ i \in 1..Len(found)
        BY <2>0, <2>3
      <3> HIDE DEF q
      <3>2. all[i] = found[i] /\ all[j] = b[q] /\ b[q] >= first /\ found[i] < first
        BY <1>1, <1>4, <1>5, <3>1
      <3>3. first \in Nat /\ found[i] \in Nat /\ b[q] \in Nat
        BY <1>4, <3>1
      <3> QED BY <3>2, <3>3
    <2> QED BY <2>0, <2>1, <2>2, <2>3
  <1>7. ASSUME NEW i \in DOMAIN all, new # 0 PROVE all[i] < new - 1
    <2>0. Len(found) \in Nat /\ Len(b) \in Nat /\ i \in 1..Len(found) + Len(b)
      BY <1>4, <1>7
    <2>1. CASE i <= Len(found)
      <3>0. i \in 1..Len(found)
        BY <2>0, <2>1
      <3>1. all[i] = found[i] /\ found[i] < first /\ found[i] \in Nat
        BY <1>4, <1>5, <3>0
      <3>2. new \in Nat /\ new - 1 >= first /\ first \in Nat
        BY <1>1, <1>7 DEF new
      <3> QED BY <3>1, <3>2
    <2>2. CASE i > Len(found)
      <3> DEFINE p == i - Len(found)
      <3>1. p \in 1..Len(b) /\ i = Len(found) + p
        BY <2>0, <2>2
      <3> HIDE DEF p
      <3> QED BY <1>1, <1>4, <1>7, <3>1 DEF new
    <2> QED BY <2>0, <2>1, <2>2
  <1>8. ASSUME NEW s \in steady, new = 0 \/ s < new - 1 PROVE s \in Aura!Range(all)
    <2>1. s \in Nat /\ s \in Aura!Matching(filter, hidden)
      BY <1>3
    <2>2. CASE s >= first
      <3>1. s \in Aura!Range(b)
        BY <1>1, <1>8, <2>1, <2>2 DEF new
      <3>2. PICK i \in 1..Len(b) : b[i] = s
        BY <1>4, <3>1 DEF Aura!Range
      <3>3. all[Len(found) + i] = s /\ Len(found) + i \in DOMAIN all
        BY <1>4, <3>2
      <3> QED BY <3>3 DEF Aura!Range
    <2>3. CASE s < first
      <3>1. s \in Aura!Range(found)
        BY <2>1, <2>3
      <3>2. PICK i \in 1..Len(found) : found[i] = s
        BY <1>4, <3>1 DEF Aura!Range
      <3>3. all[i] = s /\ i \in DOMAIN all
        BY <1>4, <3>2
      <3> QED BY <3>3 DEF Aura!Range
    <2> QED BY <2>1, <2>2, <2>3
  <1>9. Aura!ScanInv'
    BY <1>1, <1>2, <1>3, <1>4, <1>6, <1>7, <1>8 DEF Aura!ScanInv, new
  <1> QED BY <1>1, <1>2, <1>3, <1>4, <1>9 DEF Aura!AurasInv, Aura!AurasTypeOK, new

\* A step that leaves the scan going keeps it right as long as what is left of the steady slots
\* is shown as before.
LEMMA ScansGoOn ==
  ASSUME Aura!AurasInv, NEW gone,
         scan' = IF scan.on THEN [scan EXCEPT !.steady = @ \ gone] ELSE scan,
         \A f, h : Aura!Matching(f, h) \ gone \subseteq Aura!Matching(f, h)'
  PROVE  /\ Aura!ScanInv'
         /\ scan' \in [on : {FALSE}] \cup
                      [on : {TRUE}, filter : Aura!Filters, hidden : BOOLEAN, max : 0..1, token :
                       Nat,
                       found : Seq(Nat), steady : SUBSET Nat]
  <1> DEFINE R == [on : {TRUE}, filter : Aura!Filters, hidden : BOOLEAN, max : 0..1, token : Nat,
                   found : Seq(Nat), steady : SUBSET Nat]
  <1>1. CASE scan.on
    <2>1. scan \in R
      BY <1>1 DEF Aura!AurasInv
    <2>2. scan' = [scan EXCEPT !.steady = @ \ gone]
      BY <1>1
    <2>3. /\ scan' \in R /\ scan'.filter = scan.filter /\ scan'.hidden = scan.hidden
          /\ scan'.max = scan.max /\ scan'.token = scan.token /\ scan'.found = scan.found
          /\ scan'.steady = scan.steady \ gone /\ scan'.on
      BY <2>1, <2>2
    <2>4. scan'.steady \subseteq Aura!Matching(scan.filter, scan.hidden)'
      BY <1>1, <2>3 DEF Aura!AurasInv, Aura!ScanInv
    <2> QED BY <1>1, <2>3, <2>4 DEF Aura!AurasInv, Aura!ScanInv
  <1>2. CASE ~scan.on
    BY <1>2 DEF Aura!AurasInv, Aura!ScanInv
  <1> QED BY <1>1, <1>2

\* Each step keeps the entries in their block and the scan in its place.
LEMMA AurasStay == ASSUME Aura!AurasAssumption, Aura!AurasInv, Aura!AurasNext PROVE Aura!AurasInv'
  <1>1. ASSUME NEW f \in Aura!Filters, NEW h \in BOOLEAN, NEW n \in 0..1, Aura!ScanStarts(f, h, n)
        PROVE  Aura!AurasInv'
    <2>1. <<>> \in Seq(Nat) /\ DOMAIN <<>> = {}
          /\ Aura!Matching(f, h) \in SUBSET Aura!Matching(f, h)
      OBVIOUS
    <2>2. \A s \in Aura!Matching(f, h) : ~(s < 0 - 1)
      BY MatchingIs, SMTT(60)
    <2> QED BY <1>1, <2>1, <2>2, BatchesMeetAll DEF Aura!ScanStarts
  <1>2. ASSUME Aura!ScanContinues PROVE Aura!AurasInv'
    <2>1. /\ scan.filter \in Aura!Filters /\ scan.hidden \in BOOLEAN /\ scan.max \in 0..1
          /\ scan.token \in Nat /\ scan.token # 0 /\ scan.found \in Seq(Nat)
          /\ scan.steady \in SUBSET Aura!Matching(scan.filter, scan.hidden)
          /\ \A i, j \in DOMAIN scan.found : i < j => scan.found[i] < scan.found[j]
          /\ \A i \in DOMAIN scan.found : scan.found[i] < scan.token - 1
          /\ \A s \in scan.steady : s < scan.token - 1 => s \in Aura!Range(scan.found)
      BY <1>2 DEF Aura!ScanContinues, Aura!AurasInv, Aura!ScanInv
    <2> QED BY <1>2, <2>1, BatchesMeetAll DEF Aura!ScanContinues
  <1>3. ASSUME Aura!ScanEnds PROVE Aura!AurasInv'
    <2>1. scan' \in [on : {FALSE}] /\ ~scan'.on
      BY <1>3 DEF Aura!ScanEnds, Aura!NoScan
    <2> QED BY <1>3, <2>1 DEF Aura!ScanEnds, Aura!AurasInv, Aura!ScanInv, Aura!AurasTypeOK
  <1>4. ASSUME NEW slot \in Aura!Slots, NEW e \in Aura!Entries, Aura!AuraUpdated(slot, e)
        PROVE  Aura!AurasInv'
    <2>0. slot \in Nat /\ slot + 1 \in 1..Aura!SlotCount /\ Aura!SlotCount \in Nat
      BY SlotsAre DEF Aura!Slots
    <2>1. Aura!AurasTypeOK' /\ (inlineCount' = -1 => Len(overflow') = InlineSize + 1)
          /\ Aura!SlotCount' = Aura!SlotCount
      <3>1. CASE inlineCount # -1
        BY <1>4, <3>1 DEF Aura!AuraUpdated, Aura!AurasInv, Aura!AurasTypeOK, Aura!Entries,
           Aura!SlotCount
      <3>2. CASE inlineCount = -1
        <4>1. overflow \in Seq(Aura!Entries)
          BY DEF Aura!AurasInv, Aura!AurasTypeOK, Aura!Entries
        <4>2. overflow' \in Seq(Aura!Entries) /\ Len(overflow') = Len(overflow)
          BY <1>4, <3>2, <4>1 DEF Aura!AuraUpdated
        <4> QED
          BY <1>4, <3>2, <4>2 DEF Aura!AuraUpdated, Aura!AurasInv, Aura!AurasTypeOK, Aura!Entries,
             Aura!SlotCount
      <3> QED BY <3>1, <3>2
    <2>2. ASSUME NEW s \in Aura!Slots, s # slot PROVE Aura!EntryAt(s)' = Aura!EntryAt(s)
      <3>1. s + 1 # slot + 1 /\ s \in Nat /\ s + 1 \in 1..Aura!SlotCount
        BY <2>0, <2>2, SlotsAre DEF Aura!Slots
      <3>2. CASE inlineCount # -1
        <4>0. /\ inlineCount \in -1..InlineSize /\ InlineSize \in Nat
              /\ DOMAIN inlined = 1..InlineSize
          BY DEF Aura!AurasInv, Aura!AurasTypeOK, Aura!AurasAssumption
        <4>2. Aura!SlotCount \in {0, inlineCount}
          BY <3>2 DEF Aura!SlotCount
        <4>3. s + 1 \in DOMAIN inlined
          BY <3>1, <4>0, <4>2
        <4>1. inlined' = [inlined EXCEPT ![slot + 1] = e] /\ s + 1 \in DOMAIN inlined
              /\ inlineCount' = inlineCount
          BY <1>4, <3>2, <4>3 DEF Aura!AuraUpdated
        <4> QED BY <3>1, <3>2, <4>1 DEF Aura!EntryAt
      <3>3. CASE inlineCount = -1
        <4>1. overflow' = [overflow EXCEPT ![slot + 1] = e] /\ s + 1 \in DOMAIN overflow
              /\ inlineCount' = inlineCount
          BY <1>4, <3>1, <3>3 DEF Aura!AuraUpdated, Aura!SlotCount, Aura!AurasInv,
             Aura!AurasTypeOK
        <4> QED BY <3>1, <3>3, <4>1 DEF Aura!EntryAt
      <3> QED BY <3>2, <3>3
    <2>3. \A f, h : Aura!Matching(f, h) \ {slot} \subseteq Aura!Matching(f, h)'
      BY <2>1, <2>2 DEF Aura!Matching, Aura!Slots
    <2> QED
      BY <1>4, <2>1, <2>3, ScansGoOn, ZenonT(60) DEF Aura!AuraUpdated, Aura!Forgets, Aura!AurasInv
  <1>5. ASSUME NEW e \in AuraEntries, Aura!AuraAdded(e) PROVE Aura!AurasInv'
    <2>0. /\ inView /\ inlineCount \in Nat /\ Aura!SlotCount = inlineCount
          /\ InlineSize \in Nat \ {0}
          /\ overflow \in Seq(Aura!Entries) /\ inlined \in [1..InlineSize -> Aura!Entries]
          /\ e \in Aura!Entries
      <3>1. /\ inView /\ InlineSize \in Nat \ {0} /\ overflow \in Seq(Aura!Entries)
            /\ inlined \in [1..InlineSize -> Aura!Entries] /\ inlineCount \in -1..InlineSize
            /\ e \in Aura!Entries
        BY <1>5 DEF Aura!AuraAdded, Aura!AurasInv, Aura!AurasTypeOK, Aura!AurasAssumption,
           Aura!Entries
      <3>2. inlineCount # -1
        BY <1>5, <3>1 DEF Aura!AuraAdded, Aura!SlotCount, Aura!AurasInv
      <3> QED BY <3>1, <3>2 DEF Aura!SlotCount
    <2>1. CASE Aura!SlotCount < InlineSize
      <3>1. /\ inlineCount' = inlineCount + 1
            /\ inlined' = [inlined EXCEPT ![inlineCount + 1] = e]
            /\ overflow' = overflow /\ inView' = inView /\ scan' = scan
        BY <1>5, <2>1 DEF Aura!AuraAdded
      <3>2. Aura!AurasTypeOK' /\ inlineCount' # -1 /\ Aura!SlotCount' = Aura!SlotCount + 1
        BY <2>0, <2>1, <3>1 DEF Aura!AurasInv, Aura!AurasTypeOK, Aura!Entries, Aura!SlotCount
      <3>3. ASSUME NEW s \in Aura!Slots
            PROVE  s \in Aura!Slots' /\ Aura!EntryAt(s)' = Aura!EntryAt(s)
        <4>1. s \in Nat /\ s < inlineCount
          BY <2>0, <3>3 DEF Aura!Slots
        <4>2. s + 1 \in DOMAIN inlined /\ s + 1 # inlineCount + 1
          BY <2>0, <2>1, <4>1
        <4>3. s \in Aura!Slots'
          BY <2>0, <3>2, <4>1 DEF Aura!Slots
        <4> QED BY <2>0, <3>1, <4>1, <4>2, <4>3 DEF Aura!EntryAt
      <3>4. \A f, h : Aura!Matching(f, h) \ {} \subseteq Aura!Matching(f, h)'
        BY <3>3 DEF Aura!Matching
      <3>5. scan' = IF scan.on THEN [scan EXCEPT !.steady = @ \ {}] ELSE scan
        BY <3>1 DEF Aura!AurasInv
      <3> QED BY <3>2, <3>4, <3>5, ScansGoOn DEF Aura!AurasInv
    <2>2. CASE ~(Aura!SlotCount < InlineSize)
      <3>1. /\ inlineCount' = -1 /\ overflow' = inlined \o <<e>> /\ inlineCount = InlineSize
            /\ inlined' = inlined /\ inView' = inView /\ scan' = scan
        BY <1>5, <2>0, <2>2 DEF Aura!AuraAdded
      <3>2. inlined \in Seq(Aura!Entries) /\ Len(inlined) = InlineSize
        BY <2>0
      <3>3. /\ overflow' \in Seq(Aura!Entries) /\ Len(overflow') = InlineSize + 1
            /\ \A i \in 1..InlineSize : overflow'[i] = inlined[i]
        BY <2>0, <3>1, <3>2
      <3>4. Aura!AurasTypeOK' /\ Aura!SlotCount' = Aura!SlotCount + 1
        BY <2>0, <3>1, <3>3 DEF Aura!AurasInv, Aura!AurasTypeOK, Aura!Entries, Aura!SlotCount
      <3>5. ASSUME NEW s \in Aura!Slots
            PROVE  s \in Aura!Slots' /\ Aura!EntryAt(s)' = Aura!EntryAt(s)
        <4>1. s \in Nat /\ s < inlineCount
          BY <2>0, <3>5 DEF Aura!Slots
        <4>2. s + 1 \in 1..InlineSize
          BY <2>0, <3>1, <4>1
        <4>3. s \in Aura!Slots'
          BY <2>0, <3>4, <4>1 DEF Aura!Slots
        <4> QED BY <2>0, <3>1, <3>3, <4>2, <4>3 DEF Aura!EntryAt
      <3>6. \A f, h : Aura!Matching(f, h) \ {} \subseteq Aura!Matching(f, h)'
        BY <3>5 DEF Aura!Matching
      <3>7. scan' = IF scan.on THEN [scan EXCEPT !.steady = @ \ {}] ELSE scan
        BY <3>1 DEF Aura!AurasInv
      <3> QED BY <3>1, <3>3, <3>4, <3>6, <3>7, ScansGoOn DEF Aura!AurasInv
    <2> QED BY <2>1, <2>2
  <1>6. ASSUME Aura!LeavesView PROVE Aura!AurasInv'
    <2>1. \A f, h : Aura!Matching(f, h) \ Aura!Slots \subseteq Aura!Matching(f, h)'
      BY MatchingIs
    <2> QED
      BY <1>6, <2>1, ScansGoOn, ZenonT(60)
         DEF Aura!LeavesView, Aura!Forgets, Aura!AurasInv, Aura!AurasTypeOK
  <1>7. ASSUME Aura!ComesBack PROVE Aura!AurasInv'
    <2>1. Aura!Slots = {}
      BY <1>7 DEF Aura!ComesBack, Aura!Slots, Aura!SlotCount
    <2>2. \A f, h : Aura!Matching(f, h) \ {} \subseteq Aura!Matching(f, h)'
      BY <2>1, MatchingIs
    <2>3. scan' = IF scan.on THEN [scan EXCEPT !.steady = @ \ {}] ELSE scan
      BY <1>7 DEF Aura!ComesBack, Aura!AurasInv
    <2>4. Aura!AurasTypeOK' /\ inlineCount' # -1
      <3>1. <<>> \in Seq(Aura!Entries) /\ Len(<<>>) = 0
        OBVIOUS
      <3> QED
        BY <1>7, <3>1 DEF Aura!ComesBack, Aura!AurasInv, Aura!AurasTypeOK, Aura!AurasAssumption,
           Aura!Entries
    <2> QED BY <2>2, <2>3, <2>4, ScansGoOn DEF Aura!AurasInv
  <1> QED BY <1>1, <1>2, <1>3, <1>4, <1>5, <1>6, <1>7 DEF Aura!AurasNext, Aura!Entries

\* So a scan that is done has met each aura that stayed.
LEMMA ScansMissNothing == ASSUME Aura!AurasAssumption, Aura!AurasInv PROVE Aura!ScanMissesNothing
  <1> SUFFICES ASSUME scan.on
               PROVE  /\ Aura!IsInjective(scan.found)
                      /\ scan.token = 0 => scan.steady \subseteq Aura!Range(scan.found)
                      /\ \A s \in Aura!Range(scan.found) : \A d \in Aura!PushBySlot(s) :
                         d.spellId # 0
    BY DEF Aura!ScanMissesNothing
  <1>1. /\ scan.found \in Seq(Nat)
        /\ \A i, j \in DOMAIN scan.found : i < j => scan.found[i] < scan.found[j]
    BY DEF Aura!AurasInv, Aura!ScanInv
  <1>2. Aura!IsInjective(scan.found)
    <2> SUFFICES ASSUME NEW i \in DOMAIN scan.found, NEW j \in DOMAIN scan.found,
                        scan.found[i] = scan.found[j], i # j
                 PROVE  FALSE
      BY DEF Aura!IsInjective
    <2>1. i \in Nat /\ j \in Nat /\ scan.found[i] \in Nat /\ scan.found[j] \in Nat
      BY <1>1
    <2> QED BY <1>1, <2>1
  <1>3. scan.token = 0 => scan.steady \subseteq Aura!Range(scan.found)
    BY DEF Aura!AurasInv, Aura!ScanInv
  <1>4. \A s : \A d \in Aura!PushBySlot(s) : d.spellId # 0
    BY DEF Aura!PushBySlot, Aura!ResolveAura, Aura!IsLiveSlot
  <1> QED BY <1>2, <1>3, <1>4

\* A whole table is of the slots that are shown, in order.
LEMMA TablesAre ==
  ASSUME Aura!AurasAssumption, Aura!AurasInv, NEW filters, NEW hidden
  PROVE  LET S == Aura!Shown(filters, hidden)
             whole == Aura!GetUnitAuras(filters, hidden)
         IN  /\ IsFiniteSet(S) /\ S \in SUBSET Int /\ Cardinality(S) \in Nat
             /\ Len(whole) = Cardinality(S) /\ DOMAIN whole = 1..Cardinality(S)
             /\ \A n \in 1..Cardinality(S) : whole[n] = Aura!ResolveAura(Aura!Ascending(S)[n])
  <1> DEFINE S == Aura!Shown(filters, hidden)
             whole == Aura!GetUnitAuras(filters, hidden)
  <1>1. S \in SUBSET Aura!Slots
    BY DEF Aura!Shown
  <1>2. S \in SUBSET Int /\ IsFiniteSet(S)
    <2> HIDE DEF S
    <2> QED BY <1>1, MatchingIs
  <1>3. whole = [i \in DOMAIN Aura!Ascending(S) |-> Aura!ResolveAura(Aura!Ascending(S)[i])]
    BY DEF Aura!GetUnitAuras, Aura!Shown
  <1> HIDE DEF S, whole
  <1>4. DOMAIN Aura!Ascending(S) = 1..Cardinality(S) /\ Cardinality(S) \in Nat
    BY <1>2, AuraSlotsInOrder
  <1> QED BY <1>2, <1>3, <1>4 DEF S, whole

\* One filter's table, by its indices, by the batches' slots and by its spells.
LEMMA OneFilter ==
  ASSUME Aura!AurasAssumption, Aura!AurasInv, NEW f \in Aura!Filters, NEW h \in BOOLEAN
  PROVE  LET whole == Aura!GetUnitAuras({f}, h)
             slots == Aura!GetAuraSlots(f, h, 0, 0).slots
         IN  /\ Len(slots) = Len(whole)
             /\ \A n \in 1..Len(whole) + 1 :
                 Aura!GetAuraDataByIndex(n, f, h) =
                     IF n \in DOMAIN whole THEN {whole[n]} \cap Aura!PushBySlot(slots[n]) ELSE {}
             /\ \A d \in Aura!Range(whole) :
                 /\ h \/ d.named
                 /\ \E d2 \in Aura!GetUnitAuraBySpellID(d.spellId, {f}) : d2.slot <= d.slot
                 /\ Aura!GetUnitAuraBySpellID(d.spellId, {}) # {}
  <1> DEFINE whole == Aura!GetUnitAuras({f}, h)
             slots == Aura!GetAuraSlots(f, h, 0, 0).slots
             S == Aura!Shown({f}, h)
             c == Cardinality(S)
             A == Aura!Ascending(S)
             Nth(n) == {s \in S : Cardinality({t \in S : t <= s}) = n}
  <1>1. S = Aura!Matching(f, h) /\ S \subseteq Aura!Slots
    BY DEF Aura!Shown, Aura!Matching, Aura!MatchesFilter
  <1>2. /\ IsFiniteSet(S) /\ S \in SUBSET Int /\ c \in Nat
        /\ Len(whole) = c /\ DOMAIN whole = 1..c
        /\ \A n \in 1..c : whole[n] = Aura!ResolveAura(A[n])
    <2> HIDE DEF S
    <2> QED BY TablesAre DEF S
  <1>3. /\ DOMAIN A = 1..c
        /\ \A i \in 1..c : A[i] \in S /\ Cardinality({y \in S : y < A[i]}) = i - 1
        /\ \A x \in S : /\ Cardinality({y \in S : y < x}) + 1 \in 1..c
                        /\ A[Cardinality({y \in S : y < x}) + 1] = x
        /\ \A i, j \in 1..c : i < j => A[i] < A[j]
    <2> HIDE DEF S
    <2> QED BY <1>2, AuraSlotsInOrder DEF c, A
  <1>4. slots = [i \in 1..c |-> A[i]]
    <2> DEFINE first == IF 0 > 0 THEN 0 - 1 ELSE 0
               left == Aura!Ascending({s \in Aura!Matching(f, h) : s >= first})
    <2>1. left = A
      <3>1. first = 0
        OBVIOUS
      <3>2. {s \in Aura!Matching(f, h) : s >= first} = S
        BY <1>1, <3>1, MatchingIs
      <3> QED BY <3>2
    <2>2. Len(A) = c
      <3>1. A = [i \in 1..c |-> A[i]]
        BY AurasAscend
      <3> HIDE DEF A, c
      <3> QED BY <1>2, <3>1
    <2>3. slots = Aura!Take(A, Len(A))
      <3>1. slots = Aura!Take(left, IF 0 > 0 /\ Len(left) > 0 THEN 0 ELSE Len(left))
        BY DEF Aura!GetAuraSlots
      <3> HIDE DEF left, A, slots
      <3> QED BY <2>1, <3>1
    <2> QED BY <2>2, <2>3 DEF Aura!Take
  <1> HIDE DEF S, A, whole, slots
  <1>5. ASSUME NEW s \in S
        PROVE  Cardinality({t \in S : t <= s}) = Cardinality({y \in S : y < s}) + 1
    <2> DEFINE B == {y \in S : y < s}
               C == {t \in S : t <= s}
    <2>1. C = B \cup {s} /\ s \notin B
      <3>1. \A t \in S : t \in Int /\ s \in Int /\ (t <= s <=> t < s \/ t = s) /\ ~(s < s)
        BY <1>2
      <3> QED BY <3>1
    <2>2. IsFiniteSet(B)
      BY <1>2, FS_Subset
    <2> HIDE DEF B, C
    <2>3. Cardinality(C) = Cardinality(B) + 1
      BY <2>1, <2>2, FS_AddElement
    <2> QED BY <2>3 DEF B, C
  <1>6. ASSUME NEW n \in 1..c PROVE Nth(n) = {A[n]}
    <2>1. A[n] \in Nth(n)
      <3>1. A[n] \in S /\ Cardinality({t \in S : t <= A[n]}) = (n - 1) + 1
        BY <1>3, <1>5
      <3>2. (n - 1) + 1 = n
        BY <1>2
      <3> QED BY <3>1, <3>2
    <2>2. ASSUME NEW s \in Nth(n) PROVE s = A[n]
      <3>1. s \in S /\ Cardinality({y \in S : y < s}) + 1 = n
        BY <1>5
      <3> QED BY <1>3, <3>1
    <2> QED BY <2>1, <2>2
  <1>7. Nth(c + 1) = {}
    <2> SUFFICES ASSUME NEW s \in S, Cardinality({t \in S : t <= s}) = c + 1 PROVE FALSE
      OBVIOUS
    <2>1. Cardinality({y \in S : y < s}) + 1 \in 1..c
          /\ Cardinality({y \in S : y < s}) + 1 = c + 1
      BY <1>3, <1>5
    <2> QED BY <1>2, <2>1
  <1>8. ASSUME NEW n PROVE Aura!GetAuraDataByIndex(n, f, h) = {Aura!ResolveAura(s) : s \in Nth(n)}
    BY <1>1, AurasCounted DEF Aura!GetAuraDataByIndex, Aura!FindNthSlot
  <1>9. ASSUME NEW s \in S PROVE Aura!PushBySlot(s) = {Aura!ResolveAura(s)}
    BY <1>1 DEF Aura!PushBySlot, Aura!Matching
  <1>10. ASSUME NEW n \in 1..c + 1
         PROVE  Aura!GetAuraDataByIndex(n, f, h) =
                     IF n \in DOMAIN whole THEN {whole[n]} \cap Aura!PushBySlot(slots[n]) ELSE {}
    <2> HIDE DEF Nth
    <2>1. CASE n \in 1..c
      <3>1. slots[n] = A[n] /\ whole[n] = Aura!ResolveAura(A[n]) /\ A[n] \in S
        BY <1>2, <1>3, <1>4, <2>1
      <3>2. Aura!GetAuraDataByIndex(n, f, h) = {Aura!ResolveAura(A[n])}
        BY <1>6, <1>8, <2>1
      <3>3. Aura!PushBySlot(slots[n]) = {Aura!ResolveAura(A[n])}
        BY <1>9, <3>1
      <3> QED BY <1>2, <2>1, <3>1, <3>2, <3>3
    <2>2. CASE n = c + 1
      <3>1. n \notin DOMAIN whole
        BY <1>2, <2>2
      <3>2. Aura!GetAuraDataByIndex(n, f, h) = {}
        BY <1>7, <1>8, <2>2
      <3> QED BY <3>1, <3>2
    <2> QED BY <1>2, <2>1, <2>2
  <1>11. ASSUME NEW d \in Aura!Range(whole)
         PROVE  /\ h \/ d.named
                /\ \E d2 \in Aura!GetUnitAuraBySpellID(d.spellId, {f}) : d2.slot <= d.slot
                /\ Aura!GetUnitAuraBySpellID(d.spellId, {}) # {}
    <2>1. PICK n \in 1..c : d = whole[n]
      BY <1>2 DEF Aura!Range
    <2>2. PICK s \in S : d = Aura!ResolveAura(s)
      BY <1>2, <1>3, <2>1
    <2> DEFINE e == Aura!EntryAt(s)
               Found(filters) == {x \in Aura!Slots : LET y == Aura!EntryAt(x) IN
                    Aura!IsLiveSlot(y) /\ y.spell = e.spell
                    /\ \A g \in filters : Aura!MatchesFilter(y, g)}
    <2>3. /\ d.slot = s /\ d.spellId = e.spell /\ d.named = (e.spell \in DOMAIN SpellDbc)
          /\ s \in Aura!Slots /\ Aura!IsLiveSlot(e) /\ Aura!MatchesFilter(e, f)
          /\ (h \/ Aura!IsVisible(e.spell))
      BY <1>1, <2>2 DEF Aura!ResolveAura, Aura!Matching
    <2>4. h \/ d.named
      BY <2>3 DEF Aura!IsVisible
    <2>5. s \in Found({f}) /\ s \in Found({}) /\ Found({f}) \in SUBSET Nat
          /\ Found({}) \in SUBSET Nat
      BY <2>3, SlotsAre
    <2>6. /\ Aura!FindSlotBySpellID(d.spellId, {f}) = {Aura!Min(Found({f}))}
          /\ Aura!FindSlotBySpellID(d.spellId, {}) = {Aura!Min(Found({}))}
      BY <2>3, <2>5 DEF Aura!FindSlotBySpellID
    <2> HIDE DEF Found, e
    <2>7. Aura!Min(Found({f})) <= s
      <3>1. \E x \in Found({f}) : \A y \in Found({f}) : x <= y
        BY <2>5, LeastNat
      <3> QED BY <2>5, <3>1 DEF Aura!Min
    <2>8. Aura!ResolveAura(Aura!Min(Found({f}))) \in Aura!GetUnitAuraBySpellID(d.spellId, {f})
          /\ Aura!GetUnitAuraBySpellID(d.spellId, {}) # {}
      BY <2>6 DEF Aura!GetUnitAuraBySpellID
    <2>9. Aura!ResolveAura(Aura!Min(Found({f}))).slot = Aura!Min(Found({f}))
      BY DEF Aura!ResolveAura
    <2> QED BY <2>3, <2>4, <2>7, <2>8, <2>9
  <1>12. Len(slots) = c
    BY <1>2, <1>4
  <1> QED BY <1>2, <1>10, <1>11, <1>12 DEF whole, slots

\* So the ways to the auras agree.
LEMMA AurasAreOne == ASSUME Aura!AurasAssumption, Aura!AurasInv PROVE Aura!AurasAgree
  <1>1. ASSUME NEW h \in BOOLEAN
        PROVE  Len(Aura!GetUnitAuras({}, h)) =
                 Len(Aura!GetUnitAuras({"HELPFUL"}, h)) + Len(Aura!GetUnitAuras({"HARMFUL"}, h))
    <2> DEFINE A == Aura!Shown({}, h)
               B == Aura!Shown({"HELPFUL"}, h)
               C == Aura!Shown({"HARMFUL"}, h)
    <2>1. A = B \cup C
      BY SlotsAre DEF Aura!Shown
    <2>2. B \cap C = {}
      BY DEF Aura!Shown
    <2>3. IsFiniteSet(B) /\ IsFiniteSet(C) /\ Cardinality(B) \in Nat /\ Cardinality(C) \in Nat
          /\ Len(Aura!GetUnitAuras({}, h)) = Cardinality(A)
          /\ Len(Aura!GetUnitAuras({"HELPFUL"}, h)) = Cardinality(B)
          /\ Len(Aura!GetUnitAuras({"HARMFUL"}, h)) = Cardinality(C)
      <3> HIDE DEF A, B, C
      <3> QED BY TablesAre DEF A, B, C
    <2> HIDE DEF A, B, C
    <2>4. Cardinality(B \cap C) = 0
      BY <2>2, FS_EmptySet
    <2>5. Cardinality(A) = Cardinality(B) + Cardinality(C)
      <3>1. Cardinality(B \cup C) = Cardinality(B) + Cardinality(C) - Cardinality(B \cap C)
        BY <2>3, FS_Union
      <3> QED BY <2>1, <2>3, <2>4, <3>1
    <2> QED BY <2>3, <2>5
  <1> QED BY <1>1, OneFilter DEF Aura!AurasAgree

-----------------------------------------------------------------------------
(* Friends (Social).                                                       *)

CONSTANTS
    Players, UnitTokens, Classes, Areas, FriendNotes, MaxFriends

VARIABLES
    friends, ignored, namesCached, units, wanted

Friends  == INSTANCE Social WITH cached <- namesCached

socialVars == <<friends, ignored, namesCached, units, wanted>>

\* Its sets are counted as ours are.
LEMMA FriendsCounted ==
  ASSUME NEW S
  PROVE  Friends!Cardinality(S) = Cardinality(S) /\ (Friends!IsFiniteSet(S) <=> IsFiniteSet(S))
  BY DEF Friends!Cardinality, Cardinality, Friends!IsFiniteSet, IsFiniteSet

\* The first friend of a name or a GUID is one.
LEMMA FirstFriend ==
  ASSUME NEW P \in SUBSET Nat, P # {} PROVE \E m \in P : Friends!First(P) = {m}
  BY LeastIsOne DEF Friends!First

\* What is left of a sequence without its i-th.
LEMMA RemovedAt ==
  ASSUME NEW S, NEW s \in Seq(S), NEW i \in DOMAIN s
  PROVE  /\ Friends!RemoveAt(s, i) \in Seq(S) /\ Len(Friends!RemoveAt(s, i)) = Len(s) - 1
         /\ \A j \in 1..Len(s) - 1 : Friends!RemoveAt(s, i)[j] = s[IF j < i THEN j ELSE j + 1]
  <1>1. SubSeq(s, 1, i - 1) \in Seq(S) /\ Len(SubSeq(s, 1, i - 1)) = i - 1
        /\ \A j \in 1..i - 1 : SubSeq(s, 1, i - 1)[j] = s[j]
    OBVIOUS
  <1>2. SubSeq(s, i + 1, Len(s)) \in Seq(S) /\ Len(SubSeq(s, i + 1, Len(s))) = Len(s) - i
        /\ \A j \in 1..Len(s) - i : SubSeq(s, i + 1, Len(s))[j] = s[i + j]
    OBVIOUS
  <1> DEFINE a == SubSeq(s, 1, i - 1)
             b == SubSeq(s, i + 1, Len(s))
  <1>3. Friends!RemoveAt(s, i) = a \o b /\ i \in 1..Len(s) /\ Len(s) \in Nat
    BY DEF Friends!RemoveAt
  <1> HIDE DEF a, b
  <1>4. /\ a \o b \in Seq(S) /\ Len(a \o b) = Len(s) - 1
        /\ \A j \in 1..Len(s) - 1 : (a \o b)[j] = IF j <= i - 1 THEN a[j] ELSE b[j - (i - 1)]
    <2>1. a \in Seq(S) /\ b \in Seq(S) /\ Len(a) = i - 1 /\ Len(b) = Len(s) - i
      BY <1>1, <1>2 DEF a, b
    <2> QED BY <1>3, <2>1, SMTT(60)
  <1>5. ASSUME NEW j \in 1..Len(s) - 1 PROVE (a \o b)[j] = s[IF j < i THEN j ELSE j + 1]
    <2> DEFINE x == (a \o b)[j]
    <2>1. ASSUME j < i PROVE x = s[j]
      BY <1>1, <1>3, <1>4, <2>1 DEF a
    <2>2. ASSUME ~(j < i) PROVE x = s[j + 1]
      <3>1. j - (i - 1) \in 1..Len(s) - i /\ i + (j - (i - 1)) = j + 1 /\ ~(j <= i - 1)
        BY <1>3, <2>2
      <3>2. b[j - (i - 1)] = s[j + 1]
        BY <1>2, <3>1 DEF b
      <3> QED BY <1>4, <3>1, <3>2
    <2> HIDE DEF x
    <2>3. x = s[IF j < i THEN j ELSE j + 1]
      BY <2>1, <2>2
    <2> QED BY <2>3 DEF x
  <1> QED BY <1>3, <1>4, <1>5

\* The list is empty at first.
LEMMA FriendsStart == ASSUME Friends!SocialAssumption, Friends!SocialInit PROVE Friends!FriendsInv
  <1>1. /\ friends = <<>> /\ ignored = <<>> /\ namesCached = <<>>
        /\ units = [t \in UnitTokens |-> Friends!NoPlayer] /\ wanted = [p \in Players |-> ""]
    BY DEF Friends!SocialInit
  <1>2. friends \in Seq(Friends!Entries) /\ ignored \in Seq(Players)
    <2>1. \A S : <<>> \in Seq(S)
      OBVIOUS
    <2>2. friends \in Seq(Friends!Entries)
      BY <1>1, <2>1
    <2>3. ignored \in Seq(Players)
      BY <1>1, <2>1
    <2> QED BY <2>2, <2>3
  <1>3. Len(friends) = 0 /\ DOMAIN friends = {} /\ DOMAIN namesCached = {}
    <2>1. Len(<<>>) = 0 /\ DOMAIN <<>> = {}
      OBVIOUS
    <2>2. Len(friends) = 0 /\ DOMAIN friends = {}
      BY ONLY <1>1, <2>1
    <2>3. DOMAIN namesCached = {}
      BY ONLY <1>1, <2>1
    <2> QED BY <2>2, <2>3
  <1>4. MaxFriends \in Nat /\ "" \in FriendNotes
    BY DEF Friends!SocialAssumption
  <1>5. units \in [UnitTokens -> Players \cup {Friends!NoPlayer}]
        /\ wanted \in [Players -> FriendNotes]
    BY <1>1, <1>4
  <1>6. Len(friends) <= MaxFriends
    <2>1. \A x \in Nat : 0 <= x
      OBVIOUS
    <2> QED BY <1>3, <1>4, <2>1
  <1>7. Friends!SocialTypeOK
    BY <1>2, <1>3, <1>5, <1>6 DEF Friends!SocialTypeOK
  <1> QED BY <1>3, <1>7 DEF Friends!FriendsInv

\* A place without an entry of a player is one of no player's.
LEMMA NotListed ==
  ASSUME Friends!FriendsInv, NEW p
  PROVE  /\ Friends!EntryByGuid(p) = {} <=> \A i \in DOMAIN friends : friends[i].guid # p
         /\ Friends!EntryByName(p) = {} <=> \A i \in DOMAIN friends : friends[i].name # p
         /\ \A i \in Friends!EntryByName(p) : i \in DOMAIN friends /\ friends[i].name = p
  <1> DEFINE G == {i \in DOMAIN friends : friends[i].guid = p}
             N == {i \in DOMAIN friends : friends[i].name = p}
  <1>1. DOMAIN friends \subseteq Nat
    BY DEF Friends!FriendsInv, Friends!SocialTypeOK
  <1>2. ASSUME NEW P \in SUBSET Nat PROVE Friends!First(P) = {} <=> P = {}
    <2>1. P = {} => Friends!First(P) = {}
      BY DEF Friends!First
    <2>2. P # {} => Friends!First(P) # {}
      BY FirstFriend
    <2> QED BY <2>1, <2>2
  <1>3. Friends!EntryByGuid(p) = {} <=> G = {}
    BY <1>1, <1>2 DEF Friends!EntryByGuid
  <1>4. Friends!EntryByName(p) = {} <=> N = {}
    BY <1>1, <1>2 DEF Friends!EntryByName
  <1> QED BY <1>3, <1>4 DEF Friends!EntryByName, Friends!First

\* The list in another order, less some entries, is right if what its entries say is.
LEMMA Reordered ==
  ASSUME Friends!FriendsInv, NEW new \in Seq(Friends!Entries), Len(new) <= MaxFriends,
         NEW m \in [DOMAIN new -> DOMAIN friends],
         \A i, j \in DOMAIN new : m[i] = m[j] => i = j,
         \A i \in DOMAIN new :
            LET old == friends[m[i]] IN
            /\ new[i].guid = old.guid /\ new[i].name = old.name /\ new[i].note = old.note
            /\ new[i].connected => new[i].class \in DOMAIN Classes
               /\ new[i].area \in DOMAIN Areas,
         friends' = new, UNCHANGED <<ignored, namesCached, units, wanted>>
  PROVE  Friends!FriendsInv'
  <1>1. Friends!SocialTypeOK'
    BY DEF Friends!FriendsInv, Friends!SocialTypeOK
  <1>2. \A i, j \in DOMAIN new : new[i].guid = new[j].guid => i = j
    BY DEF Friends!FriendsInv
  <1>3. ASSUME NEW i \in DOMAIN new PROVE Friends!EntryOK(new[i])'
    BY DEF Friends!FriendsInv, Friends!EntryOK
  <1> QED BY <1>1, <1>2, <1>3 DEF Friends!FriendsInv

\* The list in its order, with other names or notes.
LEMMA Renamed ==
  ASSUME Friends!FriendsInv, DOMAIN friends' = DOMAIN friends, friends' \in Seq(Friends!Entries),
         Len(friends') = Len(friends),
         \A i \in DOMAIN friends : friends'[i].guid = friends[i].guid
         /\ Friends!EntryOK(friends[i])',
         ignored' = ignored, units' = units, DOMAIN namesCached' \subseteq Players,
         wanted' \in [Players -> FriendNotes]
  PROVE  Friends!FriendsInv'
  <1>1. Friends!SocialTypeOK'
    BY DEF Friends!FriendsInv, Friends!SocialTypeOK
  <1> QED BY <1>1 DEF Friends!FriendsInv

\* A note set for a friend is the friend's alone.
LEMMA NotesStay ==
  ASSUME Friends!SocialAssumption, Friends!FriendsInv, NEW P \in SUBSET DOMAIN friends,
         NEW note \in FriendNotes,
         NEW p \in Players, Friends!Apply(P, note),
         \A i \in P : friends[i].guid = p,
         wanted' = IF P # {} THEN [wanted EXCEPT ![p] = note] ELSE wanted
  PROVE  Friends!FriendsInv'
  <1>1. friends \in Seq(Friends!Entries) /\ wanted \in [Players -> FriendNotes]
        /\ DOMAIN namesCached \subseteq Players
    BY DEF Friends!FriendsInv, Friends!SocialTypeOK
  <1> DEFINE e(i) == IF \E j \in P : friends[j].guid = friends[i].guid
                       THEN [friends[i] EXCEPT !.note = note] ELSE friends[i]
  <1>2. /\ friends' = [i \in DOMAIN friends |-> e(i)]
        /\ ignored' = ignored /\ namesCached' = namesCached /\ units' = units
    BY DEF Friends!Apply
  <1>3. ASSUME NEW i \in DOMAIN friends
        PROVE  /\ e(i) \in Friends!Entries /\ e(i).guid = friends[i].guid /\ e(i).guid \in Players
               /\ e(i).name = friends[i].name
               /\ e(i).connected = friends[i].connected /\ e(i).class = friends[i].class
               /\ e(i).area = friends[i].area
               /\ e(i).note = IF P # {} /\ friends[i].guid = p THEN note ELSE friends[i].note
    <2>1. friends[i] \in Friends!Entries
      BY <1>1
    <2>2. (\E j \in P : friends[j].guid = friends[i].guid) <=> P # {} /\ friends[i].guid = p
      OBVIOUS
    <2> QED BY <2>1, <2>2 DEF Friends!Entries
  <1> HIDE DEF e
  <1>4. friends' \in Seq(Friends!Entries) /\ Len(friends') = Len(friends)
        /\ DOMAIN friends' = DOMAIN friends
    <2>1. DOMAIN friends = 1..Len(friends) /\ Len(friends) \in Nat
      BY <1>1
    <2>2. friends' \in [1..Len(friends) -> Friends!Entries]
      BY <1>2, <1>3, <2>1
    <2> QED BY <2>1, <2>2
  <1>5. wanted' \in [Players -> FriendNotes]
    BY <1>1
  <1>6. ASSUME NEW i \in DOMAIN friends
        PROVE  friends'[i].guid = friends[i].guid /\ Friends!EntryOK(friends[i])'
    <2>1. friends'[i] = e(i)
      BY <1>2
    <2>2. Friends!EntryOK(friends[i])
      BY DEF Friends!FriendsInv
    <2>3. wanted'[e(i).guid] = e(i).note
      BY <1>1, <1>3, <2>2 DEF Friends!EntryOK
    <2> QED BY <1>2, <1>3, <2>1, <2>2, <2>3 DEF Friends!EntryOK
  <1> QED BY <1>1, <1>2, <1>4, <1>5, <1>6, Renamed

\* Each step keeps each friend listed once, with the name and the note there are.
LEMMA FriendsStay == ASSUME Friends!SocialAssumption, Friends!FriendsInv, Friends!SocialNext
                     PROVE  Friends!FriendsInv'
  <1>0. /\ friends \in Seq(Friends!Entries) /\ Len(friends) \in Nat
        /\ DOMAIN friends = 1..Len(friends)
        /\ \A i \in DOMAIN friends : friends[i] \in Friends!Entries /\ friends[i].guid \in Players
        /\ wanted \in [Players -> FriendNotes] /\ DOMAIN namesCached \subseteq Players
        /\ Len(friends) <= MaxFriends /\ MaxFriends \in Nat
    <2>1. /\ friends \in Seq(Friends!Entries) /\ wanted \in [Players -> FriendNotes]
          /\ DOMAIN namesCached \subseteq Players /\ Len(friends) <= MaxFriends
      BY DEF Friends!FriendsInv, Friends!SocialTypeOK
    <2>2. MaxFriends \in Nat
      BY DEF Friends!SocialAssumption
    <2>3. Len(friends) \in Nat /\ DOMAIN friends = 1..Len(friends)
      BY <2>1
    <2>4. \A i \in DOMAIN friends : friends[i] \in Friends!Entries
      BY <2>1
    <2>5. \A x \in Friends!Entries : x.guid \in Players
      BY DEF Friends!Entries
    <2> QED BY <2>1, <2>2, <2>3, <2>4, <2>5
  <1>1. ASSUME NEW p \in Players, NEW name \in {p, Friends!NoPlayer}, Friends!FriendAdded(p, name)
        PROVE  Friends!FriendsInv'
    <2> DEFINE e == [guid |-> p, name |-> name, connected |-> FALSE, class |-> 0, area |-> 0,
                     note |-> ""]
    <2>1. /\ friends' = Append(friends, e) /\ wanted' = [wanted EXCEPT ![p] = ""]
          /\ UNCHANGED <<ignored, namesCached, units>> /\ Len(friends) < MaxFriends
          /\ (p \in DOMAIN namesCached => name = p)
      BY <1>1 DEF Friends!FriendAdded
    <2>2. \A i \in DOMAIN friends : friends[i].guid # p
      BY <1>1, NotListed DEF Friends!FriendAdded
    <2>3. e \in Friends!Entries
      BY DEF Friends!Entries, Friends!SocialAssumption
    <2> HIDE DEF e
    <2>4. /\ friends' \in Seq(Friends!Entries) /\ Len(friends') = Len(friends) + 1
          /\ DOMAIN friends' = 1..Len(friends) + 1
          /\ \A i \in DOMAIN friends : friends'[i] = friends[i]
          /\ friends'[Len(friends) + 1] = e
      <3>1. friends \in Seq(Friends!Entries) /\ friends' = Append(friends, e)
            /\ e \in Friends!Entries
        BY <1>0, <2>1, <2>3
      <3> QED BY <3>1
    <2>5. /\ wanted' \in [Players -> FriendNotes] /\ wanted'[p] = ""
          /\ \A q \in Players : q # p => wanted'[q] = wanted[q]
      BY <1>0, <2>1 DEF Friends!SocialAssumption
    <2>6. Friends!SocialTypeOK'
      <3>1. ignored \in Seq(Players) /\ units \in [UnitTokens -> Players \cup {Friends!NoPlayer}]
        BY DEF Friends!FriendsInv, Friends!SocialTypeOK
      <3>2. Len(friends') <= MaxFriends
        <4>1. \A x \in Nat : x < MaxFriends => x + 1 <= MaxFriends
          BY <1>0
        <4>2. Len(friends) < MaxFriends /\ Len(friends) \in Nat
          BY <1>0, <2>1
        <4>3. Len(friends) + 1 <= MaxFriends
          BY <4>1, <4>2
        <4> QED BY <2>4, <4>3
      <3> QED BY <1>0, <2>1, <2>4, <2>5, <3>1, <3>2 DEF Friends!SocialTypeOK
    <2>8. ASSUME NEW i \in DOMAIN friends' PROVE Friends!EntryOK(friends[i])'
      <3>1. CASE i \in DOMAIN friends
        <4>1. Friends!EntryOK(friends[i]) /\ friends'[i] = friends[i]
              /\ friends[i].guid \in Players
              /\ friends[i].guid # p
          BY <1>0, <2>2, <2>4, <3>1 DEF Friends!FriendsInv
        <4>2. wanted'[friends[i].guid] = wanted[friends[i].guid] /\ namesCached' = namesCached
          BY <2>1, <2>5, <4>1
        <4> QED BY <4>1, <4>2 DEF Friends!EntryOK
      <3>2. CASE i = Len(friends) + 1
        <4>1. friends'[i] = e
          BY <2>4, <3>2
        <4>2. e.guid = p /\ e.name = name /\ e.note = "" /\ e.connected = FALSE
          BY DEF e
        <4>3. namesCached' = namesCached /\ wanted'[p] = ""
              /\ (p \in DOMAIN namesCached => name = p)
              /\ name \in {p, Friends!NoPlayer}
          BY <2>1, <2>5
        <4> QED BY <4>1, <4>2, <4>3 DEF Friends!EntryOK
      <3> QED BY <1>0, <2>4, <3>1, <3>2
    <2>9. ASSUME NEW i \in DOMAIN friends', NEW j \in DOMAIN friends',
                 friends'[i].guid = friends'[j].guid
          PROVE  i = j
      <3>1. e.guid = p
        BY DEF e
      <3>2. /\ i \in DOMAIN friends \/ i = Len(friends) + 1
            /\ j \in DOMAIN friends \/ j = Len(friends) + 1
        BY <1>0, <2>4
      <3> QED BY <2>2, <2>4, <2>9, <3>1, <3>2 DEF Friends!FriendsInv
    <2>10. \A i, j \in DOMAIN friends' : friends'[i].guid = friends'[j].guid => i = j
      BY <2>9
    <2> QED BY <2>6, <2>8, <2>10 DEF Friends!FriendsInv
  <1>2. ASSUME NEW i \in DOMAIN friends, Friends!FriendRemoved(i) PROVE Friends!FriendsInv'
    <2> DEFINE new == Friends!RemoveAt(friends, i)
               m == [j \in DOMAIN new |-> IF j < i THEN j ELSE j + 1]
    <2>1. /\ new \in Seq(Friends!Entries) /\ Len(new) = Len(friends) - 1
          /\ \A j \in 1..Len(friends) - 1 : new[j] = friends[IF j < i THEN j ELSE j + 1]
      BY <1>0, RemovedAt, Zenon
    <2>2. DOMAIN new = 1..Len(friends) - 1 /\ i \in 1..Len(friends) /\ Len(new) <= MaxFriends
      BY <1>0, <2>1
    <2> HIDE DEF new
    <2>3. m \in [DOMAIN new -> DOMAIN friends] /\ \A j \in DOMAIN new : new[j] = friends[m[j]]
      BY <1>0, <2>1, <2>2, SMTT(30)
    <2>4. \A j, k \in DOMAIN new : m[j] = m[k] => j = k
      BY <1>0, <2>2
    <2> HIDE DEF m
    <2>5. \A j \in DOMAIN new :
            new[j].connected => new[j].class \in DOMAIN Classes /\ new[j].area \in DOMAIN Areas
      BY <2>3 DEF Friends!FriendsInv, Friends!EntryOK
    <2>6. friends' = new /\ UNCHANGED <<ignored, namesCached, units, wanted>>
      BY <1>2 DEF Friends!FriendRemoved, new
    <2>7. \A j \in DOMAIN new : LET old == friends[m[j]] IN
            /\ new[j].guid = old.guid /\ new[j].name = old.name /\ new[j].note = old.note
            /\ new[j].connected => new[j].class \in DOMAIN Classes /\ new[j].area \in DOMAIN Areas
      BY <2>3, <2>5
    <2> QED BY <2>1, <2>2, <2>3, <2>4, <2>6, <2>7, Reordered
  <1>3. ASSUME NEW i \in DOMAIN friends, NEW c \in DOMAIN Classes \cup {0},
               NEW a \in DOMAIN Areas \cup {0},
               c # 0 => c \in DOMAIN Classes /\ a \in DOMAIN Areas, Friends!StatusChanged(i, c, a)
        PROVE  Friends!FriendsInv'
    <2> DEFINE e == [friends[i] EXCEPT !.connected = (c # 0), !.class = c, !.area = a]
               r == Friends!RemoveAt(friends, i)
               n == Len(friends)
               src(j) == IF j < i THEN j ELSE j + 1
               first == IF c # 0 THEN 1 ELSE n
               new == IF c # 0 THEN <<e>> \o r ELSE Append(r, e)
               m == [j \in 1..n |-> IF j = first THEN i ELSE src(IF c # 0 THEN j - 1 ELSE j)]
    <2>1. /\ r \in Seq(Friends!Entries) /\ Len(r) = n - 1 /\ i \in 1..n /\ n \in Nat
          /\ \A j \in 1..n - 1 : r[j] = friends[src(j)]
      BY <1>0, RemovedAt, Zenon
    <2>2. /\ e \in Friends!Entries /\ e.guid = friends[i].guid /\ e.name = friends[i].name
          /\ e.note = friends[i].note
          /\ (e.connected => e.class \in DOMAIN Classes /\ e.area \in DOMAIN Areas)
      <3>1. friends[i] \in Friends!Entries
        BY <1>0
      <3>2. (c # 0) \in BOOLEAN
        OBVIOUS
      <3> QED BY <1>3, <3>1, <3>2 DEF Friends!Entries
    <2> HIDE DEF e, r
    <2>3. /\ new \in Seq(Friends!Entries) /\ Len(new) = n /\ DOMAIN new = 1..n
          /\ \A j \in 1..n : new[j] = IF j = first THEN e ELSE r[IF c # 0 THEN j - 1 ELSE j]
      <3>1. CASE c # 0
        BY <2>1, <2>2, <3>1
      <3>2. CASE c = 0
        BY <2>1, <2>2, <3>2
      <3> QED BY <3>1, <3>2
    <2> HIDE DEF new
    <2>4. ASSUME NEW j \in 1..n, j # first
          PROVE  (IF c # 0 THEN j - 1 ELSE j) \in 1..n - 1
      BY <2>1, <2>4
    <2>5. \A j \in 1..n - 1 : src(j) \in 1..n /\ src(j) # i
      BY <2>1
    <2>6. \A j, k \in 1..n - 1 : src(j) = src(k) => j = k
      BY <2>1
    <2>7. ASSUME NEW j \in 1..n
          PROVE  /\ m[j] \in 1..n /\ (m[j] = i <=> j = first)
                 /\ j # first => new[j] = friends[m[j]]
      BY <2>1, <2>3, <2>4, <2>5, <2>7
    <2>8. m \in [DOMAIN new -> DOMAIN friends]
      BY <1>0, <2>3, <2>7, Zenon
    <2>9. ASSUME NEW j \in DOMAIN new, NEW k \in DOMAIN new, m[j] = m[k] PROVE j = k
      <3>1. j \in 1..n /\ k \in 1..n /\ j \in Int /\ k \in Int
        BY <2>1, <2>3
      <3>2. CASE j = first \/ k = first
        BY <2>7, <2>9, <3>1, <3>2
      <3>3. CASE j # first /\ k # first
        <4> DEFINE x == IF c # 0 THEN j - 1 ELSE j
                   y == IF c # 0 THEN k - 1 ELSE k
        <4>1. x \in 1..n - 1 /\ y \in 1..n - 1 /\ src(x) = src(y)
          BY <2>4, <2>9, <3>1, <3>3
        <4>2. x = y
          <5> HIDE DEF x, y, src
          <5> QED BY <2>6, <4>1
        <4> QED BY <3>1, <4>2
      <3> QED BY <3>2, <3>3
    <2> HIDE DEF m, first
    <2>10. ASSUME NEW j \in DOMAIN new
           PROVE  LET old == friends[m[j]] IN
                  /\ new[j].guid = old.guid /\ new[j].name = old.name /\ new[j].note = old.note
                  /\ new[j].connected => new[j].class \in DOMAIN Classes
                     /\ new[j].area \in DOMAIN Areas
      <3>1. CASE j = first
        <4>1. new[j] = e /\ m[j] = i
          BY <2>3, <2>7, <3>1
        <4> QED BY <2>2, <4>1
      <3>2. CASE j # first
        <4>1. new[j] = friends[m[j]] /\ Friends!EntryOK(friends[m[j]])
          BY <2>3, <2>7, <2>8, <3>2, SMTT(60) DEF Friends!FriendsInv
        <4> QED BY <4>1 DEF Friends!EntryOK
      <3> QED BY <3>1, <3>2
    <2>11. friends' = new /\ UNCHANGED <<ignored, namesCached, units, wanted>>
           /\ Len(new) <= MaxFriends
      BY <1>0, <1>3, <2>3, Zenon DEF Friends!StatusChanged, new, r, e
    <2> QED BY <2>3, <2>8, <2>9, <2>10, <2>11, Reordered
  <1>4. ASSUME NEW p \in Players, NEW g, Friends!NameLearned(p, g) PROVE Friends!FriendsInv'
    <2> DEFINE e(i) == IF friends[i].guid = p THEN [friends[i] EXCEPT !.name = p] ELSE friends[i]
    <2>1. /\ friends' = [i \in DOMAIN friends |-> e(i)]
          /\ DOMAIN namesCached' = DOMAIN namesCached \cup {p}
          /\ UNCHANGED <<ignored, units, wanted>>
      BY <1>4 DEF Friends!NameLearned
    <2>2. ASSUME NEW i \in DOMAIN friends
          PROVE  /\ e(i) \in Friends!Entries /\ e(i).guid = friends[i].guid
                 /\ e(i).note = friends[i].note
                 /\ e(i).connected = friends[i].connected /\ e(i).class = friends[i].class
                 /\ e(i).area = friends[i].area
                 /\ e(i).name = IF friends[i].guid = p THEN p ELSE friends[i].name
      <3>1. friends[i] \in Friends!Entries
        BY <1>0
      <3> QED BY <3>1 DEF Friends!Entries
    <2> HIDE DEF e
    <2>3. friends' \in Seq(Friends!Entries) /\ Len(friends') = Len(friends)
          /\ DOMAIN friends' = DOMAIN friends
      <3>1. friends' \in [1..Len(friends) -> Friends!Entries]
        BY <1>0, <2>1, <2>2
      <3> QED BY <1>0, <3>1
    <2>4. ASSUME NEW i \in DOMAIN friends
          PROVE  friends'[i].guid = friends[i].guid /\ Friends!EntryOK(friends[i])'
      <3>1. friends'[i] = e(i) /\ Friends!EntryOK(friends[i])
        BY <2>1 DEF Friends!FriendsInv
      <3> QED BY <2>1, <2>2, <3>1 DEF Friends!EntryOK
    <2>5. ignored' = ignored /\ units' = units /\ DOMAIN namesCached' \subseteq Players
          /\ wanted' \in [Players -> FriendNotes]
      BY <1>0, <2>1
    <2> QED BY <2>3, <2>4, <2>5, Renamed
  <1>5. ASSUME NEW p \in Players, Friends!IgnoreToggled(p) PROVE Friends!FriendsInv'
    <2>1. ignored' \in Seq(Players)
      <3>1. ignored \in Seq(Players)
        BY DEF Friends!FriendsInv, Friends!SocialTypeOK
      <3>2. ASSUME NEW i \in DOMAIN ignored PROVE Friends!RemoveAt(ignored, i) \in Seq(Players)
        BY <3>1, RemovedAt
      <3> QED BY <1>5, <3>1, <3>2 DEF Friends!IgnoreToggled
    <2> QED
      BY <1>5, <2>1 DEF Friends!IgnoreToggled, Friends!FriendsInv, Friends!SocialTypeOK,
         Friends!EntryOK
  <1>6. ASSUME NEW t \in UnitTokens, NEW p \in Players \cup {Friends!NoPlayer},
               Friends!UnitChanged(t, p)
        PROVE  Friends!FriendsInv'
    BY <1>6 DEF Friends!UnitChanged, Friends!FriendsInv, Friends!SocialTypeOK, Friends!EntryOK
  <1>7. ASSUME NEW p \in Players, NEW n \in FriendNotes, Friends!SetFriendNotes(p, n)
        PROVE  Friends!FriendsInv'
    <2>1. \A i \in Friends!EntryByName(p) : i \in DOMAIN friends /\ friends[i].guid = p
      BY NotListed DEF Friends!FriendsInv, Friends!EntryOK, Friends!SocialAssumption
    <2>2. Friends!EntryByName(p) \in SUBSET DOMAIN friends
      BY <2>1
    <2> QED BY <1>7, <2>1, <2>2, NotesStay DEF Friends!SetFriendNotes
  <1>8. ASSUME NEW i \in 0..MaxFriends + 1, NEW n \in FriendNotes,
               Friends!SetFriendNotesByIndex(i, n)
        PROVE  Friends!FriendsInv'
    <2>1. Friends!EntryByIndex(i) \in SUBSET DOMAIN friends
      BY DEF Friends!EntryByIndex
    <2>2. CASE i \in DOMAIN friends
      <3>1. Friends!EntryByIndex(i) = {i} /\ friends[i].guid \in Players
        BY <1>0, <2>2 DEF Friends!EntryByIndex
      <3> QED BY <1>8, <2>1, <3>1, NotesStay DEF Friends!SetFriendNotesByIndex
    <2>3. CASE i \notin DOMAIN friends
      <3>1. Friends!EntryByIndex(i) = {}
        BY <2>3 DEF Friends!EntryByIndex
      <3>2. wanted' = wanted /\ namesCached' = namesCached /\ ignored' = ignored /\ units' = units
            /\ friends' = [j \in DOMAIN friends |-> friends[j]]
        BY <1>8, <3>1 DEF Friends!SetFriendNotesByIndex, Friends!Apply
      <3>3. friends' = friends
        BY <1>0, <3>2
      <3> QED BY <3>2, <3>3 DEF Friends!FriendsInv, Friends!SocialTypeOK, Friends!EntryOK
    <2> QED BY <2>2, <2>3
  <1> QED BY <1>1, <1>2, <1>3, <1>4, <1>5, <1>6, <1>7, <1>8 DEF Friends!SocialNext

\* What makes the answers agree.
LEMMA FriendsAreOne == ASSUME Friends!SocialAssumption, Friends!FriendsInv
                       PROVE  Friends!FriendsAgree
  <1>0. /\ friends \in Seq(Friends!Entries) /\ Len(friends) \in Nat
        /\ DOMAIN friends = 1..Len(friends)
        /\ DOMAIN namesCached \subseteq Players /\ Len(friends) <= MaxFriends
        /\ MaxFriends \in Nat
        /\ Friends!NoPlayer \notin Players
        /\ \A i \in DOMAIN friends : friends[i].guid \in Players
    <2>1. friends \in Seq(Friends!Entries) /\ DOMAIN namesCached \subseteq Players
          /\ Len(friends) <= MaxFriends
      BY DEF Friends!FriendsInv, Friends!SocialTypeOK
    <2>2. MaxFriends \in Nat /\ Friends!NoPlayer \notin Players
      BY DEF Friends!SocialAssumption
    <2>3. Len(friends) \in Nat /\ DOMAIN friends = 1..Len(friends)
      BY <2>1
    <2>4. \A i \in DOMAIN friends : friends[i] \in Friends!Entries
      BY <2>1
    <2>5. \A x \in Friends!Entries : x.guid \in Players
      BY DEF Friends!Entries
    <2> QED BY <2>1, <2>2, <2>3, <2>4, <2>5
  <1>1. ASSUME NEW p \in Players
        PROVE  /\ Friends!EntryByGuid(p) = {} <=> \A i \in DOMAIN friends : friends[i].guid # p
               /\ Friends!EntryByName(p) = {} <=> \A i \in DOMAIN friends : friends[i].name # p
    BY NotListed
  <1>2. ASSUME NEW i \in DOMAIN friends, friends[i].name # Friends!NoPlayer
        PROVE  Friends!EntryByName(friends[i].guid) = {i} /\ friends[i].name = friends[i].guid
    <2> DEFINE p == friends[i].guid
               N == {j \in DOMAIN friends : friends[j].name = p}
    <2>1. p \in Players /\ friends[i].name = p
      BY <1>0, <1>2 DEF Friends!FriendsInv, Friends!EntryOK
    <2>2. ASSUME NEW j \in N PROVE j = i
      BY <1>0, <2>1 DEF Friends!FriendsInv, Friends!EntryOK
    <2>3. N = {i} /\ i \in Int
      BY <1>0, <2>1, <2>2
    <2> HIDE DEF N
    <2>4. Friends!First(N) = {i}
      BY <2>3 DEF Friends!First
    <2> QED BY <2>1, <2>4 DEF Friends!EntryByName, N
  <1>3. Friends!GetNumOnlineFriends <= Friends!GetNumFriends
    <2> DEFINE On == {i \in DOMAIN friends : friends[i].connected}
    <2>1. IsFiniteSet(1..Len(friends)) /\ Cardinality(1..Len(friends)) = Len(friends)
      <3>1. 0 \in Int /\ 1 \in Int /\ Len(friends) \in Int /\ Len(friends) - 1 + 1 = Len(friends)
        BY <1>0
      <3>2. IsFiniteSet(1..Len(friends)) /\ Cardinality(1..Len(friends))
              = IF 1 > Len(friends) THEN 0 ELSE Len(friends) - 1 + 1
        BY <3>1, FS_Interval
      <3> QED BY <1>0, <3>2
    <2>2. On \subseteq 1..Len(friends)
      BY <1>0
    <2>3. Cardinality(On) <= Len(friends)
      <3> HIDE DEF On
      <3> QED BY <2>1, <2>2, FS_Subset
    <2> QED BY <2>3, FriendsCounted DEF Friends!GetNumOnlineFriends, Friends!GetNumFriends
  <1>4. ASSUME NEW i \in 0..MaxFriends + 1
        PROVE  i \in 1..Friends!GetNumFriends <=> Friends!GetFriendInfoByIndex(i) # {}
    BY <1>0 DEF Friends!GetNumFriends, Friends!GetFriendInfoByIndex, Friends!EntryByIndex
  <1>5. ASSUME NEW d, NEW i \in DOMAIN friends, d = Friends!FriendInfo(i)
        PROVE  /\ Friends!IsFriend([kind |-> "guid", of |-> d.guid])
               /\ d.name # Friends!NoPlayer => Friends!GetFriendInfo(d.name) = {d}
               /\ d.notes = wanted[d.guid]
               /\ d.connected => Cardinality(d.className) = 1 /\ d.area # {}
    <2> DEFINE e == friends[i]
    <2>1. Friends!EntryOK(e) /\ e.guid \in Players
      BY <1>0 DEF Friends!FriendsInv
    <2>2. /\ d.guid = e.guid /\ d.name = e.name /\ d.connected = e.connected /\ d.notes = e.note
          /\ d.className = IF e.class \in DOMAIN Classes THEN Friends!ClassName(e.class, e.guid)
             ELSE {}
          /\ d.area = Friends!AreaName(e.area)
      BY <1>5 DEF Friends!FriendInfo
    <2>3. Friends!IsFriend([kind |-> "guid", of |-> d.guid])
      <3>1. Friends!EntryByGuid(e.guid) # {}
        BY <1>1, <2>1
      <3> QED BY <2>2, <3>1 DEF Friends!IsFriend, Friends!ResolveToken
    <2>4. d.name # Friends!NoPlayer => Friends!GetFriendInfo(d.name) = {d}
      BY <1>2, <1>5, <2>2 DEF Friends!GetFriendInfo
    <2>5. d.connected => Cardinality(d.className) = 1
      <3> SUFFICES ASSUME d.connected PROVE Cardinality(d.className) = 1
        OBVIOUS
      <3> DEFINE c == Classes[e.class]
      <3>1. d.className = Friends!ClassName(e.class, e.guid) /\ e.class \in DOMAIN Classes
        BY <2>1, <2>2 DEF Friends!EntryOK
      <3>2. /\ Cardinality(c.neutral) = 1
            /\ c.male = {} \/ Cardinality(c.male) = 1
            /\ c.female = {} \/ Cardinality(c.female) = 1
        BY <3>1, FriendsCounted DEF Friends!SocialAssumption
      <3> QED BY <3>1, <3>2 DEF Friends!ClassName
    <2>6. d.connected => d.area # {}
      BY <2>1, <2>2 DEF Friends!AreaName, Friends!EntryOK
    <2> QED BY <2>1, <2>2, <2>3, <2>4, <2>5, <2>6 DEF Friends!EntryOK
  <1>6. ASSUME NEW i \in 0..MaxFriends + 1, NEW d \in Friends!GetFriendInfoByIndex(i)
        PROVE  \E j \in DOMAIN friends : d = Friends!FriendInfo(j)
    BY DEF Friends!GetFriendInfoByIndex, Friends!EntryByIndex
  <1>7. ASSUME NEW p \in Players
        PROVE  LET listed == \E i \in DOMAIN friends : friends[i].guid = p
                   isKnown == p \in DOMAIN namesCached \/ Friends!GetFriendInfo(p) # {}
               IN  /\ Friends!IsFriend([kind |-> "guid", of |-> p]) = listed
                   /\ Friends!IsFriend([kind |-> "name", of |-> p]) = (listed /\ isKnown)
                   /\ Friends!IsIgnored([kind |-> "name", of |-> p])
                        = (Friends!IsGuidIgnored(p) /\ p \in DOMAIN namesCached)
    <2> DEFINE listed == \E i \in DOMAIN friends : friends[i].guid = p
    <2>1. Friends!EntryByGuid(p) # {} <=> listed
      BY <1>1
    <2>2. Friends!GetFriendInfo(p) # {} <=> Friends!EntryByName(p) # {}
      BY DEF Friends!GetFriendInfo
    <2>3. Friends!EntryByName(p) # {} => listed
      <3> SUFFICES ASSUME NEW i \in DOMAIN friends, friends[i].name = p PROVE listed
        BY <1>1
      <3> QED BY <1>0 DEF Friends!FriendsInv, Friends!EntryOK
    <2>4. Friends!IsFriend([kind |-> "guid", of |-> p]) <=> Friends!EntryByGuid(p) # {}
      BY DEF Friends!IsFriend, Friends!ResolveToken
    <2>5. Friends!IsFriend([kind |-> "name", of |-> p])
            <=> Friends!EntryByName(p) # {}
            \/ (p \in DOMAIN namesCached /\ Friends!EntryByGuid(p) # {})
      BY DEF Friends!IsFriend, Friends!ResolveToken
    <2>6. Friends!IsIgnored([kind |-> "name", of |-> p])
          <=> p \in DOMAIN namesCached /\ Friends!IsGuidIgnored(p)
      BY DEF Friends!IsIgnored, Friends!ResolveToken
    <2>7. Friends!IsFriend([kind |-> "guid", of |-> p]) = listed
      BY <2>1, <2>4 DEF Friends!IsFriend
    <2>8. Friends!IsFriend([kind |-> "name", of |-> p])
            = (listed /\ (p \in DOMAIN namesCached \/ Friends!GetFriendInfo(p) # {}))
      BY <2>1, <2>2, <2>3, <2>5 DEF Friends!IsFriend
    <2>9. Friends!IsIgnored([kind |-> "name", of |-> p])
          = (Friends!IsGuidIgnored(p) /\ p \in DOMAIN namesCached)
      BY <2>6 DEF Friends!IsIgnored
    <2> QED BY <2>7, <2>8, <2>9
  <1>8. ASSUME NEW t \in UnitTokens
        PROVE  LET who == {units[t]} \ {Friends!NoPlayer} IN
               /\ Friends!IsFriend([kind |-> "unit", of |-> t])
                    = \E p \in who : Friends!IsFriend([kind |-> "guid", of |-> p])
               /\ Friends!IsIgnored([kind |-> "unit", of |-> t]) = \E p \in who :
                  Friends!IsGuidIgnored(p)
    <2> DEFINE who == {units[t]} \ {Friends!NoPlayer}
    <2>1. Friends!IsFriend([kind |-> "unit", of |-> t])
          <=> \E p \in who : Friends!EntryByGuid(p) # {}
      BY DEF Friends!IsFriend, Friends!ResolveToken
    <2>2. \A p : Friends!IsFriend([kind |-> "guid", of |-> p]) <=> Friends!EntryByGuid(p) # {}
      BY DEF Friends!IsFriend, Friends!ResolveToken
    <2>3. Friends!IsIgnored([kind |-> "unit", of |-> t])
          <=> \E p \in who : Friends!IsGuidIgnored(p)
      BY DEF Friends!IsIgnored, Friends!ResolveToken
    <2>4. Friends!IsFriend([kind |-> "unit", of |-> t])
            = \E p \in who : Friends!IsFriend([kind |-> "guid", of |-> p])
      BY <2>1, <2>2 DEF Friends!IsFriend
    <2>5. Friends!IsIgnored([kind |-> "unit", of |-> t]) = \E p \in who : Friends!IsGuidIgnored(p)
      BY <2>3 DEF Friends!IsIgnored
    <2> QED BY <2>4, <2>5
  <1>9. ASSUME NEW i \in 0..MaxFriends + 1, NEW d \in Friends!GetFriendInfoByIndex(i)
        PROVE  /\ Friends!IsFriend([kind |-> "guid", of |-> d.guid])
               /\ d.name # Friends!NoPlayer => Friends!GetFriendInfo(d.name) = {d}
               /\ d.notes = wanted[d.guid]
               /\ d.connected => Cardinality(d.className) = 1 /\ d.area # {}
    BY <1>5, <1>6
  <1>10. ASSUME NEW i \in 0..MaxFriends + 1, NEW d \in Friends!GetFriendInfoByIndex(i)
         PROVE  /\ Friends!IsFriend([kind |-> "guid", of |-> d.guid])
                /\ d.name # Friends!NoPlayer => Friends!GetFriendInfo(d.name) = {d}
                /\ d.notes = wanted[d.guid]
                /\ d.connected => Friends!Cardinality(d.className) = 1 /\ d.area # {}
    BY <1>9, FriendsCounted
  <1> QED BY <1>3, <1>4, <1>7, <1>8, <1>10 DEF Friends!FriendsAgree

-----------------------------------------------------------------------------
(* Units.                                                                  *)

CONSTANTS
    Me, Mates, Creatures, Keywords, Stats, Divisors, Bytes

VARIABLES
    session, objects, tokens, rosters, cached, owner, home, current, pvpMap

Unit     == INSTANCE Units

unitVars == <<session, objects, tokens, rosters, cached, owner, home, current, pvpMap>>

\* Nobody is in sight at first.
LEMMA UnitsStart == ASSUME Unit!UnitsInit PROVE Unit!UnitsInv
  <1>1. DOMAIN objects = {} /\ DOMAIN rosters.party = {} /\ DOMAIN rosters.raid = {}
    BY DEF Unit!UnitsInit
  <1> QED BY <1>1 DEF Unit!UnitsInit, Unit!UnitsInv, Unit!UnitsTypeOK, Unit!Groups

\* A roster told of one mate keeps who is known.
LEMMA RostersStay ==
  ASSUME Unit!UnitsInv, NEW u \in Mates, NEW s \in Stats, Unit!RosterTold(u, s)
  PROVE  Unit!UnitsInv'
  <1>1. /\ UNCHANGED <<session, objects, tokens, owner, home, current, pvpMap>>
        /\ cached' = cached \cup {u}
        /\ IF current = "party" THEN rosters' = [rosters EXCEPT !.party = Unit!With(@, u, s)]
           ELSE rosters' = [rosters EXCEPT !.raid = Unit!With(@, u, s)]
    BY DEF Unit!RosterTold
  <1>2. CASE current = "party"
    <2>1. rosters'.party = Unit!With(rosters.party, u, s) /\ rosters'.raid = rosters.raid
          /\ DOMAIN rosters' = {"party", "raid"}
      BY <1>1, <1>2 DEF Unit!UnitsInv
    <2>2. DOMAIN rosters'.party = DOMAIN rosters.party \cup {u}
          /\ \A v \in DOMAIN rosters'.party : rosters'.party[v] \in Stats
      BY <2>1 DEF Unit!With, Unit!UnitsInv
    <2> QED BY <1>1, <2>1, <2>2 DEF Unit!UnitsInv, Unit!UnitsTypeOK, Unit!Units
  <1>3. CASE current # "party"
    <2>1. rosters'.raid = Unit!With(rosters.raid, u, s) /\ rosters'.party = rosters.party
          /\ DOMAIN rosters' = {"party", "raid"}
      BY <1>1, <1>3 DEF Unit!UnitsInv
    <2>2. DOMAIN rosters'.raid = DOMAIN rosters.raid \cup {u}
          /\ \A v \in DOMAIN rosters'.raid : rosters'.raid[v] \in Stats
      BY <2>1 DEF Unit!With, Unit!UnitsInv
    <2> QED BY <1>1, <2>1, <2>2 DEF Unit!UnitsInv, Unit!UnitsTypeOK, Unit!Units
  <1> QED BY <1>2, <1>3

\* Each step keeps those in sight, in a roster and known together.
LEMMA UnitsStay == ASSUME Unit!UnitsAssumption, Unit!UnitsInv, Unit!UnitsNext PROVE Unit!UnitsInv'
  <1>1. CASE Unit!EntersSession
    BY <1>1 DEF Unit!EntersSession, Unit!UnitsInv, Unit!UnitsTypeOK
  <1>2. ASSUME NEW u \in Unit!Units, NEW s \in Stats, Unit!ObjectArrives(u, s)
        PROVE  Unit!UnitsInv'
    <2>1. /\ UNCHANGED <<tokens, rosters, owner, home, current, pvpMap>>
          /\ session' = "world" /\ session # "glue" /\ (session = "loading" => u = Me)
          /\ objects' = Unit!With(objects, u, s)
          /\ cached' = IF u \in Creatures THEN cached ELSE cached \cup {u}
      BY <1>2 DEF Unit!ObjectArrives
    <2>2. /\ DOMAIN objects' = DOMAIN objects \cup {u} /\ objects'[u] = s
          /\ \A v \in DOMAIN objects \ {u} : objects'[v] = objects[v]
      BY <2>1 DEF Unit!With
    <2>3. Me \in DOMAIN objects'
      BY <2>1, <2>2 DEF Unit!UnitsInv
    <2>4. Unit!UnitsTypeOK'
      BY <2>1, <2>2 DEF Unit!UnitsInv, Unit!UnitsTypeOK
    <2>5. \A v \in DOMAIN objects' : objects'[v] \in Stats
          /\ (v \notin Creatures => v \in cached')
      BY <2>1, <2>2 DEF Unit!UnitsInv
    <2>6. /\ DOMAIN rosters'.party \subseteq cached' /\ DOMAIN rosters'.raid \subseteq cached'
          /\ \A t \in DOMAIN tokens' : tokens'[t] = Unit!Nobody
             \/ tokens'[t] \in DOMAIN objects' \cup cached'
      BY <2>1, <2>2 DEF Unit!UnitsInv
    <2> QED BY <2>1, <2>3, <2>4, <2>5, <2>6 DEF Unit!UnitsInv
  <1>3. ASSUME NEW u \in Unit!Units, Unit!ObjectLeaves(u) PROVE Unit!UnitsInv'
    <2>1. /\ UNCHANGED <<session, rosters, cached, owner, home, current, pvpMap>>
          /\ u \in DOMAIN objects \ {Me} /\ objects' = Unit!Without(objects, u)
          /\ tokens' = [t \in DOMAIN tokens |->
                IF tokens[t] = u /\ u \notin DOMAIN rosters.party THEN Unit!Nobody ELSE tokens[t]]
      BY <1>3 DEF Unit!ObjectLeaves
    <2>2. /\ DOMAIN objects' = DOMAIN objects \ {u}
          /\ \A v \in DOMAIN objects \ {u} : objects'[v] = objects[v]
      BY <2>1 DEF Unit!Without
    <2>3. IF session' = "world" THEN Me \in DOMAIN objects' ELSE DOMAIN objects' = {}
      BY <2>1, <2>2 DEF Unit!UnitsInv
    <2>4. Unit!UnitsTypeOK'
      BY <2>1, <2>2 DEF Unit!UnitsInv, Unit!UnitsTypeOK
    <2>5. \A v \in DOMAIN objects' : objects'[v] \in Stats
          /\ (v \notin Creatures => v \in cached')
      BY <2>1, <2>2 DEF Unit!UnitsInv
    <2>6. \A t \in DOMAIN tokens' : tokens'[t] = Unit!Nobody
          \/ tokens'[t] \in DOMAIN objects' \cup cached'
      BY <2>1, <2>2 DEF Unit!UnitsInv
    <2> QED BY <2>1, <2>3, <2>4, <2>5, <2>6 DEF Unit!UnitsInv
  <1>4. ASSUME NEW t \in DOMAIN tokens, NEW u \in Unit!Units \cup {Unit!Nobody}, Unit!Points(t, u)
        PROVE  Unit!UnitsInv'
    <2>1. /\ UNCHANGED <<session, objects, rosters, cached, owner, home, current, pvpMap>>
          /\ u = Unit!Nobody \/ u \in DOMAIN objects
          /\ tokens' = [tokens EXCEPT ![t] = u]
      BY <1>4 DEF Unit!Points
    <2>2. Unit!UnitsTypeOK'
      BY <2>1 DEF Unit!UnitsInv, Unit!UnitsTypeOK
    <2>3. \A t2 \in DOMAIN tokens' : tokens'[t2] = Unit!Nobody
          \/ tokens'[t2] \in DOMAIN objects' \cup cached'
      BY <2>1 DEF Unit!UnitsInv, Unit!UnitsTypeOK
    <2> QED BY <2>1, <2>2, <2>3 DEF Unit!UnitsInv
  <1>5. ASSUME NEW u \in Mates, NEW s \in Stats, Unit!RosterTold(u, s) PROVE Unit!UnitsInv'
    BY <1>5, RostersStay
  <1>6. ASSUME NEW c \in Creatures, NEW o, Unit!Summoned(c, o) PROVE Unit!UnitsInv'
    BY <1>6 DEF Unit!Summoned, Unit!UnitsInv, Unit!UnitsTypeOK
  <1>7. ASSUME NEW h \in Unit!Groups, NEW c \in Unit!Groups, NEW pvp \in BOOLEAN,
               Unit!GroupChanged(h, c, pvp)
        PROVE Unit!UnitsInv'
    <2>1. /\ UNCHANGED <<session, objects, cached, owner>>
          /\ (~pvp => c = h) /\ home' = h /\ current' = c /\ pvpMap' = pvp
          /\ rosters' = [party |-> <<>>, raid |-> <<>>]
          /\ tokens' = [t \in DOMAIN tokens |->
                IF tokens[t] \in DOMAIN objects THEN tokens[t] ELSE Unit!Nobody]
      BY <1>7 DEF Unit!GroupChanged
    <2>2. Unit!UnitsTypeOK'
      BY <2>1 DEF Unit!UnitsInv, Unit!UnitsTypeOK
    <2>3. DOMAIN rosters'.party = {} /\ DOMAIN rosters'.raid = {}
          /\ DOMAIN rosters' = {"party", "raid"}
      BY <2>1
    <2> QED BY <2>1, <2>2, <2>3 DEF Unit!UnitsInv
  <1> QED BY <1>1, <1>2, <1>3, <1>4, <1>5, <1>6, <1>7 DEF Unit!UnitsNext

\* Who a token names is in sight or known.
LEMMA NamedUnits ==
  ASSUME Unit!UnitsAssumption, Unit!UnitsInv, NEW t \in Unit!Tokens
  PROVE  /\ Unit!GuidForToken(t) \in Unit!Units \cup {Unit!Nobody}
         /\ Unit!Nobody \notin Unit!Units
         /\ Unit!GuidForToken(t) = Unit!Nobody
            \/ Unit!GuidForToken(t) \in DOMAIN objects \cup cached
         /\ DOMAIN objects \subseteq Unit!Units
  <1>1. CASE t = "player"
    BY <1>1 DEF Unit!GuidForToken, Unit!UnitsInv, Unit!UnitsTypeOK, Unit!Units,
       Unit!UnitsAssumption
  <1>2. CASE t # "player"
    BY <1>2 DEF Unit!GuidForToken, Unit!UnitsInv, Unit!UnitsTypeOK, Unit!Units,
       Unit!UnitsAssumption
  <1> QED BY <1>1, <1>2

\* The GUID of a token leads back to the token and to a name.
LEMMA GuidsLeadBack ==
  ASSUME Unit!UnitsAssumption, Unit!UnitsInv, NEW t \in Unit!Tokens, NEW u \in Unit!UnitGUID(t)
  PROVE  /\ u \in Unit!Units
         /\ Unit!GuidForToken(t) = u => Unit!UnitTokenFromGUID(u) # {}
         /\ \A t2 \in Unit!UnitTokenFromGUID(u) : Unit!UnitGUID(t2) = {u}
         /\ Unit!UnitNameFromGUID(u) # {} \/ session = "loading"
  <1>1. \/ u = Unit!GuidForToken(t) /\ u # Unit!Nobody
        \/ u = Me /\ t = "player" /\ session # "glue" /\ Unit!GuidForToken(t) = Unit!Nobody
    BY DEF Unit!UnitGUID
  <1>2. u \in Unit!Units /\ u # Unit!Nobody
    BY <1>1, NamedUnits DEF Unit!Units, Unit!UnitsAssumption
  <1>3. Unit!GuidForToken(t) = u => Unit!UnitTokenFromGUID(u) # {}
    <2>1. Unit!GuidForToken(t) = u => t \in Unit!GuidToTokens(u) \cup Unit!GuidToToken(u)
      BY DEF Unit!GuidToTokens, Unit!GuidToToken
    <2> QED BY <2>1 DEF Unit!UnitTokenFromGUID
  <1>4. ASSUME NEW t2 \in Unit!UnitTokenFromGUID(u) PROVE Unit!UnitGUID(t2) = {u}
    <2>1. Unit!GuidForToken(t2) = u
      BY <1>4 DEF Unit!UnitTokenFromGUID, Unit!GuidToTokens, Unit!GuidToToken
    <2> QED BY <1>2, <2>1 DEF Unit!UnitGUID
  <1>5. Unit!UnitNameFromGUID(u) # {} \/ session = "loading"
    <2>1. u = Unit!GuidForToken(t) /\ u # Unit!Nobody => u \in cached \cup DOMAIN objects
      BY NamedUnits
    <2>2. Unit!GuidForToken("player") = Unit!Nobody => session # "world"
      BY <1>2 DEF Unit!GuidForToken, Unit!UnitsAssumption, Unit!Units
    <2>3. session \in {"glue", "loading", "world"}
      BY DEF Unit!UnitsInv
    <2> QED BY <1>1, <2>1, <2>2, <2>3 DEF Unit!UnitNameFromGUID
  <1> QED BY <1>2, <1>3, <1>4, <1>5

\* The token of the player names the player, once there is one.
LEMMA PlayerIsMe ==
  ASSUME Unit!UnitsAssumption, Unit!UnitsInv, session # "glue"
  PROVE  Unit!UnitGUID("player") = {Me} /\ Unit!UnitByte("player") = {Bytes[Me]}
  <1>1. Me # Unit!Nobody /\ Bytes[Me] # 0
    BY DEF Unit!UnitsAssumption, Unit!Units
  <1>2. Unit!UnitGUID("player") = {Me}
    BY <1>1 DEF Unit!UnitGUID, Unit!GuidForToken
  <1>3. Unit!UnitByte("player") = {Bytes[u] : u \in {Me}} \ {0}
    BY DEF Unit!UnitByte
  <1> QED BY <1>1, <1>2, <1>3

\* What the engine says of a token is what the member it resolves to says.
LEMMA TheMember ==
  ASSUME Unit!UnitsAssumption, Unit!UnitsInv, NEW t \in Unit!Tokens, NEW d \in Unit!EngineStat(t)
  PROVE  \E src \in {"Object", "Roster"} :
            /\ Unit!ResolveMember(t) = {[source |-> src, data |-> d]}
            /\ d \in Stats
            /\ Unit!ResolveToken(t) = {} => src = "Roster"
  <1> DEFINE u == Unit!GuidForToken(t)
             Found(src, records) ==
                {[source |-> src, data |-> records[v]] : v \in {u} \cap DOMAIN records}
  <1>1. PICK m \in Unit!ResolveMember(t) : d = m.data
    BY DEF Unit!EngineStat
  <1>2. Unit!ResolveMember(t) = IF Found("Object", objects) # {} THEN Found("Object", objects)
                           ELSE IF Found("Roster", rosters.party) # {}
                           THEN Found("Roster", rosters.party)
                           ELSE Found("Roster", rosters.raid)
    BY DEF Unit!ResolveMember
  <1>3. ASSUME NEW src, NEW r, NEW x \in Found(src, r)
        PROVE  u \in DOMAIN r /\ x = [source |-> src, data |-> r[u]]
               /\ Found(src, r) = {[source |-> src, data |-> r[u]]}
    OBVIOUS
  <1>4. CASE Found("Object", objects) # {}
    <2>1. Unit!ResolveMember(t) = Found("Object", objects)
      BY <1>2, <1>4
    <2>2. u \in DOMAIN objects /\ m = [source |-> "Object", data |-> objects[u]]
          /\ Unit!ResolveMember(t) = {[source |-> "Object", data |-> objects[u]]}
      BY <1>1, <1>3, <2>1
    <2>3. d = objects[u] /\ d \in Stats /\ Unit!ResolveToken(t) # {}
      BY <1>1, <2>2 DEF Unit!UnitsInv, Unit!ResolveToken
    <2> QED BY <2>2, <2>3
  <1>5. CASE Found("Object", objects) = {} /\ Found("Roster", rosters.party) # {}
    <2>1. Unit!ResolveMember(t) = Found("Roster", rosters.party)
      BY <1>2, <1>5
    <2>2. u \in DOMAIN rosters.party /\ m = [source |-> "Roster", data |-> rosters.party[u]]
          /\ Unit!ResolveMember(t) = {[source |-> "Roster", data |-> rosters.party[u]]}
      BY <1>1, <1>3, <2>1
    <2>3. d = rosters.party[u] /\ d \in Stats
      BY <1>1, <2>2 DEF Unit!UnitsInv
    <2> QED BY <2>2, <2>3
  <1>6. CASE Found("Object", objects) = {} /\ Found("Roster", rosters.party) = {}
    <2>1. Unit!ResolveMember(t) = Found("Roster", rosters.raid)
      BY <1>2, <1>6
    <2>2. u \in DOMAIN rosters.raid /\ m = [source |-> "Roster", data |-> rosters.raid[u]]
          /\ Unit!ResolveMember(t) = {[source |-> "Roster", data |-> rosters.raid[u]]}
      BY <1>1, <1>3, <2>1
    <2>3. d = rosters.raid[u] /\ d \in Stats
      BY <1>1, <2>2 DEF Unit!UnitsInv
    <2> QED BY <2>2, <2>3
  <1> QED BY <1>4, <1>5, <1>6

\* What is missing of health and of power is what is not there of what is shown.
LEMMA ShownIsMissing ==
  ASSUME Unit!UnitsAssumption, Unit!UnitsInv, NEW t \in Unit!Tokens,
         NEW type \in DOMAIN Divisors \cup {Unit!ActivePower},
         NEW d \in Unit!EngineStat(t)
  PROVE  /\ Unit!UnitHealthMissing(t) = IF d.maxHealth > d.health THEN d.maxHealth - d.health
            ELSE 0
         /\ (Unit!ResolveToken(t) = {} \/ type \in {d.type, Unit!ActivePower}) =>
              Unit!UnitPowerMissing(t, type) =
                LET s == Unit!Shown(d, type) IN IF s.max > s.cur THEN s.max - s.cur ELSE 0
  <1>1. PICK src \in {"Object", "Roster"} :
            /\ Unit!ResolveMember(t) = {[source |-> src, data |-> d]}
            /\ d \in Stats
            /\ Unit!ResolveToken(t) = {} => src = "Roster"
    BY TheMember
  <1> DEFINE m == [source |-> src, data |-> d]
  <1>2. Unit!ResolveMember(t) # {} /\ (CHOOSE x \in Unit!ResolveMember(t) : TRUE) = m
    BY <1>1
  <1>3. Unit!UnitHealthMissing(t) = IF d.maxHealth > d.health THEN d.maxHealth - d.health ELSE 0
    <2> DEFINE chosen == CHOOSE x \in Unit!ResolveMember(t) : TRUE
    <2>1. Unit!UnitHealthMissing(t) = Unit!Clamped(chosen.data.maxHealth, chosen.data.health)
      BY <1>2 DEF Unit!UnitHealthMissing
    <2>2. chosen = m
      BY <1>2
    <2> HIDE DEF chosen
    <2>3. Unit!UnitHealthMissing(t) = Unit!Clamped(d.maxHealth, d.health)
      BY <2>1, <2>2
    <2> QED BY <2>3 DEF Unit!Clamped
  <1>4. ASSUME Unit!ResolveToken(t) = {} \/ type \in {d.type, Unit!ActivePower}
        PROVE  Unit!UnitPowerMissing(t, type) =
                LET s == Unit!Shown(d, type) IN IF s.max > s.cur THEN s.max - s.cur ELSE 0
    <2> DEFINE Types == {y \in DOMAIN Divisors :
                 /\ type = Unit!ActivePower => y = d.type
                 /\ type # Unit!ActivePower => y = type
                 /\ src = "Roster" => y = d.type}
               power == [cur |-> d.power[d.type], max |-> d.maxPower[d.type], type |-> d.type]
    <2>1. Unit!ReadPower(t, type)
          = {[cur |-> d.power[y], max |-> d.maxPower[y], type |-> y] : y \in Types}
      BY <1>1 DEF Unit!ReadPower
    <2>2. d.type \in DOMAIN Divisors
      BY <1>1 DEF Unit!UnitsAssumption
    <2>3. CASE type = Unit!ActivePower \/ type = d.type
      <3>1. Types = {d.type}
        BY <2>2, <2>3
      <3>2. Unit!ReadPower(t, type) = {power}
        BY <2>1, <3>1
      <3>3. (CHOOSE x \in Unit!ReadPower(t, type) : TRUE) = power /\ Unit!ReadPower(t, type) # {}
        BY <3>2
      <3>4. Unit!Shown(d, type) = [max |-> d.maxPower[d.type] \div Divisors[d.type],
                              cur |-> d.power[d.type] \div Divisors[d.type]]
        BY <2>3 DEF Unit!Shown
      <3> DEFINE chosen == CHOOSE x \in Unit!ReadPower(t, type) : TRUE
      <3>5. Unit!UnitPowerMissing(t, type) = Unit!Clamped(chosen.max \div Divisors[chosen.type],
                                                chosen.cur \div Divisors[chosen.type])
        BY <3>3 DEF Unit!UnitPowerMissing
      <3>6. chosen = power
        BY <3>3
      <3> HIDE DEF chosen
      <3>7. Unit!UnitPowerMissing(t, type)
            = Unit!Clamped(d.maxPower[d.type] \div Divisors[d.type],
                                                d.power[d.type] \div Divisors[d.type])
        BY <3>5, <3>6
      <3> QED BY <3>4, <3>7 DEF Unit!Clamped
    <2>4. CASE ~(type = Unit!ActivePower \/ type = d.type)
      <3>1. Types = {}
        BY <1>1, <1>4, <2>4
      <3>2. Unit!ReadPower(t, type) = {}
        BY <2>1, <3>1
      <3>3. Unit!Shown(d, type) = [max |-> 0, cur |-> 0]
        BY <2>4 DEF Unit!Shown
      <3> QED BY <3>2, <3>3 DEF Unit!UnitPowerMissing
    <2> QED BY <2>3, <2>4
  <1> QED BY <1>3, <1>4

\* A creature's fields, its owner, its race and its distance are of the unit a token names.
LEMMA FieldsOfOne ==
  ASSUME Unit!UnitsAssumption, Unit!UnitsInv, NEW t \in Unit!Tokens
  PROVE  /\ Unit!CreatureFields(t) # {} => Unit!UnitGUID(t) = Unit!CreatureFields(t)
         /\ Unit!UnitOwnerGUID(t) # {} => Unit!CreatureFields(t) # {}
         /\ Unit!UnitDistanceSquared(t) = "checked" =>
                Unit!UnitGUID(t) = Unit!ResolveToken(t) /\ Unit!UnitGUID("player") = {Me}
         /\ \A r \in Unit!UnitRaceBase(t) : Unit!UnitGUID(t) # {}
            /\ Bytes[CHOOSE u \in Unit!UnitGUID(t) : TRUE] = r.race
  <1>1. ASSUME NEW s \in Unit!Tokens, Unit!ResolveToken(s) # {}
        PROVE  Unit!UnitGUID(s) = Unit!ResolveToken(s)
               /\ Unit!ResolveToken(s) = {Unit!GuidForToken(s)}
    <2>1. Unit!ResolveToken(s) = {Unit!GuidForToken(s)} /\ Unit!GuidForToken(s) # Unit!Nobody
      BY <1>1, NamedUnits DEF Unit!ResolveToken
    <2> QED BY <2>1 DEF Unit!UnitGUID
  <1>2. Unit!CreatureFields(t) # {} => Unit!UnitGUID(t) = Unit!CreatureFields(t)
    BY <1>1 DEF Unit!CreatureFields
  <1>3. Unit!UnitOwnerGUID(t) # {} => Unit!CreatureFields(t) # {}
    BY DEF Unit!UnitOwnerGUID, Unit!CreatureFields
  <1>4. ASSUME Unit!UnitDistanceSquared(t) = "checked"
        PROVE  Unit!UnitGUID(t) = Unit!ResolveToken(t) /\ Unit!UnitGUID("player") = {Me}
    <2>1. Unit!ResolveToken(t) # {} /\ Unit!ResolveToken("player") # {}
          /\ "player" \in Unit!Tokens
      BY <1>4 DEF Unit!UnitDistanceSquared, Unit!Tokens
    <2>2. Unit!GuidForToken("player") = Me
      <3>1. Unit!GuidForToken("player") # Unit!Nobody
        BY <2>1, NamedUnits DEF Unit!ResolveToken
      <3> QED BY <3>1 DEF Unit!GuidForToken
    <2> QED BY <1>1, <2>1, <2>2
  <1>5. ASSUME NEW r \in Unit!UnitRaceBase(t)
        PROVE  Unit!UnitGUID(t) # {} /\ Bytes[CHOOSE u \in Unit!UnitGUID(t) : TRUE] = r.race
    <2>1. r.race \in Unit!UnitByte(t)
      BY <1>5 DEF Unit!UnitRaceBase
    <2>2. CASE t = "player"
      <3>1. session # "glue"
        BY <2>1, <2>2 DEF Unit!UnitByte
      <3> QED BY <2>1, <2>2, <3>1, PlayerIsMe
    <2>3. CASE t # "player"
      <3>1. PICK u \in Unit!ResolveToken(t) : r.race = Bytes[u]
        BY <2>1, <2>3 DEF Unit!UnitByte
      <3> QED BY <1>1, <3>1
    <2> QED BY <2>2, <2>3
  <1> QED BY <1>2, <1>3, <1>4, <1>5

\* A raid is a group, and either group is one.
LEMMA GroupsAgree ==
  ASSUME Unit!UnitsInv
  PROVE  /\ \A g \in 0..2 : Unit!IsInRaid(g) => Unit!IsInGroup(g)
         /\ Unit!IsInGroup(0) = (Unit!IsInGroup(1) \/ Unit!IsInGroup(2))
         /\ Unit!IsInRaid(0) = (Unit!IsInRaid(1) \/ Unit!IsInRaid(2))
  <1>1. pvpMap \in BOOLEAN /\ (~pvpMap => current = home)
    BY DEF Unit!UnitsInv
  <1>2. \A g \in 0..2 : g = 0 \/ g = 1 \/ g = 2
    OBVIOUS
  <1>3. /\ Unit!IsInGroup(1) = (home # "none") /\ Unit!IsInGroup(2) = (pvpMap /\ current # "none")
        /\ Unit!IsInGroup(0) = (current # "none" \/ home # "none")
    BY DEF Unit!IsInGroup
  <1>4. /\ Unit!IsInRaid(1) = (home = "raid") /\ Unit!IsInRaid(2) = (pvpMap /\ current = "raid")
        /\ Unit!IsInRaid(0) = ("raid" \in {current, home})
    BY DEF Unit!IsInRaid
  <1>5. Unit!IsInGroup(0) = (Unit!IsInGroup(1) \/ Unit!IsInGroup(2))
        /\ Unit!IsInRaid(0) = (Unit!IsInRaid(1) \/ Unit!IsInRaid(2))
    <2>1. CASE pvpMap
      <3>1. Unit!IsInGroup(2) = (current # "none") /\ Unit!IsInRaid(2) = (current = "raid")
        BY <2>1 DEF Unit!IsInGroup, Unit!IsInRaid
      <3>2. Unit!IsInRaid(0) = (current = "raid" \/ home = "raid")
        BY <1>4
      <3>3. Unit!IsInGroup(0) <=> Unit!IsInGroup(1) \/ Unit!IsInGroup(2)
        BY <1>3, <3>1
      <3>4. Unit!IsInRaid(0) <=> Unit!IsInRaid(1) \/ Unit!IsInRaid(2)
        BY <1>4, <3>1, <3>2
      <3>5. {Unit!IsInGroup(0), Unit!IsInRaid(0)} \subseteq BOOLEAN
        BY <1>3, <3>2
      <3> QED BY <3>3, <3>4, <3>5
    <2>2. CASE ~pvpMap
      <3>1. ~Unit!IsInGroup(2) /\ ~Unit!IsInRaid(2)
        BY <2>2 DEF Unit!IsInGroup, Unit!IsInRaid
      <3>2. Unit!IsInGroup(0) = (home # "none") /\ Unit!IsInRaid(0) = (home = "raid")
        BY <1>1, <1>3, <1>4, <2>2
      <3> QED BY <1>3, <1>4, <3>1, <3>2
    <2> QED BY <2>1, <2>2
  <1>6. (Unit!IsInRaid(0) => Unit!IsInGroup(0)) /\ (Unit!IsInRaid(1) => Unit!IsInGroup(1))
        /\ (Unit!IsInRaid(2) => Unit!IsInGroup(2))
    BY <1>3, <1>4
  <1>7. ASSUME NEW g \in 0..2, Unit!IsInRaid(g) PROVE Unit!IsInGroup(g)
    <2>1. CASE g = 0
      BY <1>6, <1>7, <2>1
    <2>2. CASE g = 1
      BY <1>6, <1>7, <2>2
    <2>3. CASE g = 2
      BY <1>6, <1>7, <2>3
    <2> QED BY <1>2, <2>1, <2>2, <2>3
  <1> QED BY <1>5, <1>7

\* So the calls about units agree.
LEMMA UnitsAreOne ==
  ASSUME Unit!UnitsAssumption, Unit!UnitsInv PROVE Unit!UnitsAgree
  BY GuidsLeadBack, PlayerIsMe, ShownIsMissing, FieldsOfOne, GroupsAgree DEF Unit!UnitsAgree

-----------------------------------------------------------------------------
(* Menus and greetings (Gossip).                                           *)

CONSTANTS
    Npcs, Menus, Greetings, GREETING_QUESTS_MAX

VARIABLES
    gossipNpc, menu, questgiver, greetingNpc, greeting, sentBy

Talk     == INSTANCE Gossip WITH from <- sentBy

gossipVars == <<gossipNpc, menu, questgiver, greetingNpc, greeting, sentBy>>

\* Its sets are counted as ours are.
LEMMA MenusCounted ==
  ASSUME NEW S
  PROVE  Talk!Cardinality(S) = Cardinality(S) /\ (Talk!IsFiniteSet(S) <=> IsFiniteSet(S))
  BY DEF Talk!Cardinality, Cardinality, Talk!IsFiniteSet, IsFiniteSet

\* The slots of a menu in order.
LEMMA MenuSlotsInOrder ==
  ASSUME NEW S \in SUBSET Int, IsFiniteSet(S)
  PROVE  LET A == Talk!Ascending(S)
             n == Cardinality(S)
             lower(x) == Cardinality({y \in S : y < x})
         IN  /\ n \in Nat /\ DOMAIN A = 1..n
             /\ \A i \in 1..n : A[i] \in S /\ lower(A[i]) = i - 1
             /\ \A x \in S : lower(x) + 1 \in 1..n /\ A[lower(x) + 1] = x
             /\ \A i, j \in 1..n : i < j => A[i] < A[j]
  <1>1. Talk!Ascending(S) = InOrder(S)
    BY DEF Talk!Ascending, Talk!Cardinality, Cardinality, InOrder, Below
  <1>2. DOMAIN InOrder(S) = 1..Cardinality(S)
    BY DEF InOrder
  <1> QED BY <1>1, <1>2, EachHasItsPlace DEF Below

\* The first option or quest of a number is one.
LEMMA FirstChoice ==
  ASSUME NEW P \in SUBSET Nat, P # {} PROVE \E m \in P : Talk!First(P) = {m}
  BY LeastIsOne DEF Talk!First

\* Nobody is spoken to at first.
LEMMA GossipStarts == ASSUME Talk!GossipAssumption, Talk!GossipInit PROVE Talk!GossipInv
  BY DEF Talk!GossipAssumption, Talk!GossipInit, Talk!GossipInv, Talk!GossipTypeOK

\* Each step keeps the menu and the greeting with who sent them.
LEMMA GossipStays == ASSUME Talk!GossipAssumption, Talk!GossipInv, Talk!GossipNext
                     PROVE  Talk!GossipInv'
  <1> DEFINE Who == Npcs \cup {Talk!NoNpc}
  <1>0. sentBy \in [menu : Who, greeting : Who]
    BY DEF Talk!GossipInv, Talk!GossipTypeOK
  <1>1. ASSUME NEW npc \in Npcs, NEW m \in Menus, Talk!GossipMessage(npc, m) PROVE Talk!GossipInv'
    <2>1. sentBy' \in [menu : Who, greeting : Who] /\ sentBy'.menu = npc
          /\ sentBy'.greeting = sentBy.greeting
      BY <1>0, <1>1 DEF Talk!GossipMessage
    <2> QED BY <1>1, <2>1 DEF Talk!GossipMessage, Talk!GossipInv, Talk!GossipTypeOK
  <1>2. ASSUME NEW npc \in Npcs, NEW g \in Greetings, Talk!QuestgiverQuestList(npc, g)
        PROVE  Talk!GossipInv'
    <2>1. sentBy' \in [menu : Who, greeting : Who] /\ sentBy'.greeting = npc
          /\ sentBy'.menu = sentBy.menu
      BY <1>0, <1>2 DEF Talk!QuestgiverQuestList
    <2> QED BY <1>2, <2>1 DEF Talk!QuestgiverQuestList, Talk!GossipInv, Talk!GossipTypeOK
  <1>3. ASSUME NEW npc \in Npcs, Talk!QuestPanelOpens(npc) PROVE Talk!GossipInv'
    BY <1>3 DEF Talk!QuestPanelOpens, Talk!GossipInv, Talk!GossipTypeOK
  <1>4. ASSUME Talk!CloseGossip \/ Talk!QuestPanelCloses PROVE Talk!GossipInv'
    BY <1>4 DEF Talk!CloseGossip, Talk!QuestPanelCloses, Talk!GossipInv, Talk!GossipTypeOK
  <1> QED BY <1>1, <1>2, <1>3, <1>4 DEF Talk!GossipNext

\* Slots of a sequence are a finite set of numbers.
LEMMA SlotsOf ==
  ASSUME NEW T, NEW s \in Seq(T), NEW S \in SUBSET DOMAIN s
  PROVE  /\ IsFiniteSet(S) /\ S \in SUBSET Int /\ S \in SUBSET Nat
  <1>1. DOMAIN s = 1..Len(s) /\ Len(s) \in Nat
    OBVIOUS
  <1>2. IsFiniteSet(1..Len(s))
    BY <1>1, FS_Interval
  <1> QED BY <1>1, <1>2, FS_Subset

\* What a menu and a greeting hold.
LEMMA MenuIs ==
  ASSUME Talk!GossipAssumption, Talk!GossipInv
  PROVE  /\ menu.options \in Seq(Int) /\ menu.quests \in Seq([id : Nat, status : Talk!Statuses])
         /\ \A active \in BOOLEAN : Talk!Side(active) \in Seq([id : Nat, complete : BOOLEAN])
  <1> DEFINE Q == [id : Nat, status : Talk!Statuses]
             G == [id : Nat, complete : BOOLEAN]
  <1>0. <<>> \in Seq(Int) /\ <<>> \in Seq(Q) /\ <<>> \in Seq(G)
    OBVIOUS
  <1>1. /\ menu.options \in Seq(Int) /\ menu.quests \in Seq([id : Nat, status : Talk!Statuses])
    <2> HIDE DEF Q
    <2>1. CASE menu \in Menus
      BY <2>1 DEF Talk!GossipAssumption, Q
    <2>2. CASE menu = [options |-> <<>>, quests |-> <<>>]
      BY <1>0, <2>2 DEF Q
    <2> QED BY <2>1, <2>2 DEF Talk!GossipInv, Talk!GossipTypeOK
  <1>2. /\ greeting.active \in Seq([id : Nat, complete : BOOLEAN])
        /\ greeting.available \in Seq([id : Nat, complete : BOOLEAN])
    <2>1. CASE greeting \in Greetings
      BY <2>1 DEF Talk!GossipAssumption
    <2>2. CASE greeting = [active |-> <<>>, available |-> <<>>]
      BY <1>0, <2>2
    <2> QED BY <2>1, <2>2 DEF Talk!GossipInv, Talk!GossipTypeOK
  <1> QED BY <1>1, <1>2 DEF Talk!Side

\* The options that are listed are the ones in use.
LEMMA OptionsListed ==
  ASSUME Talk!GossipAssumption, Talk!GossipInv
  PROVE  /\ Talk!GetNumOptions \in Nat /\ DOMAIN Talk!OptionSlots = 1..Talk!GetNumOptions
         /\ \A i \in 1..Talk!GetNumOptions : Talk!OptionSlots[i] \in Nat
         /\ Talk!GetNumOptions > 0 => gossipNpc # Talk!NoNpc
  <1> DEFINE S == {s \in DOMAIN menu.options : menu.options[s] >= 0}
  <1>1. CASE Talk!GossipSessionActive
    <2>1. IsFiniteSet(S) /\ S \in SUBSET Int /\ S \in SUBSET Nat
      BY MenuIs, SlotsOf
    <2>2. Talk!OptionSlots = Talk!Ascending(S) /\ Talk!GetNumOptions = Cardinality(S)
      BY <1>1, MenusCounted DEF Talk!OptionSlots, Talk!GetNumOptions
    <2> HIDE DEF S
    <2>3. /\ Cardinality(S) \in Nat /\ DOMAIN Talk!Ascending(S) = 1..Cardinality(S)
          /\ \A i \in 1..Cardinality(S) : Talk!Ascending(S)[i] \in S
      BY <2>1, MenuSlotsInOrder
    <2> QED BY <1>1, <2>1, <2>2, <2>3 DEF Talk!GossipSessionActive
  <1>2. CASE ~Talk!GossipSessionActive
    BY <1>2 DEF Talk!OptionSlots, Talk!GetNumOptions
  <1> QED BY <1>1, <1>2

\* An option is selected alike by its place and by its number.
LEMMA OptionsSelect ==
  ASSUME Talk!GossipAssumption, Talk!GossipInv, NEW n \in 1..Talk!GetNumOptions
  PROVE  LET id == menu.options[Talk!OptionSlots[n]]
         IN  /\ Talk!SelectOptionByIndex(n) = {[npc |-> gossipNpc, option |-> id]}
             /\ Talk!SelectOption(id) = {[npc |-> gossipNpc, option |-> id]}
  <1> DEFINE id == menu.options[Talk!OptionSlots[n]]
             J == {j \in DOMAIN Talk!OptionSlots : menu.options[Talk!OptionSlots[j]] = id}
             P == {Talk!OptionSlots[i] : i \in J}
  <1>1. /\ n \in DOMAIN Talk!OptionSlots
        /\ \A i \in DOMAIN Talk!OptionSlots : Talk!OptionSlots[i] \in Nat
    BY OptionsListed
  <1>2. Talk!SelectOptionByIndex(n) = {[npc |-> gossipNpc, option |-> id]}
    <2>1. {n} \cap DOMAIN Talk!OptionSlots = {n}
      BY <1>1
    <2> QED BY <2>1 DEF Talk!SelectOptionByIndex, Talk!FUN_GOSSIP_SELECT_OPTION
  <1>3. Talk!SelectOption(id) = {[npc |-> gossipNpc, option |-> id]}
    <2>1. P \in SUBSET Nat /\ Talk!OptionSlots[n] \in P
      BY <1>1
    <2>2. PICK m \in P : Talk!First(P) = {m}
      <3> HIDE DEF P
      <3> QED BY <2>1, FirstChoice
    <2>3. menu.options[m] = id
      BY <2>2
    <2>4. Talk!SelectOption(id) = {Talk!FUN_GOSSIP_SELECT_OPTION(s) : s \in Talk!First(P)}
      BY DEF Talk!SelectOption
    <2> HIDE DEF P, id
    <2> QED BY <2>2, <2>3, <2>4 DEF Talk!FUN_GOSSIP_SELECT_OPTION
  <1> QED BY <1>2, <1>3

\* The quests that are listed are the ones of the menu or the greeting, each at its index.
LEMMA GossipQuestsListed ==
  ASSUME Talk!GossipAssumption, Talk!GossipInv, NEW active \in BOOLEAN
  PROVE  /\ Talk!GetNumQuests(active) \in Nat
         /\ DOMAIN Talk!Quests(active) = 1..Talk!GetNumQuests(active)
         /\ Len(Talk!Quests(active)) = Talk!GetNumQuests(active)
         /\ \A i \in 1..Talk!GetNumQuests(active) :
             /\ Talk!SentFor(active, i)
                = [npc |-> Talk!Here, quest |-> Talk!Quests(active)[i].questID]
             /\ Talk!Quests(active)[i].isComplete => active
  <1> DEFINE n == Talk!GetNumQuests(active)
  <1>1. CASE Talk!Session = "gossip"
    <2> DEFINE S == {i \in DOMAIN menu.quests :
                     Talk!IsActiveQuest(menu.quests[i].status) = active}
               A == Talk!QuestSlots(active)
    <2>1. IsFiniteSet(S) /\ S \in SUBSET Int
      BY MenuIs, SlotsOf
    <2>2. A = Talk!Ascending(S) /\ n = Cardinality(S)
      BY <1>1, MenusCounted DEF Talk!QuestSlots, Talk!GetNumQuests
    <2>3. n \in Nat /\ DOMAIN A = 1..n
      <3> HIDE DEF S, A, n
      <3> QED BY <2>1, <2>2, MenuSlotsInOrder
    <2>4. Talk!Quests(active) = [i \in 1..n |->
            [questID |-> menu.quests[A[i]].id,
             isComplete |-> active /\ menu.quests[A[i]].status = 4]]
      BY <1>1, <2>3 DEF Talk!Quests
    <2>5. Talk!GossipSessionActive /\ Talk!Here = gossipNpc
      BY <1>1 DEF Talk!Session, Talk!Here, Talk!GossipSessionActive
    <2>6. ASSUME NEW i \in 1..n
          PROVE Talk!SentFor(active, i) = [npc |-> Talk!Here, quest |-> menu.quests[A[i]].id]
      <3>1. (i - 1) + 1 = i
        BY <2>3
      <3> QED BY <2>5, <3>1 DEF Talk!SentFor, Talk!FUN_GOSSIP_SELECT_QUEST
    <2> HIDE DEF A, n
    <2> QED BY <2>3, <2>4, <2>6 DEF n
  <1>2. CASE Talk!Session = "greeting"
    <2> DEFINE w == Talk!Take(Talk!Side(active), GREETING_QUESTS_MAX)
    <2> DEFINE G == [id : Nat, complete : BOOLEAN]
    <2>8. Talk!Side(active) \in Seq(G)
      BY MenuIs
    <2>9. GREETING_QUESTS_MAX \in Nat
      BY DEF Talk!GossipAssumption
    <2> HIDE DEF G
    <2>1. Talk!Side(active) \in Seq(G) /\ Len(Talk!Side(active)) \in Nat
          /\ GREETING_QUESTS_MAX \in Nat
      BY <2>8, <2>9
    <2>2. n = Len(w)
      BY <1>2 DEF Talk!GetNumQuests
    <2>3. Len(w) \in Nat /\ DOMAIN w = 1..Len(w)
          /\ \A i \in 1..Len(w) : w[i] = Talk!Side(active)[i]
      BY <2>1 DEF Talk!Take
    <2>4. Talk!Quests(active) = [i \in 1..n |->
            [questID |-> w[i].id, isComplete |-> active /\ w[i].complete]]
      BY <1>2, <2>2, <2>3 DEF Talk!Quests
    <2>5. ~Talk!GossipSessionActive /\ Talk!Here = questgiver
      BY <1>2 DEF Talk!Session, Talk!Here, Talk!GossipSessionActive
    <2>6. ASSUME NEW i \in 1..n
          PROVE  Talk!SentFor(active, i) = [npc |-> Talk!Here, quest |-> w[i].id]
      <3>1. (i - 1) + 1 = i /\ w[i] = Talk!Side(active)[i]
        BY <2>2, <2>3
      <3> QED BY <2>5, <3>1 DEF Talk!SentFor, Talk!FUN_GREETING_SELECT_QUEST
    <2>7. n \in Nat
      BY <2>2, <2>3
    <2> HIDE DEF w, n
    <2> QED BY <2>4, <2>6, <2>7 DEF n
  <1>3. CASE Talk!Session \notin {"gossip", "greeting"}
    <2>1. n = 0 /\ Talk!Quests(active) = <<>>
      BY <1>3 DEF Talk!GetNumQuests, Talk!Quests
    <2> QED BY <2>1
  <1> QED BY <1>1, <1>2, <1>3

\* A quest's number selects the quest that is listed with it.
LEMMA QuestsSelect ==
  ASSUME Talk!GossipAssumption, Talk!GossipInv, NEW active \in BOOLEAN,
         NEW i \in 1..Talk!GetNumQuests(active)
  PROVE  LET q == Talk!Quests(active)[i]
         IN  Talk!SelectQuestByID(q.questID, active) = {[npc |-> Talk!Here, quest |-> q.questID]}
  <1> DEFINE q == Talk!Quests(active)[i]
             P == {j \in DOMAIN Talk!Quests(active) : Talk!Quests(active)[j].questID = q.questID}
  <1>1. P \in SUBSET Nat /\ i \in P
    BY GossipQuestsListed
  <1>2. PICK m \in P : Talk!First(P) = {m}
    <2> HIDE DEF P
    <2> QED BY <1>1, FirstChoice
  <1>3. m \in 1..Talk!GetNumQuests(active) /\ Talk!Quests(active)[m].questID = q.questID
    BY <1>2, GossipQuestsListed
  <1>4. Talk!SentFor(active, m) = [npc |-> Talk!Here, quest |-> q.questID]
    BY <1>3, GossipQuestsListed
  <1>5. Talk!SelectQuestByID(q.questID, active) = {Talk!SentFor(active, j) : j \in Talk!First(P)}
    BY DEF Talk!SelectQuestByID, Talk!SentFor
  <1> HIDE DEF P, q
  <1> QED BY <1>2, <1>4, <1>5 DEF q

\* So the lists and the selectors agree.
LEMMA GossipIsOne == ASSUME Talk!GossipAssumption, Talk!GossipInv PROVE Talk!GossipAgrees
  <1>1. Talk!GetText \subseteq {Talk!Here} /\ (Talk!Session = "none" => Talk!GetText = {})
    BY DEF Talk!GetText, Talk!Here, Talk!Session, Talk!GossipSessionActive,
       Talk!GreetingSessionActive, Talk!GossipInv
  <1>2. Talk!GetNumOptions = Len(Talk!GetOptions)
        /\ Talk!GetOptions = [i \in 1..Talk!GetNumOptions |->
                [gossipOptionID |-> menu.options[Talk!OptionSlots[i]], orderIndex |-> i]]
    BY OptionsListed DEF Talk!GetOptions
  <1>3. ASSUME NEW o \in Talk!Range(Talk!GetOptions)
        PROVE  /\ Talk!SelectOptionByIndex(o.orderIndex)
                  = {[npc |-> Talk!Here, option |-> o.gossipOptionID]}
               /\ Talk!SelectOption(o.gossipOptionID) = Talk!SelectOptionByIndex(o.orderIndex)
    <2>1. PICK n \in 1..Talk!GetNumOptions :
            o = [gossipOptionID |-> menu.options[Talk!OptionSlots[n]], orderIndex |-> n]
      BY <1>2 DEF Talk!Range
    <2>2. gossipNpc = Talk!Here
      <3>1. Talk!GetNumOptions > 0
        BY OptionsListed
      <3> QED BY <3>1, OptionsListed DEF Talk!Here
    <2> QED BY <2>1, <2>2, OptionsSelect
  <1>4. ASSUME NEW active \in BOOLEAN
        PROVE  /\ Talk!GetNumQuests(active) = Len(Talk!Quests(active))
               /\ \A q \in Talk!Range(Talk!Quests(active)) :
                   /\ Talk!SelectQuestByID(q.questID, active)
                      = {[npc |-> Talk!Here, quest |-> q.questID]}
                   /\ q.isComplete => active
    <2>1. ASSUME NEW q \in Talk!Range(Talk!Quests(active))
          PROVE  /\ Talk!SelectQuestByID(q.questID, active)
                    = {[npc |-> Talk!Here, quest |-> q.questID]}
                 /\ q.isComplete => active
      <3>1. PICK i \in 1..Talk!GetNumQuests(active) : q = Talk!Quests(active)[i]
        BY GossipQuestsListed DEF Talk!Range
      <3> QED BY <3>1, GossipQuestsListed, QuestsSelect
    <2> QED BY <2>1, GossipQuestsListed
  <1> QED BY <1>1, <1>2, <1>3, <1>4 DEF Talk!GossipAgrees, Talk!Here

-----------------------------------------------------------------------------
(* The range to the target (SwingRange).                                   *)

CONSTANTS
    SwingTypes, RangedWeapons

VARIABLES
    gear, target, rangeEnabled, lastState, at, firing, known

Reach    == INSTANCE SwingRange

rangeVars == <<gear, target, rangeEnabled, lastState, at, firing, known>>

\* What a poll finds is one of the states.
LEMMA EvaluateIsAState ==
  ASSUME NEW t PROVE Reach!Evaluate(t) \in Reach!RangeStates
  BY DEF Reach!Evaluate, Reach!RangeStates

\* What a poll would find changes with the gear and the target only.
LEMMA EvaluateStays ==
  ASSUME NEW t, gear' = gear, target' = target
  PROVE  Reach!Evaluate(t)' = Reach!Evaluate(t)
  BY DEF Reach!Evaluate, Reach!HasWeapon, Reach!ProbeRange

\* Nothing is watched at first.
LEMMA RangeStarts == ASSUME Reach!RangeAssumption, Reach!RangeInit PROVE Reach!RangeInv
  <1>1. at = 3 /\ ~firing /\ \A t \in SwingTypes : rangeEnabled[t] = FALSE
    BY DEF Reach!RangeInit
  <1>2. rangeEnabled \in [SwingTypes -> BOOLEAN]
    BY DEF Reach!RangeInit
  <1>3. lastState \in [SwingTypes -> Reach!RangeStates]
        /\ known \in [SwingTypes -> Reach!RangeStates]
    BY DEF Reach!RangeInit, Reach!RangeStates
  <1>4. at \in 0..3
    BY <1>1
  <1>5. firing \in BOOLEAN /\ (at = 3 => ~firing)
    BY DEF Reach!RangeInit
  <1> QED BY <1>1, <1>2, <1>3, <1>4, <1>5 DEF Reach!RangeInv

\* A poll tells of the state it found and remembers it, or goes on to the next swing.
LEMMA PollsKeepRange == ASSUME Reach!RangeAssumption, Reach!RangeInv, Reach!Polls
                        PROVE  Reach!RangeInv'
  <1>1. \A u \in SwingTypes : Reach!Evaluate(u)' = Reach!Evaluate(u)
    BY EvaluateStays DEF Reach!Polls
  <1> SwingTypes \subseteq 0..2
    BY DEF Reach!RangeAssumption
  <1>2. CASE at \in SwingTypes /\ rangeEnabled[at] /\ Reach!Evaluate(at) # lastState[at]
    <2>1. /\ at' = at /\ at' < 3 /\ firing' = TRUE /\ rangeEnabled' = rangeEnabled /\ ~firing
          /\ lastState' = [lastState EXCEPT ![at] = Reach!Evaluate(at)]
          /\ known' = [known EXCEPT ![at] = Reach!Evaluate(at)]
      BY <1>2 DEF Reach!Polls
    <2>2. lastState' \in [SwingTypes -> Reach!RangeStates]
          /\ known' \in [SwingTypes -> Reach!RangeStates]
      BY <1>2, <2>1, EvaluateIsAState DEF Reach!RangeInv
    <2>3. ASSUME NEW t \in SwingTypes, rangeEnabled'[t]
          PROVE  known'[t] = lastState'[t]
                 /\ ((t < at' /\ at' < 3) \/ (at' = t /\ firing')
                     => lastState'[t] = Reach!Evaluate(t)')
      BY <2>1, <2>3, <1>1 DEF Reach!RangeInv
    <2> QED BY <2>1, <2>2, <2>3 DEF Reach!RangeInv
  <1>3. CASE ~(at \in SwingTypes /\ rangeEnabled[at] /\ Reach!Evaluate(at) # lastState[at])
    <2>1. /\ at' = at + 1 /\ at < 3 /\ firing' = FALSE /\ rangeEnabled' = rangeEnabled
          /\ lastState' = lastState /\ known' = known
      BY <1>3 DEF Reach!Polls, Reach!RangeInv
    <2>3. ASSUME NEW t \in SwingTypes, rangeEnabled'[t]
          PROVE  known'[t] = lastState'[t]
                 /\ ((t < at' /\ at' < 3) \/ (at' = t /\ firing')
                     => lastState'[t] = Reach!Evaluate(t)')
      BY <2>1, <2>3, <1>1, <1>3 DEF Reach!RangeInv
    <2>4. at' \in 0..3
      BY <2>1 DEF Reach!RangeInv
    <2>5. firing' \in BOOLEAN /\ (at' = 3 => ~firing')
      BY <2>1
    <2> QED BY <2>1, <2>3, <2>4, <2>5 DEF Reach!RangeInv
  <1> QED BY <1>2, <1>3

\* The handlers of an event return to the poll that fired it.
LEMMA HandlersKeepRange == ASSUME Reach!RangeAssumption, Reach!RangeInv, Reach!EventHandled
                           PROVE  Reach!RangeInv'
  <1>1. \A u \in SwingTypes : Reach!Evaluate(u)' = Reach!Evaluate(u)
    BY EvaluateStays DEF Reach!EventHandled
  <1> SwingTypes \subseteq 0..2
    BY DEF Reach!RangeAssumption
  <1>2. /\ at' = at + 1 /\ at < 3 /\ firing /\ firing' = FALSE /\ rangeEnabled' = rangeEnabled
        /\ lastState' = lastState /\ known' = known
    BY DEF Reach!EventHandled, Reach!RangeInv
  <1>3. ASSUME NEW t \in SwingTypes, rangeEnabled'[t]
        PROVE  known'[t] = lastState'[t]
               /\ ((t < at' /\ at' < 3) \/ (at' = t /\ firing')
                   => lastState'[t] = Reach!Evaluate(t)')
    BY <1>1, <1>2, <1>3 DEF Reach!RangeInv
  <1>4. at' \in 0..3
    BY <1>2 DEF Reach!RangeInv
  <1>5. firing' \in BOOLEAN /\ (at' = 3 => ~firing')
    BY <1>2
  <1> QED BY <1>2, <1>3, <1>4, <1>5 DEF Reach!RangeInv

\* A listener knows what was last found, and what was found in this frame is still so until
\* the frame ends, whatever is switched on or off between two polls.
LEMMA RangeStays ==
  ASSUME Reach!RangeAssumption, Reach!RangeInv, Reach!RangeNext
  PROVE  Reach!RangeInv'
  <1> SwingTypes \subseteq 0..2
    BY DEF Reach!RangeAssumption
  <1>1. ASSUME NEW t \in SwingTypes, NEW on \in BOOLEAN, Reach!Enable(t, on) PROVE Reach!RangeInv'
    <2>1. \A u \in SwingTypes : Reach!Evaluate(u)' = Reach!Evaluate(u)
      BY <1>1, EvaluateStays DEF Reach!Enable
    <2>2. /\ at' = at /\ firing' = firing
          /\ rangeEnabled' = [rangeEnabled EXCEPT ![t] = on]
          /\ lastState' = [lastState EXCEPT ![t] = IF on THEN Reach!Evaluate(t) ELSE "NoCheck"]
          /\ known' = [known EXCEPT ![t] = Reach!Evaluate(t)]
      BY <1>1 DEF Reach!Enable, Reach!EnableRangeCheck
    <2>3. /\ rangeEnabled' \in [SwingTypes -> BOOLEAN]
          /\ lastState' \in [SwingTypes -> Reach!RangeStates]
          /\ known' \in [SwingTypes -> Reach!RangeStates]
      <3>1. "NoCheck" \in Reach!RangeStates BY DEF Reach!RangeStates
      <3> QED BY <2>2, <3>1, EvaluateIsAState DEF Reach!RangeInv
    <2>4. ASSUME NEW u \in SwingTypes, rangeEnabled'[u]
          PROVE  /\ known'[u] = lastState'[u]
                 /\ (u < at' /\ at' < 3) \/ (at' = u /\ firing')
                    => lastState'[u] = Reach!Evaluate(u)'
      <3>1. CASE u = t
        <4>1. on /\ known'[u] = Reach!Evaluate(u) /\ lastState'[u] = Reach!Evaluate(u)
          BY <2>2, <2>4, <3>1 DEF Reach!RangeInv
        <4> QED BY <2>1, <4>1
      <3>2. CASE u # t
        <4>1. rangeEnabled[u] /\ known'[u] = known[u] /\ lastState'[u] = lastState[u]
          BY <2>2, <2>4, <3>2 DEF Reach!RangeInv
        <4> QED BY <2>1, <2>2, <4>1 DEF Reach!RangeInv
      <3> QED BY <3>1, <3>2
    <2> QED BY <2>2, <2>3, <2>4 DEF Reach!RangeInv
  <1>2. CASE Reach!FrameBegins
    <2>1. /\ at = 3 /\ at' = 0 /\ firing' = FALSE /\ rangeEnabled' = rangeEnabled
          /\ lastState' = lastState /\ known' = known
      BY <1>2 DEF Reach!FrameBegins, Reach!RangeInv
    <2>2. \A u \in SwingTypes : ~((u < at' /\ at' < 3) \/ (at' = u /\ firing'))
      BY <2>1
    <2>3. at' \in 0..3
      BY <2>1
    <2>4. firing' \in BOOLEAN /\ (at' = 3 => ~firing')
      BY <2>1
    <2> QED BY <2>1, <2>2, <2>3, <2>4 DEF Reach!RangeInv
  <1>3. CASE Reach!Polls
    BY <1>3, PollsKeepRange
  <1>4. CASE Reach!EventHandled
    BY <1>4, HandlersKeepRange
  <1>5. CASE Reach!Moves
    <2>1. /\ at = 3 /\ ~firing /\ at' = 3 /\ firing' = FALSE
          /\ rangeEnabled' = rangeEnabled /\ lastState' = lastState /\ known' = known
      BY <1>5 DEF Reach!Moves, Reach!RangeInv
    <2>2. \A u \in SwingTypes : ~((u < at' /\ at' < 3) \/ (at' = u /\ firing'))
      BY <2>1
    <2> QED BY <2>1, <2>2 DEF Reach!RangeInv
  <1>6. CASE Reach!RangeReload
    <2>1. at' = at /\ firing' = firing /\ known' = known
      BY <1>6 DEF Reach!RangeReload
    <2>2. \A u \in SwingTypes : ~rangeEnabled'[u]
      BY <1>6 DEF Reach!RangeReload
    <2>3. rangeEnabled' \in [SwingTypes -> BOOLEAN]
          /\ lastState' \in [SwingTypes -> Reach!RangeStates]
      BY <1>6 DEF Reach!RangeReload, Reach!RangeStates
    <2> QED BY <2>1, <2>2, <2>3 DEF Reach!RangeInv
  <1> QED BY <1>1, <1>2, <1>3, <1>4, <1>5, <1>6 DEF Reach!RangeNext

\* So each state found is told of.
LEMMA RangeIsTold ==
  ASSUME Reach!RangeAssumption, Reach!RangeInv
  PROVE  Reach!RangeTold
  <1> SwingTypes \subseteq 0..2
    BY DEF Reach!RangeAssumption
  <1> SUFFICES ASSUME NEW t \in SwingTypes, rangeEnabled[t]
               PROVE  /\ at \in t + 1..2 \/ (at = t /\ firing) => known[t] = Reach!Evaluate(t)
                      /\ at = 3 => known[t] = lastState[t]
    BY DEF Reach!RangeTold
  <1>1. at \in t + 1..2 => t < at /\ at < 3
    OBVIOUS
  <1> QED BY <1>1 DEF Reach!RangeInv

-----------------------------------------------------------------------------
(* Weapon slots and quests turned in (Notices).                            *)

CONSTANTS
    InventorySlots, RelicClasses, PlayerClasses, MaxNotices

VARIABLES
    class, registered, weaponDirty, unheard, completion, completed, turnedIn

Notice   == INSTANCE Notices

noticeVars == <<class, registered, weaponDirty, unheard, completion, completed, turnedIn>>

\* A weapon's mark lasts until its event, and a completion is ahead of its event until the
\* second of its passes.
LEMMA NoticesStay ==
  ASSUME Notice!NoticesInv, Notice!NoticesNext
  PROVE  Notice!NoticesInv'
  <1> USE DEF Notice!NoticesInv
  <1>1. ASSUME NEW s \in InventorySlots, Notice!InventoryUpdate(s) PROVE Notice!NoticesInv'
    BY <1>1 DEF Notice!InventoryUpdate, Notice!IsWeaponSlot, Notice!IsWeapon,
       Notice!PlayerHasRelicSlot
  <1>2. CASE Notice!WeaponTick
    BY <1>2 DEF Notice!WeaponTick
  <1>3. CASE Notice!QuestComplete
    <2>1. PICK q \in 0..1, r \in BOOLEAN :
            /\ completion \in {<<Notice!Pass(q, r, 0), Notice!Pass(q, r, 1)>>,
                               <<Notice!Pass(q, r, 1)>>}
            /\ completed = turnedIn + (IF q # 0 /\ r THEN 1 ELSE 0)
      BY <1>3 DEF Notice!QuestComplete
    <2>2. CASE completion = <<Notice!Pass(q, r, 0), Notice!Pass(q, r, 1)>>
      <3>1. completion' = <<Notice!Pass(q, r, 1)>> /\ turnedIn' = turnedIn /\ completion' # <<>>
        BY <1>3, <2>2 DEF Notice!QuestComplete, Notice!Pass
      <3> QED BY <1>3, <2>1, <3>1 DEF Notice!QuestComplete
    <2>3. CASE completion = <<Notice!Pass(q, r, 1)>>
      <3>1. completion' = <<>> /\ turnedIn' = completed
        BY <1>3, <2>1, <2>3 DEF Notice!QuestComplete, Notice!Pass
      <3> QED BY <1>3, <3>1 DEF Notice!QuestComplete
    <2> QED BY <2>1, <2>2, <2>3
  <1>4. CASE Notice!UIGoes
    BY <1>4 DEF Notice!UIGoes
  <1>5. ASSUME NEW q \in 0..1, NEW r \in BOOLEAN, Notice!QuestCompletes(q, r)
        PROVE  Notice!NoticesInv'
    <2>1. completion' = <<Notice!Pass(q, r, 0), Notice!Pass(q, r, 1)>> /\ completion' # <<>>
      BY <1>5 DEF Notice!QuestCompletes, Notice!Pass
    <2> QED BY <1>5, <2>1 DEF Notice!QuestCompletes
  <1>6. ASSUME NEW c \in PlayerClasses, Notice!UIBuilt(c) PROVE Notice!NoticesInv'
    BY <1>6 DEF Notice!UIBuilt
  <1> QED BY <1>1, <1>2, <1>3, <1>4, <1>5, <1>6 DEF Notice!NoticesNext

\* No weapon has changed and no quest is being turned in at first.
LEMMA NoticesStart ==
  ASSUME Notice!NoticesInit
  PROVE  Notice!NoticesInv
  <1>1. /\ weaponDirty \in BOOLEAN /\ unheard \in BOOLEAN /\ weaponDirty = unheard
        /\ completion = <<>>
    BY DEF Notice!NoticesInit
  <1>2. completed = 0 /\ turnedIn = 0 /\ completed \in Int /\ turnedIn \in Int
    BY DEF Notice!NoticesInit
  <1> QED BY <1>1, <1>2 DEF Notice!NoticesInv

-----------------------------------------------------------------------------
(* The parts side by side.                                                 *)

CONSTANTS
    TheParts,
    Items, Exists, MaxTransfers, EngineAsks, Owned, MaxReloads,
    Values, kMaxDepth

VARIABLES
    part,
    entry, attached, throttled, wire, resp, inWorld, serverIn, transfers,
    owed, sent, wasInWorld, prefetched, pc, todo, entered, handler, fired, reloads,
    value, saved, loaded

Quest    == INSTANCE ItemData_proofs WITH held <- throttled
Serial   == INSTANCE Serialization

AllParts ==
    {"reputation", "sound files", "range", "clock", "calendar",
     "quests", "auras", "friends", "units", "gossip", "notices", "bags", "item info",
     "encodings", "serialization", "toc"}

ASSUME QueriesAssumption ==
    /\ TheParts \subseteq AllParts
    /\ Rep!ReputationAssumption /\ Files!SoundAssumption /\ Reach!RangeAssumption
    /\ Time!TimeAssumption /\ Quest!CacheAssumption /\ Quest!ItemAssumption
    /\ Aura!AurasAssumption /\ Friends!SocialAssumption /\ Unit!UnitsAssumption
    /\ Talk!GossipAssumption /\ Notice!NoticesAssumption /\ Bags!InventoryAssumption
    /\ Info!ItemInfoAssumption /\ Codec!EncodingsAssumption /\ Serial!SerializationAssumption
    /\ Toc!TocAssumption

questVars    == <<entry, attached, throttled, wire, resp, inWorld, serverIn, transfers,
                  owed, sent, wasInWorld, prefetched, pc, todo, entered, handler, fired,
                  reloads>>
serialVars   == <<value, saved, loaded>>

vars == <<part, repVars, fileVars, rangeVars, clockVars, calVars, questVars,
          auraVars, socialVars, unitVars, gossipVars, noticeVars, invVars, infoVars, codecVars,
          serialVars, tocVars>>

-----------------------------------------------------------------------------

\* Where a part has several initial states, it has one of them in behaviours of another.
StandsAt(p, v, values) == part # p => v = CHOOSE x \in values : TRUE

Init ==
    /\ part \in TheParts
    /\ Rep!ReputationInit /\ Files!SoundInit
    /\ Quest!Init /\ Aura!AurasInit /\ Friends!SocialInit /\ Unit!UnitsInit /\ Talk!GossipInit
    /\ Reach!RangeInit /\ StandsAt("range", gear, [ranged : RangedWeapons, offHand : {FALSE},
                                    knowsAutoShot : {FALSE}, repeating : {"none"}])
    /\ Time!TimeInit /\ StandsAt("clock", clock, {0}) /\ StandsAt("clock", ticks, {0})
                     /\ StandsAt("calendar", from, Dates)
    /\ Notice!NoticesInit /\ StandsAt("notices", class, PlayerClasses)
    /\ Bags!InventoryInit /\ StandsAt("bags", slotCount, SlotCounts)
    /\ StandsAt("bags", bagSize, BagSizes)
    /\ Info!InfoInit /\ StandsAt("item info", character, Characters)
    /\ Codec!EncodingsInit /\ StandsAt("encodings", payload, Payloads)
    /\ Serial!SerializationInit /\ StandsAt("serialization", value, Values)
    /\ Toc!TocInit /\ StandsAt("toc", disk, {<<>>}) /\ StandsAt("toc", locale, Locales)

\* The step of one part; the rest stands still.
Only(p) ==
    /\ part = p /\ part' = part
    /\ IF p = "reputation" THEN TRUE ELSE UNCHANGED repVars
    /\ IF p = "sound files" THEN TRUE ELSE UNCHANGED fileVars
    /\ IF p = "range" THEN TRUE ELSE UNCHANGED rangeVars
    /\ IF p = "clock" THEN TRUE ELSE UNCHANGED clockVars
    /\ IF p = "calendar" THEN TRUE ELSE UNCHANGED calVars
    /\ IF p = "quests" THEN TRUE ELSE UNCHANGED questVars
    /\ IF p = "auras" THEN TRUE ELSE UNCHANGED auraVars
    /\ IF p = "friends" THEN TRUE ELSE UNCHANGED socialVars
    /\ IF p = "units" THEN TRUE ELSE UNCHANGED unitVars
    /\ IF p = "gossip" THEN TRUE ELSE UNCHANGED gossipVars
    /\ IF p = "notices" THEN TRUE ELSE UNCHANGED noticeVars
    /\ IF p = "bags" THEN TRUE ELSE UNCHANGED invVars
    /\ IF p = "item info" THEN TRUE ELSE UNCHANGED infoVars
    /\ IF p = "encodings" THEN TRUE ELSE UNCHANGED codecVars
    /\ IF p = "serialization" THEN TRUE ELSE UNCHANGED serialVars
    /\ IF p = "toc" THEN TRUE ELSE UNCHANGED tocVars

Next ==
    \/ Only("reputation") /\ Rep!ReputationNext
    \/ Only("sound files") /\ Files!SoundNext
    \/ Only("range") /\ Reach!RangeNext
    \/ Only("clock") /\ Time!ClockNext
    \/ Only("calendar") /\ Time!CalendarNext
    \/ Only("quests") /\ Quest!QuestNext
    \/ Only("auras") /\ Aura!AurasNext
    \/ Only("friends") /\ Friends!SocialNext
    \/ Only("units") /\ Unit!UnitsNext
    \/ Only("gossip") /\ Talk!GossipNext
    \/ Only("notices") /\ Notice!NoticesNext
    \/ Only("bags") /\ Bags!InventoryNext
    \/ Only("item info") /\ Info!InfoNext
    \/ Only("encodings") /\ Codec!EncodingsNext
    \/ Only("serialization") /\ Serial!SerializationNext
    \/ Only("toc") /\ Toc!TocNext

Spec == Init /\ [][Next]_vars

-----------------------------------------------------------------------------
(* Properties, for the part a behaviour is about; each is stated in its    *)
(* module.                                                                 *)

\* The variables keep their types.
TypeOK ==
    /\ part = "reputation" => Rep!ReputationTypeOK
    /\ part = "sound files" => Files!SoundTypeOK
    /\ part = "range" => Reach!RangeTypeOK
    /\ part \in {"clock", "calendar"} => Time!TimeTypeOK
    /\ part = "quests" => Quest!TypeOK
    /\ part = "auras" => Aura!AurasTypeOK
    /\ part = "friends" => Friends!SocialTypeOK
    /\ part = "units" => Unit!UnitsTypeOK
    /\ part = "gossip" => Talk!GossipTypeOK
    /\ part = "bags" => Bags!InventoryTypeOK
    /\ part = "item info" => Info!InfoTypeOK
    /\ part = "encodings" => Codec!EncodingsTypeOK
    /\ part = "toc" => Toc!TocTypeOK

\* An event is fired for what it names and for all of it: a faction's standing, the range to
\* the target, a weapon's slot, a quest turned in (Reputation, SwingRange, Notices).
EventsTell ==
    /\ part = "reputation" => Rep!StandingsTold
    /\ part = "range" => Reach!RangeTold
    /\ part = "notices" => Notice!NoticesKept

\* Every QUEST_DATA_LOAD_RESULT answers one request (QuestData refines LoadPromise).
QuestPromiseKept == Quest!QuestPromiseKept

\* The several calls that answer about one thing agree with each other and with the engine, a
\* scan of auras in several calls misses none that stays, and the recent sounds are the last
\* ones opened (Reputation, SoundFiles, Auras, Social, Units, Gossip, ItemInfo, Inventory).
AnswersAgree ==
    /\ part = "reputation" => Rep!QueriesAgree
    /\ part = "sound files" => Files!RecentRight
    /\ part = "auras" => Aura!AurasAgree /\ Aura!ScanMissesNothing
    /\ part = "friends" => Friends!FriendsAgree
    /\ part = "units" => Unit!UnitsAgree
    /\ part = "gossip" => Talk!GossipAgrees
    /\ part = "item info" => /\ Info!FormsAgree /\ Info!NilIsAwaited
                              /\ Info!UsableGrows /\ Info!CachedNamesResolve
    /\ part = "bags" => Bags!LocationsAgree

\* A swap or a move of items names the places asked for; a move of part of a stack is done or
\* not, one of the whole stack is a swap, with what a swap does (Inventory).
MovesAreTrue == part = "bags" => Bags!MovesAreTrue

\* The server's time is the server's minute, never ahead of the server nor backwards once a
\* minute has turned, over the wrap of the ticks; within the minute it may be behind (ServerTime).
ClockRight == part = "clock" => Time!ClockRight

\* As the comments say: what the code answers is exact from the first rollover it observes.
AccurateFromRollover == [][part = "clock" => Time!AnchorsAtRollover]_vars

\* As docs/API.md says: a move of items is never done in part.
NeverInPart == part = "bags" => Bags!NothingPartial

\* What is encoded, serialized or read from a TOC file comes out as it went in, and a date that
\* is moved in steps is where one step moves it (Encodings, Serialization, TocFiles, ServerTime).
RoundTrips ==
    /\ part = "encodings" => Codec!BytesReturn
    /\ part = "serialization" => Serial!ValuesReturn
    /\ part = "toc" => Toc!TocRight
    /\ part = "calendar" => Time!CalendarRight

\* What the steps of the parts keep, for the theorems.
EventsInv ==
    /\ part = "reputation" => Rep!StandingsInv
    /\ part = "range" => Reach!RangeInv
    /\ part = "notices" => Notice!NoticesInv
ClockInv == part = "clock" => Time!ClockInv
MovesInv == part = "bags" => Bags!MovesInv
AnswersInv ==
    /\ part = "reputation" => Rep!FactionsInv
    /\ part = "sound files" => Files!RecentInv
    /\ part = "auras" => Aura!AurasInv
    /\ part = "friends" => Friends!FriendsInv
    /\ part = "units" => Unit!UnitsInv
    /\ part = "gossip" => Talk!GossipInv
    /\ part = "item info" => Info!InfoInv
    /\ part = "bags" => Bags!ItemsInv
TypesInv ==
    /\ part \in {"clock", "calendar"} => Time!ClockTypes /\ Time!CalendarInv
    /\ part = "bags" => Len(requests) + Len(updates) <= MaxUnderWay
    /\ part = "encodings" => Codec!EncodingsInv
    /\ part = "toc" => Toc!LinesInv

-----------------------------------------------------------------------------
(* Theorems: each part's invariant is kept by its steps, and the steps of  *)
(* the other parts leave it alone.                                         *)

\* A step is one of the part the behaviour is about.
LEMMA RunOfAPart ==
  ASSUME [Next]_vars
  PROVE  /\ part' = part
         /\ part = "reputation" => Rep!ReputationNext \/ UNCHANGED repVars
         /\ part = "sound files" => Files!SoundNext \/ UNCHANGED fileVars
         /\ part = "range" => Reach!RangeNext \/ UNCHANGED rangeVars
         /\ part = "auras" => Aura!AurasNext \/ UNCHANGED auraVars
         /\ part = "friends" => Friends!SocialNext \/ UNCHANGED socialVars
         /\ part = "units" => Unit!UnitsNext \/ UNCHANGED unitVars
         /\ part = "gossip" => Talk!GossipNext \/ UNCHANGED gossipVars
         /\ part = "item info" => Info!InfoNext \/ UNCHANGED infoVars
         /\ part = "notices" => Notice!NoticesNext \/ UNCHANGED noticeVars
         /\ part = "bags" => Bags!InventoryNext \/ UNCHANGED invVars
         /\ part = "clock" => (Time!ClockNext \/ UNCHANGED clockVars) /\ UNCHANGED calVars
         /\ part = "calendar" => Time!CalendarNext \/ UNCHANGED <<clockVars, calVars>>
         /\ part = "encodings" => Codec!EncodingsNext \/ UNCHANGED codecVars
         /\ part = "toc" => Toc!TocNext \/ UNCHANGED tocVars
         /\ Quest!QuestNext \/ UNCHANGED questVars
  <1>1. CASE UNCHANGED vars
    BY <1>1 DEF vars
  <1>2. CASE Next
    BY <1>2, Zenon DEF Next, Only
  <1> QED BY <1>1, <1>2, ZenonT(60)

-----------------------------------------------------------------------------
(* The events.                                                             *)

\* The events of the three parts stand for what they name, from each step to the next.
LEMMA EventsStart ==
  ASSUME Init
  PROVE  EventsInv
  <1>1. Rep!ReputationInit /\ Reach!RangeInit /\ Notice!NoticesInit
    BY DEF Init
  <1>2. Rep!ReputationAssumption /\ Reach!RangeAssumption
    BY QueriesAssumption, SMTT(30) DEF QueriesAssumption
  <1> QED BY <1>1, <1>2, StandingsStart, RangeStarts, NoticesStart DEF EventsInv

\* A step of another part leaves them alone, and so does one that changes nothing.
LEMMA EventsStay ==
  ASSUME EventsInv, [Next]_vars
  PROVE  EventsInv'
  <1>1. Rep!ReputationAssumption /\ Reach!RangeAssumption
    BY QueriesAssumption DEF QueriesAssumption
  <1>2. ASSUME part = "reputation" PROVE Rep!StandingsInv'
    <2>1. Rep!StandingsInv /\ (Rep!ReputationNext \/ UNCHANGED repVars)
      BY <1>2, RunOfAPart DEF EventsInv
    <2>2. CASE Rep!ReputationNext
      BY <1>1, <2>1, <2>2, StandingsStay, SMTT(30)
    <2>3. CASE UNCHANGED repVars
      BY <2>1, <2>3 DEF repVars, Rep!StandingsInv
    <2> QED BY <2>1, <2>2, <2>3
  <1>3. ASSUME part = "range" PROVE Reach!RangeInv'
    <2>1. Reach!RangeInv /\ (Reach!RangeNext \/ UNCHANGED rangeVars)
      BY <1>3, RunOfAPart DEF EventsInv
    <2>2. CASE Reach!RangeNext
      BY <1>1, <2>1, <2>2, RangeStays, SMTT(30)
    <2>3. CASE UNCHANGED rangeVars
      <3>1. \A t \in SwingTypes : Reach!Evaluate(t)' = Reach!Evaluate(t)
        BY <2>3, EvaluateStays DEF rangeVars
      <3> QED BY <2>1, <2>3, <3>1 DEF rangeVars, Reach!RangeInv
    <2> QED BY <2>1, <2>2, <2>3
  <1>4. ASSUME part = "notices" PROVE Notice!NoticesInv'
    <2>1. Notice!NoticesInv /\ (Notice!NoticesNext \/ UNCHANGED noticeVars)
      BY <1>4, RunOfAPart DEF EventsInv
    <2>2. CASE Notice!NoticesNext
      BY <2>1, <2>2, NoticesStay
    <2>3. CASE UNCHANGED noticeVars
      BY <2>1, <2>3 DEF noticeVars, Notice!NoticesInv
    <2> QED BY <2>1, <2>2, <2>3
  <1> QED BY <1>2, <1>3, <1>4, RunOfAPart DEF EventsInv

\* What is so throughout is what EventsTell says.
LEMMA EventsAreTold ==
  ASSUME EventsInv
  PROVE  EventsTell
  <1>1. Reach!RangeAssumption
    BY QueriesAssumption DEF QueriesAssumption
  <1>2. Notice!NoticesInv => Notice!NoticesKept
    BY DEF Notice!NoticesInv, Notice!NoticesKept
  <1> QED BY <1>1, <1>2, StandingsAreTold, RangeIsTold DEF EventsInv, EventsTell

\* For any factions, packets, gear, distances, classes and slots: between events scripts know
\* every standing, the range of every watched swing, the weapons and the quests turned in.
THEOREM EventsAlwaysTell == Spec => []EventsTell
  <1>1. Init => EventsInv
    BY EventsStart
  <1>2. EventsInv /\ [Next]_vars => EventsInv'
    BY EventsStay
  <1>3. EventsInv => EventsTell
    BY EventsAreTold
  <1> QED BY <1>1, <1>2, <1>3, PTL DEF Spec

-----------------------------------------------------------------------------
(* What holds of every behaviour of these parts.                           *)

\* The client's and the server's items agree up to what is under way.
LEMMA MovesKept ==
  ASSUME MovesInv, [Next]_vars
  PROVE  MovesInv'
  <1>1. Bags!InventoryAssumption
    BY QueriesAssumption DEF QueriesAssumption
  <1>2. ASSUME part = "bags" PROVE Bags!MovesInv'
    <2>1. Bags!MovesInv /\ (Bags!InventoryNext \/ UNCHANGED invVars)
      BY <1>2, RunOfAPart DEF MovesInv
    <2>2. CASE Bags!InventoryNext
      BY <1>1, <2>1, <2>2, MovesStay
    <2>3. CASE UNCHANGED invVars
      <3>1. Bags!AllPlaces' = Bags!AllPlaces
        BY <2>3, PlacesStay DEF invVars
      <3> QED BY <2>1, <2>3, <3>1 DEF invVars, Bags!MovesInv, Bags!MovedAsAsked, Bags!Requests
    <2> QED BY <2>1, <2>2, <2>3
  <1> QED BY <1>2, RunOfAPart DEF MovesInv

\* For any ranges, bags, stacks and calls, however many are under way: a request names the
\* places the caller asked for.  A move made with none under way, if it changes anything,
\* moves all it was asked to; only one of a whole stack may be an exchange with what it does
\* not merge with, or fill a like stack that has no room for all and leave the rest.
THEOREM MovesAreAlwaysTrue == Spec => []MovesAreTrue
  <1>1. Bags!InventoryAssumption
    BY QueriesAssumption, SMTT(30) DEF QueriesAssumption
  <1>2. Init => MovesInv
    BY <1>1, MovesStart DEF Init, MovesInv
  <1>3. MovesInv /\ [Next]_vars => MovesInv'
    BY MovesKept
  <1>4. MovesInv => MovesAreTrue
    BY <1>1, MovesAreAsAsked, SMTT(30) DEF MovesInv, MovesAreTrue
  <1> QED BY <1>2, <1>3, <1>4, PTL DEF Spec

\* The last answer, the ticks and the clock stay in step.
LEMMA ClockKept ==
  ASSUME ClockInv, [Next]_vars
  PROVE  ClockInv'
  <1>1. Time!TimeAssumption
    BY QueriesAssumption DEF QueriesAssumption
  <1>2. ASSUME part = "clock" PROVE Time!ClockInv'
    <2>1. Time!ClockInv /\ (Time!ClockNext \/ UNCHANGED clockVars)
      BY <1>2, RunOfAPart DEF ClockInv
    <2>2. CASE Time!ClockNext
      BY <1>1, <2>1, <2>2, ClockStays
    <2>3. CASE UNCHANGED clockVars
      <3>1. /\ Time!Minute' = Time!Minute /\ Time!Latest' = Time!Latest
            /\ Time!SinceAnchor' = Time!SinceAnchor
            /\ Time!Elapsed(anchor)' = Time!Elapsed(anchor)
        BY <2>3 DEF clockVars, Time!Minute, Time!Latest, Time!SinceAnchor, Time!Elapsed
      <3> QED BY <2>1, <2>3, <3>1 DEF clockVars, Time!ClockInv
    <2> QED BY <2>1, <2>2, <2>3
  <1> QED BY <1>2, RunOfAPart DEF ClockInv

\* For any length of a minute and any longer width of the tick counter: GetServerTime
\* names the server's minute and, once it has seen a minute turn, is never ahead of the server
\* and never runs backwards, over the counter's wrap too.  How far it is behind within the
\* minute is when the minute's first call came.
THEOREM ClockIsAlwaysRight == Spec => []ClockRight
  <1>1. Time!TimeAssumption
    BY QueriesAssumption, SMTT(30) DEF QueriesAssumption
  <1>2. Init => ClockInv
    BY <1>1, ClockStarts DEF Init, ClockInv
  <1>3. ClockInv /\ [Next]_vars => ClockInv'
    BY ClockKept
  <1>4. ClockInv => ClockRight
    BY <1>1, ClockIsRight DEF ClockInv, ClockRight
  <1> QED BY <1>2, <1>3, <1>4, PTL DEF Spec

\* The quests run as QuestData says, with the other parts' steps as stutters.
LEMMA QuestsRun == Spec => Quest!QuestSpec
  <1>1. Init => Quest!Init
    BY DEF Init
  <1>2. [Next]_vars => [Quest!QuestNext]_Quest!vars
    <2> SUFFICES ASSUME [Next]_vars PROVE Quest!QuestNext \/ UNCHANGED Quest!vars
      OBVIOUS
    <2>1. UNCHANGED questVars => UNCHANGED Quest!vars
      BY DEF questVars, Quest!vars, Quest!cacheVars, Quest!worldVars, Quest!reqVars,
         Quest!tickVars
    <2> QED BY <2>1, RunOfAPart
  <1> QED BY <1>1, <1>2, PTL DEF Spec, Quest!QuestSpec

\* For any quests, transfers and reloads: each QUEST_DATA_LOAD_RESULT answers one request.
THEOREM QuestsKeepTheirPromise == Spec => QuestPromiseKept
  <1>1. Quest!QuestSpec => Quest!QuestPromiseKept
    BY QueriesAssumption, Quest!QuestKeepsPromise
       DEF QueriesAssumption, Quest!CacheAssumption, Quest!ItemAssumption
  <1> QED BY <1>1, QuestsRun DEF QuestPromiseKept

-----------------------------------------------------------------------------
(* The answers of every part.                                              *)

\* Each part starts right.
LEMMA AnswersStart ==
  ASSUME Init
  PROVE  AnswersInv
  <1>1. /\ Rep!ReputationAssumption /\ Files!SoundAssumption /\ Aura!AurasAssumption
        /\ Friends!SocialAssumption /\ Talk!GossipAssumption /\ Bags!InventoryAssumption
        /\ Info!ItemInfoAssumption
    BY QueriesAssumption DEF QueriesAssumption
  <1>2. /\ Rep!ReputationInit /\ Files!SoundInit /\ Aura!AurasInit /\ Friends!SocialInit
        /\ Unit!UnitsInit /\ Talk!GossipInit /\ Bags!InventoryInit /\ Info!InfoInit
    BY DEF Init
  <1>3. Rep!FactionsInv /\ Files!RecentInv
    BY <1>1, <1>2, FactionsStart, RecentStarts
  <1>4. Aura!AurasInv /\ Friends!FriendsInv /\ Unit!UnitsInv
    BY <1>1, <1>2, AurasStart, FriendsStart, UnitsStart
  <1>5. Talk!GossipInv /\ Bags!ItemsInv /\ Info!InfoInv
    BY <1>1, <1>2, GossipStarts, MovesStart, ItemsStart, InfoStarts
  <1> QED BY <1>3, <1>4, <1>5 DEF AnswersInv

\* A step that leaves a part alone leaves what is so of it.
LEMMA StandingsRest ==
  ASSUME Rep!FactionsInv, UNCHANGED repVars
  PROVE  Rep!FactionsInv'
  BY DEF repVars, Rep!FactionsInv, Rep!ReputationTypeOK

\* The sounds.
LEMMA SoundsRest ==
  ASSUME Files!RecentInv, UNCHANGED fileVars
  PROVE  Files!RecentInv'
  BY DEF fileVars, Files!RecentInv, Files!SoundTypeOK, Files!UsedSlots, Files!FileAt

\* The auras.
LEMMA AurasRest ==
  ASSUME Aura!AurasInv, UNCHANGED auraVars
  PROVE  Aura!AurasInv'
  BY DEF auraVars, Aura!AurasInv, Aura!AurasTypeOK, Aura!ScanInv, Aura!Matching, Aura!Slots,
     Aura!SlotCount, Aura!EntryAt

\* The friends.
LEMMA FriendsRest ==
  ASSUME Friends!FriendsInv, UNCHANGED socialVars
  PROVE  Friends!FriendsInv'
  <1>1. friends' = friends /\ ignored' = ignored /\ namesCached' = namesCached
        /\ units' = units /\ wanted' = wanted
    BY DEF socialVars
  <1> QED BY <1>1 DEF Friends!FriendsInv, Friends!SocialTypeOK, Friends!EntryOK

\* The units.
LEMMA UnitsRest ==
  ASSUME Unit!UnitsInv, UNCHANGED unitVars
  PROVE  Unit!UnitsInv'
  BY DEF unitVars, Unit!UnitsInv, Unit!UnitsTypeOK

\* The menu and the greeting.
LEMMA GossipRests ==
  ASSUME Talk!GossipInv, UNCHANGED gossipVars
  PROVE  Talk!GossipInv'
  BY SMTT(30) DEF gossipVars, Talk!GossipInv, Talk!GossipTypeOK

\* The items carried.
LEMMA ItemsRest ==
  ASSUME Bags!ItemsInv, UNCHANGED invVars
  PROVE  Bags!ItemsInv'
  <1>1. /\ slotCount' = slotCount /\ bagSize' = bagSize /\ held' = held /\ shown' = shown
        /\ requests' = requests /\ updates' = updates /\ moved' = moved
    BY DEF invVars
  <1>2. Bags!AllPlaces' = Bags!AllPlaces
    BY <1>1, PlacesStay
  <1> QED BY <1>1, <1>2 DEF Bags!ItemsInv, Bags!OneEach, Bags!MovesInv, Bags!MovedAsAsked,
                            Bags!Requests

\* The items asked about.
LEMMA InfoRests ==
  ASSUME Info!InfoInv, UNCHANGED infoVars
  PROVE  Info!InfoInv'
  BY SMTT(30) DEF infoVars, Info!InfoInv, Info!InfoTypeOK

\* Each step keeps each part right.
LEMMA AnswersStay ==
  ASSUME AnswersInv, [Next]_vars
  PROVE  AnswersInv'
  <1>1. /\ Rep!ReputationAssumption /\ Files!SoundAssumption /\ Aura!AurasAssumption
        /\ Friends!SocialAssumption /\ Unit!UnitsAssumption /\ Talk!GossipAssumption
        /\ Bags!InventoryAssumption /\ Info!ItemInfoAssumption
    BY QueriesAssumption, SMTT(30) DEF QueriesAssumption
  <1>2. part = "reputation" => Rep!FactionsInv'
    BY <1>1, RunOfAPart, FactionsStay, StandingsRest DEF AnswersInv
  <1>3. part = "sound files" => Files!RecentInv'
    BY <1>1, RunOfAPart, RecentStays, SoundsRest DEF AnswersInv
  <1>4. part = "auras" => Aura!AurasInv'
    BY <1>1, RunOfAPart, AurasStay, AurasRest DEF AnswersInv
  <1>5. part = "friends" => Friends!FriendsInv'
    BY <1>1, RunOfAPart, FriendsStay, FriendsRest, SMTT(30) DEF AnswersInv
  <1>6. part = "units" => Unit!UnitsInv'
    BY <1>1, RunOfAPart, UnitsStay, UnitsRest DEF AnswersInv
  <1>7. part = "gossip" => Talk!GossipInv'
    BY <1>1, RunOfAPart, GossipStays, GossipRests DEF AnswersInv
  <1>8. part = "bags" => Bags!ItemsInv'
    <2>1. Bags!ItemsInv => Bags!MovesInv
      BY SMTT(30) DEF Bags!ItemsInv
    <2> QED BY <1>1, <2>1, RunOfAPart, MovesStay, ItemsStay, ItemsRest DEF AnswersInv
  <1>9. part = "item info" => Info!InfoInv'
    BY <1>1, RunOfAPart, InfoStays, InfoRests DEF AnswersInv
  <1> QED BY <1>2, <1>3, <1>4, <1>5, <1>6, <1>7, <1>8, <1>9, RunOfAPart DEF AnswersInv

\* What is so throughout is what AnswersAgree says.
LEMMA AnswersAreOne ==
  ASSUME AnswersInv
  PROVE  AnswersAgree
  <1>1. /\ Rep!ReputationAssumption /\ Files!SoundAssumption /\ Aura!AurasAssumption
        /\ Friends!SocialAssumption /\ Unit!UnitsAssumption /\ Talk!GossipAssumption
        /\ Bags!InventoryAssumption /\ Info!ItemInfoAssumption
    BY QueriesAssumption DEF QueriesAssumption
  <1>2. Info!InfoInv => Info!InfoTypeOK /\ Info!NilIsAwaited
    BY DEF Info!InfoInv, Info!NilIsAwaited
  <1> QED BY ZenonT(60), <1>1, <1>2, FactionsAreOne, RecentIsRight, ScansMissNothing, AurasAreOne,
             FriendsAreOne, UnitsAreOne, GossipIsOne, FormsAreOne, StrongerUses,
             LocationsAreOne DEF AnswersInv, AnswersAgree

\* For any data of the client, any units, menus, friends, auras and items: in every state the
\* calls about one thing agree with each other and with what the engine keeps, a scan in
\* batches has met each aura that stayed, and the recent sounds are the ones opened last.
THEOREM AnswersAlwaysAgree == Spec => []AnswersAgree
  <1>1. Init => AnswersInv
    BY AnswersStart
  <1>2. AnswersInv /\ [Next]_vars => AnswersInv'
    BY AnswersStay
  <1>3. AnswersInv => AnswersAgree
    BY AnswersAreOne
  <1> QED BY <1>1, <1>2, <1>3, PTL DEF Spec

-----------------------------------------------------------------------------
(* The types of every part.                                                *)

\* What the types rest on is there at first.
LEMMA TypesStart ==
  ASSUME Init
  PROVE  TypesInv
  <1>1. Time!TimeAssumption /\ Toc!TocAssumption /\ Bags!InventoryAssumption
    BY QueriesAssumption, SMTT(30) DEF QueriesAssumption
  <1>2. Time!TimeInit /\ Codec!EncodingsInit /\ Toc!TocInit /\ Bags!InventoryInit
    BY DEF Init
  <1>3. Time!ClockTypes /\ Time!CalendarInv
    BY <1>1, <1>2, ClockTyped, CalendarStarts
  <1>4. Codec!EncodingsInv /\ Toc!LinesInv
    BY <1>1, <1>2, EncodingsStart, LinesKept
  <1>5. Len(requests) + Len(updates) <= MaxUnderWay
    <2>1. requests = <<>> /\ updates = <<>> /\ MaxUnderWay \in Nat
      BY <1>1, <1>2, SMTT(30) DEF Bags!InventoryInit, Bags!InventoryAssumption
    <2> QED BY <2>1
  <1> QED BY <1>3, <1>4, <1>5 DEF TypesInv

\* A step of the part keeps it, and a step of another leaves it alone.
LEMMA TypesStay ==
  ASSUME TypesInv, MovesInv, [Next]_vars
  PROVE  TypesInv'
  <1>1. Time!TimeAssumption /\ Toc!TocAssumption /\ Bags!InventoryAssumption
    BY QueriesAssumption DEF QueriesAssumption
  <1>2. UNCHANGED clockVars => Time!ClockTypes' = Time!ClockTypes
    BY DEF clockVars, Time!ClockTypes
  <1>3. ASSUME UNCHANGED calVars PROVE Time!CalendarInv' = Time!CalendarInv
    <2>1. cal' = cal /\ from' = from /\ shift' = shift /\ shifts' = shifts
      BY <1>3, SMTT(30) DEF calVars
    <2> QED BY <2>1 DEF Time!CalendarInv
  <1>4. ASSUME part = "clock" PROVE Time!ClockTypes' /\ Time!CalendarInv'
    <2>1. Time!ClockTypes /\ Time!CalendarInv
      BY <1>4, SMTT(30) DEF TypesInv
    <2> QED BY <1>1, <1>2, <1>3, <1>4, <2>1, RunOfAPart, ClockTyped
  <1>5. ASSUME part = "calendar" PROVE Time!ClockTypes' /\ Time!CalendarInv'
    <2>1. Time!ClockTypes /\ Time!CalendarInv
      BY <1>5 DEF TypesInv
    <2>2. CASE Time!CalendarNext
      <3>1. Time!CalendarInv'
        BY <1>1, <2>1, <2>2, CalendarStays
      <3>2. UNCHANGED clockVars
        BY <2>2 DEF Time!CalendarNext, Time!AdjustTime, Time!clockVars, clockVars
      <3> QED BY <1>2, <2>1, <3>1, <3>2
    <2>3. CASE UNCHANGED <<clockVars, calVars>>
      BY <1>2, <1>3, <2>1, <2>3
    <2> QED BY <1>5, <2>2, <2>3, RunOfAPart
  <1>6. ASSUME part = "bags" PROVE Len(requests') + Len(updates') <= MaxUnderWay
    <2>1. Bags!MovesInv /\ Len(requests) + Len(updates) <= MaxUnderWay
      BY <1>6 DEF TypesInv, MovesInv
    <2>2. CASE Bags!InventoryNext
      BY <1>1, <2>1, <2>2, RoomKept
    <2>3. CASE UNCHANGED invVars
      BY <2>1, <2>3, SMTT(30) DEF invVars
    <2> QED BY <1>6, <2>2, <2>3, RunOfAPart
  <1>7. ASSUME part = "encodings" PROVE Codec!EncodingsInv'
    <2>1. Codec!EncodingsInv /\ Codec!EncodingsAssumption
      BY <1>7, QueriesAssumption DEF TypesInv, QueriesAssumption
    <2>2. CASE UNCHANGED codecVars
      BY <2>1, <2>2, TextsStay, SMTT(30)
    <2> QED BY <1>7, <2>1, <2>2, RunOfAPart, TextsKept
  <1>8. ASSUME part = "toc" PROVE Toc!LinesInv'
    <2>1. Toc!LinesInv
      BY <1>8, SMTT(30) DEF TypesInv
    <2>2. UNCHANGED tocVars => Toc!LinesInv'
      BY <2>1, SMTT(60) DEF tocVars, Toc!LinesInv, Toc!IsText, Toc!LinesInPlace, Toc!FlagIn
    <2> QED BY <1>1, <1>8, <2>1, <2>2, RunOfAPart, LinesKept
  <1> QED BY <1>4, <1>5, <1>6, <1>7, <1>8, RunOfAPart DEF TypesInv

\* Every part's types are among what its steps keep.
LEMMA PartsTyped ==
  ASSUME EventsInv, MovesInv, AnswersInv, TypesInv, Quest!IInv
  PROVE  TypeOK
  <1>1. Time!TimeAssumption /\ Toc!TocAssumption
    BY QueriesAssumption DEF QueriesAssumption
  <1>2. part = "reputation" => Rep!ReputationTypeOK
    BY DEF AnswersInv, Rep!FactionsInv
  <1>3. part = "sound files" => Files!SoundTypeOK
    BY DEF AnswersInv, Files!RecentInv
  <1>4. part = "range" => Reach!RangeTypeOK
    BY DEF EventsInv, Reach!RangeInv, Reach!RangeTypeOK
  <1>5. ASSUME part \in {"clock", "calendar"} PROVE Time!TimeTypeOK
    <2>1. Time!ClockTypes /\ Time!CalendarInv
      BY <1>5 DEF TypesInv
    <2>2. shifts = 0 => cal = from
      BY <2>1 DEF Time!CalendarInv
    <2>3. shifts = 0 \/ shifts > 0
      BY <2>1 DEF Time!CalendarInv
    <2> QED BY <1>1, <2>1, <2>2, <2>3, DateOfShift DEF Time!TimeTypeOK
  <1>6. Quest!TypeOK
    BY DEF Quest!IInv
  <1>7. part = "auras" => Aura!AurasTypeOK
    BY DEF AnswersInv, Aura!AurasInv
  <1>8. part = "friends" => Friends!SocialTypeOK
    BY DEF AnswersInv, Friends!FriendsInv
  <1>9. part = "units" => Unit!UnitsTypeOK
    BY DEF AnswersInv, Unit!UnitsInv
  <1>10. part = "gossip" => Talk!GossipTypeOK
    BY DEF AnswersInv, Talk!GossipInv
  <1>11. part = "bags" => Bags!InventoryTypeOK
    BY DEF MovesInv, TypesInv, Bags!MovesInv, Bags!InventoryTypeOK
  <1>12. part = "item info" => Info!InfoTypeOK
    BY DEF AnswersInv, Info!InfoInv
  <1>13. part = "encodings" => Codec!EncodingsTypeOK
    BY DEF TypesInv, Codec!EncodingsInv
  <1>14. part = "toc" => Toc!TocTypeOK
    BY <1>1, LinesKept DEF TypesInv
  <1> QED BY <1>2, <1>3, <1>4, <1>5, <1>6, <1>7, <1>8, <1>9, <1>10, <1>11, <1>12, <1>13,
             <1>14 DEF TypeOK

\* For any data of the client and any calls: every variable of every part keeps its type, a
\* date adjusted any number of times is a date of the calendar, and what is under way between
\* the client and the server stays bounded.
THEOREM QueriesAreTyped == Spec => []TypeOK
  <1>1. Init => EventsInv /\ MovesInv /\ AnswersInv /\ TypesInv
    <2>1. Bags!InventoryAssumption
      BY QueriesAssumption DEF QueriesAssumption
    <2>2. Init => MovesInv
      BY <2>1, MovesStart DEF Init, MovesInv
    <2> QED BY <2>2, EventsStart, AnswersStart, TypesStart
  <1>2. EventsInv /\ MovesInv /\ AnswersInv /\ TypesInv /\ [Next]_vars
          => EventsInv' /\ MovesInv' /\ AnswersInv' /\ TypesInv'
    BY EventsStay, MovesKept, AnswersStay, TypesStay
  <1>3. Quest!QuestSpec => []Quest!IInv
    BY QueriesAssumption, Quest!QuestInvariant
       DEF QueriesAssumption, Quest!CacheAssumption, Quest!ItemAssumption
  <1>4. EventsInv /\ MovesInv /\ AnswersInv /\ TypesInv /\ Quest!IInv => TypeOK
    BY PartsTyped
  <1> QED BY <1>1, <1>2, <1>3, <1>4, QuestsRun, PTL DEF Spec

\* For any dates and any calls on them: adjusting in steps is one adjustment by their sum,
\* dates compare as the minutes between them do, and a date comes back from its epoch.
THEOREM CalendarComesBack == Spec => [](part = "calendar" => Time!CalendarRight)
  <1>1. Time!TimeAssumption /\ Bags!InventoryAssumption
    BY QueriesAssumption, SMTT(30) DEF QueriesAssumption
  <1>2. Init => MovesInv /\ TypesInv
    BY <1>1, MovesStart, TypesStart DEF Init, MovesInv
  <1>3. MovesInv /\ TypesInv /\ [Next]_vars => MovesInv' /\ TypesInv'
    BY MovesKept, TypesStay
  <1>4. TypesInv => (part = "calendar" => Time!CalendarRight)
    BY <1>1, CalendarIsRight DEF TypesInv
  <1> QED BY <1>2, <1>3, <1>4, PTL DEF Spec

\* For any strings of bytes, whatever happens to a text on its way: a decode gives the payload
\* back where docs/API.md says that it reads the text, and never another string in its place.
THEOREM EncodingsComeBack == Spec => [](part = "encodings" => Codec!BytesReturn)
  <1>1. Bags!InventoryAssumption /\ Codec!EncodingsAssumption
    BY QueriesAssumption, SMTT(30) DEF QueriesAssumption
  <1>2. Init => MovesInv /\ TypesInv
    BY <1>1, MovesStart, TypesStart DEF Init, MovesInv
  <1>3. MovesInv /\ TypesInv /\ [Next]_vars => MovesInv' /\ TypesInv'
    BY MovesKept, TypesStay
  <1>4. TypesInv => (part = "encodings" => Codec!BytesReturn)
    BY <1>1, BytesComeBack DEF TypesInv
  <1> QED BY <1>2, <1>3, <1>4, PTL DEF Spec

\* For any lines and any reads: after the hook an add-on for several games is not out of date on
\* this one and no other is current, flags read as they were written, each line is the line of
\* its number, and a file that is no add-on's TOC is as it was.
THEOREM TocLinesStay == Spec => [](part = "toc" => Toc!LinesInPlace)
  <1>1. Bags!InventoryAssumption
    BY QueriesAssumption DEF QueriesAssumption
  <1>2. Init => MovesInv /\ TypesInv
    BY <1>1, MovesStart, TypesStart DEF Init, MovesInv
  <1>3. MovesInv /\ TypesInv /\ [Next]_vars => MovesInv' /\ TypesInv'
    BY MovesKept, TypesStay
  <1>4. TypesInv => (part = "toc" => Toc!LinesInPlace)
    BY DEF TypesInv, Toc!LinesInv
  <1> QED BY <1>2, <1>3, <1>4, PTL DEF Spec

=============================================================================

------------------------------- MODULE Answers -------------------------------
(***************************************************************************)
(* The parts of Queries that work on values and records of their own:      *)
(* texts of bytes (Encodings), the TOC of an add-on (TocFiles), items that *)
(* are named and moved (Inventory), sounds opened last (SoundFiles),       *)
(* factions (Reputation), items (ItemInfo), the server's time              *)
(* (ServerTime); and what is proved of each, for any values and sizes.     *)
(***************************************************************************)
EXTENDS Integers, Sequences, FiniteSets, FiniteSetTheorems, WellFoundedInduction, TLAPS

-----------------------------------------------------------------------------
(* Sets of numbers in order.                                               *)

\* How many of a set come before a number, and the set in ascending order.
Below(S, x) == Cardinality({y \in S : y < x})
InOrder(S) == [i \in 1..Cardinality(S) |-> CHOOSE x \in S : Below(S, x) = i - 1]

\* A set of naturals that is not empty has a least member.
LEMMA LeastNat ==
  ASSUME NEW T \in SUBSET Nat, T # {}
  PROVE  \E x \in T : \A y \in T : x <= y
  <1>1. IsWellFoundedOn(OpToRel(<, Nat), Nat)
    BY NatLessThanWellFounded
  <1>2. PICK x \in T : \A y \in T : ~(<<y, x>> \in OpToRel(<, Nat))
    BY <1>1, WFMin
  <1>3. \A y \in T : ~(y < x)
    BY <1>2 DEF OpToRel
  <1> QED BY <1>3

\* Below grows with the number, and with a member strictly.
LEMMA BelowGrows ==
  ASSUME NEW S \in SUBSET Int, IsFiniteSet(S), NEW x \in Int, NEW y \in Int
  PROVE  /\ Below(S, x) \in 0..Cardinality(S) /\ Cardinality(S) \in Nat
         /\ x \in S => Below(S, x) < Cardinality(S)
         /\ x <= y => Below(S, x) <= Below(S, y)
         /\ x \in S /\ x < y => Below(S, x) < Below(S, y)
  <1> DEFINE A(z) == {w \in S : w < z}
  <1>1. /\ IsFiniteSet(A(x)) /\ Cardinality(A(x)) \in Nat /\ Cardinality(A(x)) <= Cardinality(S)
        /\ IsFiniteSet(A(y)) /\ Cardinality(A(y)) \in Nat /\ Cardinality(S) \in Nat
    BY FS_Subset, FS_CardinalityType
  <1>2. ASSUME x \in S PROVE Cardinality(A(x)) < Cardinality(S)
    <2>1. A(x) # S /\ A(x) \in SUBSET S
      BY <1>2
    <2> QED BY <1>1, <2>1, FS_Subset
  <1>3. ASSUME x <= y PROVE Cardinality(A(x)) <= Cardinality(A(y))
    <2>1. \A w \in S : w \in Int /\ (w < x => w < y)
      BY <1>3
    <2>2. A(x) \subseteq A(y)
      BY <2>1
    <2> QED BY <1>1, <2>2, FS_Subset
  <1>4. ASSUME x \in S, x < y PROVE Cardinality(A(x)) < Cardinality(A(y))
    <2>3. \A w \in S : w \in Int /\ (w < x => w < y)
      BY <1>4
    <2>4. A(x) \subseteq A(y)
      BY <2>3
    <2>1. A(x) # A(y)
      BY <1>4
    <2>2. Cardinality(A(x)) <= Cardinality(A(y)) /\ Cardinality(A(x)) # Cardinality(A(y))
      BY <1>1, <2>1, <2>4, FS_Subset
    <2> QED BY <1>1, <2>2
  <1> QED BY <1>1, <1>2, <1>3, <1>4 DEF Below

\* In ascending order each member has its place: after the ones below it.
LEMMA EachHasItsPlace ==
  ASSUME NEW S \in SUBSET Int, IsFiniteSet(S)
  PROVE  /\ Cardinality(S) \in Nat
         /\ \A i \in 1..Cardinality(S) : InOrder(S)[i] \in S /\ Below(S, InOrder(S)[i]) = i - 1
         /\ \A x \in S : Below(S, x) + 1 \in 1..Cardinality(S) /\ InOrder(S)[Below(S, x) + 1] = x
         /\ \A i, j \in 1..Cardinality(S) : i < j => InOrder(S)[i] < InOrder(S)[j]
  <1> DEFINE n == Cardinality(S)
             f == [x \in S |-> Below(S, x) + 1]
  <1>1. n \in Nat
    BY FS_CardinalityType
  <1>2. ASSUME NEW x \in S PROVE Below(S, x) \in Nat /\ Below(S, x) + 1 \in 1..n
    BY <1>1, BelowGrows
  <1>3. ASSUME NEW x \in S, NEW y \in S, Below(S, x) = Below(S, y) PROVE x = y
    <2>1. x \in Int /\ y \in Int /\ Below(S, x) \in Int
      BY <1>2
    <2>2. ~(x < y)
      BY <1>3, <2>1, BelowGrows
    <2>3. ~(y < x)
      BY <1>3, <2>1, BelowGrows
    <2> QED BY <2>1, <2>2, <2>3
  <1>4. f \in Injection(S, 1..n)
    <2>1. f \in [S -> 1..n]
      BY <1>2
    <2>2. \A x, y \in S : f[x] = f[y] => x = y
      BY <1>2, <1>3
    <2> QED BY <2>1, <2>2 DEF Injection, IsInjective
  <1>5. IsFiniteSet(1..n) /\ Cardinality(1..n) = n
    BY <1>1, FS_Interval
  <1>6. f \in Surjection(S, 1..n)
    BY <1>4, <1>5, FS_Injection
  <1>7. ASSUME NEW i \in 1..n PROVE InOrder(S)[i] \in S /\ Below(S, InOrder(S)[i]) = i - 1
    <2>1. PICK x \in S : f[x] = i
      BY <1>6 DEF Surjection
    <2>2. Below(S, x) = i - 1
      BY <1>2, <2>1
    <2>3. InOrder(S)[i] = CHOOSE z \in S : Below(S, z) = i - 1
      BY DEF InOrder
    <2> QED BY <2>2, <2>3
  <1>8. ASSUME NEW x \in S PROVE InOrder(S)[Below(S, x) + 1] = x
    <2>1. Below(S, x) + 1 \in 1..n /\ (Below(S, x) + 1) - 1 = Below(S, x)
      BY <1>2
    <2> QED BY <1>3, <1>7, <2>1
  <1>9. ASSUME NEW i \in 1..n, NEW j \in 1..n, i < j PROVE InOrder(S)[i] < InOrder(S)[j]
    <2>1. InOrder(S)[i] \in Int /\ InOrder(S)[j] \in Int
      BY <1>7
    <2>2. ~(InOrder(S)[j] <= InOrder(S)[i])
      BY <1>7, <1>9, <2>1, BelowGrows
    <2> QED BY <2>1, <2>2
  <1> QED BY <1>1, <1>2, <1>7, <1>8, <1>9

\* In a finite set with an order, each has its place: the number of those before it.
LEMMA EachInOrder ==
  ASSUME NEW S, IsFiniteSet(S), NEW R,
         \A x \in S : <<x, x>> \notin R,
         \A x, y \in S : x = y \/ <<x, y>> \in R \/ <<y, x>> \in R,
         \A x, y, z \in S : <<x, y>> \in R /\ <<y, z>> \in R => <<x, z>> \in R
  PROVE  /\ Cardinality(S) \in Nat
         /\ \A i \in 1..Cardinality(S) : \E x \in S :
            Cardinality({y \in S : <<y, x>> \in R}) = i - 1
         /\ \A x \in S : Cardinality({y \in S : <<y, x>> \in R}) + 1 \in 1..Cardinality(S)
  <1> DEFINE n == Cardinality(S)
             P(x) == {y \in S : <<y, x>> \in R}
             f == [x \in S |-> Cardinality(P(x)) + 1]
  <1>1. n \in Nat
    BY FS_CardinalityType
  <1>2. ASSUME NEW x \in S
        PROVE  IsFiniteSet(P(x)) /\ Cardinality(P(x)) \in Nat /\ Cardinality(P(x)) + 1 \in 1..n
    <2>1. P(x) \in SUBSET S /\ P(x) # S
      OBVIOUS
    <2>2. IsFiniteSet(P(x)) /\ Cardinality(P(x)) <= n /\ Cardinality(P(x)) # n
      BY <2>1, FS_Subset
    <2>3. Cardinality(P(x)) \in Nat
      BY <2>2, FS_CardinalityType
    <2> HIDE DEF P
    <2> QED BY <1>1, <2>2, <2>3
  <1>3. ASSUME NEW x \in S, NEW y \in S, <<x, y>> \in R
        PROVE  Cardinality(P(x)) # Cardinality(P(y))
    <2>1. P(x) \in SUBSET P(y) /\ x \in P(y) /\ x \notin P(x)
      BY <1>3
    <2> QED BY <1>2, <2>1, FS_Subset
  <1>4. f \in Injection(S, 1..n)
    <2>1. f \in [S -> 1..n]
      BY <1>2
    <2>2. ASSUME NEW x \in S, NEW y \in S, f[x] = f[y] PROVE x = y
      <3> HIDE DEF P
      <3>1. Cardinality(P(x)) = Cardinality(P(y))
        BY <1>2, <2>2
      <3> QED BY <1>3, <3>1
    <2> QED BY <2>1, <2>2 DEF Injection, IsInjective
  <1>5. IsFiniteSet(1..n) /\ Cardinality(1..n) = n
    BY <1>1, FS_Interval
  <1>6. f \in Surjection(S, 1..n)
    BY <1>4, <1>5, FS_Injection
  <1>7. ASSUME NEW i \in 1..n PROVE \E x \in S : Cardinality(P(x)) = i - 1
    <2>1. PICK x \in S : f[x] = i
      BY <1>6 DEF Surjection
    <2> HIDE DEF P
    <2>2. Cardinality(P(x)) + 1 = i /\ Cardinality(P(x)) \in Nat
      BY <1>2, <2>1
    <2> QED BY <2>2
  <1> QED BY <1>1, <1>2, <1>7

\* The least of a set of places is one place.
LEMMA LeastIsOne ==
  ASSUME NEW P \in SUBSET Nat, P # {}
  PROVE  \E m \in P : {i \in P : \A j \in P : i <= j} = {m}
  <1>1. PICK m \in P : \A j \in P : m <= j
    BY LeastNat
  <1>2. ASSUME NEW i \in P, \A j \in P : i <= j PROVE i = m
    <2>1. i <= m /\ m <= i /\ i \in Nat /\ m \in Nat
      BY <1>1, <1>2
    <2> QED BY <2>1
  <1> QED BY <1>1, <1>2

-----------------------------------------------------------------------------
(* What comes back of a text (Encodings).                                  *)

CONSTANTS
    Payloads, RoomFactor, RoomSlack, Ceiling

VARIABLES
    codec, payload, carried, changed, decoded

Codec    == INSTANCE Encodings

codecVars == <<codec, payload, carried, changed, decoded>>

\* A text keeps its codec's name, its payload and what has happened to it.
LEMMA EncodingsTyped ==
  /\ Codec!EncodingsInit => Codec!EncodingsTypeOK
  /\ Codec!EncodingsTypeOK /\ Codec!EncodingsNext => Codec!EncodingsTypeOK'
  <1>1. ASSUME Codec!EncodingsInit PROVE Codec!EncodingsTypeOK
    <2>1. /\ codec = <<"none", "">> /\ payload \in Payloads /\ changed = "nothing"
          /\ decoded = [asked |-> "", answer |-> Codec!Nil]
      BY <1>1 DEF Codec!EncodingsInit, Codec!NotYet
    <2>2. codec[1] = "none" /\ decoded.asked = ""
      BY <2>1
    <2> QED BY <2>1, <2>2 DEF Codec!EncodingsTypeOK
  <1>2. ASSUME Codec!EncodingsTypeOK, Codec!Encode PROVE Codec!EncodingsTypeOK'
    <2>1. /\ codec' = <<"hex", "">> \/ (\E v : codec' = <<"base64", v>>)
             \/ (\E method : codec' = <<"compress", method>>)
          /\ UNCHANGED <<payload, changed, decoded>>
      BY <1>2 DEF Codec!Encode
    <2>2. PICK c \in {"hex", "base64", "compress"} : \E v : codec' = <<c, v>>
      BY <2>1
    <2>3. codec'[1] = c
      BY <2>2
    <2> QED BY <1>2, <2>1, <2>3 DEF Codec!EncodingsTypeOK
  <1>3. Codec!EncodingsTypeOK /\ Codec!Carry => Codec!EncodingsTypeOK'
    BY DEF Codec!Carry, Codec!EncodingsTypeOK
  <1>4. ASSUME Codec!EncodingsTypeOK, Codec!Decode PROVE Codec!EncodingsTypeOK'
    <2>1. PICK a, x : /\ a \in Codec!Variants \union Codec!Methods \union {"none", ""}
                        /\ decoded' = [asked |-> a, answer |-> x]
                        /\ UNCHANGED <<codec, payload, carried, changed>>
      BY <1>4 DEF Codec!Decode, Codec!Variants
    <2>2. decoded'.asked = a
      BY <2>1
    <2> QED BY <1>4, <2>1, <2>2 DEF Codec!EncodingsTypeOK
  <1> QED BY <1>1, <1>2, <1>3, <1>4 DEF Codec!EncodingsNext

\* A byte is its two hexadecimal digits.
LEMMA Nibbles ==
  /\ \A b \in 0..255 : /\ (b \div 16) * 16 + (b % 16) = b
                       /\ b \div 16 \in 0..15 /\ b % 16 \in 0..15
  /\ \A bytes \in Seq(0..255) : /\ Len(bytes) \in Nat
                               /\ \A k \in 1..Len(bytes) : bytes[k] \in 0..255
  <1>1. \A b \in 0..255 : /\ (b \div 16) * 16 + (b % 16) = b
                         /\ b \div 16 \in 0..15 /\ b % 16 \in 0..15
    BY SMT
  <1>2. ASSUME NEW S, NEW bytes \in Seq(S)
        PROVE  Len(bytes) \in Nat /\ \A k \in 1..Len(bytes) : bytes[k] \in S
    OBVIOUS
  <1> QED BY <1>1, <1>2, SMTT(30)

\* Two hexadecimal digits are their byte.
LEMMA HexReturns ==
  ASSUME NEW bytes \in Seq(0..255), NEW text, Codec!HexOf(text, bytes)
  PROVE  Codec!DecodeHex(text) = bytes
  <1>1. /\ text \in Seq(Nat) /\ Len(text) = 2 * Len(bytes) /\ Len(bytes) \in Nat
        /\ \A i \in 1..2 * Len(bytes) : /\ text[i] # Codec!OtherChar
                                        /\ Codec!Nibble(text[i]) = Codec!EncodeHex(bytes)[i]
    BY DEF Codec!HexOf
  <1>2. Len(text) % 2 = 0 /\ Len(text) \div 2 = Len(bytes)
    BY <1>1
  <1>3. Codec!OtherChar \notin Codec!Range(text)
    BY <1>1 DEF Codec!Range
  <1>4. ASSUME NEW k \in 1..Len(bytes)
        PROVE  Codec!Nibble(text[2 * k - 1]) * 16 + Codec!Nibble(text[2 * k]) = bytes[k]
    <2>1. 2 * k - 1 \in 1..2 * Len(bytes) /\ 2 * k \in 1..2 * Len(bytes)
          /\ ((2 * k - 1) + 1) \div 2 = k /\ (2 * k - 1) % 2 = 1
          /\ (2 * k + 1) \div 2 = k /\ (2 * k) % 2 = 0
      BY <1>1
    <2>2. /\ Codec!EncodeHex(bytes)[2 * k - 1] = bytes[k] \div 16
          /\ Codec!EncodeHex(bytes)[2 * k] = bytes[k] % 16
      BY <2>1 DEF Codec!EncodeHex
    <2>3. bytes[k] \in 0..255
      BY Nibbles
    <2>4. (bytes[k] \div 16) * 16 + (bytes[k] % 16) = bytes[k]
      BY <2>3, Nibbles
    <2> QED BY <1>1, <2>1, <2>2, <2>4
  <1>5. Codec!DecodeHex(text) =
            [k \in 1..Len(bytes) |-> Codec!Nibble(text[2 * k - 1]) * 16 + Codec!Nibble(text[2 * k])]
    <2>1. Codec!DecodeHex(text) =
            [k \in 1..Len(text) \div 2 |->
                Codec!Nibble(text[2 * k - 1]) * 16 + Codec!Nibble(text[2 * k])]
      <3>1. Len(text) % 2 # 1
        BY <1>2
      <3> QED BY <1>3, <3>1 DEF Codec!DecodeHex
    <2> QED BY <1>2, <2>1
  <1>6. Codec!DecodeHex(text) = [k \in 1..Len(bytes) |-> bytes[k]]
    BY <1>4, <1>5
  <1> QED BY <1>6

\* The digits of a text are of either case, and no other.
LEMMA HexIsHex ==
  ASSUME NEW bytes \in Seq(0..255)
  PROVE  /\ Codec!HexOf(Codec!EncodeHex(bytes), bytes)
         /\ LET text == Codec!EncodeHex(bytes) IN
            Codec!HexOf([i \in DOMAIN text |-> Codec!Upper[text[i]]], bytes)
  <1> DEFINE text == Codec!EncodeHex(bytes)
             upper == [i \in DOMAIN text |-> Codec!Upper[text[i]]]
  <1>1. Len(bytes) \in Nat /\ 2 * Len(bytes) \in Nat
    OBVIOUS
  <1>2. ASSUME NEW i \in 1..2 * Len(bytes) PROVE text[i] \in 0..15
    <2>1. (i + 1) \div 2 \in 1..Len(bytes)
      BY <1>1
    <2>2. bytes[(i + 1) \div 2] \in 0..255
      BY <2>1, Nibbles
    <2>3. bytes[(i + 1) \div 2] \div 16 \in 0..15 /\ bytes[(i + 1) \div 2] % 16 \in 0..15
      BY <2>2, Nibbles
    <2> QED BY <2>3 DEF Codec!EncodeHex
  <1>3. DOMAIN text = 1..2 * Len(bytes)
    BY DEF Codec!EncodeHex
  <1>4. text \in Seq(Nat) /\ Len(text) = 2 * Len(bytes)
    <2>1. text \in [1..2 * Len(bytes) -> Nat]
      <3>1. \A i \in 1..2 * Len(bytes) : text[i] \in Nat
        BY <1>2, SMTT(60)
      <3>2. text = [i \in 1..2 * Len(bytes) |-> text[i]]
        BY DEF Codec!EncodeHex
      <3> HIDE DEF text
      <3> QED BY <3>1, <3>2
    <2> HIDE DEF text
    <2> QED BY <1>1, <2>1
  <1> HIDE DEF text
  <1>5. \A c \in 0..15 : c # Codec!OtherChar /\ Codec!Nibble(c) = c
    BY DEF Codec!OtherChar, Codec!Nibble
  <1>6. \A c \in 0..15 : /\ Codec!Upper[c] \in Nat /\ Codec!Upper[c] # Codec!OtherChar
                         /\ Codec!Nibble(Codec!Upper[c]) = c
    BY SMTT(60) DEF Codec!OtherChar, Codec!Nibble, Codec!Upper
  <1>7. Codec!HexOf(text, bytes)
    BY <1>2, <1>3, <1>4, <1>5 DEF Codec!HexOf, text
  <1>8. Codec!HexOf(upper, bytes)
    <2>1. /\ DOMAIN upper = 1..2 * Len(bytes)
          /\ \A i \in 1..2 * Len(bytes) : /\ upper[i] \in Nat /\ upper[i] # Codec!OtherChar
                                          /\ Codec!Nibble(upper[i]) = text[i]
      BY <1>2, <1>3, <1>6
    <2>2. upper \in Seq(Nat) /\ Len(upper) = 2 * Len(bytes)
      <3>1. upper \in [1..2 * Len(bytes) -> Nat]
        BY <1>2, <1>3, <1>6
      <3> HIDE DEF upper
      <3> QED BY <1>1, <3>1
    <2> HIDE DEF upper
    <2> QED BY <2>1, <2>2 DEF Codec!HexOf, text
  <1> QED BY <1>7, <1>8 DEF text

\* The bytes that four digits of six bits come of.
GroupIs(x, y, z) ==
    /\ (x \div 4) * 4 + ((x % 4) * 16 + y \div 16) \div 16 = x
    /\ (((x % 4) * 16 + y \div 16) % 16) * 16 + ((y % 16) * 4 + z \div 64) \div 4 = y
    /\ (((y % 16) * 4 + z \div 64) % 4) * 64 + (z % 64) = z

\* Three bytes come of the four digits made of them.
LEMMA SixBits ==
  ASSUME NEW x \in 0..255, NEW y \in 0..255, NEW z \in 0..255
  PROVE  GroupIs(x, y, z)
  <1>1. x \div 4 \in 0..63 /\ x % 4 \in 0..3 /\ x = 4 * (x \div 4) + (x % 4)
    BY SMT
  <1>2. y \div 16 \in 0..15 /\ y % 16 \in 0..15 /\ y = 16 * (y \div 16) + (y % 16)
    BY SMT
  <1>3. z \div 64 \in 0..3 /\ z % 64 \in 0..63 /\ z = 64 * (z \div 64) + (z % 64)
    BY SMT
  <1>4. \A p \in 0..3, q \in 0..15 : (p * 16 + q) \div 16 = p /\ (p * 16 + q) % 16 = q
    BY SMT
  <1>5. \A p \in 0..15, q \in 0..3 : (p * 4 + q) \div 4 = p /\ (p * 4 + q) % 4 = q
    BY SMT
  <1> QED BY <1>1, <1>2, <1>3, <1>4, <1>5, SMT DEF GroupIs

\* Where the digits of a group of three bytes are.
LEMMA GroupsOfFour ==
  ASSUME NEW g \in Nat
  PROVE  /\ ((4 * g + 1) - 1) \div 4 = g /\ ((4 * g + 2) - 1) \div 4 = g
         /\ ((4 * g + 3) - 1) \div 4 = g /\ ((4 * g + 4) - 1) \div 4 = g
         /\ (4 * g + 1) % 4 = 1 /\ (4 * g + 2) % 4 = 2 /\ (4 * g + 3) % 4 = 3
         /\ (4 * g + 4) % 4 = 0
         /\ ((3 * g + 1) - 1) \div 3 = g /\ ((3 * g + 2) - 1) \div 3 = g
         /\ ((3 * g + 3) - 1) \div 3 = g
         /\ (3 * g + 1) % 3 = 1 /\ (3 * g + 2) % 3 = 2 /\ (3 * g + 3) % 3 = 0
  BY SMT

\* The digits of one group.
LEMMA DigitsOfGroup ==
  ASSUME NEW bytes \in Seq(0..255), NEW g \in Nat
  PROVE  /\ Codec!DigitOf(bytes, 4 * g + 1) = bytes[3 * g + 1] \div 4
         /\ Codec!DigitOf(bytes, 4 * g + 2) =
                (bytes[3 * g + 1] % 4) * 16 + Codec!ByteAt(bytes, 3 * g + 2) \div 16
         /\ Codec!DigitOf(bytes, 4 * g + 3) =
                (bytes[3 * g + 2] % 16) * 4 + Codec!ByteAt(bytes, 3 * g + 3) \div 64
         /\ Codec!DigitOf(bytes, 4 * g + 4) = bytes[3 * g + 3] % 64
  <1> DEFINE First(b) == bytes[b + 1] \div 4
             Second(b) == (bytes[b + 1] % 4) * 16 + Codec!ByteAt(bytes, b + 2) \div 16
             Third(b) == (bytes[b + 2] % 16) * 4 + Codec!ByteAt(bytes, b + 3) \div 64
             Fourth(b) == bytes[b + 3] % 64
  <1>1. \A i \in Int : Codec!DigitOf(bytes, i) =
            CASE i % 4 = 1 -> First(3 * ((i - 1) \div 4))
              [] i % 4 = 2 -> Second(3 * ((i - 1) \div 4))
              [] i % 4 = 3 -> Third(3 * ((i - 1) \div 4))
              [] i % 4 = 0 -> Fourth(3 * ((i - 1) \div 4))
    BY Zenon DEF Codec!DigitOf
  <1> HIDE DEF First, Second, Third, Fourth
  <1>2. ASSUME NEW i \in Int, (i - 1) \div 4 = g
        PROVE  /\ i % 4 = 1 => Codec!DigitOf(bytes, i) = First(3 * g)
               /\ i % 4 = 2 => Codec!DigitOf(bytes, i) = Second(3 * g)
               /\ i % 4 = 3 => Codec!DigitOf(bytes, i) = Third(3 * g)
               /\ i % 4 = 0 => Codec!DigitOf(bytes, i) = Fourth(3 * g)
    BY <1>1, <1>2, SMTT(60)
  <1>3. 4 * g + 1 \in Int /\ 4 * g + 2 \in Int /\ 4 * g + 3 \in Int /\ 4 * g + 4 \in Int
    OBVIOUS
  <1> QED BY <1>2, <1>3, GroupsOfFour DEF First, Second, Third, Fourth

\* The byte that four digits stand for.
LEMMA ByteOfGroup ==
  ASSUME NEW digits, NEW g \in Nat
  PROVE  /\ Codec!ByteOf(digits, 3 * g + 1) = digits[4 * g + 1] * 4 + digits[4 * g + 2] \div 16
         /\ Codec!ByteOf(digits, 3 * g + 2) =
                (digits[4 * g + 2] % 16) * 16 + digits[4 * g + 3] \div 4
         /\ Codec!ByteOf(digits, 3 * g + 3) = (digits[4 * g + 3] % 4) * 64 + digits[4 * g + 4]
  BY GroupsOfFour DEF Codec!ByteOf

\* The bytes that the first digits make up.
LEMMA BytesReturned ==
  ASSUME NEW bytes \in Seq(0..255), NEW n \in 0..Codec!Digits(bytes), NEW digits,
         \A i \in 1..n : digits[i] = Codec!DigitOf(bytes, i),
         NEW k \in 1..(6 * n) \div 8
  PROVE  k \in 1..Len(bytes) /\ Codec!ByteOf(digits, k) = bytes[k]
  <1> DEFINE g == (k - 1) \div 3
  <1>1. /\ Len(bytes) \in Nat /\ n \in Nat /\ k \in Nat /\ 8 * k <= 6 * n
        /\ 6 * n <= 8 * Len(bytes) + 5
    <2>1. Len(bytes) \in Nat
      BY Nibbles
    <2> QED BY <2>1 DEF Codec!Digits
  <1>2. /\ g \in Nat /\ 3 * g + 1 \in Nat /\ 3 * g + 2 \in Nat /\ 3 * g + 3 \in Nat
        /\ k = 3 * g + 1 \/ k = 3 * g + 2 \/ k = 3 * g + 3
    BY <1>1
  <1> HIDE DEF g
  <1>3. k \in 1..Len(bytes) /\ 3 * g + 1 \in 1..Len(bytes)
    BY <1>1, <1>2
  <1> DEFINE x == bytes[3 * g + 1]
             y == Codec!ByteAt(bytes, 3 * g + 2)
             z == Codec!ByteAt(bytes, 3 * g + 3)
  <1>4. x \in 0..255 /\ y \in 0..255 /\ z \in 0..255
    <2>1. ASSUME NEW j PROVE Codec!ByteAt(bytes, j) \in 0..255
      <3>1. DOMAIN bytes = 1..Len(bytes)
        OBVIOUS
      <3>2. j \in 1..Len(bytes) => bytes[j] \in 0..255
        BY Nibbles
      <3> QED BY <3>1, <3>2 DEF Codec!ByteAt
    <2> QED BY <1>3, <2>1, Nibbles, ZenonT(60)
  <1>5. x = bytes[3 * g + 1] /\ y = Codec!ByteAt(bytes, 3 * g + 2)
        /\ z = Codec!ByteAt(bytes, 3 * g + 3)
    OBVIOUS
  <1>6. /\ 3 * g + 2 <= Len(bytes) => bytes[3 * g + 2] = y
        /\ 3 * g + 3 <= Len(bytes) => bytes[3 * g + 3] = z
    BY <1>1, <1>2 DEF Codec!ByteAt
  <1> HIDE DEF x, y, z
  <1>7. x \in Int /\ y \in Int /\ z \in Int
    BY <1>4
  <1>8. /\ Codec!DigitOf(bytes, 4 * g + 1) = x \div 4
        /\ Codec!DigitOf(bytes, 4 * g + 2) = (x % 4) * 16 + y \div 16
        /\ 3 * g + 2 <= Len(bytes) => Codec!DigitOf(bytes, 4 * g + 3) = (y % 16) * 4 + z \div 64
        /\ 3 * g + 3 <= Len(bytes) => Codec!DigitOf(bytes, 4 * g + 4) = z % 64
    <2>1. /\ Codec!DigitOf(bytes, 4 * g + 1) = bytes[3 * g + 1] \div 4
          /\ Codec!DigitOf(bytes, 4 * g + 2) =
                 (bytes[3 * g + 1] % 4) * 16 + Codec!ByteAt(bytes, 3 * g + 2) \div 16
          /\ Codec!DigitOf(bytes, 4 * g + 3) =
                 (bytes[3 * g + 2] % 16) * 4 + Codec!ByteAt(bytes, 3 * g + 3) \div 64
          /\ Codec!DigitOf(bytes, 4 * g + 4) = bytes[3 * g + 3] % 64
      BY <1>2, DigitsOfGroup
    <2> QED BY <1>5, <1>6, <2>1, Zenon
  <1>9. /\ (x \div 4) * 4 + ((x % 4) * 16 + y \div 16) \div 16 = x
        /\ (((x % 4) * 16 + y \div 16) % 16) * 16 + ((y % 16) * 4 + z \div 64) \div 4 = y
        /\ (((y % 16) * 4 + z \div 64) % 4) * 64 + (z % 64) = z
    <2>1. \A u, v, w \in 0..255 : GroupIs(u, v, w)
      BY SixBits, ZenonT(60)
    <2>2. GroupIs(x, y, z)
      BY <1>4, <2>1, Zenon
    <2> QED BY <2>2, Zenon DEF GroupIs
  <1>a. /\ Codec!ByteOf(digits, 3 * g + 1) = digits[4 * g + 1] * 4 + digits[4 * g + 2] \div 16
        /\ Codec!ByteOf(digits, 3 * g + 2) =
               (digits[4 * g + 2] % 16) * 16 + digits[4 * g + 3] \div 4
        /\ Codec!ByteOf(digits, 3 * g + 3) = (digits[4 * g + 3] % 4) * 64 + digits[4 * g + 4]
    BY <1>2, ByteOfGroup
  <1>10. CASE k = 3 * g + 1
    <2>1. 4 * g + 1 \in 1..n /\ 4 * g + 2 \in 1..n
      BY <1>1, <1>2, <1>10
    <2>2. digits[4 * g + 1] = x \div 4 /\ digits[4 * g + 2] = (x % 4) * 16 + y \div 16
      BY <1>8, <2>1
    <2> QED BY <1>3, <1>5, <1>9, <1>10, <1>a, <2>2, Zenon
  <1>11. CASE k = 3 * g + 2
    <2>1. 4 * g + 2 \in 1..n /\ 4 * g + 3 \in 1..n /\ 3 * g + 2 <= Len(bytes)
      BY <1>1, <1>2, <1>3, <1>11
    <2>2. /\ digits[4 * g + 2] = (x % 4) * 16 + y \div 16
          /\ digits[4 * g + 3] = (y % 16) * 4 + z \div 64
      BY <1>8, <2>1
    <2> QED BY <1>3, <1>6, <1>9, <1>11, <1>a, <2>1, <2>2, Zenon
  <1>12. CASE k = 3 * g + 3
    <2>1. 4 * g + 3 \in 1..n /\ 4 * g + 4 \in 1..n /\ 3 * g + 3 <= Len(bytes)
          /\ 3 * g + 2 <= Len(bytes)
      BY <1>1, <1>2, <1>3, <1>12
    <2>2. digits[4 * g + 3] = (y % 16) * 4 + z \div 64 /\ digits[4 * g + 4] = z % 64
      BY <1>8, <2>1
    <2> QED BY <1>3, <1>6, <1>9, <1>12, <1>a, <2>1, <2>2, ZenonT(60)
  <1> QED BY <1>2, <1>10, <1>11, <1>12

\* The parts of bytes that a digit is made of have six bits together.
LEMMA InSixBits ==
  /\ \A x \in 0..255 : x \div 4 \in 0..63 /\ x % 64 \in 0..63
  /\ \A x, y \in 0..255 : /\ (x % 4) * 16 + y \div 16 \in 0..63
                          /\ (x % 16) * 4 + y \div 64 \in 0..63
  <1>1. \A x \in 0..255 : x \div 4 \in 0..63 /\ x % 64 \in 0..63
    BY SMT
  <1>2. ASSUME NEW x \in 0..255, NEW y \in 0..255
        PROVE  /\ (x % 4) * 16 + y \div 16 \in 0..63
               /\ (x % 16) * 4 + y \div 64 \in 0..63
    <2>1. x % 4 \in 0..3 /\ x % 16 \in 0..15 /\ y \div 16 \in 0..15 /\ y \div 64 \in 0..3
      BY SMT
    <2> QED BY <2>1, SMT
  <1> QED BY <1>1, <1>2, Zenon

\* Each digit has six bits.
LEMMA DigitsAreDigits ==
  ASSUME NEW bytes \in Seq(0..255), NEW i \in 1..Codec!Digits(bytes)
  PROVE  Codec!DigitOf(bytes, i) \in 0..63
  <1> DEFINE g == (i - 1) \div 4
  <1>1. Len(bytes) \in Nat /\ DOMAIN bytes = 1..Len(bytes)
    OBVIOUS
  <1>2. i \in Nat /\ i >= 1 /\ 6 * i <= 8 * Len(bytes) + 5
    BY <1>1 DEF Codec!Digits
  <1>3. /\ g \in Nat
        /\ i = 4 * g + 1 \/ i = 4 * g + 2 \/ i = 4 * g + 3 \/ i = 4 * g + 4
        /\ 3 * g + 1 \in 1..Len(bytes)
        /\ i = 4 * g + 3 \/ i = 4 * g + 4 => 3 * g + 2 \in 1..Len(bytes)
        /\ i = 4 * g + 4 => 3 * g + 3 \in 1..Len(bytes)
    BY <1>1, <1>2
  <1> HIDE DEF g
  <1>4. ASSUME NEW j PROVE Codec!ByteAt(bytes, j) \in 0..255
    <2>1. j \in 1..Len(bytes) => bytes[j] \in 0..255
      BY Nibbles
    <2> QED BY <1>1, <2>1 DEF Codec!ByteAt
  <1>5. \A j \in 1..Len(bytes) : bytes[j] \in 0..255
    BY Nibbles
  <1>6. 0 \in 0..255
    OBVIOUS
  <1>7. CASE i = 4 * g + 1
    <2>1. bytes[3 * g + 1] \div 4 \in 0..63
      <3>1. bytes[3 * g + 1] \in 0..255
        BY <1>3, <1>5, <1>7
      <3> QED BY <1>4, <3>1, InSixBits, Zenon
    <2> QED BY <1>3, <1>7, <2>1, DigitsOfGroup, ZenonT(30)
  <1>8. CASE i = 4 * g + 2
    <2>1. (bytes[3 * g + 1] % 4) * 16 + Codec!ByteAt(bytes, 3 * g + 2) \div 16 \in 0..63
      <3>1. bytes[3 * g + 1] \in 0..255
        BY <1>3, <1>5, <1>8
      <3> QED BY <1>4, <3>1, InSixBits, ZenonT(30)
    <2> QED BY <1>3, <1>8, <2>1, DigitsOfGroup, ZenonT(30)
  <1>9. CASE i = 4 * g + 3
    <2>1. (bytes[3 * g + 2] % 16) * 4 + Codec!ByteAt(bytes, 3 * g + 3) \div 64 \in 0..63
      <3>1. bytes[3 * g + 2] \in 0..255
        BY <1>3, <1>5, <1>9
      <3> QED BY <1>4, <3>1, InSixBits, ZenonT(30)
    <2> QED BY <1>3, <1>9, <2>1, DigitsOfGroup, ZenonT(30)
  <1>10. CASE i = 4 * g + 4
    <2>1. bytes[3 * g + 3] % 64 \in 0..63
      <3>1. bytes[3 * g + 3] \in 0..255
        BY <1>3, <1>5, <1>10
      <3> QED BY <1>4, <3>1, InSixBits, Zenon
    <2> QED BY <1>3, <1>10, <2>1, DigitsOfGroup, ZenonT(30)
  <1> QED BY <1>3, <1>7, <1>8, <1>9, <1>10

\* The characters of either alphabet and the digits that they stand for.
LEMMA Alphabets ==
  LET any == Codec!DecodeChar(FALSE, "Standard") IN
  /\ \A v : LET own == Codec!DecodeChar(TRUE, v) IN
        \A c \in DOMAIN own : c \in DOMAIN any /\ own[c] = any[c]
  /\ \A c \in DOMAIN any :
        /\ c \in Nat /\ c # Codec!Pad /\ c # Codec!Junk
        /\ Codec!Swap62[c] \in DOMAIN any /\ any[Codec!Swap62[c]] = any[c]
  /\ Codec!Swap62[Codec!Pad] = Codec!Pad
  BY DEF Codec!DecodeChar, Codec!Symbol, Codec!Swap62, Codec!Plus, Codec!Slash, Codec!Minus,
         Codec!Under, Codec!Pad, Codec!Junk

\* The padding goes from the end.
LEMMA EffectiveIs ==
  ASSUME NEW text \in Seq(Nat), NEW n \in 0..Len(text), n = 0 \/ text[n] # Codec!Pad,
         \A i \in n + 1..Len(text) : text[i] = Codec!Pad
  PROVE  LET body == Codec!Effective(text) IN
         /\ body \in Seq(Nat) /\ Len(body) = n /\ body = SubSeq(text, 1, n)
         /\ \A i \in 1..n : body[i] = text[i]
  <1> DEFINE Ends(m) == /\ m = 0 \/ text[m] # Codec!Pad
                        /\ \A i \in m + 1..Len(text) : text[i] = Codec!Pad
             end == CHOOSE m \in 0..Len(text) : Ends(m)
  <1>1. Len(text) \in Nat /\ Ends(n)
    OBVIOUS
  <1>2. ASSUME NEW m \in 0..Len(text), Ends(m) PROVE m = n
    <2>1. ~(m < n) /\ ~(n < m)
      BY <1>1, <1>2
    <2> QED BY <2>1
  <1>3. end = n
    <2> HIDE DEF Ends
    <2> QED BY <1>1, <1>2
  <1>4. Codec!Effective(text) = SubSeq(text, 1, n)
    <2>1. Codec!Effective(text) = SubSeq(text, 1, end)
      BY DEF Codec!Effective
    <2> HIDE DEF end
    <2> QED BY <1>3, <2>1
  <1>5. /\ SubSeq(text, 1, n) \in Seq(Nat) /\ Len(SubSeq(text, 1, n)) = n
        /\ \A i \in 1..n : SubSeq(text, 1, n)[i] = text[i]
    BY <1>1
  <1> QED BY <1>4, <1>5

\* A digit's symbol is of the alphabet, and stands for it.
LEMMA OwnAlphabet ==
  ASSUME NEW v \in {"Standard", "UrlSafe"}, NEW d \in 0..63
  PROVE  /\ Codec!Symbol(d, v) \in DOMAIN Codec!DecodeChar(TRUE, v)
         /\ Codec!DecodeChar(TRUE, v)[Codec!Symbol(d, v)] = d
  BY DEF Codec!DecodeChar, Codec!Symbol, Codec!Plus, Codec!Slash, Codec!Minus, Codec!Under

\* What a decode makes of digits and padding: the bytes, or nothing.
LEMMA Decoded ==
  ASSUME NEW bytes \in Seq(0..255), NEW text, NEW n, NEW w \in Codec!Variants \union {"none"},
         Codec!Spells(text, bytes, n, Codec!DecodeChar(FALSE, "Standard")), text # <<>>
  PROVE  LET out == Codec!DecodeBase64(text, w)
             given == IF w = "none" THEN Codec!DecodeChar(FALSE, "Standard")
                      ELSE Codec!DecodeChar(TRUE, w)
             first == SubSeq(bytes, 1, (6 * n) \div 8)
         IN  /\ w = "invalid" => out = Codec!Error
             /\ w # "invalid" => out = Codec!Nil \/ out = first
             /\ /\ w # "invalid" /\ n % 4 # 1 /\ Len(text) - n <= 2
                /\ w = "Standard" => Len(text) % 4 = 0
                /\ \A i \in 1..n : text[i] \in DOMAIN given
                => out = first
  <1> DEFINE out == Codec!DecodeBase64(text, w)
             any == Codec!DecodeChar(FALSE, "Standard")
             given == IF w = "none" THEN Codec!DecodeChar(FALSE, "Standard")
                      ELSE Codec!DecodeChar(TRUE, w)
             first == SubSeq(bytes, 1, (6 * n) \div 8)
             body == Codec!Effective(text)
             refused == \/ w = "Standard" /\ Len(text) % 4 # 0
                        \/ Len(text) - Len(body) > 2 \/ Len(body) % 4 = 1
                        \/ \E i \in DOMAIN body : body[i] \notin DOMAIN given
             digits == [i \in DOMAIN body |-> given[body[i]]]
             bytesRead == [k \in 1..(6 * Len(body)) \div 8 |-> Codec!ByteOf(digits, k)]
  <1>1. /\ text \in Seq(Nat) /\ n \in 0..Codec!Digits(bytes) /\ n \in 0..Len(text)
        /\ \A i \in 1..n : text[i] \in DOMAIN any /\ any[text[i]] = Codec!DigitOf(bytes, i)
        /\ \A i \in n + 1..Len(text) : text[i] = Codec!Pad
        /\ Len(text) \in Nat /\ Len(text) # 0
    <2>1. /\ text \in Seq(Nat) /\ n \in 0..Codec!Digits(bytes) /\ n <= Len(text)
          /\ \A i \in 1..n : text[i] \in DOMAIN any /\ any[text[i]] = Codec!DigitOf(bytes, i)
          /\ \A i \in n + 1..Len(text) : text[i] = Codec!Pad
      BY DEF Codec!Spells
    <2> HIDE DEF any
    <2>2. Len(text) \in Nat /\ Len(text) # 0
      BY <2>1
    <2>3. n \in 0..Len(text)
      BY <2>1, <2>2
    <2> QED BY <2>1, <2>2, <2>3
  <1>2. \A c \in DOMAIN given : c \in DOMAIN any /\ given[c] = any[c]
    BY DEF Codec!DecodeChar, Codec!Variants
  <1>3. \A c \in DOMAIN any : c # Codec!Pad
    BY Alphabets
  <1> HIDE DEF any, given
  <1>4. /\ body \in Seq(Nat) /\ Len(body) = n /\ DOMAIN body = 1..n
        /\ \A i \in 1..n : body[i] = text[i]
    <2>1. n = 0 \/ text[n] # Codec!Pad
      BY <1>1, <1>3
    <2> HIDE DEF body
    <2>2. body \in Seq(Nat) /\ Len(body) = n /\ \A i \in 1..n : body[i] = text[i]
      BY <1>1, <2>1, EffectiveIs DEF body
    <2> QED BY <2>2
  <1>5. /\ w = "invalid" => out = Codec!Error
        /\ w # "invalid" => out = IF refused THEN Codec!Nil ELSE bytesRead
    <2>1. CASE w = "none"
      BY <1>1, <2>1 DEF Codec!DecodeBase64, given
    <2>2. CASE w = "Standard"
      BY <1>1, <2>2 DEF Codec!DecodeBase64, given
    <2>3. CASE w = "UrlSafe"
      BY <1>1, <2>3 DEF Codec!DecodeBase64, given
    <2>4. CASE w = "invalid"
      BY <1>1, <2>4 DEF Codec!DecodeBase64
    <2> QED BY <2>1, <2>2, <2>3, <2>4 DEF Codec!Variants
  <1> HIDE DEF out, body, refused
  <1>6. ASSUME ~refused PROVE bytesRead = first
    <2>1. ASSUME NEW i \in 1..n PROVE digits[i] = Codec!DigitOf(bytes, i)
      <3>1. body[i] \in DOMAIN given /\ body[i] = text[i]
        BY <1>4, <1>6 DEF refused
      <3> QED BY <1>1, <1>2, <1>4, <3>1
    <2> HIDE DEF digits
    <2>2. \A k \in 1..(6 * n) \div 8 : k \in 1..Len(bytes) /\ Codec!ByteOf(digits, k) = bytes[k]
      BY <1>1, <2>1, BytesReturned, ZenonT(60)
    <2>3. (6 * n) \div 8 \in Nat /\ Len(bytes) \in Nat
      BY <1>1, Nibbles
    <2>4. first = [k \in 1..(6 * n) \div 8 |-> bytes[k]]
      <3>1. (6 * n) \div 8 <= Len(bytes)
        <4>1. (6 * n) \div 8 = 0 \/ (6 * n) \div 8 \in 1..(6 * n) \div 8
          BY <2>3
        <4> QED BY <2>2, <2>3, <4>1
      <3> DEFINE m == (6 * n) \div 8
      <3>2. m \in 0..Len(bytes)
        BY <2>3, <3>1
      <3> HIDE DEF m
      <3>3. SubSeq(bytes, 1, m) = [k \in 1..m |-> bytes[k]]
        BY <3>2
      <3> QED BY <3>3 DEF m
    <2> HIDE DEF first
    <2>5. bytesRead = [k \in 1..(6 * n) \div 8 |-> Codec!ByteOf(digits, k)]
      BY <1>4
    <2> QED BY <2>2, <2>4, <2>5
  <1> HIDE DEF bytesRead, first
  <1>7. ASSUME n % 4 # 1, Len(text) - n <= 2, w = "Standard" => Len(text) % 4 = 0,
               \A i \in 1..n : text[i] \in DOMAIN given
        PROVE  ~refused
    <2>1. \A i \in DOMAIN body : body[i] \in DOMAIN given
      BY <1>4, <1>7
    <2>2. ~(Len(text) - Len(body) > 2) /\ Len(body) % 4 # 1
      BY <1>1, <1>4, <1>7
    <2> QED BY <1>7, <2>1, <2>2 DEF refused
  <1> QED BY <1>5, <1>6, <1>7 DEF out, given, first

\* A character of no alphabet is refused.
LEMMA SpoiltRefused ==
  ASSUME NEW text, Codec!IsSpoilt(text), NEW w \in Codec!Variants \union {"none"}
  PROVE  Codec!DecodeBase64(text, w) = IF w = "invalid" THEN Codec!Error ELSE Codec!Nil
  <1> DEFINE given == Codec!DecodeChar(w # "none", IF w # "none" THEN w ELSE "Standard")
             body == Codec!Effective(text)
             refused == \/ w = "Standard" /\ Len(text) % 4 # 0
                        \/ Len(text) - Len(body) > 2 \/ Len(body) % 4 = 1
                        \/ \E i \in DOMAIN body : body[i] \notin DOMAIN given
             digits == [i \in DOMAIN body |-> given[body[i]]]
             bytesRead == [k \in 1..(6 * Len(body)) \div 8 |-> Codec!ByteOf(digits, k)]
  <1>1. text \in Seq(Nat) /\ Len(text) \in Nat
    BY DEF Codec!IsSpoilt
  <1>2. PICK n \in 1..Len(text) :
            /\ text[n] # Codec!Pad /\ \A i \in n + 1..Len(text) : text[i] = Codec!Pad
            /\ \E i \in 1..n : text[i] = Codec!Junk
    BY DEF Codec!IsSpoilt
  <1>3. Codec!Junk \notin DOMAIN given
    BY DEF Codec!DecodeChar, Codec!Variants, Codec!Junk, Codec!Plus, Codec!Slash, Codec!Minus,
           Codec!Under
  <1>4. /\ w = "invalid" => Codec!DecodeBase64(text, w) = Codec!Error
        /\ w # "invalid" => Codec!DecodeBase64(text, w) = IF refused THEN Codec!Nil ELSE bytesRead
    <2>1. Len(text) # 0
      BY <1>1, <1>2
    <2> QED BY <1>1, <2>1 DEF Codec!DecodeBase64, given
  <1>5. \E i \in DOMAIN body : body[i] = Codec!Junk
    <2> HIDE DEF body
    <2>1. body \in Seq(Nat) /\ Len(body) = n /\ \A i \in 1..n : body[i] = text[i]
      BY <1>1, <1>2, EffectiveIs, SMTT(60) DEF body
    <2>2. DOMAIN body = 1..n
      BY <2>1
    <2> QED BY <1>2, <2>1, <2>2
  <1>6. refused
    <2> HIDE DEF body, given
    <2> QED BY <1>3, <1>5
  <1> HIDE DEF refused, bytesRead
  <1> QED BY <1>4, <1>6

\* What an encode writes.
LEMMA EncodedSpells ==
  ASSUME NEW bytes \in Seq(0..255), bytes # <<>>, NEW v \in {"Standard", "UrlSafe"}
  PROVE  LET text == Codec!EncodeBase64(bytes, v)  all == Codec!Digits(bytes) IN
         /\ Codec!Spells(text, bytes, all, Codec!DecodeChar(TRUE, v))
         /\ Len(text) = all + IF v = "Standard" THEN (4 - (all % 4)) % 4 ELSE 0
  <1> DEFINE text == Codec!EncodeBase64(bytes, v)
             all == Codec!Digits(bytes)
             pads == IF v = "Standard" THEN (4 - (all % 4)) % 4 ELSE 0
             own == Codec!DecodeChar(TRUE, v)
             symbols == [i \in 1..all |-> Codec!Symbol(Codec!DigitOf(bytes, i), v)]
             rest == Codec!Repeat(Codec!Pad, pads)
  <1>1. all \in Nat /\ pads \in Nat /\ Len(bytes) # 0
    <2>1. Len(bytes) \in Nat
      BY Nibbles
    <2>2. all \in Nat
      BY <2>1 DEF Codec!Digits
    <2> HIDE DEF all
    <2> QED BY <2>2
  <1>2. text = symbols \o rest
    BY <1>1 DEF Codec!EncodeBase64, Codec!Digits
  <1>3. ASSUME NEW i \in 1..all
        PROVE  symbols[i] \in DOMAIN own /\ own[symbols[i]] = Codec!DigitOf(bytes, i)
               /\ symbols[i] \in Nat
    <2> DEFINE d == Codec!DigitOf(bytes, i)
    <2>1. d \in 0..63 /\ symbols[i] = Codec!Symbol(d, v)
      BY DigitsAreDigits
    <2> HIDE DEF d, symbols
    <2>2. symbols[i] \in DOMAIN own /\ own[symbols[i]] = d
      BY <2>1, OwnAlphabet
    <2> HIDE DEF own
    <2>3. symbols[i] \in Nat
      BY <2>2, Alphabets DEF own
    <2> QED BY <2>2, <2>3 DEF d
  <1> HIDE DEF own
  <1>4. symbols \in Seq(Nat) /\ Len(symbols) = all
    <2>1. symbols \in [1..all -> Nat]
      BY <1>3
    <2> HIDE DEF symbols, all
    <2> QED BY <1>1, <2>1
  <1>5. rest \in Seq(Nat) /\ Len(rest) = pads /\ \A i \in 1..pads : rest[i] = Codec!Pad
    <2>1. rest \in [1..pads -> Nat] /\ \A i \in 1..pads : rest[i] = Codec!Pad
      BY DEF Codec!Repeat, Codec!Pad
    <2> HIDE DEF rest, pads
    <2> QED BY <1>1, <2>1
  <1> HIDE DEF symbols, rest, all, pads, text
  <1>6. /\ text \in Seq(Nat) /\ Len(text) = all + pads
        /\ \A i \in 1..all : text[i] = symbols[i]
        /\ \A i \in all + 1..Len(text) : text[i] = Codec!Pad
    <2>1. text \in Seq(Nat) /\ Len(text) = all + pads
      <3>1. \A s, t \in Seq(Nat) : s \o t \in Seq(Nat) /\ Len(s \o t) = Len(s) + Len(t)
        OBVIOUS
      <3> QED BY <1>2, <1>4, <1>5, <3>1
    <2>2. \A i \in 1..all : text[i] = symbols[i]
      BY <1>1, <1>2, <1>4, <1>5
    <2>3. ASSUME NEW i \in all + 1..Len(text) PROVE text[i] = Codec!Pad
      <3>1. i - all \in 1..pads /\ i \in 1..all + pads /\ ~(i <= all)
        BY <1>1, <2>1, <2>3
      <3>2. text[i] = rest[i - all]
        BY <1>1, <1>2, <1>4, <1>5, <3>1
      <3> QED BY <1>5, <3>1, <3>2
    <2> QED BY <2>1, <2>2, <2>3
  <1>7. Codec!Spells(text, bytes, all, own)
    BY <1>1, <1>3, <1>6, SMTT(60) DEF Codec!Spells, all
  <1> QED BY <1>6, <1>7 DEF text, all, pads, own

\* What the steps keep of a text, from each to the next.
LEMMA EncodingsStart ==
  ASSUME Codec!EncodingsInit
  PROVE  Codec!EncodingsInv
  <1>1. Codec!EncodingsTypeOK
    BY EncodingsTyped
  <1>2. codec[1] = "none" /\ changed = "nothing" /\ decoded = Codec!NotYet
    BY DEF Codec!EncodingsInit
  <1> QED BY <1>1, <1>2 DEF Codec!EncodingsInv, Codec!HexInv, Codec!Base64Inv, Codec!StreamInv

\* The add-on's text is what its codec writes.
LEMMA EncodeKeeps ==
  ASSUME Codec!EncodingsAssumption, Codec!EncodingsInv, Codec!Encode
  PROVE  Codec!EncodingsInv'
  <1>1. /\ changed = "nothing" /\ decoded = Codec!NotYet /\ payload \in Seq(0..255)
        /\ changed' = changed /\ decoded' = decoded /\ payload' = payload
    BY DEF Codec!EncodingsInv, Codec!EncodingsTypeOK, Codec!Encode, Codec!EncodingsAssumption
  <1>2. Codec!EncodingsTypeOK'
    BY EncodingsTyped DEF Codec!EncodingsInv, Codec!EncodingsNext
  <1>3. CASE codec' = <<"hex", "">> /\ carried' = Codec!EncodeHex(payload)
    <2>1. codec'[1] = "hex"
      BY <1>3
    <2> QED BY <1>1, <1>2, <1>3, <2>1 DEF Codec!EncodingsInv, Codec!HexInv, Codec!Base64Inv,
                                          Codec!StreamInv, Codec!NotYet
  <1>4. ASSUME NEW v \in Codec!Variants, codec' = <<"base64", v>>,
               carried' = Codec!EncodeBase64(payload, v), carried' # Codec!Error
        PROVE  Codec!EncodingsInv'
    <2>1. codec'[1] = "base64" /\ codec'[2] = v
      BY <1>4
    <2>2. payload = <<>> => carried' = <<>>
      BY <1>4 DEF Codec!EncodeBase64
    <2>3. payload # <<>> => v \in {"Standard", "UrlSafe"}
      <3>1. payload # <<>> => Len(payload) # 0
        BY <1>1
      <3> QED BY <1>4, <3>1 DEF Codec!EncodeBase64, Codec!Variants
    <2>4. payload # <<>> =>
            /\ Codec!Spells(carried', payload, Codec!Digits(payload), Codec!DecodeChar(TRUE, v))
            /\ Len(carried') = Codec!Digits(payload) +
                    IF v = "Standard" THEN (4 - (Codec!Digits(payload) % 4)) % 4 ELSE 0
      BY <1>1, <1>4, <2>3, EncodedSpells
    <2>5. Codec!Base64Inv'
      BY <1>1, <1>4, <2>1, <2>2, <2>3, <2>4 DEF Codec!Base64Inv, Codec!NotYet, Codec!Spells,
         Codec!Digits
    <2> QED BY <1>1, <1>2, <2>1, <2>5 DEF Codec!EncodingsInv, Codec!HexInv, Codec!StreamInv
  <1>5. ASSUME NEW method \in Codec!Methods, NEW level \in {-1, 10},
               codec' = <<"compress", method>>,
               carried' \in Codec!CompressString(payload, method, level)
        PROVE  Codec!EncodingsInv'
    <2>1. codec'[1] = "compress" /\ codec'[2] = method
      BY <1>5
    <2>2. carried' = [format |-> method, of |-> payload, length |-> Codec!Packed(payload),
                      cut |-> FALSE]
      BY <1>5 DEF Codec!CompressString
    <2>3. Codec!Packed(payload)' = Codec!Packed(payload)
      BY <1>1 DEF Codec!Packed
    <2>4. Codec!StreamInv'
      BY <1>1, <1>5, <2>1, <2>2, <2>3 DEF Codec!StreamInv, Codec!NotYet
    <2> QED BY <1>1, <1>2, <2>1, <2>4 DEF Codec!EncodingsInv, Codec!HexInv, Codec!Base64Inv
  <1> QED BY <1>3, <1>4, <1>5 DEF Codec!Encode

\* What is decoded is what has arrived.
LEMMA DecodeKeeps ==
  ASSUME Codec!EncodingsInv, Codec!Decode
  PROVE  Codec!EncodingsInv'
  <1>1. /\ codec' = codec /\ payload' = payload /\ carried' = carried /\ changed' = changed
    BY DEF Codec!Decode
  <1>2. Codec!EncodingsTypeOK'
    BY EncodingsTyped DEF Codec!EncodingsInv, Codec!EncodingsNext
  <1>3. /\ codec[1] \in {"hex", "base64", "compress"}
        /\ codec[1] = "hex" => decoded' = [asked |-> "", answer |-> Codec!DecodeHex(carried)]
        /\ codec[1] = "base64" =>
            \E v \in Codec!Variants \union {"none"} :
                decoded' = [asked |-> v, answer |-> Codec!DecodeBase64(carried, v)]
        /\ codec[1] = "compress" =>
            \E m \in Codec!Methods \union {"none", "invalid"} :
                decoded' = [asked |-> m, answer |-> Codec!DecompressString(carried, m)]
    BY DEF Codec!Decode
  <1>4. Codec!HexInv'
    BY <1>1, <1>3 DEF Codec!EncodingsInv, Codec!HexInv, Codec!HexOf, Codec!EncodeHex
  <1>5. Codec!Base64Inv'
    <2> SUFFICES ASSUME codec[1] = "base64" PROVE Codec!Base64Inv'
      BY <1>1 DEF Codec!Base64Inv
    <2>1. PICK v \in Codec!Variants \union {"none"} :
              decoded' = [asked |-> v, answer |-> Codec!DecodeBase64(carried, v)]
      BY <1>3
    <2>2. decoded'.asked = v /\ decoded'.answer = Codec!DecodeBase64(carried, v)
      BY <2>1
    <2> QED BY <1>1, <2>2 DEF Codec!EncodingsInv, Codec!Base64Inv, Codec!Spells, Codec!Digits,
                              Codec!IsSpoilt
  <1>6. Codec!StreamInv'
    <2> SUFFICES ASSUME codec[1] = "compress" PROVE Codec!StreamInv'
      BY <1>1 DEF Codec!StreamInv
    <2>1. PICK m \in Codec!Methods \union {"none", "invalid"} :
              decoded' = [asked |-> m, answer |-> Codec!DecompressString(carried, m)]
      BY <1>3
    <2>2. decoded'.asked = m /\ decoded'.answer = Codec!DecompressString(carried, m)
      BY <2>1
    <2>3. Codec!Packed(payload)' = Codec!Packed(payload)
      BY <1>1 DEF Codec!Packed
    <2> QED BY <1>1, <2>2, <2>3 DEF Codec!EncodingsInv, Codec!StreamInv
  <1> QED BY <1>1, <1>2, <1>3, <1>4, <1>5, <1>6 DEF Codec!EncodingsInv

\* What is spelt in an alphabet is spelt in both.
LEMMA SpeltInAny ==
  ASSUME NEW text, NEW bytes, NEW n, NEW v, Codec!Spells(text, bytes, n, Codec!DecodeChar(TRUE, v))
  PROVE  Codec!Spells(text, bytes, n, Codec!DecodeChar(FALSE, "Standard"))
  <1> DEFINE own == Codec!DecodeChar(TRUE, v)
             any == Codec!DecodeChar(FALSE, "Standard")
  <1>1. \A c \in DOMAIN own : c \in DOMAIN any /\ own[c] = any[c]
    BY Alphabets
  <1>2. Codec!Spells(text, bytes, n, own)
    OBVIOUS
  <1> HIDE DEF own, any
  <1>3. Codec!Spells(text, bytes, n, any)
    BY <1>1, <1>2 DEF Codec!Spells
  <1> QED BY <1>3 DEF any

\* Without its padding, in the other alphabet or without its last character, a text has
\* the digits that it had, or all but the last.
LEMMA SpellingsStay ==
  ASSUME NEW text, NEW bytes \in Seq(0..255), NEW n, NEW digitOf,
         \A c \in DOMAIN digitOf : c \in DOMAIN Codec!DecodeChar(FALSE, "Standard"),
         Codec!Spells(text, bytes, n, digitOf)
  PROVE  /\ Codec!Spells(Codec!Effective(text), bytes, n, digitOf)
         /\ Len(Codec!Effective(text)) = n
         /\ Len(text) > 0 =>
              \E m \in 0..Codec!Digits(bytes) :
                Codec!Spells(Codec!Front(text), bytes, m, digitOf)
  <1>1. /\ text \in Seq(Nat) /\ n \in 0..Codec!Digits(bytes) /\ n <= Len(text)
        /\ Len(text) \in Nat /\ Codec!Digits(bytes) \in Nat
        /\ \A i \in 1..n : text[i] \in DOMAIN digitOf /\ digitOf[text[i]] = Codec!DigitOf(bytes, i)
        /\ \A i \in n + 1..Len(text) : text[i] = Codec!Pad
    <2>1. Len(bytes) \in Nat
      BY Nibbles
    <2>2. Codec!Digits(bytes) \in Nat
      BY <2>1 DEF Codec!Digits
    <2> QED BY <2>2 DEF Codec!Spells
  <1>2. n \in 0..Len(text) /\ (n = 0 \/ text[n] # Codec!Pad)
    <2>1. n \in Nat /\ (n = 0 \/ n \in 1..n)
      BY <1>1
    <2>2. \A c \in DOMAIN digitOf : c # Codec!Pad
      BY Alphabets
    <2> QED BY <1>1, <2>1, <2>2
  <1> DEFINE body == Codec!Effective(text)
             front == Codec!Front(text)
  <1>3. body \in Seq(Nat) /\ Len(body) = n /\ \A i \in 1..n : body[i] = text[i]
    <2> HIDE DEF body
    <2> QED BY <1>1, <1>2, EffectiveIs DEF body
  <1> HIDE DEF body
  <1>4. Codec!Spells(body, bytes, n, digitOf)
    <2>1. n <= Len(body) /\ \A i \in n + 1..Len(body) : body[i] = Codec!Pad
      BY <1>1, <1>3
    <2>2. \A i \in 1..n : body[i] \in DOMAIN digitOf /\ digitOf[body[i]] = Codec!DigitOf(bytes, i)
      BY <1>1, <1>3
    <2> QED BY <1>1, <1>3, <2>1, <2>2, Zenon DEF Codec!Spells
  <1>5. ASSUME Len(text) > 0
        PROVE  \E m \in 0..Codec!Digits(bytes) : Codec!Spells(front, bytes, m, digitOf)
    <2> DEFINE m == IF n = Len(text) THEN n - 1 ELSE n
    <2>1. /\ front \in Seq(Nat) /\ Len(front) = Len(text) - 1
          /\ \A i \in 1..Len(text) - 1 : front[i] = text[i]
      <3>1. Len(text) - 1 \in 0..Len(text)
        BY <1>1, <1>5
      <3>2. ASSUME NEW t \in Seq(Nat), NEW k \in 0..Len(t)
            PROVE  /\ SubSeq(t, 1, k) \in Seq(Nat) /\ Len(SubSeq(t, 1, k)) = k
                   /\ \A i \in 1..k : SubSeq(t, 1, k)[i] = t[i]
        OBVIOUS
      <3>3. front = SubSeq(text, 1, Len(text) - 1)
        BY DEF Codec!Front
      <3> HIDE DEF front
      <3> DEFINE k == Len(text) - 1
      <3>4. k \in 0..Len(text) /\ front = SubSeq(text, 1, k)
        BY <1>1, <3>1, <3>3
      <3> HIDE DEF k
      <3>5. front \in Seq(Nat) /\ Len(front) = k /\ \A i \in 1..k : front[i] = text[i]
        BY <1>1, <3>2, <3>4
      <3> QED BY <3>5 DEF k
    <2>2. m \in 0..Codec!Digits(bytes) /\ m <= Len(front) /\ m <= n
          /\ (m = n \/ (m = n - 1 /\ n = Len(text)))
      BY <1>1, <1>2, <1>5, <2>1
    <2> HIDE DEF front, m
    <2>3. ASSUME NEW i \in 1..m PROVE i \in 1..n /\ front[i] = text[i]
      <3>1. i \in 1..n /\ i \in 1..Len(text) - 1
        BY <1>1, <2>1, <2>2
      <3> QED BY <2>1, <3>1
    <2>4. ASSUME NEW i \in m + 1..Len(front) PROVE front[i] = Codec!Pad
      <3>1. i \in n + 1..Len(text) /\ i \in 1..Len(text) - 1
        BY <1>1, <2>1, <2>2, SMTT(60)
      <3> QED BY <1>1, <2>1, <3>1
    <2>5. Codec!Spells(front, bytes, m, digitOf)
      BY <1>1, <2>1, <2>2, <2>3, <2>4 DEF Codec!Spells
    <2> QED BY <2>2, <2>5
  <1> QED BY <1>3, <1>4, <1>5 DEF body, front

\* The characters that two alphabets differ in change places.
LEMMA SwappedSpells ==
  ASSUME NEW text, NEW bytes, NEW n,
         Codec!Spells(text, bytes, n, Codec!DecodeChar(FALSE, "Standard"))
  PROVE  LET other == [i \in DOMAIN text |-> Codec!Swap62[text[i]]] IN
         Codec!Spells(other, bytes, n, Codec!DecodeChar(FALSE, "Standard"))
         /\ Len(other) = Len(text)
  <1> DEFINE any == Codec!DecodeChar(FALSE, "Standard")
             other == [i \in DOMAIN text |-> Codec!Swap62[text[i]]]
  <1>1. /\ text \in Seq(Nat) /\ n \in 0..Codec!Digits(bytes) /\ n <= Len(text)
        /\ Len(text) \in Nat /\ DOMAIN text = 1..Len(text)
        /\ \A i \in 1..n : text[i] \in DOMAIN any /\ any[text[i]] = Codec!DigitOf(bytes, i)
        /\ \A i \in n + 1..Len(text) : text[i] = Codec!Pad
    <2>1. /\ text \in Seq(Nat) /\ n \in 0..Codec!Digits(bytes) /\ n <= Len(text)
          /\ \A i \in 1..n : text[i] \in DOMAIN any /\ any[text[i]] = Codec!DigitOf(bytes, i)
          /\ \A i \in n + 1..Len(text) : text[i] = Codec!Pad
      BY DEF Codec!Spells
    <2> HIDE DEF any
    <2>2. Len(text) \in Nat /\ DOMAIN text = 1..Len(text)
      BY <2>1
    <2> QED BY <2>1, <2>2
  <1>2. /\ \A c \in DOMAIN any : /\ Codec!Swap62[c] \in DOMAIN any /\ Codec!Swap62[c] \in Nat
                                 /\ any[Codec!Swap62[c]] = any[c]
        /\ Codec!Swap62[Codec!Pad] = Codec!Pad /\ Codec!Pad \in Nat
    BY Alphabets DEF Codec!Pad
  <1> HIDE DEF any
  <1>3. ASSUME NEW i \in 1..Len(text)
        PROVE  other[i] = Codec!Swap62[text[i]] /\ other[i] \in Nat
    <2>1. i \in 1..n \/ i \in n + 1..Len(text)
      BY <1>1
    <2> QED BY <1>1, <1>2, <2>1
  <1>4. other \in Seq(Nat) /\ Len(other) = Len(text)
    <2>1. other \in [1..Len(text) -> Nat]
      BY <1>1, <1>3
    <2> HIDE DEF other
    <2> QED BY <1>1, <2>1
  <1> HIDE DEF other
  <1>5. \A i \in 1..n : i \in 1..Len(text)
    BY <1>1
  <1>6. \A i \in n + 1..Len(text) : i \in 1..Len(text)
    BY <1>1
  <1>7. Codec!Spells(other, bytes, n, any)
    BY <1>1, <1>2, <1>3, <1>4, <1>5, <1>6 DEF Codec!Spells
  <1> QED BY <1>4, <1>7 DEF other, any

\* A strange character in place of one of a text.
LEMMA StrangeSpoils ==
  ASSUME NEW text, NEW bytes \in Seq(0..255), NEW n, NEW v,
         Codec!Spells(text, bytes, n, Codec!DecodeChar(TRUE, v)), NEW i \in DOMAIN text
  PROVE  Codec!IsSpoilt([text EXCEPT ![i] = Codec!Junk])
  <1> DEFINE other == [text EXCEPT ![i] = Codec!Junk]
             m == IF i > n THEN i ELSE n
             own == Codec!DecodeChar(TRUE, v)
  <1>1. /\ text \in Seq(Nat) /\ n \in 0..Codec!Digits(bytes) /\ n <= Len(text)
        /\ Len(text) \in Nat /\ i \in 1..Len(text) /\ n \in Nat
        /\ \A j \in 1..n : text[j] \in DOMAIN own
        /\ \A j \in n + 1..Len(text) : text[j] = Codec!Pad
    <2>1. /\ text \in Seq(Nat) /\ n \in 0..Codec!Digits(bytes) /\ n <= Len(text)
          /\ \A j \in 1..n : text[j] \in DOMAIN own
          /\ \A j \in n + 1..Len(text) : text[j] = Codec!Pad
      BY DEF Codec!Spells
    <2> HIDE DEF own
    <2>2. Len(text) \in Nat /\ i \in 1..Len(text) /\ n \in Nat
      BY <2>1
    <2> QED BY <2>1, <2>2
  <1>2. /\ \A c \in DOMAIN own : c # Codec!Pad
        /\ Codec!Junk # Codec!Pad /\ Codec!Junk \in Nat
    <2> DEFINE any == Codec!DecodeChar(FALSE, "Standard")
    <2>1. \A c \in DOMAIN own : c \in DOMAIN any
      BY Alphabets
    <2>2. \A c \in DOMAIN any : c # Codec!Pad
      BY Alphabets
    <2> HIDE DEF own, any
    <2> QED BY <2>1, <2>2 DEF Codec!Junk, Codec!Pad
  <1> HIDE DEF own
  <1>3. /\ other \in Seq(Nat) /\ Len(other) = Len(text) /\ other[i] = Codec!Junk
        /\ \A j \in 1..Len(text) : j # i => other[j] = text[j]
    BY <1>1, <1>2
  <1>4. m \in 1..Len(text) /\ i \in 1..m /\ (m = i \/ m \in 1..n) /\ m >= n
    BY <1>1
  <1> HIDE DEF other, m
  <1>5. other[m] # Codec!Pad
    BY <1>1, <1>2, <1>3, <1>4
  <1>6. \A j \in m + 1..Len(text) : other[j] = Codec!Pad
    <2>1. \A j \in m + 1..Len(text) : j \in 1..Len(text) /\ j \in n + 1..Len(text) /\ j # i
      BY <1>1, <1>4
    <2> QED BY <1>1, <1>3, <2>1
  <1>7. Codec!IsSpoilt(other)
    BY <1>3, <1>4, <1>5, <1>6 DEF Codec!IsSpoilt
  <1> QED BY <1>7 DEF other

\* The way changes a text as Carry says.
LEMMA CarryKeeps ==
  ASSUME Codec!EncodingsAssumption, Codec!EncodingsInv, Codec!Carry
  PROVE  Codec!EncodingsInv'
  <1>1. /\ changed = "nothing" /\ decoded = Codec!NotYet /\ payload \in Seq(0..255)
        /\ codec' = codec /\ decoded' = decoded /\ payload' = payload
        /\ codec[1] # "compress" => Len(carried) > 0
        /\ codec[1] \in {"hex", "base64", "compress"}
    BY DEF Codec!EncodingsInv, Codec!EncodingsTypeOK, Codec!Carry, Codec!EncodingsAssumption
  <1>2. Codec!EncodingsTypeOK'
    BY EncodingsTyped DEF Codec!EncodingsInv, Codec!EncodingsNext
  <1>3. ASSUME codec[1] = "hex" PROVE Codec!HexInv'
    <2>1. carried = Codec!EncodeHex(payload)
      BY <1>1, <1>3 DEF Codec!EncodingsInv, Codec!HexInv
    <2>2. CASE changed' = "case" /\ carried' = [i \in DOMAIN carried |-> Codec!Upper[carried[i]]]
      <3>1. Codec!HexOf(carried', payload)
        BY <1>1, <2>1, <2>2, HexIsHex
      <3> QED BY <1>1, <2>2, <3>1 DEF Codec!HexInv, Codec!HexOf, Codec!NotYet, Codec!EncodeHex
    <2>3. ASSUME NEW i \in DOMAIN carried, changed' = "character",
                 carried' = [carried EXCEPT ![i] = Codec!OtherChar]
          PROVE  Codec!HexInv'
      <3>1. Codec!OtherChar \in Codec!Range(carried')
        BY <2>3 DEF Codec!Range
      <3> QED BY <1>1, <2>3, <3>1 DEF Codec!HexInv, Codec!Range, Codec!NotYet
    <2>4. CASE changed' = "cut" /\ carried' = Codec!Front(carried)
      <3>1. carried \in Seq(Nat) /\ Len(carried) = 2 * Len(payload) /\ Len(payload) \in Nat
        BY <1>1, <2>1, HexIsHex, Nibbles DEF Codec!HexOf
      <3>2. Len(carried') = Len(carried) - 1
        <4>1. Len(carried) - 1 \in 0..Len(carried)
          BY <1>1, <1>3, <3>1
        <4> QED BY <2>4, <3>1, <4>1 DEF Codec!Front
      <3>3. Len(carried') % 2 = 1
        BY <3>1, <3>2
      <3> QED BY <1>1, <2>4, <3>3 DEF Codec!HexInv, Codec!NotYet
    <2> QED BY <1>3, <2>2, <2>3, <2>4 DEF Codec!Carry
  <1>4. ASSUME codec[1] = "base64" PROVE Codec!Base64Inv'
    <2> DEFINE all == Codec!Digits(payload)
               own == Codec!DecodeChar(TRUE, codec[2])
               any == Codec!DecodeChar(FALSE, "Standard")
               pads == IF codec[2] = "Standard" THEN (4 - (all % 4)) % 4 ELSE 0
    <2>1. payload # <<>>
      <3>1. payload = <<>> => carried = <<>>
        BY <1>4 DEF Codec!EncodingsInv, Codec!Base64Inv
      <3> QED BY <1>1, <1>4, <3>1
    <2>2. /\ codec[2] \in Codec!Variants /\ codec[2] # "invalid"
          /\ Codec!Spells(carried, payload, all, own) /\ Len(carried) = all + pads
      BY <1>1, <1>4, <2>1 DEF Codec!EncodingsInv, Codec!Base64Inv
    <2>3. all \in Nat
      <3>1. Len(payload) \in Nat
        BY <1>1, Nibbles
      <3> QED BY <3>1 DEF Codec!Digits
    <2>4. Codec!Spells(carried, payload, all, any)
      BY <2>2, SpeltInAny
    <2>5. /\ \A c \in DOMAIN own : c \in DOMAIN any
          /\ \A c \in DOMAIN any : c \in DOMAIN any
      BY Alphabets
    <2>6. CASE changed' = "padding" /\ carried' = Codec!Effective(carried)
      <3>1. Codec!Spells(carried', payload, all, own) /\ Len(carried') = all
        BY <1>1, <2>2, <2>5, <2>6, SpellingsStay
      <3> QED BY <1>1, <2>1, <2>2, <2>6, <3>1
              DEF Codec!Base64Inv, Codec!NotYet, Codec!Spells, Codec!Digits
    <2>7. CASE /\ changed' = "alphabet"
               /\ carried' = [i \in DOMAIN carried |-> Codec!Swap62[carried[i]]]
      <3>1. Codec!Spells(carried', payload, all, any) /\ Len(carried') = Len(carried)
        BY <2>4, <2>7, SwappedSpells
      <3>2. Len(carried') <= all + ((4 - (all % 4)) % 4)
        <4> HIDE DEF all
        <4> QED BY <2>2, <2>3, <3>1
      <3> QED BY <1>1, <2>1, <2>2, <2>7, <3>1, <3>2
              DEF Codec!Base64Inv, Codec!NotYet, Codec!Spells, Codec!Digits
    <2>8. ASSUME NEW i \in DOMAIN carried, changed' = "character",
                 carried' = [carried EXCEPT ![i] = Codec!Junk]
          PROVE  Codec!Base64Inv'
      <3>1. Codec!IsSpoilt(carried')
        BY <1>1, <2>2, <2>8, StrangeSpoils
      <3> QED BY <1>1, <2>1, <2>2, <2>8, <3>1 DEF Codec!Base64Inv, Codec!NotYet, Codec!IsSpoilt
    <2>9. CASE changed' = "cut" /\ carried' = Codec!Front(carried)
      <3>1. \E n \in 0..all : Codec!Spells(carried', payload, n, any)
        BY <1>1, <1>4, <2>4, <2>5, <2>9, SpellingsStay
      <3> QED BY <1>1, <2>1, <2>2, <2>9, <3>1
              DEF Codec!Base64Inv, Codec!NotYet, Codec!Spells, Codec!Digits
    <2> QED BY <1>4, <2>6, <2>7, <2>8, <2>9 DEF Codec!Carry
  <1>5. ASSUME codec[1] = "compress" PROVE Codec!StreamInv'
    <2>1. changed' = "cut" /\ carried' = [carried EXCEPT !.cut = TRUE]
      BY <1>5 DEF Codec!Carry
    <2>2. /\ codec[2] \in Codec!Methods
          /\ carried = [format |-> codec[2], of |-> payload, length |-> Codec!Packed(payload),
                        cut |-> changed = "cut"]
      BY <1>5 DEF Codec!EncodingsInv, Codec!StreamInv
    <2>3. Codec!Packed(payload)' = Codec!Packed(payload)
      BY <1>1 DEF Codec!Packed
    <2>4. carried' = [format |-> codec[2], of |-> payload, length |-> Codec!Packed(payload),
                      cut |-> TRUE]
      BY <2>1, <2>2
    <2>5. (changed' = "cut") = TRUE
      BY <2>1
    <2> QED BY <1>1, <2>1, <2>2, <2>3, <2>4, <2>5 DEF Codec!StreamInv, Codec!NotYet
  <1>6. /\ codec[1] # "hex" => Codec!HexInv' /\ codec'[1] # "none"
        /\ codec[1] # "base64" => Codec!Base64Inv' /\ codec'[1] # "none"
        /\ codec[1] # "compress" => Codec!StreamInv' /\ codec'[1] # "none"
    BY <1>1 DEF Codec!HexInv, Codec!Base64Inv, Codec!StreamInv
  <1> QED BY <1>1, <1>2, <1>3, <1>4, <1>5, <1>6 DEF Codec!EncodingsInv

\* A step of an add-on or of the way keeps it.
LEMMA TextsKept ==
  ASSUME Codec!EncodingsAssumption, Codec!EncodingsInv, Codec!EncodingsNext
  PROVE  Codec!EncodingsInv'
  BY EncodeKeeps, CarryKeeps, DecodeKeeps DEF Codec!EncodingsNext

\* And a step of another part leaves it alone.
LEMMA TextsStay ==
  ASSUME Codec!EncodingsInv, UNCHANGED codecVars
  PROVE  Codec!EncodingsInv'
  <1>1. /\ codec' = codec /\ payload' = payload /\ carried' = carried /\ changed' = changed
        /\ decoded' = decoded
    BY DEF codecVars
  <1>2. Codec!Packed(payload)' = Codec!Packed(payload)
    BY <1>1 DEF Codec!Packed
  <1>3. Codec!HexInv' /\ Codec!StreamInv'
    BY <1>1, <1>2, ZenonT(60) DEF Codec!EncodingsInv, Codec!HexInv, Codec!StreamInv, Codec!HexOf,
       Codec!EncodeHex, Codec!NotYet
  <1>4. Codec!Base64Inv'
    BY <1>1 DEF Codec!EncodingsInv, Codec!Base64Inv, Codec!Spells, Codec!Digits, Codec!IsSpoilt,
       Codec!NotYet
  <1>5. /\ Codec!EncodingsTypeOK'
        /\ codec'[1] = "none" => changed' = "nothing" /\ decoded' = Codec!NotYet
    BY <1>1 DEF Codec!EncodingsInv, Codec!EncodingsTypeOK, Codec!NotYet
  <1> QED BY <1>3, <1>4, <1>5 DEF Codec!EncodingsInv, Codec!NotYet

\* The rooms that Inflate tries exist: each number has the rooms up to it, and no number has
\* them in two ways.
LEMMA RoomsDouble ==
  ASSUME NEW first \in Nat
  PROVE  LET room == Codec!Doublings(first) IN
         /\ room \in [Nat -> Nat] /\ room[0] = first
         /\ \A k \in Nat : room[k + 1] = 2 * room[k]
  <1> DEFINE Upto(n, g) == /\ g \in [0..n -> Nat] /\ g[0] = first
                           /\ \A k \in 0..n : k # 0 => g[k] = 2 * g[k - 1]
             Lacks == {n \in Nat : ~\E g : Upto(n, g)}
             Table(n) == CHOOSE g : Upto(n, g)
             room == [n \in Nat |-> Table(n)[n]]
             Step(f, k) == IF k = 0 THEN first ELSE 2 * f[k - 1]
  <1>1. \A n \in Nat : \E g : Upto(n, g)
    <2> SUFFICES ASSUME Lacks # {} PROVE FALSE
      OBVIOUS
    <2>1. PICK n \in Lacks : \A m \in Lacks : n <= m
      <3>1. Lacks \in SUBSET Nat
        OBVIOUS
      <3> HIDE DEF Lacks
      <3> QED BY <3>1, LeastNat
    <2>2. n # 0
      <3>1. Upto(0, [i \in 0..0 |-> first])
        OBVIOUS
      <3> HIDE DEF Upto
      <3> QED BY <3>1, <2>1
    <2>3. n \in Nat /\ n - 1 \in Nat /\ n - 1 \notin Lacks
      <3>1. n \in Nat /\ n - 1 \in Nat
        BY <2>2
      <3> HIDE DEF Lacks
      <3> QED BY <2>1, <3>1
    <2>4. PICK g : Upto(n - 1, g)
      BY <2>3
    <2> DEFINE h == [i \in 0..n |-> IF i = n THEN 2 * g[n - 1] ELSE g[i]]
    <2>5. h \in [0..n -> Nat] /\ h[0] = first
      BY <2>2, <2>3, <2>4
    <2>6. ASSUME NEW k \in 0..n, k # 0 PROVE h[k] = 2 * h[k - 1]
      <3>1. k - 1 \in 0..n /\ k - 1 # n /\ h[k - 1] = g[k - 1]
        BY <2>3, <2>6
      <3>2. CASE k = n
        BY <3>1, <3>2
      <3>3. CASE k # n
        <4>1. h[k] = g[k] /\ k \in 0..n - 1
          BY <2>3, <2>6, <3>3
        <4> QED BY <2>4, <2>6, <3>1, <4>1
      <3> QED BY <3>2, <3>3
    <2>7. Upto(n, h)
      BY <2>5, <2>6
    <2> HIDE DEF Upto, h
    <2> QED BY <2>1, <2>7
  <1>2. ASSUME NEW n \in Nat, NEW g, NEW f, Upto(n, g), Upto(n + 1, f) PROVE f[n] = g[n]
    <2> DEFINE Differ == {k \in 0..n : f[k] # g[k]}
    <2> SUFFICES ASSUME Differ # {} PROVE FALSE
      OBVIOUS
    <2>1. PICK k \in Differ : \A j \in Differ : k <= j
      <3>1. Differ \in SUBSET Nat
        OBVIOUS
      <3> HIDE DEF Differ
      <3> QED BY <3>1, LeastNat
    <2>2. k # 0 /\ k \in 0..n /\ f[k] # g[k]
      BY <1>2, <2>1
    <2>3. k - 1 \in 0..n /\ k - 1 \notin Differ /\ k \in 0..n + 1
      BY <2>1, <2>2
    <2>4. f[k - 1] = g[k - 1]
      BY <2>3
    <2>5. f[k] = 2 * f[k - 1] /\ g[k] = 2 * g[k - 1]
      BY <1>2, <2>2, <2>3
    <2> QED BY <2>2, <2>4, <2>5
  <1>3. \A n \in Nat : Upto(n, Table(n))
    BY <1>1
  <1> HIDE DEF Table
  <1>4. room \in [Nat -> Nat] /\ room[0] = first
    BY <1>3
  <1>5. ASSUME NEW k \in Nat PROVE room[k + 1] = 2 * room[k]
    <2>1. Upto(k, Table(k)) /\ Upto(k + 1, Table(k + 1))
      <3> HIDE DEF Upto
      <3>1. k + 1 \in Nat
        OBVIOUS
      <3> QED BY <1>3, <3>1
    <2>2. Table(k + 1)[k] = Table(k)[k]
      <3> HIDE DEF Upto
      <3> QED BY <1>2, <2>1
    <2>3. Table(k + 1)[k + 1] = 2 * Table(k + 1)[k]
      BY <2>1
    <2> QED BY <2>2, <2>3
  <1> HIDE DEF room
  <1>6. \E f : f = [k \in Nat |-> Step(f, k)]
    <2>1. room = [k \in Nat |-> Step(room, k)]
      BY <1>4, <1>5 DEF room
    <2> QED BY <2>1
  <1> DEFINE d == Codec!Doublings(first)
  <1>7. d = [k \in Nat |-> IF k = 0 THEN first ELSE 2 * d[k - 1]]
    BY <1>6 DEF Codec!Doublings
  <1> HIDE DEF d
  <1>8. d[0] = first /\ \A k \in Nat : d[k + 1] = 2 * d[k]
    BY <1>7
  <1>9. d = room
    <2> DEFINE Differ == {k \in Nat : d[k] # room[k]}
    <2>1. ASSUME Differ # {} PROVE FALSE
      <3>1. PICK k \in Differ : \A j \in Differ : k <= j
        <4>1. Differ \in SUBSET Nat
          OBVIOUS
        <4> HIDE DEF Differ
        <4> QED BY <2>1, <4>1, LeastNat
      <3>2. k \in Nat /\ k # 0 /\ d[k] # room[k]
        BY <1>4, <1>8, <3>1
      <3>3. k - 1 \in Nat /\ k - 1 \notin Differ /\ (k - 1) + 1 = k
        <4>1. k - 1 \in Nat /\ (k - 1) + 1 = k /\ ~(k <= k - 1)
          BY <3>2
        <4> HIDE DEF Differ
        <4> QED BY <3>1, <4>1
      <3>4. d[k - 1] = room[k - 1]
        BY <3>3
      <3>5. d[k] = 2 * d[k - 1] /\ room[k] = 2 * room[k - 1]
        BY <1>5, <1>8, <3>3
      <3> QED BY <3>2, <3>4, <3>5
    <2>2. \A k \in Nat : d[k] = room[k]
      BY <2>1
    <2> HIDE DEF Differ
    <2> QED BY <1>4, <1>7, <2>2
  <1> QED BY <1>4, <1>8, <1>9 DEF d

\* No string of bytes is an answer of another kind.
LEMMA BytesArePlain ==
  ASSUME NEW bytes \in Seq(0..255)
  PROVE  bytes # Codec!Nil /\ bytes # Codec!Error
  <1>1. ASSUME NEW S, NEW s \in Seq(S), NEW b \in Int, s = <<b>> PROVE b \in S
    <2>1. Len(s) = 1 /\ s[1] = b /\ 1 \in 1..Len(s)
      BY <1>1
    <2>2. \A i \in 1..Len(s) : s[i] \in S
      OBVIOUS
    <2> QED BY <2>1, <2>2
  <1>2. -1 \notin 0..255 /\ -2 \notin 0..255
    OBVIOUS
  <1>3. ASSUME NEW b \in Int, bytes = <<b>> PROVE b \in 0..255
    BY <1>1, <1>3
  <1>4. -1 \in Int /\ -2 \in Int
    OBVIOUS
  <1>5. bytes # <<-1>> /\ bytes # <<-2>>
    BY <1>2, <1>3, <1>4
  <1> QED BY <1>5 DEF Codec!Nil, Codec!Error

\* How many digits bytes have, and how many characters of padding.
LEMMA DigitCount ==
  ASSUME NEW bytes \in Seq(0..255)
  PROVE  LET all == Codec!Digits(bytes)  pads == (4 - (all % 4)) % 4 IN
         /\ all \in Nat /\ (6 * all) \div 8 = Len(bytes) /\ all % 4 # 1
         /\ pads \in 0..2 /\ (all + pads) % 4 = 0
         /\ SubSeq(bytes, 1, (6 * all) \div 8) = bytes
  <1> DEFINE all == Codec!Digits(bytes)
             pads == (4 - (all % 4)) % 4
  <1>1. Len(bytes) \in Nat
    BY Nibbles
  <1>2. all \in Nat /\ (6 * all) \div 8 = Len(bytes) /\ all % 4 # 1
    BY <1>1, SMTT(30) DEF Codec!Digits
  <1> HIDE DEF all
  <1>3. pads \in 0..2 /\ (all + pads) % 4 = 0
    BY <1>2
  <1>4. SubSeq(bytes, 1, Len(bytes)) = bytes
    OBVIOUS
  <1>5. SubSeq(bytes, 1, (6 * all) \div 8) = bytes
    BY <1>2, <1>4
  <1> HIDE DEF pads
  <1> QED BY <1>2, <1>3, <1>5 DEF all, pads

\* The first of bytes are a prefix of them, and bytes.
LEMMA FirstBytes ==
  ASSUME NEW bytes \in Seq(0..255), NEW n \in 0..Codec!Digits(bytes)
  PROVE  LET first == SubSeq(bytes, 1, (6 * n) \div 8) IN
         first \in Seq(0..255) /\ Codec!IsPrefix(first, bytes)
  <1> DEFINE m == (6 * n) \div 8
  <1>1. Len(bytes) \in Nat
    BY Nibbles
  <1>2. m \in 0..Len(bytes)
    BY <1>1 DEF Codec!Digits
  <1> HIDE DEF m
  <1>3. ASSUME NEW S, NEW s \in Seq(S), NEW k \in 0..Len(s)
        PROVE  /\ SubSeq(s, 1, k) \in Seq(S) /\ Len(SubSeq(s, 1, k)) = k
               /\ SubSeq(SubSeq(s, 1, k), 1, k) = SubSeq(s, 1, k)
    <2>1. /\ SubSeq(s, 1, k) \in Seq(S) /\ Len(SubSeq(s, 1, k)) = k
      OBVIOUS
    <2>2. ASSUME NEW t \in Seq(S) PROVE SubSeq(t, 1, Len(t)) = t
      OBVIOUS
    <2> QED BY <2>1, <2>2
  <1>4. LET first == SubSeq(bytes, 1, m) IN
        first \in Seq(0..255) /\ Codec!IsPrefix(first, bytes)
    <2> DEFINE first == SubSeq(bytes, 1, m)
    <2>1. first \in Seq(0..255) /\ Len(first) = m /\ SubSeq(first, 1, m) = first
      BY <1>2, <1>3
    <2>2. first = SubSeq(bytes, 1, m)
      OBVIOUS
    <2> HIDE DEF first
    <2>3. Len(first) <= Len(bytes) /\ SubSeq(first, 1, Len(first)) = SubSeq(bytes, 1, Len(first))
      BY <1>1, <1>2, <2>1, <2>2
    <2>4. Codec!IsPrefix(first, bytes)
      BY <2>3 DEF Codec!IsPrefix
    <2> QED BY <2>1, <2>4 DEF first
  <1> QED BY <1>4 DEF m

\* Inflate finds room for what a stream holds, or for half the ceiling.
LEMMA RoomEnough ==
  ASSUME Codec!EncodingsAssumption, NEW length \in Nat, NEW size \in Nat,
         size <= length \/ 2 * size <= Ceiling
  PROVE  Codec!RoomFor(length, size)
  <1> DEFINE first == length * RoomFactor + RoomSlack
             room == Codec!Doublings(first)
             Enough == {k \in Nat : room[k] >= size}
             Short == {k \in Nat : room[k] < k + 1}
  <1>1. RoomFactor \in Nat /\ RoomFactor >= 1 /\ RoomSlack \in Nat /\ RoomSlack >= 1
        /\ Ceiling \in Nat
    BY DEF Codec!EncodingsAssumption
  <1>2. first \in Nat /\ first >= 1 /\ first >= length
    <2>1. length * RoomFactor \in Nat /\ length * RoomFactor >= length
      BY <1>1
    <2> QED BY <1>1, <2>1
  <1> HIDE DEF first
  <1>3. room \in [Nat -> Nat] /\ room[0] = first /\ \A k \in Nat : room[k + 1] = 2 * room[k]
    BY <1>2, RoomsDouble
  <1>4. Codec!RoomFor(length, size) =
            \E k \in 0..size : room[k] >= size /\ (k = 0 \/ room[k] <= Ceiling)
    BY DEF Codec!RoomFor, first
  <1> HIDE DEF room
  <1>5. CASE size <= length
    <2>1. 0 \in 0..size /\ room[0] >= size
      BY <1>2, <1>3, <1>5
    <2> QED BY <1>4, <2>1
  <1>6. CASE 2 * size <= Ceiling
    <2>1. ASSUME Short # {} PROVE FALSE
      <3>1. PICK k \in Short : \A j \in Short : k <= j
        <4>1. Short \in SUBSET Nat
          OBVIOUS
        <4> HIDE DEF Short
        <4> QED BY <2>1, <4>1, LeastNat
      <3>2. k \in Nat /\ room[k] < k + 1 /\ k # 0
        BY <1>2, <1>3, <3>1
      <3>3. k - 1 \in Nat /\ k - 1 \notin Short /\ (k - 1) + 1 = k
        <4>1. k - 1 \in Nat /\ (k - 1) + 1 = k /\ ~(k <= k - 1)
          BY <3>2
        <4> HIDE DEF Short
        <4> QED BY <3>1, <4>1
      <3>4. room[k - 1] >= k /\ room[k] = 2 * room[k - 1] /\ room[k - 1] \in Nat
        <4>1. room[k] = 2 * room[k - 1]
          BY <1>3, <3>3
        <4>2. room[k - 1] \in Nat /\ ~(room[k - 1] < k)
          BY <1>3, <3>3
        <4> QED BY <3>2, <4>1, <4>2
      <3> QED BY <3>2, <3>4
    <2>2. size \in Enough
      <3>1. size \notin Short /\ room[size] \in Nat
        BY <1>3, <2>1
      <3> QED BY <3>1
    <2>3. PICK k \in Enough : \A j \in Enough : k <= j
      <3>1. Enough \in SUBSET Nat /\ Enough # {}
        BY <2>2
      <3> HIDE DEF Enough
      <3> QED BY <3>1, LeastNat
    <2>4. k \in 0..size /\ room[k] >= size
      BY <2>2, <2>3
    <2>5. ASSUME k # 0 PROVE room[k] <= Ceiling
      <3>1. k - 1 \in Nat /\ k - 1 \notin Enough /\ (k - 1) + 1 = k
        <4>1. k - 1 \in Nat /\ (k - 1) + 1 = k /\ ~(k <= k - 1)
          BY <2>4, <2>5
        <4> HIDE DEF Enough
        <4> QED BY <2>3, <4>1
      <3>2. room[k] = 2 * room[k - 1] /\ room[k - 1] \in Nat /\ ~(room[k - 1] >= size)
        <4>1. room[k] = 2 * room[k - 1]
          BY <1>3, <3>1
        <4> QED BY <1>3, <3>1, <4>1
      <3> QED BY <1>1, <1>6, <3>2
    <2> QED BY <1>4, <2>4, <2>5
  <1> QED BY <1>5, <1>6

\* The payload comes back wherever Takes says so, and nothing comes in its place.
LEMMA BytesComeBack ==
  ASSUME Codec!EncodingsAssumption, Codec!EncodingsInv
  PROVE  Codec!BytesReturn
  <1> DEFINE w == decoded.asked
  <1> SUFFICES ASSUME decoded # Codec!NotYet
               PROVE  /\ Codec!Takes => decoded.answer = payload
                      /\ decoded.answer \notin {Codec!Nil, Codec!Error, payload} =>
                            changed = "cut" /\ Codec!IsPrefix(decoded.answer, payload)
                      /\ decoded.answer = Codec!Error => w = "invalid"
    BY DEF Codec!BytesReturn
  <1>1. /\ payload \in Seq(0..255) /\ codec[1] \in {"hex", "base64", "compress"}
        /\ changed \in {"nothing", "padding", "alphabet", "case", "character", "cut"}
        /\ codec[1] = "hex" =>
            /\ changed = "nothing" => carried = Codec!EncodeHex(payload)
            /\ changed = "case" => Codec!HexOf(carried, payload)
            /\ changed = "character" => Codec!OtherChar \in Codec!Range(carried)
            /\ changed = "cut" => Len(carried) % 2 = 1
            /\ changed \notin {"padding", "alphabet"}
            /\ decoded = [asked |-> "", answer |-> Codec!DecodeHex(carried)]
    BY DEF Codec!EncodingsInv, Codec!EncodingsTypeOK, Codec!EncodingsAssumption, Codec!HexInv
  <1>2. payload # Codec!Nil /\ payload # Codec!Error /\ Codec!Nil # Codec!Error
    <2>1. payload # Codec!Nil /\ payload # Codec!Error
      BY <1>1, BytesArePlain
    <2>2. Codec!Nil # Codec!Error
      BY DEF Codec!Nil, Codec!Error
    <2> QED BY <2>1, <2>2
  <1>3. CASE codec[1] = "hex"
    <2>1. decoded.answer = Codec!DecodeHex(carried)
      <3>1. decoded = [asked |-> "", answer |-> Codec!DecodeHex(carried)]
        BY <1>1, <1>3
      <3> QED BY <3>1
    <2>2. CASE changed \in {"nothing", "case"}
      <3>1. Codec!HexOf(carried, payload)
        BY <1>1, <1>3, <2>2, HexIsHex
      <3>2. decoded.answer = payload
        BY <1>1, <2>1, <3>1, HexReturns
      <3> QED BY <1>2, <3>2
    <2>3. CASE changed \in {"character", "cut"}
      <3>1. decoded.answer = Codec!Nil
        BY <1>1, <1>3, <2>1, <2>3 DEF Codec!DecodeHex
      <3>2. ~Codec!Takes
        BY <1>3, <2>3 DEF Codec!Takes
      <3> QED BY <1>2, <3>1, <3>2
    <2> QED BY <1>1, <1>3, <2>2, <2>3
  <1>4. CASE codec[1] = "compress"
    <2>1. /\ codec[2] \in Codec!Methods
          /\ carried = [format |-> codec[2], of |-> payload, length |-> Codec!Packed(payload),
                        cut |-> changed = "cut"]
          /\ w \in Codec!Methods \union {"none", "invalid"}
          /\ decoded.answer = Codec!DecompressString(carried, w)
      BY <1>4 DEF Codec!EncodingsInv, Codec!StreamInv
    <2>2. /\ carried.format = codec[2] /\ carried.of = payload
          /\ carried.length = Codec!Packed(payload) /\ carried.cut = (changed = "cut")
      BY <2>1
    <2>3. /\ w = "invalid" => decoded.answer = Codec!Error
          /\ w # "invalid" => decoded.answer \in {Codec!Nil, payload}
      BY <2>1, <2>2 DEF Codec!DecompressString
    <2>4. ASSUME Codec!Takes PROVE decoded.answer = payload
      <3>1. /\ changed = "nothing" /\ w # "invalid" /\ codec[2] \in Codec!WindowBitsFor(w)
            /\ Codec!Packed(payload) = 1 => 2 * Len(payload) <= Ceiling
        BY <1>4, <2>1, <2>4 DEF Codec!Takes, Codec!Methods, Codec!WindowBitsFor
      <3>2. Codec!RoomFor(Codec!Packed(payload), Len(payload))
        <4>1. Codec!Packed(payload) = 1 \/ Codec!Packed(payload) = Len(payload) + 1
          BY DEF Codec!Packed
        <4>2. Len(payload) \in Nat
          BY <1>1, Nibbles
        <4>3. Codec!Packed(payload) \in Nat
              /\ (Len(payload) <= Codec!Packed(payload) \/ 2 * Len(payload) <= Ceiling)
          BY <3>1, <4>1, <4>2
        <4> QED BY <4>2, <4>3, RoomEnough
      <3>3. ~carried.cut
        BY <2>2, <3>1
      <3> QED BY <2>1, <2>2, <3>1, <3>2, <3>3 DEF Codec!DecompressString
    <2> QED BY <1>2, <2>1, <2>3, <2>4
  <1>5. CASE codec[1] = "base64" /\ payload = <<>>
    <2>1. carried = <<>> /\ decoded.answer = Codec!DecodeBase64(carried, w)
      BY <1>5 DEF Codec!EncodingsInv, Codec!Base64Inv
    <2>2. decoded.answer = payload
      BY <1>5, <2>1 DEF Codec!DecodeBase64
    <2> QED BY <1>2, <2>2
  <1>6. CASE codec[1] = "base64" /\ payload # <<>>
    <2> DEFINE own == Codec!DecodeChar(TRUE, codec[2])
               any == Codec!DecodeChar(FALSE, "Standard")
               all == Codec!Digits(payload)
               pads == (4 - (all % 4)) % 4
    <2>1. /\ codec[2] \in {"Standard", "UrlSafe"}
          /\ changed = "nothing" =>
               /\ Codec!Spells(carried, payload, all, own)
               /\ Len(carried) = all + IF codec[2] = "Standard" THEN pads ELSE 0
          /\ changed = "padding" => Codec!Spells(carried, payload, all, own) /\ Len(carried) = all
          /\ changed = "alphabet" =>
               Codec!Spells(carried, payload, all, any) /\ Len(carried) <= all + pads
          /\ changed = "cut" => \E n \in 0..all : Codec!Spells(carried, payload, n, any)
          /\ changed = "character" => Codec!IsSpoilt(carried)
          /\ changed # "case"
          /\ w \in Codec!Variants \union {"none"}
          /\ decoded.answer = Codec!DecodeBase64(carried, w)
      BY <1>6 DEF Codec!EncodingsInv, Codec!Base64Inv, Codec!Variants
    <2>2. /\ all \in Nat /\ all % 4 # 1 /\ pads \in 0..2 /\ (all + pads) % 4 = 0
          /\ SubSeq(payload, 1, (6 * all) \div 8) = payload
      BY <1>1, DigitCount
    <2>3. all >= 1
      <3>1. Len(payload) \in Nat /\ Len(payload) # 0
        BY <1>1, <1>6
      <3> QED BY <3>1 DEF Codec!Digits
    <2> HIDE DEF own, any, all, pads
    <2>4. CASE changed \in {"nothing", "padding", "alphabet"}
      <3>1. Codec!Spells(carried, payload, all, any)
        BY <2>1, <2>4, SpeltInAny DEF own, any
      <3>2. /\ carried \in Seq(Nat) /\ all <= Len(carried) /\ Len(carried) \in Nat
            /\ \A i \in 1..all : carried[i] \in DOMAIN any
        BY <3>1 DEF Codec!Spells
      <3>3. carried # <<>>
        BY <2>2, <2>3, <3>2
      <3>4. /\ w = "invalid" => decoded.answer = Codec!Error
            /\ w # "invalid" => decoded.answer \in {Codec!Nil, payload}
        <4>1. LET first == SubSeq(payload, 1, (6 * all) \div 8) IN
              /\ w = "invalid" => Codec!DecodeBase64(carried, w) = Codec!Error
              /\ w # "invalid" => \/ Codec!DecodeBase64(carried, w) = Codec!Nil
                                 \/ Codec!DecodeBase64(carried, w) = first
          <5>1. Codec!Spells(carried, payload, all, Codec!DecodeChar(FALSE, "Standard"))
            BY <3>1 DEF any
          <5>2. payload \in Seq(0..255) /\ w \in Codec!Variants \union {"none"}
            BY <1>1, <2>1
          <5> HIDE DEF w
          <5> QED BY <3>3, <5>1, <5>2, Decoded, ZenonT(60)
        <4> QED BY <2>1, <2>2, <4>1
      <3>5. ASSUME Codec!Takes PROVE decoded.answer = payload
        <4>1. \/ changed = "nothing" /\ w \in {codec[2], "none"}
              \/ changed \in {"padding", "alphabet"} /\ w = "none"
              \/ changed = "padding" /\ w = codec[2] /\ w = "UrlSafe"
          BY <1>6, <3>5 DEF Codec!Takes
        <4> DEFINE given == IF w = "none" THEN Codec!DecodeChar(FALSE, "Standard")
                            ELSE Codec!DecodeChar(TRUE, w)
        <4>3. \A i \in 1..all : carried[i] \in DOMAIN given
          <5>1. CASE w = "none"
            <6>1. given = any
              BY <5>1 DEF any
            <6> HIDE DEF given
            <6> QED BY <3>2, <6>1
          <5>2. CASE w # "none"
            <6>1. given = own /\ changed \in {"nothing", "padding"}
              BY <4>1, <5>2 DEF own
            <6>2. Codec!Spells(carried, payload, all, own)
              BY <2>1, <6>1
            <6> HIDE DEF given
            <6> QED BY <6>1, <6>2 DEF Codec!Spells
          <5> QED BY <5>1, <5>2
        <4>4. w # "invalid" /\ Len(carried) - all <= 2
              /\ (w = "Standard" => Len(carried) % 4 = 0)
          <5>1. w # "invalid" /\ (w = "Standard" => changed = "nothing" /\ codec[2] = "Standard")
            BY <2>1, <4>1
          <5> QED BY <2>1, <2>2, <2>4, <3>2, <5>1, SMTT(60)
        <4>5. Codec!DecodeBase64(carried, w) = SubSeq(payload, 1, (6 * all) \div 8)
          <5>1. Codec!Spells(carried, payload, all, Codec!DecodeChar(FALSE, "Standard"))
            BY <3>1 DEF any
          <5>2. payload \in Seq(0..255) /\ w \in Codec!Variants \union {"none"}
            BY <1>1, <2>1
          <5>3. all % 4 # 1
            BY <2>2
          <5> HIDE DEF w
          <5> QED BY <3>3, <4>3, <4>4, <5>1, <5>2, <5>3, Decoded, ZenonT(60)
        <4> QED BY <2>1, <2>2, <4>5
      <3> QED BY <1>2, <2>1, <3>4, <3>5
    <2>5. CASE changed = "cut"
      <3>1. PICK n \in 0..all : Codec!Spells(carried, payload, n, any)
        BY <2>1, <2>5
      <3>2. ~Codec!Takes
        BY <1>6, <2>5 DEF Codec!Takes
      <3>3. CASE carried = <<>>
        <4>1. decoded.answer = <<>>
          BY <2>1, <3>3 DEF Codec!DecodeBase64
        <4>2. <<>> # Codec!Error
          BY DEF Codec!Error
        <4>3. Codec!IsPrefix(<<>>, payload)
          <5>1. \A S : \A s \in Seq(S) : Len(s) \in Nat /\ SubSeq(s, 1, 0) = <<>>
            OBVIOUS
          <5>2. Len(payload) \in Nat /\ SubSeq(payload, 1, 0) = <<>>
            BY <1>1, <5>1
          <5>3. Len(<<>>) = 0 /\ SubSeq(<<>>, 1, 0) = <<>>
            OBVIOUS
          <5> QED BY <5>2, <5>3 DEF Codec!IsPrefix
        <4> QED BY <2>5, <3>2, <4>1, <4>2, <4>3
      <3>4. CASE carried # <<>>
        <4> DEFINE first == SubSeq(payload, 1, (6 * n) \div 8)
        <4>1. /\ w = "invalid" => decoded.answer = Codec!Error
              /\ w # "invalid" => decoded.answer \in {Codec!Nil, first}
          <5>1. /\ w = "invalid" => Codec!DecodeBase64(carried, w) = Codec!Error
                /\ w # "invalid" => \/ Codec!DecodeBase64(carried, w) = Codec!Nil
                                   \/ Codec!DecodeBase64(carried, w) = first
            <6>1. Codec!Spells(carried, payload, n, Codec!DecodeChar(FALSE, "Standard"))
              BY <3>1 DEF any
            <6>2. payload \in Seq(0..255) /\ w \in Codec!Variants \union {"none"}
              BY <1>1, <2>1
            <6> HIDE DEF w
            <6> QED BY <3>4, <6>1, <6>2, Decoded, ZenonT(60) DEF first
          <5> QED BY <2>1, <5>1
        <4>2. first \in Seq(0..255) /\ Codec!IsPrefix(first, payload)
          BY <1>1, <3>1, FirstBytes DEF all
        <4> HIDE DEF first
        <4>3. first # Codec!Error
          BY <4>2, BytesArePlain
        <4> QED BY <1>2, <2>1, <2>5, <3>2, <4>1, <4>2, <4>3
      <3> QED BY <3>3, <3>4
    <2>6. CASE changed = "character"
      <3>1. decoded.answer = IF w = "invalid" THEN Codec!Error ELSE Codec!Nil
        BY <2>1, <2>6, SpoiltRefused
      <3>2. ~Codec!Takes
        BY <1>6, <2>6 DEF Codec!Takes
      <3> QED BY <1>2, <3>1, <3>2
    <2> QED BY <1>1, <2>1, <2>4, <2>5, <2>6
  <1> QED BY <1>1, <1>3, <1>4, <1>5, <1>6

-----------------------------------------------------------------------------
(* What is in place in a TOC after the hook (TocFiles).                    *)

CONSTANTS
    Lines, Paths, Locales, CLIENT_INTERFACE_VERSION, MaxLines

VARIABLES
    disk, locale, source, read

Toc      == INSTANCE TocFiles

tocVars == <<disk, locale, source, read>>

\* Each line of a TOC rebuilt is the line of its number, and has its own kind.
LEMMA LineRebuilt ==
  ASSUME NEW line
  PROVE  LET new == Toc!RebuildLine(line) IN
         /\ line[1] = "interface" => new = Toc!TryRewriteInterfaceLine(line)
         /\ line[1] = "flag" => new = line
         /\ line[1] # "interface" => new[1] # "interface"
         /\ line[1] # "flag" => new[1] # "flag"
  BY DEF Toc!RebuildLine, Toc!TryRewriteInterfaceLine

\* A list of versions as the engine reads it is current if it has the client's version.
LEMMA InterfaceRewritten ==
  ASSUME Toc!TocAssumption, NEW line, line[1] = "interface", Toc!IsNumbered(line)
  PROVE  LET new == Toc!TryRewriteInterfaceLine(line) IN
         /\ new[1] = "interface" /\ Toc!IsNumbered(new)
         /\ new[2][1] = CLIENT_INTERFACE_VERSION
                <=> CLIENT_INTERFACE_VERSION \in Toc!Range(line[2])
         /\ new # line => CLIENT_INTERFACE_VERSION \in Toc!Range(line[2])
  <1> DEFINE numbers == line[2]
             new == Toc!TryRewriteInterfaceLine(line)
  <1>1. CLIENT_INTERFACE_VERSION \in Nat /\ numbers \in Seq(Nat) /\ Len(numbers) > 0
    BY DEF Toc!TocAssumption, Toc!IsNumbered
  <1>2. /\ DOMAIN numbers = 1..Len(numbers) /\ Len(numbers) \in Nat
        /\ 1 \in DOMAIN numbers /\ numbers[1] \in Toc!Range(numbers)
    BY <1>1 DEF Toc!Range
  <1>3. Len(numbers) = 1 => Toc!Range(numbers) = {numbers[1]}
    BY <1>2 DEF Toc!Range
  <1>4. CASE Toc!HidesClientVersion(numbers)
    <2>1. new = <<"interface", <<CLIENT_INTERFACE_VERSION>>>>
      BY <1>4 DEF Toc!TryRewriteInterfaceLine
    <2>2. CLIENT_INTERFACE_VERSION \in Toc!Range(numbers)
      BY <1>4 DEF Toc!HidesClientVersion
    <2>3. /\ new[1] = "interface" /\ new[2] = <<CLIENT_INTERFACE_VERSION>>
      BY <2>1
    <2>4. new[2] \in Seq(Nat) /\ Len(new[2]) = 1 /\ new[2][1] = CLIENT_INTERFACE_VERSION
      BY <1>1, <2>3
    <2> QED BY <2>2, <2>3, <2>4 DEF Toc!IsNumbered
  <1>5. CASE ~Toc!HidesClientVersion(numbers)
    <2>1. new = line
      BY <1>5 DEF Toc!TryRewriteInterfaceLine
    <2>2. numbers[1] = CLIENT_INTERFACE_VERSION
            <=> CLIENT_INTERFACE_VERSION \in Toc!Range(numbers)
      <3> HIDE DEF numbers
      <3>1. Len(numbers) = 1 \/ Len(numbers) > 1
        BY <1>1, <1>2
      <3> QED BY <1>2, <1>3, <1>5, <3>1 DEF Toc!HidesClientVersion
    <2> QED BY <2>1, <2>2
  <1> QED BY <1>4, <1>5

\* What the hook leaves is a text like the one that it was given, whose reader finds versions
\* and flags where they were.
LEMMA TextRebuilt ==
  ASSUME Toc!TocAssumption, NEW path \in DOMAIN Paths, NEW toc, Toc!IsText(toc), NEW new,
         new = Toc!Transform(path, toc)
  PROVE  /\ Toc!IsText(new)
         /\ IF ~Paths[path] THEN new = toc
            ELSE /\ Len(new) = Len(toc)
                 /\ \A i \in DOMAIN toc : toc[i][1] = "interface" =>
                        /\ new[i][1] = "interface"
                        /\ (new[i][2][1] = CLIENT_INTERFACE_VERSION) =
                           (CLIENT_INTERFACE_VERSION \in Toc!Range(toc[i][2]))
                        /\ new[i] # toc[i] => CLIENT_INTERFACE_VERSION \in Toc!Range(toc[i][2])
                 /\ \A i \in DOMAIN toc :
                        toc[i][1] = "flag"
                            => Toc!FlagIn(new, toc[i][2]) = Toc!FlagIn(toc, toc[i][2])
  <1>1. CASE ~Paths[path]
    BY <1>1 DEF Toc!Transform
  <1>2. CASE Paths[path]
    <2>1. DOMAIN new = DOMAIN toc /\ \A i \in DOMAIN toc : new[i] = Toc!RebuildLine(toc[i])
      BY <1>2 DEF Toc!Transform, Toc!RebuildToc
    <2>2. Len(new) = Len(toc)
      <3>1. PICK n \in 0..MaxLines : DOMAIN toc = 1..n
        BY DEF Toc!IsText
      <3>2. n \in Nat /\ \A t : DOMAIN t = 1..n => Len(t) = n
        BY <3>1 DEF Toc!TocAssumption
      <3> QED BY <2>1, <3>1, <3>2
    <2>3. ASSUME NEW i \in DOMAIN toc, toc[i][1] = "interface"
          PROVE  /\ new[i][1] = "interface" /\ Toc!IsNumbered(new[i])
                 /\ (new[i][2][1] = CLIENT_INTERFACE_VERSION) =
                    (CLIENT_INTERFACE_VERSION \in Toc!Range(toc[i][2]))
                 /\ new[i] # toc[i] => CLIENT_INTERFACE_VERSION \in Toc!Range(toc[i][2])
      <3>1. Toc!IsNumbered(toc[i]) /\ new[i] = Toc!TryRewriteInterfaceLine(toc[i])
        BY <2>1, <2>3, LineRebuilt DEF Toc!IsText
      <3> QED BY <2>3, <3>1, InterfaceRewritten
    <2>4. ASSUME NEW key PROVE Toc!FlagIn(new, key) = Toc!FlagIn(toc, key)
      <3> DEFINE With(t) == {i \in DOMAIN t : t[i][1] = "flag" /\ t[i][2] = key}
      <3>1. ASSUME NEW i \in DOMAIN toc
            PROVE  /\ toc[i][1] = "flag" => new[i] = toc[i]
                   /\ toc[i][1] # "flag" => new[i][1] # "flag"
        BY <2>1, LineRebuilt
      <3>2. With(new) = With(toc) /\ \A i \in With(toc) : new[i] = toc[i]
        BY <2>1, <3>1
      <3>3. \A t : Toc!FlagIn(t, key) = \E i \in With(t) : t[i][3] # 0 /\ \A j \in With(t) : i <= j
        BY DEF Toc!FlagIn
      <3> HIDE DEF With
      <3> QED BY <3>2, <3>3
    <2>5. ASSUME NEW i \in DOMAIN toc PROVE Toc!IsNumbered(new[i])
      <3>1. CASE toc[i][1] = "interface"
        BY <2>3, <3>1
      <3>2. CASE toc[i][1] # "interface"
        BY <2>1, <3>2, LineRebuilt DEF Toc!IsNumbered
      <3> QED BY <3>1, <3>2
    <2>6. Toc!IsText(new)
      BY <2>1, <2>5 DEF Toc!IsText
    <2> QED BY <1>2, <2>2, <2>3, <2>4, <2>6
  <1> QED BY <1>1, <1>2

\* A TOC read has the lines that it had on the disk.
LEMMA LinesKept ==
  ASSUME Toc!TocAssumption
  PROVE  /\ Toc!TocInit => Toc!LinesInv
         /\ Toc!LinesInv /\ Toc!TocNext => Toc!LinesInv'
         /\ Toc!LinesInv => Toc!TocTypeOK
  <1>1. MaxLines \in Nat /\ \A line \in Lines : Toc!IsNumbered(line)
    BY DEF Toc!TocAssumption
  <1>2. Toc!TocInit => Toc!LinesInv
    <2> SUFFICES ASSUME Toc!TocInit PROVE Toc!LinesInv
      OBVIOUS
    <2>1. /\ disk \in UNION {[1..m -> Lines] : m \in 0..MaxLines} /\ locale \in Locales
          /\ read = <<>> /\ source = <<"none">>
      BY DEF Toc!TocInit, Toc!BoundedSeq, Toc!SeqOf
    <2>2. PICK m \in 0..MaxLines : disk \in [1..m -> Lines]
      BY <2>1
    <2>3. DOMAIN read = 1..0 /\ 0 \in 0..MaxLines /\ \A i \in 1..0 : FALSE
      BY <1>1, <2>1
    <2>4. Toc!IsText(disk)
      BY <1>1, <2>2 DEF Toc!IsText
    <2>5. Toc!IsText(read)
      BY <2>3 DEF Toc!IsText
    <2> QED BY <2>1, <2>4, <2>5 DEF Toc!LinesInv, Toc!LinesInPlace
  <1>3. Toc!LinesInv /\ Toc!TocNext => Toc!LinesInv'
    <2> SUFFICES ASSUME Toc!LinesInv, Toc!TocNext PROVE Toc!LinesInv'
      OBVIOUS
    <2>1. PICK path \in DOMAIN Paths, text \in {disk, read} :
            /\ read' = Toc!Transform(path, text) /\ source' = <<path, text>>
            /\ UNCHANGED <<disk, locale>>
      BY DEF Toc!TocNext, Toc!FileRead
    <2>2. Toc!IsText(text) /\ Toc!IsText(disk) /\ locale \in Locales
      BY <2>1 DEF Toc!LinesInv
    <2>3. source'[1] = path /\ source'[2] = text
      BY <2>1
    <2>4. Toc!LinesInPlace'
      BY <2>1, <2>2, <2>3, TextRebuilt, SMTT(60) DEF Toc!LinesInPlace, Toc!FlagIn
    <2>5. Toc!IsText(read')
      BY <2>1, <2>2, TextRebuilt
    <2> QED BY <2>1, <2>2, <2>4, <2>5 DEF Toc!LinesInv, Toc!IsText
  <1>4. Toc!LinesInv => Toc!TocTypeOK
    <2>1. \A t : (\E n \in 0..MaxLines : DOMAIN t = 1..n) => Len(t) <= MaxLines
      BY <1>1
    <2> QED BY <2>1 DEF Toc!LinesInv, Toc!TocTypeOK, Toc!IsText
  <1> QED BY <1>2, <1>3, <1>4

-----------------------------------------------------------------------------
(* Items asked for, sent and moved (Inventory).                            *)

CONSTANTS
    EquipmentSlots, BagSlot, Ranges, SlotCounts, BagSizes, MaxStacks, StartingItems, Named,
    MaxUnderWay

VARIABLES
    slotCount, bagSize, held, shown, requests, updates, moved

Bags     == INSTANCE Inventory

invVars == <<slotCount, bagSize, held, shown, requests, updates, moved>>

\* Its sets are counted as ours are.
LEMMA PlacesCounted ==
  ASSUME NEW S
  PROVE  Bags!Cardinality(S) = Cardinality(S) /\ (Bags!IsFiniteSet(S) <=> IsFiniteSet(S))
  BY DEF Bags!Cardinality, Cardinality, Bags!IsFiniteSet, IsFiniteSet

\* What a bag and slot encode to is a place of the player or of bag 1, within the range that
\* was asked for, and holds the item that the bag and slot name.
LEMMA Placed ==
  ASSUME Bags!InventoryAssumption, slotCount \in Nat, bagSize \in Nat,
         NEW f \in Named, NEW p \in Bags!Encode(f[1], f[2])
  PROVE  /\ p \in Bags!AllPlaces /\ f[2] >= 1 /\ f[1] \in Int /\ f[2] \in Int
         /\ \/ /\ f[1] \in DOMAIN Ranges /\ p = Bags!Player(Ranges[f[1]].first - 1 + f[2])
               /\ Ranges[f[1]].first - 1 + f[2] <= Ranges[f[1]].last
            \/ f[1] = 1 /\ f[1] \notin DOMAIN Ranges /\ p = Bags!Bag(f[2] - 1)
         /\ Bags!ItemAt(p) = Bags!ResolveBagSlot(f[1], f[2])
  <1> DEFINE l == Ranges[f[1]].first - 1 + f[2]
  <1>1. f[1] \in Int /\ f[2] \in Int /\ BagSlot \in Nat
    BY DEF Bags!InventoryAssumption
  <1>2. f[2] >= 1
    BY <1>1 DEF Bags!Encode
  <1>3. CASE f[1] \in DOMAIN Ranges
    <2>1. p = Bags!Player(l) /\ ~(l > Ranges[f[1]].last) /\ ~(l >= slotCount)
      BY <1>2, <1>3 DEF Bags!Encode
    <2>2. Ranges[f[1]].first \in Int /\ Ranges[f[1]].last \in Int /\ BagSlot < Ranges[f[1]].first
      BY <1>3 DEF Bags!InventoryAssumption
    <2>3. l \in 0..slotCount - 1 /\ l <= Ranges[f[1]].last /\ Ranges[f[1]].first + f[2] - 1 = l
      BY <1>1, <1>2, <2>1, <2>2
    <2>4. p \in Bags!AllPlaces
      BY <2>1, <2>3 DEF Bags!AllPlaces
    <2>5. Bags!ItemAt(p) = Bags!ResolveBagSlot(f[1], f[2])
      <3>1. ~(f[2] < 1) /\ ~(l > Ranges[f[1]].last)
        BY <1>1, <1>2, <2>1
      <3>2. Bags!ResolveBagSlot(f[1], f[2]) = Bags!ItemAt(Bags!Player(l))
        BY <1>3, <2>3, <3>1 DEF Bags!ResolveBagSlot
      <3> QED BY <2>1, <3>2
    <2> QED BY <1>1, <1>2, <1>3, <2>1, <2>3, <2>4, <2>5
  <1>4. CASE f[1] \notin DOMAIN Ranges
    <2>1. p = Bags!Bag(f[2] - 1) /\ Bags!ResolveEquippedBag(f[1]) # {}
          /\ ~(f[2] > Bags!GetBagNumSlots(f[1]))
      BY <1>2, <1>4 DEF Bags!Encode
    <2>2. f[1] = 1 /\ Bags!GetBagNumSlots(f[1]) = bagSize
      BY <1>4, <2>1 DEF Bags!ResolveEquippedBag, Bags!GetBagNumSlots
    <2>3. f[2] - 1 \in 0..bagSize - 1
      BY <1>1, <1>2, <2>1, <2>2
    <2>4. p \in Bags!AllPlaces
      BY <2>1, <2>3 DEF Bags!AllPlaces
    <2>5. Bags!ItemAt(p) = Bags!ResolveBagSlot(f[1], f[2])
      <3>1. ~(f[2] < 1)
        BY <1>1, <1>2
      <3> QED BY <1>4, <2>1, <3>1 DEF Bags!ResolveBagSlot
    <2> QED BY <1>1, <1>2, <1>4, <2>1, <2>2, <2>4, <2>5
  <1> QED BY <1>3, <1>4

\* No two pairs of bag and slot encode to one place: the ranges of the one array are apart.
LEMMA Apart ==
  ASSUME Bags!InventoryAssumption, slotCount \in Nat, bagSize \in Nat,
         NEW f \in Named, NEW g \in Named, NEW p \in Bags!Encode(f[1], f[2]),
         p \in Bags!Encode(g[1], g[2])
  PROVE  f = g
  <1>1. f = <<f[1], f[2]>> /\ g = <<g[1], g[2]>>
    BY DEF Bags!InventoryAssumption
  <1>2. f[2] >= 1 /\ g[2] >= 1 /\ {f[1], f[2], g[1], g[2]} \subseteq Int
    BY Placed
  <1> DEFINE l == Ranges[f[1]].first - 1 + f[2]
             m == Ranges[g[1]].first - 1 + g[2]
  <1>3. \/ f[1] \in DOMAIN Ranges /\ p = Bags!Player(l) /\ l <= Ranges[f[1]].last
        \/ f[1] = 1 /\ p = Bags!Bag(f[2] - 1)
    BY Placed
  <1>4. \/ g[1] \in DOMAIN Ranges /\ p = Bags!Player(m) /\ m <= Ranges[g[1]].last
        \/ g[1] = 1 /\ p = Bags!Bag(g[2] - 1)
    BY Placed
  <1>5. CASE p[1] = "bag"
    <2>1. f[1] = 1 /\ g[1] = 1 /\ f[2] - 1 = g[2] - 1
      BY <1>3, <1>4, <1>5 DEF Bags!Player, Bags!Bag
    <2> QED BY <1>1, <1>2, <2>1
  <1>6. CASE p[1] # "bag"
    <2>1. /\ f[1] \in DOMAIN Ranges /\ l <= Ranges[f[1]].last
          /\ g[1] \in DOMAIN Ranges /\ m <= Ranges[g[1]].last
          /\ l = m
      BY <1>3, <1>4, <1>6 DEF Bags!Player, Bags!Bag
    <2>2. /\ {Ranges[f[1]].first, Ranges[f[1]].last, Ranges[g[1]].first, Ranges[g[1]].last}
             \subseteq Int
          /\ f[1] # g[1] => Ranges[f[1]].last < Ranges[g[1]].first
             \/ Ranges[g[1]].last < Ranges[f[1]].first
      BY <2>1 DEF Bags!InventoryAssumption
    <2>3. f[1] = g[1]
      BY <1>2, <2>1, <2>2
    <2>4. f[2] = g[2]
      BY <1>2, <2>1, <2>2, <2>3
    <2> QED BY <1>1, <2>3, <2>4
  <1> QED BY <1>5, <1>6

\* The part of MovesAreTrue that is about the places named holds in any state.
LEMMA PlacesAreRight ==
  ASSUME Bags!InventoryAssumption, slotCount \in Nat, bagSize \in Nat
  PROVE  \A f \in Named : \A p \in Bags!Encode(f[1], f[2]) :
            /\ p \in Bags!AllPlaces /\ (p[1] = "player" => p[2] > BagSlot)
            /\ \A t \in Named \ {f} : p \notin Bags!Encode(t[1], t[2])
            /\ Bags!ItemAt(p) = Bags!ResolveBagSlot(f[1], f[2])
  <1> SUFFICES ASSUME NEW f \in Named, NEW p \in Bags!Encode(f[1], f[2])
               PROVE  /\ p \in Bags!AllPlaces /\ (p[1] = "player" => p[2] > BagSlot)
                      /\ \A t \in Named \ {f} : p \notin Bags!Encode(t[1], t[2])
                      /\ Bags!ItemAt(p) = Bags!ResolveBagSlot(f[1], f[2])
    OBVIOUS
  <1>1. p \in Bags!AllPlaces /\ Bags!ItemAt(p) = Bags!ResolveBagSlot(f[1], f[2])
    BY Placed
  <1>2. \A t \in Named \ {f} : p \notin Bags!Encode(t[1], t[2])
    BY Apart
  <1>3. ASSUME p[1] = "player" PROVE p[2] > BagSlot
    <2>1. f[1] \in DOMAIN Ranges /\ p = Bags!Player(Ranges[f[1]].first - 1 + f[2]) /\ f[2] >= 1
          /\ f[2] \in Int
      BY <1>3, Placed DEF Bags!Bag
    <2>2. Ranges[f[1]].first \in Int /\ BagSlot \in Nat /\ BagSlot < Ranges[f[1]].first
      BY <2>1 DEF Bags!InventoryAssumption
    <2> QED BY <2>1, <2>2 DEF Bags!Player
  <1> QED BY <1>1, <1>2, <1>3

\* What a call sends is between two places, as many as it asked for or the whole stack.
LEMMA Sent ==
  ASSUME Bags!InventoryAssumption, slotCount \in Nat, bagSize \in Nat,
         NEW f \in Named, NEW t \in Named, NEW n \in Nat,
         NEW r, \/ n = 0 /\ r \in Bags!Containers(f[1], f[2], t[1], t[2])
                \/ r \in Bags!MoveCount(f[1], f[2], t[1], t[2], n)
  PROVE  /\ r.from \in Bags!AllPlaces /\ r.to \in Bags!AllPlaces /\ r.from # r.to
         /\ r.count \in Nat
         /\ n # 0 => r.count = (IF n = shown[r.from].count THEN 0 ELSE n)
            /\ n <= shown[r.from].count
  <1>1. ASSUME NEW q \in Bags!Prepare(f[1], f[2], t[1], t[2])
        PROVE  q.from \in Bags!AllPlaces /\ q.to \in Bags!AllPlaces /\ q.from # q.to
    <2>1. <<f[1], f[2]>> # <<t[1], t[2]>> /\ q.from \in Bags!Encode(f[1], f[2])
          /\ q.to \in Bags!Encode(t[1], t[2])
      <3>1. <<f[1], f[2]>> # <<t[1], t[2]>>
        BY <1>1 DEF Bags!Prepare
      <3>2. PICK p \in Bags!Encode(f[1], f[2]) \X Bags!Encode(t[1], t[2]),
                 i \in Bags!ResolveBagSlot(f[1], f[2]) :
              q = [from |-> p[1], to |-> p[2], item |-> i]
        BY <1>1, <3>1 DEF Bags!Prepare
      <3> QED BY <3>1, <3>2
    <2>2. f # t
      BY <2>1
    <2> QED BY <2>1, <2>2, Placed, Apart
  <1>2. CASE r \in Bags!Containers(f[1], f[2], t[1], t[2]) /\ n = 0
    <2>1. PICK q \in Bags!Prepare(f[1], f[2], t[1], t[2]) :
               r = [from |-> q.from, to |-> q.to, count |-> 0]
      BY <1>2 DEF Bags!Containers
    <2> QED BY <1>1, <1>2, <2>1
  <1>3. CASE r \in Bags!MoveCount(f[1], f[2], t[1], t[2], n)
    <2>1. ~(n < 1)
      BY <1>3 DEF Bags!MoveCount
    <2>2. PICK q \in Bags!Prepare(f[1], f[2], t[1], t[2]) :
            /\ n <= shown[q.from].count
            /\ r = [from |-> q.from, to |-> q.to,
                    count |-> IF n = shown[q.from].count THEN 0 ELSE n]
      BY <1>3, <2>1 DEF Bags!MoveCount
    <2>3. r.from = q.from /\ r.to = q.to /\ r.count = IF n = shown[q.from].count THEN 0 ELSE n
      BY <2>2
    <2> QED BY <1>1, <2>2, <2>3
  <1> QED BY <1>2, <1>3

\* A sequence is one over its own elements.
LEMMA OfItsOwn ==
  ASSUME NEW S, NEW a \in Seq(S) PROVE a \in Seq({a[i] : i \in DOMAIN a})
  <1> DEFINE T == {a[i] : i \in DOMAIN a}
  <1>1. a \in [1..Len(a) -> S] /\ Len(a) \in Nat
    OBVIOUS
  <1>2. a \in [1..Len(a) -> T]
    BY <1>1
  <1>3. \A m \in Nat : \A f \in [1..m -> T] : f \in Seq(T)
    OBVIOUS
  <1> QED BY <1>1, <1>2, <1>3

\* A sequence over its own elements, with one more at its end.
LEMMA OneMore ==
  ASSUME NEW s, s \in Seq({s[i] : i \in DOMAIN s}), NEW e
  PROVE  /\ Append(s, e) \in Seq({Append(s, e)[i] : i \in DOMAIN Append(s, e)})
         /\ Len(Append(s, e)) = Len(s) + 1 /\ Len(s) \in Nat
         /\ DOMAIN Append(s, e) = 1..Len(s) + 1 /\ DOMAIN s = 1..Len(s)
         /\ \A i \in 1..Len(s) : Append(s, e)[i] = s[i]
         /\ Append(s, e)[Len(s) + 1] = e
  <1> DEFINE S == {s[i] : i \in DOMAIN s} \cup {e}
             a == Append(s, e)
  <1>1. s \in Seq(S) /\ e \in S
    OBVIOUS
  <1>2. a \in Seq(S) /\ Len(a) = Len(s) + 1 /\ Len(s) \in Nat /\ DOMAIN a = 1..Len(s) + 1
    BY <1>1
  <1>3. DOMAIN s = 1..Len(s) /\ a[Len(s) + 1] = e /\ \A i \in 1..Len(s) : a[i] = s[i]
    <2> HIDE DEF S
    <2> QED BY <1>1
  <1> HIDE DEF S, a
  <1>4. a \in Seq({a[i] : i \in DOMAIN a})
    BY <1>2, OfItsOwn
  <1> QED BY <1>2, <1>3, <1>4 DEF a

\* A sequence over its own elements, without its first.
LEMMA OneLess ==
  ASSUME NEW s, s \in Seq({s[i] : i \in DOMAIN s}), s # <<>>
  PROVE  /\ Tail(s) \in Seq({Tail(s)[i] : i \in DOMAIN Tail(s)})
         /\ Len(Tail(s)) = Len(s) - 1 /\ Len(s) \in Nat /\ Len(s) >= 1
         /\ DOMAIN Tail(s) = 1..Len(s) - 1 /\ DOMAIN s = 1..Len(s)
         /\ \A i \in 1..Len(s) - 1 : Tail(s)[i] = s[i + 1]
  <1> DEFINE S == {s[i] : i \in DOMAIN s}
             a == Tail(s)
  <1>1. s \in Seq(S)
    OBVIOUS
  <1>2. a \in Seq(S) /\ Len(a) = Len(s) - 1 /\ Len(s) \in Nat /\ DOMAIN a = 1..Len(s) - 1
    BY <1>1
  <1>3. Len(s) >= 1 /\ DOMAIN s = 1..Len(s) /\ \A i \in 1..Len(s) - 1 : a[i] = s[i + 1]
    <2> HIDE DEF S
    <2> QED BY <1>1
  <1> HIDE DEF S, a
  <1>4. a \in Seq({a[i] : i \in DOMAIN a})
    BY <1>2, OfItsOwn, SMTT(60)
  <1> QED BY <1>2, <1>3, <1>4 DEF a

\* What the server does with a request: a split takes what it says off the source, a swap
\* empties it, merges it or exchanges it with the destination.
LEMMA Processed ==
  ASSUME Bags!InventoryAssumption, DOMAIN held = Bags!AllPlaces,
         \A q \in Bags!AllPlaces : Bags!IsStack(held[q]),
         NEW r, r.from \in Bags!AllPlaces, r.to \in Bags!AllPlaces, r.from # r.to,
         r.count \in Nat,
         held[r.from] # Bags!Nothing
  PROVE  /\ DOMAIN Bags!After(r) = Bags!AllPlaces
         /\ \A q \in Bags!AllPlaces : Bags!IsStack(Bags!After(r)[q])
         /\ held[r.from].count \in Nat
  <1> DEFINE src == held[r.from]
             dst == held[r.to]
             room == Bags!Room(src.kind, dst)
             merged == IF src.count < room THEN src.count ELSE room
             Put(a, b) == [held EXCEPT ![r.from] = a, ![r.to] = b]
  <1>1. /\ src = [id |-> src.id, kind |-> src.kind, count |-> src.count]
        /\ src.kind \in DOMAIN MaxStacks /\ src.count \in Nat
    BY DEF Bags!IsStack
  <1>2. dst = Bags!Nothing \/ /\ dst = [id |-> dst.id, kind |-> dst.kind, count |-> dst.count]
                              /\ dst.kind \in DOMAIN MaxStacks /\ dst.count \in Nat
    BY DEF Bags!IsStack
  <1>3. room \in Int
    BY <1>1, <1>2 DEF Bags!Room, Bags!InventoryAssumption
  <1>4. ASSUME NEW a, NEW b, Bags!IsStack(a), Bags!IsStack(b), NEW h, h = Put(a, b)
        PROVE  /\ DOMAIN h = Bags!AllPlaces /\ \A q \in Bags!AllPlaces : Bags!IsStack(h[q])
               /\ h[r.from] = a
    <2>1. ASSUME NEW q \in Bags!AllPlaces
          PROVE  h[q] = IF q = r.to THEN b ELSE IF q = r.from THEN a ELSE held[q]
      BY <1>4
    <2>2. DOMAIN h = Bags!AllPlaces
      BY <1>4
    <2> QED BY <1>4, <2>1, <2>2
  <1>5. Bags!IsStack(Bags!Nothing)
    BY DEF Bags!IsStack
  <1>6. ASSUME NEW s, NEW c \in Nat, s = [id |-> s.id, kind |-> s.kind, count |-> s.count],
               s.kind \in DOMAIN MaxStacks
        PROVE  LET t == [s EXCEPT !.count = c] IN Bags!IsStack(t) /\ t.id = s.id /\ t.count = c
    BY <1>6 DEF Bags!IsStack
  <1>7. CASE r.count > 0
    <2>1. CASE r.count >= src.count \/ room < r.count
      BY <1>1, <1>7, <2>1, Zenon DEF Bags!After
    <2>2. CASE ~(r.count >= src.count \/ room < r.count)
      <3> DEFINE a == [src EXCEPT !.count = src.count - r.count]
                 b == IF dst = Bags!Nothing THEN [src EXCEPT !.id = Bags!NewId, !.count = r.count]
                      ELSE [dst EXCEPT !.count = dst.count + r.count]
      <3>1. Bags!After(r) = Put(a, b)
        BY <1>7, <2>2 DEF Bags!After
      <3>2. Bags!IsStack(a) /\ a.id = src.id /\ a.count = src.count - r.count
        BY <1>1, <1>6, <1>7, <2>2
      <3>3. Bags!IsStack(b)
        <4>1. CASE dst = Bags!Nothing
          BY <1>1, <4>1 DEF Bags!IsStack
        <4>2. CASE dst # Bags!Nothing
          BY <1>2, <1>6, <4>2
        <4> QED BY <4>1, <4>2
      <3> HIDE DEF a, b
      <3>4. /\ DOMAIN Bags!After(r) = Bags!AllPlaces
            /\ \A q \in Bags!AllPlaces : Bags!IsStack(Bags!After(r)[q])
            /\ Bags!After(r)[r.from] = a
        BY <1>4, <3>1, <3>2, <3>3
      <3> QED BY <1>1, <1>7, <3>2, <3>4
    <2> QED BY <2>1, <2>2, SMTT(60)
  <1>8. CASE r.count = 0
    <2>1. CASE dst # Bags!Nothing /\ dst.kind = src.kind /\ room > 0
      <3> DEFINE a == IF merged = src.count THEN Bags!Nothing
                      ELSE [src EXCEPT !.count = src.count - merged]
                 b == [dst EXCEPT !.count = dst.count + merged]
      <3>1. Bags!After(r) = Put(a, b)
        BY <1>8, <2>1 DEF Bags!After
      <3>2. merged \in Nat /\ merged <= src.count
        BY <1>1, <1>3, <2>1
      <3>3. Bags!IsStack(a) /\ ((a.id = 0 /\ a.count = 0) \/ a.id = src.id)
        <4>1. CASE merged = src.count
          BY <1>5, <4>1 DEF Bags!Nothing
        <4>2. CASE merged # src.count
          BY <1>1, <1>6, <3>2, <4>2
        <4> QED BY <4>1, <4>2
      <3>4. Bags!IsStack(b)
        BY <1>2, <1>6, <2>1, <3>2
      <3> HIDE DEF a, b
      <3>5. /\ DOMAIN Bags!After(r) = Bags!AllPlaces
            /\ \A q \in Bags!AllPlaces : Bags!IsStack(Bags!After(r)[q])
            /\ Bags!After(r)[r.from] = a
        BY <1>4, <3>1, <3>3, <3>4
      <3> QED BY <1>1, <1>8, <3>3, <3>5
    <2>2. CASE ~(dst # Bags!Nothing /\ dst.kind = src.kind /\ room > 0)
      <3>1. Bags!After(r) = Put(dst, src)
        BY <1>8, <2>2 DEF Bags!After
      <3>2. Bags!IsStack(dst) /\ Bags!IsStack(src)
        OBVIOUS
      <3> HIDE DEF src, dst
      <3>3. /\ DOMAIN Bags!After(r) = Bags!AllPlaces
            /\ \A q \in Bags!AllPlaces : Bags!IsStack(Bags!After(r)[q])
            /\ Bags!After(r)[r.from] = dst
        BY <1>4, <3>1, <3>2
      <3> QED BY <1>1, <1>8, <3>3 DEF src, dst
    <2> QED BY <2>1, <2>2
  <1> QED BY <1>7, <1>8

\* What a request for n of the stack at its source does if it does anything.
LEMMA MoveDone ==
  ASSUME Bags!InventoryAssumption, DOMAIN held = Bags!AllPlaces,
         \A q \in Bags!AllPlaces : Bags!IsStack(held[q]),
         NEW r, r.from \in Bags!AllPlaces, r.to \in Bags!AllPlaces, r.from # r.to,
         held[r.from] # Bags!Nothing,
         NEW n \in Nat, n # 0, n <= held[r.from].count,
         r.count = IF n = held[r.from].count THEN 0 ELSE n,
         NEW h, h = Bags!After(r), h # held,
         NEW m, m = [asked |-> n, src |-> held[r.from], dst |-> held[r.to],
                     left |-> h[r.from], there |-> h[r.to]]
  PROVE  Bags!MovedAll(m) \/ Bags!Exchanged(m) \/ Bags!Filled(m)
  <1> DEFINE src == held[r.from]
             dst == held[r.to]
             room == Bags!Room(src.kind, dst)
             merged == IF src.count < room THEN src.count ELSE room
  <1>1. /\ src = [id |-> src.id, kind |-> src.kind, count |-> src.count]
        /\ src.kind \in DOMAIN MaxStacks /\ src.count \in Nat /\ n <= src.count
    BY DEF Bags!IsStack
  <1>2. dst = Bags!Nothing \/ /\ dst = [id |-> dst.id, kind |-> dst.kind, count |-> dst.count]
                              /\ dst.kind \in DOMAIN MaxStacks /\ dst.count \in Nat
    BY DEF Bags!IsStack
  <1>3. room \in Int
    BY <1>1, <1>2 DEF Bags!Room, Bags!InventoryAssumption
  <1>4. /\ m.asked = n /\ m.src = src /\ m.dst = dst /\ m.left = h[r.from] /\ m.there = h[r.to]
    OBVIOUS
  <1>5. ASSUME NEW a, NEW b, h = [held EXCEPT ![r.from] = a, ![r.to] = b]
        PROVE  m.left = a /\ m.there = b
    BY <1>4, <1>5
  <1>6. Bags!Nothing.count = 0
    BY DEF Bags!Nothing
  <1>7. CASE n # src.count
    <2>1. r.count = n /\ n > 0 /\ ~(n >= src.count)
      BY <1>1, <1>7
    <2>2. ~(room < n)
      BY <1>3, <2>1 DEF Bags!After
    <2> DEFINE a == [src EXCEPT !.count = src.count - n]
               b == IF dst = Bags!Nothing THEN [src EXCEPT !.id = Bags!NewId, !.count = n]
                    ELSE [dst EXCEPT !.count = dst.count + n]
    <2>3. h = [held EXCEPT ![r.from] = a, ![r.to] = b]
      BY <2>1, <2>2 DEF Bags!After
    <2>4. dst # Bags!Nothing => dst.kind = src.kind
      BY <1>3, <2>1, <2>2 DEF Bags!Room
    <2>5. b.kind = src.kind /\ b.count = dst.count + n
      BY <1>1, <1>2, <1>6, <2>4
    <2> HIDE DEF b
    <2>6. m.left = a /\ m.there = b
      BY <1>5, <2>3
    <2> HIDE DEF src, dst
    <2> QED BY <1>4, <1>7, <2>4, <2>5, <2>6 DEF Bags!MovedAll
  <1>8. CASE n = src.count /\ dst # Bags!Nothing /\ dst.kind = src.kind /\ room > 0
    <2> DEFINE a == IF merged = src.count THEN Bags!Nothing
                    ELSE [src EXCEPT !.count = src.count - merged]
               b == [dst EXCEPT !.count = dst.count + merged]
    <2>1. h = [held EXCEPT ![r.from] = a, ![r.to] = b]
      BY <1>8 DEF Bags!After
    <2>2. b.kind = src.kind /\ b.count = dst.count + merged
      BY <1>2, <1>8
    <2>3. m.left = a /\ m.there = b
      BY <1>5, <2>1
    <2>4. CASE merged = src.count
      <3> HIDE DEF src, dst, b, merged
      <3> QED BY <1>4, <1>8, <2>2, <2>3, <2>4 DEF Bags!MovedAll
    <2>5. CASE merged # src.count
      <3>1. merged = room /\ 0 < room /\ room < n
        BY <1>1, <1>3, <1>8, <2>5
      <3>2. room = Bags!Room(m.src.kind, m.dst)
        BY <1>4
      <3> HIDE DEF src, dst, merged, room
      <3> QED BY <1>4, <1>8, <2>3, <2>5, <3>1, <3>2 DEF Bags!Filled
    <2> QED BY <2>4, <2>5
  <1>9. CASE n = src.count /\ ~(dst # Bags!Nothing /\ dst.kind = src.kind /\ room > 0)
    <2>1. h = [held EXCEPT ![r.from] = dst, ![r.to] = src]
      BY <1>9 DEF Bags!After
    <2>2. m.left = dst /\ m.there = src
      BY <1>5, <2>1
    <2>3. dst = Bags!Nothing \/ room <= 0
      BY <1>3, <1>9 DEF Bags!Room
    <2>4. room = Bags!Room(m.src.kind, m.dst)
      BY <1>4
    <2>5. CASE dst = Bags!Nothing
      BY <1>1, <1>4, <1>6, <1>9, <2>2, <2>5 DEF Bags!MovedAll
    <2>6. CASE room <= 0
      <3> HIDE DEF src, dst, room
      <3> QED BY <1>4, <1>9, <2>2, <2>4, <2>6 DEF Bags!Exchanged
    <2> QED BY <2>3, <2>5, <2>6
  <1> QED BY <1>7, <1>8, <1>9

\* The client shows what the server has, and nothing is under way.
LEMMA MovesStart ==
  ASSUME Bags!InventoryAssumption, Bags!InventoryInit
  PROVE  Bags!MovesInv
  <1>1. slotCount \in Nat /\ bagSize \in Nat
    BY DEF Bags!InventoryAssumption, Bags!InventoryInit
  <1>2. DOMAIN held = Bags!AllPlaces /\ shown = held
    BY DEF Bags!InventoryInit
  <1>3. \A p \in Bags!AllPlaces : Bags!IsStack(held[p])
    BY DEF Bags!InventoryInit, Bags!InventoryAssumption, Bags!IsStack, Bags!BagItem
  <1>4. requests = <<>> /\ updates = <<>>
    BY DEF Bags!InventoryInit
  <1>5. DOMAIN requests = {} /\ DOMAIN updates = {} /\ requests \in Seq(Bags!Requests)
    BY <1>4
  <1>6. updates \in Seq({updates[i] : i \in DOMAIN updates})
    BY <1>4
  <1>7. Bags!MovedAsAsked
    BY DEF Bags!InventoryInit, Bags!MovedAsAsked
  <1> QED BY <1>1, <1>2, <1>3, <1>4, <1>5, <1>6, <1>7 DEF Bags!MovesInv, Bags!Requests

\* The places are those the build and the bag have.
LEMMA PlacesStay ==
  ASSUME slotCount' = slotCount, bagSize' = bagSize PROVE Bags!AllPlaces' = Bags!AllPlaces
  BY DEF Bags!AllPlaces

\* A call made with nothing under way counts from what the server has.
LEMMA SendsKeepsMoves ==
  ASSUME Bags!InventoryAssumption, Bags!MovesInv, NEW f \in Named, NEW t \in Named, NEW n \in Nat,
         \/ n = 0 /\ Bags!SwapItems(f[1], f[2], t[1], t[2])
         \/ Bags!MoveItem(f[1], f[2], t[1], t[2], n)
  PROVE  Bags!MovesInv'
  <1> DEFINE moving == Bags!MoveCount(f[1], f[2], t[1], t[2], n)
             built == IF n = 0 THEN Bags!Containers(f[1], f[2], t[1], t[2]) \cup moving
             ELSE moving
             Request(r) == [from |-> r.from, to |-> r.to, count |-> r.count,
                            asked |-> IF Bags!Quiet THEN n ELSE 0]
  <1>1. /\ \E r \in built : requests' = Append(requests, Request(r))
        /\ moved' = <<>> /\ UNCHANGED <<slotCount, bagSize, held, shown, updates>>
    BY DEF Bags!SwapItems, Bags!MoveItem, Bags!Sends
  <1>2. Bags!AllPlaces' = Bags!AllPlaces
    BY <1>1, PlacesStay
  <1>3. PICK r \in built : requests' = Append(requests, Request(r))
    BY <1>1
  <1> DEFINE e == Request(r)
  <1>4. /\ r.from \in Bags!AllPlaces /\ r.to \in Bags!AllPlaces /\ r.from # r.to
        /\ r.count \in Nat
        /\ n # 0 => r.count = (IF n = shown[r.from].count THEN 0 ELSE n)
           /\ n <= shown[r.from].count
    <2>1. slotCount \in Nat /\ bagSize \in Nat
      BY DEF Bags!MovesInv
    <2>2. \/ n = 0 /\ r \in Bags!Containers(f[1], f[2], t[1], t[2])
          \/ r \in Bags!MoveCount(f[1], f[2], t[1], t[2], n)
      OBVIOUS
    <2> QED BY <2>1, <2>2, Sent
  <1>5. e \in Bags!Requests
    BY <1>4 DEF Bags!Requests
  <1>6. /\ requests' \in Seq(Bags!Requests) /\ Len(requests) \in Nat
        /\ DOMAIN requests' = 1..Len(requests) + 1 /\ DOMAIN requests = 1..Len(requests)
        /\ \A i \in 1..Len(requests) : requests'[i] = requests[i]
        /\ requests'[Len(requests) + 1] = e
    BY <1>3, <1>5 DEF Bags!MovesInv, Bags!Requests
  <1>7. ASSUME NEW i \in DOMAIN requests'
        PROVE  LET q == requests'[i] IN
               /\ q.from # q.to
               /\ q.asked # 0 =>
                   /\ i = 1 /\ updates' = <<>>
                   /\ q.count = IF q.asked = held'[q.from].count THEN 0 ELSE q.asked
                   /\ q.asked <= held'[q.from].count
    <2>1. CASE i \in 1..Len(requests)
      BY <1>1, <1>6, <2>1 DEF Bags!MovesInv
    <2>2. CASE i = Len(requests) + 1
      <3>1. requests'[i] = e
        BY <1>6, <2>2
      <3>2. ASSUME Bags!Quiet PROVE i = 1 /\ updates' = <<>> /\ shown = held
        BY <1>1, <2>2, <3>2 DEF Bags!Quiet, Bags!MovesInv
      <3>3. ASSUME Bags!Quiet PROVE n <= held[r.from].count
        <4>1. held[r.from].count \in Nat
          BY <1>4 DEF Bags!MovesInv, Bags!IsStack, Bags!Nothing
        <4> QED BY <1>4, <3>2, <3>3, <4>1
      <3> QED BY <1>1, <1>4, <3>1, <3>2, <3>3
    <2> QED BY <1>6, <2>1, <2>2
  <1>8. Bags!MovedAsAsked'
    BY <1>1 DEF Bags!MovedAsAsked
  <1>9. Bags!Requests' = Bags!Requests
    BY <1>2 DEF Bags!Requests
  <1>10. /\ slotCount' \in Nat /\ bagSize' \in Nat
         /\ DOMAIN held' = Bags!AllPlaces' /\ DOMAIN shown' = Bags!AllPlaces'
         /\ \A p \in Bags!AllPlaces' : Bags!IsStack(held[p])'
         /\ updates' \in Seq({updates'[i] : i \in DOMAIN updates'})
         /\ \A i \in DOMAIN updates' : DOMAIN updates'[i] = Bags!AllPlaces'
         /\ IF updates' = <<>> THEN shown' = held' ELSE updates'[Len(updates')] = held'
    BY <1>1, <1>2, SMTT(60) DEF Bags!MovesInv, Bags!IsStack
  <1> HIDE DEF e, built, moving, Request
  <1> QED BY <1>6, <1>7, <1>8, <1>9, <1>10 DEF Bags!MovesInv

\* The server does what the first request asks for, or leaves all as it was.
LEMMA ServerKeepsMoves ==
  ASSUME Bags!InventoryAssumption, Bags!MovesInv, Bags!ServerProcesses
  PROVE  Bags!MovesInv'
  <1> DEFINE r == requests[1]
             refused == {r.from, r.to} \subseteq Bags!AllPlaces => held[r.from] = Bags!Nothing
  <1>1. /\ requests # <<>> /\ held' = IF refused THEN held ELSE Bags!After(r)
        /\ moved' = IF held' = held \/ r.asked = 0 THEN <<>>
                    ELSE [asked |-> r.asked, src |-> held[r.from], dst |-> held[r.to],
                          left |-> held'[r.from], there |-> held'[r.to]]
        /\ updates' = Append(updates, held') /\ requests' = Tail(requests)
        /\ UNCHANGED <<slotCount, bagSize, shown>>
    BY DEF Bags!ServerProcesses
  <1>2. Bags!AllPlaces' = Bags!AllPlaces
    BY <1>1, PlacesStay
  <1>3. /\ Len(requests) \in Nat /\ Len(requests) >= 1 /\ DOMAIN requests = 1..Len(requests)
        /\ requests' \in Seq(Bags!Requests) /\ DOMAIN requests' = 1..Len(requests) - 1
        /\ \A i \in 1..Len(requests) - 1 : requests'[i] = requests[i + 1]
    BY <1>1 DEF Bags!MovesInv, Bags!Requests
  <1>4. r \in Bags!Requests /\ r.from # r.to
    <2>1. requests \in Seq(Bags!Requests) /\ 1 \in DOMAIN requests
      BY <1>3 DEF Bags!MovesInv, Bags!Requests
    <2>2. r.from # r.to
      BY <2>1, SMTT(30) DEF Bags!MovesInv
    <2> QED BY <2>1, <2>2
  <1>5. /\ DOMAIN held' = Bags!AllPlaces /\ \A q \in Bags!AllPlaces : Bags!IsStack(held'[q])
    <2>1. CASE refused
      BY <1>1, <2>1 DEF Bags!MovesInv
    <2>2. CASE ~refused
      <3>1. held' = Bags!After(r) /\ r.from \in Bags!AllPlaces /\ r.to \in Bags!AllPlaces
            /\ held[r.from] # Bags!Nothing /\ r.count \in Nat
        BY <1>1, <1>4, <2>2 DEF Bags!Requests
      <3> HIDE DEF r
      <3>2. DOMAIN held = Bags!AllPlaces /\ \A q \in Bags!AllPlaces : Bags!IsStack(held[q])
        BY DEF Bags!MovesInv
      <3> QED BY <1>4, <3>1, <3>2, Processed
    <2> QED BY <2>1, <2>2, SMTT(30)
  <1>6. /\ updates' \in Seq({updates'[i] : i \in DOMAIN updates'}) /\ updates' # <<>>
        /\ Len(updates') = Len(updates) + 1 /\ Len(updates) \in Nat
        /\ DOMAIN updates' = 1..Len(updates) + 1 /\ DOMAIN updates = 1..Len(updates)
        /\ \A i \in 1..Len(updates) : updates'[i] = updates[i]
        /\ updates'[Len(updates')] = held'
    <2>1. updates \in Seq({updates[i] : i \in DOMAIN updates})
      BY DEF Bags!MovesInv
    <2> DEFINE u == Append(updates, held')
    <2>2. /\ u \in Seq({u[i] : i \in DOMAIN u})
          /\ Len(u) = Len(updates) + 1 /\ Len(updates) \in Nat
          /\ DOMAIN u = 1..Len(updates) + 1 /\ DOMAIN updates = 1..Len(updates)
          /\ \A i \in 1..Len(updates) : u[i] = updates[i]
          /\ u[Len(updates) + 1] = held'
      BY <2>1, OneMore
    <2>3. updates' = u
      BY <1>1
    <2> HIDE DEF u
    <2>4. updates' # <<>>
      BY <2>2, <2>3
    <2> QED BY <2>2, <2>3, <2>4
  <1>7. \A i \in DOMAIN updates' : DOMAIN updates'[i] = Bags!AllPlaces
    <2>1. \A i \in 1..Len(updates) : DOMAIN updates'[i] = Bags!AllPlaces
      <3>1. \A i \in DOMAIN updates : DOMAIN updates[i] = Bags!AllPlaces
        BY DEF Bags!MovesInv
      <3> QED BY <1>6, <3>1
    <2>2. DOMAIN updates'[Len(updates) + 1] = Bags!AllPlaces
      BY <1>5, <1>6
    <2> QED BY <1>6, <2>1, <2>2
  <1>8. ASSUME NEW i \in DOMAIN requests'
        PROVE  requests'[i].from # requests'[i].to /\ requests'[i].asked = 0
    <2>1. i + 1 \in DOMAIN requests /\ i + 1 # 1 /\ requests'[i] = requests[i + 1]
      BY <1>3
    <2> QED BY <2>1 DEF Bags!MovesInv
  <1>9. Bags!MovedAsAsked'
    <2> SUFFICES ASSUME moved' # <<>>
                 PROVE  Bags!MovedAll(moved') \/ Bags!Exchanged(moved') \/ Bags!Filled(moved')
      BY SMTT(30) DEF Bags!MovedAsAsked, Bags!MovedAll, Bags!Exchanged, Bags!Filled
    <2>1. /\ held' # held /\ r.asked # 0 /\ ~refused /\ held' = Bags!After(r)
          /\ moved' = [asked |-> r.asked, src |-> held[r.from], dst |-> held[r.to],
                       left |-> held'[r.from], there |-> held'[r.to]]
      BY <1>1
    <2>2. /\ r.from \in Bags!AllPlaces /\ r.to \in Bags!AllPlaces
          /\ held[r.from] # Bags!Nothing /\ r.from # r.to
      BY <1>4, <2>1
    <2>3. /\ r.count = IF r.asked = held[r.from].count THEN 0 ELSE r.asked
          /\ r.asked <= held[r.from].count /\ r.asked \in Nat
      <3>1. 1 \in DOMAIN requests /\ r.asked \in Nat
        BY <1>3, <1>4, SMTT(30) DEF Bags!Requests
      <3> QED BY <2>1, <3>1 DEF Bags!MovesInv
    <2>4. DOMAIN held = Bags!AllPlaces /\ \A q \in Bags!AllPlaces : Bags!IsStack(held[q])
      BY DEF Bags!MovesInv
    <2> HIDE DEF r, refused
    <2> QED BY <2>1, <2>2, <2>3, <2>4, MoveDone
  <1> QED BY <1>1, <1>2, <1>3, <1>5, <1>6, <1>7, <1>8, <1>9 DEF Bags!MovesInv, Bags!Requests

\* An update brings the client nearer to the server; a request that counts has none before it.
LEMMA ClientKeepsMoves ==
  ASSUME Bags!MovesInv, Bags!ClientUpdated
  PROVE  Bags!MovesInv'
  <1>1. /\ updates # <<>> /\ shown' = updates[1] /\ updates' = Tail(updates)
        /\ UNCHANGED <<slotCount, bagSize, held, requests, moved>>
    BY DEF Bags!ClientUpdated
  <1>2. Bags!AllPlaces' = Bags!AllPlaces
    BY <1>1, PlacesStay
  <1>3. /\ updates' \in Seq({updates'[i] : i \in DOMAIN updates'})
        /\ Len(updates') = Len(updates) - 1 /\ Len(updates) \in Nat /\ Len(updates) >= 1
        /\ DOMAIN updates' = 1..Len(updates) - 1 /\ DOMAIN updates = 1..Len(updates)
        /\ \A i \in 1..Len(updates) - 1 : updates'[i] = updates[i + 1]
    <2>1. updates \in Seq({updates[i] : i \in DOMAIN updates})
      BY DEF Bags!MovesInv
    <2> QED BY <1>1, <2>1, OneLess, SMTT(30)
  <1>4. DOMAIN shown' = Bags!AllPlaces
        /\ \A i \in DOMAIN updates' : DOMAIN updates'[i] = Bags!AllPlaces
    <2>1. \A i \in DOMAIN updates : DOMAIN updates[i] = Bags!AllPlaces
      BY DEF Bags!MovesInv
    <2>2. 1 \in DOMAIN updates /\ \A i \in 1..Len(updates) - 1 : i + 1 \in DOMAIN updates
      BY <1>3
    <2>3. DOMAIN shown' = Bags!AllPlaces
      BY <1>1, <2>1, <2>2
    <2>4. ASSUME NEW i \in DOMAIN updates' PROVE DOMAIN updates'[i] = Bags!AllPlaces
      <3>1. i \in 1..Len(updates) - 1
        BY <1>3
      <3>2. updates'[i] = updates[i + 1] /\ i + 1 \in DOMAIN updates
        BY <1>3, <2>2, <3>1
      <3> QED BY <2>1, <3>2
    <2> QED BY <2>3, <2>4
  <1>5. IF updates' = <<>> THEN shown' = held' ELSE updates'[Len(updates')] = held'
    <2>1. updates[Len(updates)] = held
      BY <1>1 DEF Bags!MovesInv
    <2>2. CASE updates' = <<>>
      <3>1. Len(updates) = 1
        BY <1>3, <2>2
      <3> QED BY <1>1, <2>1, <2>2, <3>1
    <2>3. CASE updates' # <<>>
      <3>1. Len(updates') \in 1..Len(updates) - 1
        <4>1. Len(updates') # 0
          BY <1>3, <2>3
        <4> QED BY <1>3, <4>1
      <3> QED BY <1>1, <1>3, <2>1, <2>3, <3>1
    <2> QED BY <2>2, <2>3
  <1>6. \A i \in DOMAIN requests : requests[i].asked = 0
    BY <1>1 DEF Bags!MovesInv
  <1>7. Bags!MovedAsAsked'
    BY <1>1 DEF Bags!MovesInv, Bags!MovedAsAsked
  <1>8. /\ slotCount' \in Nat /\ bagSize' \in Nat /\ DOMAIN held' = Bags!AllPlaces
        /\ \A p \in Bags!AllPlaces : Bags!IsStack(held'[p])
        /\ requests' \in Seq(Bags!Requests)
    BY <1>1 DEF Bags!MovesInv
  <1>9. \A i \in DOMAIN requests' : requests'[i].from # requests'[i].to /\ requests'[i].asked = 0
    BY <1>1, <1>6 DEF Bags!MovesInv
  <1> QED BY <1>2, <1>3, <1>4, <1>5, <1>7, <1>8, <1>9 DEF Bags!MovesInv, Bags!Requests

\* Each step keeps the requests, the updates and the stacks in step.
LEMMA MovesStay ==
  ASSUME Bags!InventoryAssumption, Bags!MovesInv, Bags!InventoryNext
  PROVE  Bags!MovesInv'
  <1>1. ASSUME NEW f \in Named, NEW t \in Named, Bags!SwapItems(f[1], f[2], t[1], t[2])
        PROVE  Bags!MovesInv'
    BY <1>1, SendsKeepsMoves
  <1>2. ASSUME NEW f \in Named, NEW t \in Named, NEW n \in 0..2,
               Bags!MoveItem(f[1], f[2], t[1], t[2], n)
        PROVE  Bags!MovesInv'
    BY <1>2, SendsKeepsMoves
  <1> QED BY <1>1, <1>2, ServerKeepsMoves, ClientKeepsMoves DEF Bags!InventoryNext

\* So no call moves what it was not asked to.
LEMMA MovesAreAsAsked ==
  ASSUME Bags!InventoryAssumption, Bags!MovesInv
  PROVE  Bags!MovesAreTrue
  <1>1. slotCount \in Nat /\ bagSize \in Nat
    BY DEF Bags!MovesInv
  <1> QED BY <1>1, PlacesAreRight DEF Bags!MovesAreTrue, Bags!MovesInv

\* The bag's slot is a place of the player.
LEMMA BagPlace ==
  ASSUME Bags!InventoryAssumption, slotCount \in Nat, BagSlot < slotCount
  PROVE  Bags!Player(BagSlot) \in Bags!AllPlaces
  BY DEF Bags!InventoryAssumption, Bags!AllPlaces

\* There are finitely many places.
LEMMA PlacesFinite ==
  ASSUME slotCount \in Nat, bagSize \in Nat PROVE IsFiniteSet(Bags!AllPlaces)
  <1> DEFINE A == {Bags!Player(l) : l \in 0..slotCount - 1}
             B == {Bags!Bag(l) : l \in 0..bagSize - 1}
             f == [l \in 0..slotCount - 1 |-> Bags!Player(l)]
             g == [l \in 0..bagSize - 1 |-> Bags!Bag(l)]
  <1>1. f \in Surjection(0..slotCount - 1, A) /\ g \in Surjection(0..bagSize - 1, B)
    BY DEF Surjection
  <1>2. IsFiniteSet(0..slotCount - 1) /\ IsFiniteSet(0..bagSize - 1)
    BY FS_Interval
  <1>3. IsFiniteSet(A) /\ IsFiniteSet(B)
    <2> HIDE DEF A, B, f, g
    <2>1. IsFiniteSet(A)
      BY <1>1, <1>2, FS_Surjection
    <2>2. IsFiniteSet(B)
      BY <1>1, <1>2, FS_Surjection
    <2> QED BY <2>1, <2>2
  <1>4. Bags!AllPlaces = A \cup B
    BY DEF Bags!AllPlaces
  <1> HIDE DEF A, B
  <1> QED BY <1>3, <1>4, FS_Union

\* The server has an ID left for the half of a stack that is split.
LEMMA NewIdIsNew ==
  ASSUME slotCount \in Nat, bagSize \in Nat, DOMAIN held = Bags!AllPlaces
  PROVE  Bags!NewId # 0 /\ \A p \in Bags!AllPlaces : held[p].id # Bags!NewId
  <1> DEFINE D == DOMAIN held
             I == {held[p].id : p \in D}
             f == [p \in D |-> held[p].id]
             n == Cardinality(D)
  <1>1. IsFiniteSet(D)
    BY PlacesFinite
  <1>2. f \in Surjection(D, I)
    BY DEF Surjection
  <1>3. n \in Nat /\ IsFiniteSet(I) /\ Cardinality(I) \in Nat /\ Cardinality(I) <= n
    <2> HIDE DEF D, I, f
    <2>1. IsFiniteSet(I) /\ Cardinality(I) <= Cardinality(D)
      BY <1>1, <1>2, FS_Surjection
    <2> QED BY <1>1, <2>1, FS_CardinalityType
  <1>4. ~(1..n + 1 \subseteq I)
    <2> SUFFICES ASSUME 1..n + 1 \subseteq I PROVE FALSE
      OBVIOUS
    <2> HIDE DEF I, n
    <2>1. Cardinality(1..n + 1) = n + 1
      <3>1. Cardinality(1..n + 1) = IF 1 > n + 1 THEN 0 ELSE (n + 1) - 1 + 1
        BY <1>3, FS_Interval
      <3> QED BY <1>3, <3>1
    <2>2. Cardinality(1..n + 1) <= Cardinality(I)
      BY <1>3, FS_Subset
    <2> QED BY <1>3, <2>1, <2>2
  <1>5. \E m \in 1..n + 1 : \A p \in D : held[p].id # m
    BY <1>4
  <1>6. Bags!NewId \in 1..n + 1 /\ \A p \in D : held[p].id # Bags!NewId
    <2>1. Bags!NewId = CHOOSE m \in 1..n + 1 : \A p \in D : held[p].id # m
      BY PlacesCounted DEF Bags!NewId
    <2> HIDE DEF n
    <2> QED BY <1>5, <2>1
  <1> QED BY <1>3, <1>6

\* What the server does with a request doubles no item.
LEMMA NoneDoubled ==
  ASSUME Bags!InventoryAssumption, slotCount \in Nat, bagSize \in Nat, BagSlot < slotCount,
         DOMAIN held = Bags!AllPlaces, \A q \in Bags!AllPlaces : Bags!IsStack(held[q]),
         Bags!OneEach(held),
         NEW r, r.from \in Bags!AllPlaces, r.to \in Bags!AllPlaces, r.from # r.to,
         r.count \in Nat,
         Bags!Player(BagSlot) \notin {r.from, r.to}, held[r.from] # Bags!Nothing
  PROVE  Bags!OneEach(Bags!After(r))
  <1> DEFINE src == held[r.from]
             dst == held[r.to]
             room == Bags!Room(src.kind, dst)
             merged == IF src.count < room THEN src.count ELSE room
             Put(a, b) == [held EXCEPT ![r.from] = a, ![r.to] = b]
  <1>1. src = [id |-> src.id, kind |-> src.kind, count |-> src.count]
    BY DEF Bags!IsStack
  <1>2. dst = [id |-> dst.id, kind |-> dst.kind, count |-> dst.count]
    BY DEF Bags!IsStack, Bags!Nothing
  <1>3. ASSUME NEW a, NEW b, NEW h, h = Put(a, b),
               \/ a.id \in {0, src.id} /\ b.id \in {0, dst.id}
               \/ a.id \in {0, src.id} /\ b.id = Bags!NewId
               \/ a.id = dst.id /\ b.id = src.id
        PROVE  Bags!OneEach(h)
    <2>1. ASSUME NEW q \in Bags!AllPlaces
          PROVE  h[q] = IF q = r.to THEN b ELSE IF q = r.from THEN a ELSE held[q]
      BY <1>3
    <2>2. \A p, q \in Bags!AllPlaces : p # q /\ held[p].id # 0 => held[p].id # held[q].id
      BY DEF Bags!OneEach
    <2>3. Bags!NewId # 0 /\ \A p \in Bags!AllPlaces : held[p].id # Bags!NewId
      BY NewIdIsNew
    <2>4. ASSUME NEW p \in Bags!AllPlaces, NEW q \in Bags!AllPlaces, p # q, h[p].id # 0
          PROVE  h[p].id # h[q].id
      <3>1. /\ h[p].id = IF p = r.to THEN b.id ELSE IF p = r.from THEN a.id ELSE held[p].id
            /\ h[q].id = IF q = r.to THEN b.id ELSE IF q = r.from THEN a.id ELSE held[q].id
        BY <2>1
      <3> HIDE DEF Put
      <3> QED BY <1>3, <2>2, <2>3, <2>4, <3>1
    <2>5. h[Bags!Player(BagSlot)] = held[Bags!Player(BagSlot)]
      BY <2>1, BagPlace
    <2> QED BY <2>4, <2>5 DEF Bags!OneEach
  <1>4. CASE r.count > 0
    <2>1. CASE r.count >= src.count \/ room < r.count
      BY <1>4, <2>1 DEF Bags!After
    <2>2. CASE ~(r.count >= src.count \/ room < r.count)
      <3> DEFINE a == [src EXCEPT !.count = src.count - r.count]
                 b == IF dst = Bags!Nothing THEN [src EXCEPT !.id = Bags!NewId, !.count = r.count]
                      ELSE [dst EXCEPT !.count = dst.count + r.count]
      <3>1. Bags!After(r) = Put(a, b)
        BY <1>4, <2>2 DEF Bags!After
      <3>2. a.id = src.id /\ b.id \in {Bags!NewId, dst.id}
        BY <1>1, <1>2
      <3> HIDE DEF a, b
      <3> QED BY <1>3, <3>1, <3>2
    <2> QED BY <2>1, <2>2
  <1>5. CASE r.count = 0
    <2>1. CASE dst # Bags!Nothing /\ dst.kind = src.kind /\ room > 0
      <3> DEFINE a == IF merged = src.count THEN Bags!Nothing
                 ELSE [src EXCEPT !.count = src.count - merged]
                 b == [dst EXCEPT !.count = dst.count + merged]
      <3>1. Bags!After(r) = Put(a, b)
        BY <1>5, <2>1 DEF Bags!After
      <3>2. a.id \in {0, src.id} /\ b.id = dst.id
        BY <1>1, <1>2 DEF Bags!Nothing
      <3> HIDE DEF a, b
      <3> QED BY <1>3, <3>1, <3>2
    <2>2. CASE ~(dst # Bags!Nothing /\ dst.kind = src.kind /\ room > 0)
      <3>1. Bags!After(r) = Put(dst, src)
        BY <1>5, <2>2 DEF Bags!After
      <3> QED BY <1>3, <3>1
    <2> QED BY <2>1, <2>2
  <1> QED BY <1>4, <1>5

\* Each item is carried once at first.
LEMMA ItemsStart ==
  ASSUME Bags!InventoryAssumption, Bags!InventoryInit, Bags!MovesInv PROVE Bags!ItemsInv
  <1>1. slotCount \in Nat /\ bagSize \in Nat /\ BagSlot < slotCount
    BY DEF Bags!InventoryAssumption, Bags!InventoryInit
  <1>2. Bags!Player(BagSlot) \in Bags!AllPlaces
    BY <1>1, BagPlace
  <1>3. \A p \in Bags!AllPlaces : held[p] =
          IF p = Bags!Player(BagSlot) /\ bagSize > 0 THEN Bags!BagItem
          ELSE IF p \in DOMAIN StartingItems THEN StartingItems[p] ELSE Bags!Nothing
    BY DEF Bags!InventoryInit
  <1>4. /\ Bags!BagItem.id = 19 /\ Bags!Nothing.id = 0
        /\ \A p \in DOMAIN StartingItems :
            /\ StartingItems[p].id # Bags!BagItem.id
            /\ StartingItems[p].id # 0 =>
                \A q \in DOMAIN StartingItems \ {p} : StartingItems[q].id # StartingItems[p].id
    BY DEF Bags!BagItem, Bags!Nothing, Bags!InventoryAssumption
  <1>5. Bags!OneEach(held)
    BY <1>2, <1>3, <1>4 DEF Bags!OneEach
  <1>6. shown = held /\ DOMAIN requests = {} /\ DOMAIN updates = {}
    BY DEF Bags!InventoryInit
  <1> QED BY <1>1, <1>5, <1>6 DEF Bags!ItemsInv

\* Each step keeps each item at one place, on both sides and in what is under way.
LEMMA ItemsStay ==
  ASSUME Bags!InventoryAssumption, Bags!ItemsInv, Bags!MovesInv', Bags!InventoryNext
  PROVE  Bags!ItemsInv'
  <1>1. slotCount \in Nat /\ bagSize \in Nat /\ slotCount' = slotCount /\ bagSize' = bagSize
    BY DEF Bags!ItemsInv, Bags!MovesInv, Bags!InventoryNext, Bags!SwapItems, Bags!MoveItem,
       Bags!Sends, Bags!ServerProcesses, Bags!ClientUpdated
  <1>2. \A h : Bags!OneEach(h)' <=> Bags!OneEach(h)
    BY <1>1, PlacesStay DEF Bags!OneEach
  <1>3. ASSUME NEW f \in Named, NEW t \in Named, NEW built, NEW n,
               \A r \in built : r.from \in Bags!Encode(f[1], f[2])
               /\ r.to \in Bags!Encode(t[1], t[2]),
               Bags!Sends(built, n)
        PROVE  Bags!ItemsInv'
    <2>1. PICK r \in built :
               requests' = Append(requests, [from |-> r.from, to |-> r.to, count |-> r.count,
                                           asked |-> IF Bags!Quiet THEN n ELSE 0])
      BY <1>3 DEF Bags!Sends
    <2> DEFINE e == [from |-> r.from, to |-> r.to, count |-> r.count,
                     asked |-> IF Bags!Quiet THEN n ELSE 0]
    <2>2. Bags!Player(BagSlot) \notin {e.from, e.to}
      <3>1. \A p : p \in {e.from, e.to} => (p[1] = "player" => p[2] > BagSlot)
        BY <1>1, <1>3, PlacesAreRight
      <3>2. Bags!Player(BagSlot)[1] = "player" /\ ~(Bags!Player(BagSlot)[2] > BagSlot)
        BY DEF Bags!Player, Bags!InventoryAssumption
      <3> QED BY <3>1, <3>2
    <2>3. requests \in Seq(Bags!Requests)
      BY DEF Bags!ItemsInv, Bags!MovesInv
    <2> HIDE DEF e
    <2>4. \A i \in DOMAIN requests' : requests'[i] = e
          \/ (i \in DOMAIN requests /\ requests'[i] = requests[i])
      BY <2>1, <2>3 DEF e
    <2>5. held' = held /\ shown' = shown /\ updates' = updates
      BY <1>3 DEF Bags!Sends
    <2> QED BY <1>1, <1>2, <2>2, <2>4, <2>5 DEF Bags!ItemsInv
  <1>4. ASSUME NEW f \in Named, NEW t \in Named, NEW q \in Bags!Prepare(f[1], f[2], t[1], t[2])
        PROVE  q.from \in Bags!Encode(f[1], f[2]) /\ q.to \in Bags!Encode(t[1], t[2])
    <2>1. <<f[1], f[2]>> # <<t[1], t[2]>>
      BY <1>4 DEF Bags!Prepare
    <2>2. PICK p \in Bags!Encode(f[1], f[2]) \X Bags!Encode(t[1], t[2]),
               i \in Bags!ResolveBagSlot(f[1], f[2]) :
            q = [from |-> p[1], to |-> p[2], item |-> i]
      BY <1>4, <2>1 DEF Bags!Prepare
    <2> QED BY <2>2
  <1>5. ASSUME NEW f \in Named, NEW t \in Named, Bags!SwapItems(f[1], f[2], t[1], t[2])
        PROVE  Bags!ItemsInv'
    <2>1. \A r \in Bags!Containers(f[1], f[2], t[1], t[2]) :
            r.from \in Bags!Encode(f[1], f[2]) /\ r.to \in Bags!Encode(t[1], t[2])
      BY <1>4 DEF Bags!Containers
    <2> QED BY <1>3, <1>5, <2>1 DEF Bags!SwapItems
  <1>6. ASSUME NEW f \in Named, NEW t \in Named, NEW n, Bags!MoveItem(f[1], f[2], t[1], t[2], n)
        PROVE  Bags!ItemsInv'
    <2>1. \A r \in Bags!MoveCount(f[1], f[2], t[1], t[2], n) :
            r.from \in Bags!Encode(f[1], f[2]) /\ r.to \in Bags!Encode(t[1], t[2])
      BY <1>4 DEF Bags!MoveCount
    <2> QED BY <1>3, <1>6, <2>1 DEF Bags!MoveItem
  <1>7. ASSUME Bags!ServerProcesses PROVE Bags!ItemsInv'
    <2> DEFINE r == requests[1]
    <2>1. /\ requests # <<>> /\ requests \in Seq(Bags!Requests) /\ requests' = Tail(requests)
          /\ updates' = Append(updates, held') /\ shown' = shown
          /\ \/ held' = held
             \/ held' = Bags!After(r) /\ held[r.from] # Bags!Nothing
      BY <1>7 DEF Bags!ServerProcesses, Bags!ItemsInv, Bags!MovesInv
    <2>2. 1 \in DOMAIN requests /\ r \in Bags!Requests
      BY <2>1
    <2>3. Bags!OneEach(held')
      <3>1. CASE held' = held
        BY <3>1 DEF Bags!ItemsInv
      <3>2. CASE held' = Bags!After(r) /\ held[r.from] # Bags!Nothing
        <4>1. /\ r.from \in Bags!AllPlaces /\ r.to \in Bags!AllPlaces /\ r.count \in Nat
          BY <2>2 DEF Bags!Requests
        <4>2. r.from # r.to /\ Bags!Player(BagSlot) \notin {r.from, r.to}
          BY <2>2 DEF Bags!ItemsInv, Bags!MovesInv
        <4> HIDE DEF r
        <4>3. Bags!OneEach(Bags!After(r))
          BY <1>1, <3>2, <4>1, <4>2, NoneDoubled DEF Bags!ItemsInv, Bags!MovesInv
        <4> QED BY <3>2, <4>3
      <3> QED BY <2>1, <3>1, <3>2
    <2>4. \A i \in DOMAIN requests' : i + 1 \in DOMAIN requests /\ requests'[i] = requests[i + 1]
      BY <2>1
    <2>5. updates \in Seq({updates[i] : i \in DOMAIN updates})
      BY DEF Bags!ItemsInv, Bags!MovesInv
    <2>6. \A i \in DOMAIN updates' : updates'[i] = held'
          \/ (i \in DOMAIN updates /\ updates'[i] = updates[i])
      <3> DEFINE S == {updates[i] : i \in DOMAIN updates} \cup {held'}
      <3>1. updates \in Seq(S) /\ held' \in S
        BY <2>5
      <3> HIDE DEF S
      <3> QED BY <2>1, <3>1
    <2> QED BY <1>1, <1>2, <2>1, <2>3, <2>4, <2>6, SMTT(30) DEF Bags!ItemsInv
  <1>8. ASSUME Bags!ClientUpdated PROVE Bags!ItemsInv'
    <2>1. /\ updates # <<>> /\ shown' = updates[1] /\ updates' = Tail(updates)
          /\ held' = held /\ requests' = requests
      BY <1>8 DEF Bags!ClientUpdated
    <2>2. updates \in Seq({updates[i] : i \in DOMAIN updates})
      BY DEF Bags!ItemsInv, Bags!MovesInv
    <2>3. 1 \in DOMAIN updates /\ \A i \in DOMAIN updates' : i + 1 \in DOMAIN updates
          /\ updates'[i] = updates[i + 1]
      BY <2>1, <2>2
    <2> QED BY <1>1, <1>2, <2>1, <2>3 DEF Bags!ItemsInv
  <1> QED BY <1>5, <1>6, <1>7, <1>8 DEF Bags!InventoryNext

\* An item is at its place alone.
LEMMA OneItem ==
  ASSUME Bags!ItemsInv, NEW p \in Bags!AllPlaces, shown[p].id # 0, NEW q
  PROVE  Bags!ItemAt(q) = {shown[p].id} <=> q = p
  BY DEF Bags!ItemsInv, Bags!OneEach, Bags!ItemAt

\* A slot's number names its place.
LEMMA SlotsNamed ==
  ASSUME Bags!InventoryAssumption, Bags!ItemsInv, NEW b \in 0..1
  PROVE  /\ Bags!GetBagNumSlots(b) \in Nat
         /\ Bags!GetBagNumSlots(b) = IF b = 0 THEN Ranges[0].last - Ranges[0].first + 1
            ELSE bagSize
         /\ \A s \in 1..Bags!GetBagNumSlots(b) :
            Bags!ResolveBagSlot(b, s) = Bags!ItemAt(Bags!SlotAt(b, s))
  <1>0. /\ Ranges[0].first \in Int /\ Ranges[0].last \in Int /\ Ranges[0].first <= Ranges[0].last
        /\ 0 \in DOMAIN Ranges /\ 1 \notin DOMAIN Ranges /\ bagSize \in Nat
    BY DEF Bags!InventoryAssumption, Bags!ItemsInv, Bags!MovesInv
  <1>1. CASE b = 0
    <2>1. Bags!GetBagNumSlots(b) = Ranges[0].last - Ranges[0].first + 1
      BY <1>0, <1>1 DEF Bags!GetBagNumSlots
    <2>2. ASSUME NEW s \in 1..Bags!GetBagNumSlots(b)
          PROVE  Bags!ResolveBagSlot(b, s) = Bags!ItemAt(Bags!SlotAt(b, s))
      <3>1. ~(s < 1) /\ ~(Ranges[0].first + s - 1 > Ranges[0].last)
        BY <1>0, <2>1
      <3> QED BY <1>0, <1>1, <3>1 DEF Bags!ResolveBagSlot, Bags!SlotAt
    <2> QED BY <1>0, <1>1, <2>1, <2>2
  <1>2. CASE b = 1
    <2>1. bagSize > 0 => Bags!ResolveEquippedBag(1) # {}
      BY BagPlace DEF Bags!ResolveEquippedBag, Bags!ItemAt, Bags!ItemsInv, Bags!OneEach,
         Bags!MovesInv
    <2>2. Bags!GetBagNumSlots(b) = bagSize
      BY <1>0, <1>2, <2>1 DEF Bags!GetBagNumSlots
    <2>3. ASSUME NEW s \in 1..Bags!GetBagNumSlots(b)
          PROVE  Bags!ResolveBagSlot(b, s) = Bags!ItemAt(Bags!SlotAt(b, s))
      <3>1. ~(s < 1) /\ Bags!ResolveEquippedBag(1) # {}
        BY <1>0, <2>1, <2>2
      <3> QED BY <1>0, <1>2, <3>1 DEF Bags!ResolveBagSlot, Bags!SlotAt
    <2> QED BY <1>0, <1>2, <2>2, <2>3
  <1> QED BY <1>1, <1>2

\* An item carried is at one slot of a bag, if any.
LEMMA Carried ==
  ASSUME Bags!InventoryAssumption, Bags!ItemsInv, NEW p \in Bags!AllPlaces, shown[p].id # 0
  PROVE  LET C == UNION {{<<b, s>> :
                          s \in {t \in 1..Bags!GetBagNumSlots(b) :
                                 Bags!ResolveBagSlot(b, t) = {shown[p].id}}} :
                            b \in 0..1}
             Has(b, s) == b \in 0..1 /\ s \in 1..Bags!GetBagNumSlots(b) /\ Bags!SlotAt(b, s) = p
         IN  /\ \A b, s : Has(b, s) => C = {<<b, s>>}
             /\ (\A b, s : ~Has(b, s)) => C = {}
             /\ \A b, s : Has(b, s) => Bags!ResolveBagSlot(b, s) = {shown[p].id}
  <1> DEFINE At(b) == {t \in 1..Bags!GetBagNumSlots(b) :
                       Bags!ResolveBagSlot(b, t) = {shown[p].id}}
             C == UNION {{<<b, s>> : s \in At(b)} : b \in 0..1}
             Has(b, s) == b \in 0..1 /\ s \in 1..Bags!GetBagNumSlots(b) /\ Bags!SlotAt(b, s) = p
  <1>1. ASSUME NEW b \in 0..1, NEW s \in 1..Bags!GetBagNumSlots(b)
        PROVE  Bags!ResolveBagSlot(b, s) = {shown[p].id} <=> Bags!SlotAt(b, s) = p
    BY SlotsNamed, OneItem
  <1>2. ASSUME NEW b, NEW s PROVE b \in 0..1 /\ s \in At(b) <=> Has(b, s)
    BY <1>1
  <1>3. ASSUME NEW c PROVE c \in C <=> \E b \in 0..1 : \E s \in At(b) : c = <<b, s>>
    <2> HIDE DEF At
    <2> QED OBVIOUS
  <1>4. ASSUME NEW b, NEW s, NEW c, NEW t, Has(b, s), Has(c, t) PROVE b = c /\ s = t
    <2>1. /\ s \in Int /\ t \in Int /\ Ranges[0].first \in Int
          /\ b \in {0, 1} /\ c \in {0, 1} /\ Bags!SlotAt(b, s) = Bags!SlotAt(c, t)
      BY <1>4, SlotsNamed DEF Bags!InventoryAssumption
    <2> QED BY <2>1 DEF Bags!SlotAt, Bags!Player, Bags!Bag
  <1> HIDE DEF At, C
  <1>5. ASSUME NEW b, NEW s, Has(b, s) PROVE C = {<<b, s>>}
    <2>1. <<b, s>> \in C
      BY <1>2, <1>3, <1>5
    <2>2. ASSUME NEW c \in C PROVE c = <<b, s>>
      <3>1. PICK x \in 0..1 : \E y \in At(x) : c = <<x, y>>
        BY <1>3, <2>2
      <3>2. PICK y \in At(x) : c = <<x, y>>
        BY <3>1
      <3>3. Has(x, y)
        BY <1>2, <3>2
      <3> HIDE DEF Has
      <3> QED BY <1>4, <1>5, <3>2, <3>3
    <2> QED BY <2>1, <2>2
  <1>6. ASSUME \A b, s : ~Has(b, s) PROVE C = {}
    <2> HIDE DEF Has
    <2> QED BY <1>2, <1>3, <1>6
  <1>7. \A b, s : Has(b, s) => Bags!ResolveBagSlot(b, s) = {shown[p].id}
    BY <1>1
  <1> QED BY <1>5, <1>6, <1>7 DEF C, At

\* So the ways to an item carried agree.
LEMMA LocationsAreOne == ASSUME Bags!InventoryAssumption, Bags!ItemsInv PROVE Bags!LocationsAgree
  <1> SUFFICES ASSUME NEW p \in Bags!AllPlaces, shown[p].id # 0
               PROVE  /\ \A loc \in Bags!GetItemLocation(shown[p].id) :
                         Bags!Resolve(loc) = {shown[p].id}
                      /\ Cardinality(Bags!GetItemLocation(shown[p].id)) <= 1
                      /\ Bags!GetItemLocation(shown[p].id) = {} <=>
                          /\ p[1] = "player" /\ p[2] >= EquipmentSlots
                          /\ p[2] \notin Ranges[0].first..Ranges[0].last
    BY PlacesCounted DEF Bags!LocationsAgree
  <1> DEFINE id == shown[p].id
             wearing == {s \in 1..EquipmentSlots : Bags!ResolveEquipmentSlot(s) = {id}}
             C == UNION {{<<b, s>> :
                          s \in {t \in 1..Bags!GetBagNumSlots(b) :
                                 Bags!ResolveBagSlot(b, t) = {id}}} :
                            b \in 0..1}
             Has(b, s) == b \in 0..1 /\ s \in 1..Bags!GetBagNumSlots(b) /\ Bags!SlotAt(b, s) = p
             L == Bags!GetItemLocation(id)
  <1>0. /\ Ranges[0].first \in Int /\ Ranges[0].last \in Int /\ Ranges[0].first <= Ranges[0].last
        /\ BagSlot \in Nat /\ EquipmentSlots \in 0..BagSlot /\ BagSlot < Ranges[0].first
        /\ slotCount \in Nat /\ bagSize \in Nat
    BY DEF Bags!InventoryAssumption, Bags!ItemsInv, Bags!MovesInv
  <1>1. L = IF wearing # {} THEN {[equipmentSlotIndex |-> s] : s \in wearing}
            ELSE {[bagID |-> c[1], slotIndex |-> c[2]] : c \in C}
    BY DEF Bags!GetItemLocation
  <1>2. /\ \A b, s : Has(b, s) => C = {<<b, s>>}
        /\ (\A b, s : ~Has(b, s)) => C = {}
        /\ \A b, s : Has(b, s) => Bags!ResolveBagSlot(b, s) = {id}
    BY Carried
  <1>3. \A s \in 1..EquipmentSlots : Bags!ResolveEquipmentSlot(s) = {id}
        <=> Bags!Player(s - 1) = p
    BY OneItem DEF Bags!ResolveEquipmentSlot
  <1>4. ASSUME NEW s, Has(0, s) PROVE p[1] = "player" /\ p[2] \in Ranges[0].first..Ranges[0].last
    <2>1. s \in 1..Ranges[0].last - Ranges[0].first + 1
          /\ p = Bags!Player(Ranges[0].first + s - 1)
      BY <1>4, SlotsNamed DEF Bags!SlotAt
    <2> QED BY <1>0, <2>1 DEF Bags!Player
  <1>5. ASSUME NEW s, Has(1, s) PROVE p[1] = "bag"
    BY <1>5 DEF Bags!SlotAt, Bags!Bag
  <1> DEFINE one == \E x : L = {x} /\ Bags!Resolve(x) = {id}
  <1>6. CASE \E l \in 0..EquipmentSlots - 1 : p = Bags!Player(l)
    <2>1. PICK l \in 0..EquipmentSlots - 1 : p = Bags!Player(l)
      BY <1>6
    <2>2. \A s \in 1..EquipmentSlots : Bags!Player(s - 1) = p <=> s = l + 1
      BY <1>0, <2>1 DEF Bags!Player
    <2>3. wearing = {l + 1} /\ l + 1 \in 1..EquipmentSlots
      BY <1>0, <1>3, <2>2
    <2>4. L = {[equipmentSlotIndex |-> l + 1]}
      <3> HIDE DEF wearing, C, L
      <3> QED BY <1>1, <2>3
    <2>5. Bags!Resolve([equipmentSlotIndex |-> l + 1]) = {id}
      BY <1>3, <2>2, <2>3 DEF Bags!Resolve
    <2>6. p[2] = l /\ ~(l >= EquipmentSlots)
      BY <1>0, <2>1 DEF Bags!Player
    <2> HIDE DEF L
    <2>7. Cardinality(L) = 1 /\ L # {}
      BY <2>4, FS_Singleton
    <2> QED BY <2>4, <2>5, <2>6, <2>7 DEF L
  <1>7. CASE ~\E l \in 0..EquipmentSlots - 1 : p = Bags!Player(l)
    <2>1. wearing = {}
      <3>1. \A s \in 1..EquipmentSlots : s - 1 \in 0..EquipmentSlots - 1
        BY <1>0
      <3> QED BY <1>3, <1>7, <3>1
    <2>2. L = {[bagID |-> c[1], slotIndex |-> c[2]] : c \in C}
      <3> HIDE DEF wearing, C, L
      <3> QED BY <1>1, <2>1
    <2>3. ASSUME NEW b, NEW s, Has(b, s)
          PROVE  /\ L = {[bagID |-> b, slotIndex |-> s]}
                 /\ Bags!Resolve([bagID |-> b, slotIndex |-> s]) = {id}
      <3>1. C = {<<b, s>>}
        BY <1>2, <2>3
      <3>2. L = {[bagID |-> b, slotIndex |-> s]}
        <4> HIDE DEF C, L
        <4> QED BY <2>2, <3>1
      <3>3. Bags!Resolve([bagID |-> b, slotIndex |-> s]) = Bags!ResolveBagSlot(b, s)
        BY DEF Bags!Resolve
      <3> QED BY <1>2, <2>3, <3>2, <3>3
    <2>4. CASE \E b, s : Has(b, s)
      <3>1. PICK b, s : Has(b, s)
        BY <2>4
      <3>2. L = {[bagID |-> b, slotIndex |-> s]}
            /\ Bags!Resolve([bagID |-> b, slotIndex |-> s]) = {id}
        BY <2>3, <3>1
      <3>3. ~(/\ p[1] = "player" /\ p[2] >= EquipmentSlots
              /\ p[2] \notin Ranges[0].first..Ranges[0].last)
        <4>1. b = 0 \/ b = 1
          BY <3>1
        <4> HIDE DEF Has
        <4> QED BY <1>4, <1>5, <3>1, <4>1
      <3> HIDE DEF L
      <3>4. Cardinality(L) = 1 /\ L # {}
        BY <3>2, FS_Singleton
      <3> QED BY <3>2, <3>3, <3>4 DEF L
    <2>5. CASE ~\E b, s : Has(b, s)
      <3>1. C = {}
        BY <1>2, <2>5
      <3>2. L = {}
        <4> HIDE DEF C, L
        <4> QED BY <2>2, <3>1
      <3>3. /\ p[1] = "player" /\ p[2] >= EquipmentSlots
            /\ p[2] \notin Ranges[0].first..Ranges[0].last
        <4>1. CASE \E l \in 0..slotCount - 1 : p = Bags!Player(l)
          <5>1. PICK l \in 0..slotCount - 1 : p = Bags!Player(l)
            BY <4>1
          <5>2. l \notin 0..EquipmentSlots - 1
            BY <1>7, <5>1
          <5>3. p[1] = "player" /\ p[2] = l /\ l \in Nat
            BY <1>0, <5>1 DEF Bags!Player
          <5>4. ASSUME l \in Ranges[0].first..Ranges[0].last PROVE FALSE
            <6> DEFINE s == l - Ranges[0].first + 1
            <6>1. s \in 1..Ranges[0].last - Ranges[0].first + 1 /\ Ranges[0].first + s - 1 = l
              BY <1>0, <5>4
            <6>2. Has(0, s)
              <7> HIDE DEF s
              <7> QED BY <5>1, <6>1, SlotsNamed DEF Bags!SlotAt
            <6> QED BY <2>5, <6>2
          <5> QED BY <1>0, <5>2, <5>3, <5>4
        <4>2. CASE \E l \in 0..bagSize - 1 : p = Bags!Bag(l)
          <5>1. PICK l \in 0..bagSize - 1 : p = Bags!Bag(l)
            BY <4>2
          <5>2. l + 1 \in 1..bagSize /\ (l + 1) - 1 = l
            BY <1>0
          <5>3. Has(1, l + 1)
            BY <5>1, <5>2, SlotsNamed DEF Bags!SlotAt
          <5> QED BY <2>5, <5>3
        <4> QED BY <4>1, <4>2 DEF Bags!AllPlaces
      <3> HIDE DEF L
      <3>4. Cardinality(L) = 0
        BY <3>2, FS_EmptySet
      <3> QED BY <3>2, <3>3, <3>4 DEF L
    <2> QED BY <2>4, <2>5
  <1> QED BY <1>6, <1>7

\* What the calls have room for is all that is under way.
LEMMA RoomKept ==
  ASSUME Bags!InventoryAssumption, Bags!MovesInv, Bags!InventoryNext,
         Len(requests) + Len(updates) <= MaxUnderWay
  PROVE  Len(requests') + Len(updates') <= MaxUnderWay
  <1>1. /\ requests \in Seq(Bags!Requests) /\ updates \in Seq({updates[i] : i \in DOMAIN updates})
        /\ MaxUnderWay \in Nat
    BY DEF Bags!MovesInv, Bags!InventoryAssumption
  <1>2. Len(requests) \in Nat /\ Len(updates) \in Nat
    BY <1>1
  <1>3. ASSUME NEW built, NEW asked, Bags!Sends(built, asked),
               Len(requests) + Len(updates) < MaxUnderWay
        PROVE  Len(requests') + Len(updates') <= MaxUnderWay
    <2>1. updates' = updates /\ \E r : requests' = Append(requests, r)
      BY <1>3 DEF Bags!Sends
    <2>2. Len(requests') = Len(requests) + 1
      BY <1>1, <2>1
    <2> QED BY <1>1, <1>2, <1>3, <2>1, <2>2
  <1>4. CASE Bags!ServerProcesses
    <2>1. requests # <<>> /\ requests' = Tail(requests) /\ updates' = Append(updates, held')
      BY <1>4 DEF Bags!ServerProcesses
    <2>2. Len(requests') = Len(requests) - 1
      BY <1>1, <2>1
    <2>3. Len(updates') = Len(updates) + 1
      BY <1>1, <2>1
    <2> QED BY <1>1, <1>2, <2>2, <2>3
  <1>5. CASE Bags!ClientUpdated
    <2>1. updates # <<>> /\ requests' = requests /\ updates' = Tail(updates)
      BY <1>5 DEF Bags!ClientUpdated
    <2>2. Len(updates') = Len(updates) - 1
      BY <1>1, <2>1
    <2> QED BY <1>1, <1>2, <2>1, <2>2
  <1>6. ASSUME NEW f \in Named, NEW t \in Named, Len(requests) + Len(updates) < MaxUnderWay,
               \/ Bags!SwapItems(f[1], f[2], t[1], t[2])
               \/ \E n \in 0..2 : Bags!MoveItem(f[1], f[2], t[1], t[2], n)
        PROVE  Len(requests') + Len(updates') <= MaxUnderWay
    BY <1>3, <1>6 DEF Bags!SwapItems, Bags!MoveItem
  <1> QED BY <1>4, <1>5, <1>6 DEF Bags!InventoryNext

-----------------------------------------------------------------------------
(* The sounds opened last (SoundFiles).                                    *)

CONSTANTS
    SoundFileNames, Spellings, RecentSlots, MaxOpens

VARIABLES
    recent, seq, muted, opened, silenced

Files    == INSTANCE SoundFiles

fileVars == <<recent, seq, muted, opened, silenced>>

\* Its sets are counted as ours are.
LEMMA SoundsCounted ==
  ASSUME NEW S
  PROVE  Files!Cardinality(S) = Cardinality(S) /\ (Files!IsFiniteSet(S) <=> IsFiniteSet(S))
  BY DEF Files!Cardinality, Cardinality, Files!IsFiniteSet, IsFiniteSet

\* No sound has been opened at first.
LEMMA RecentStarts == ASSUME Files!SoundAssumption, Files!SoundInit PROVE Files!RecentInv
  <1>1. Files!Unused \in [path : Files!SpelledPaths \cup {<<>>}, seq : 0..MaxOpens, muted :
                          BOOLEAN]
    BY DEF Files!Unused, Files!SoundAssumption
  <1>2. Files!UsedSlots = {}
    BY DEF Files!UsedSlots, Files!SoundInit, Files!Unused
  <1>3. opened \in [SoundFileNames -> [seq : 0..MaxOpens, plays : BOOLEAN]]
    BY DEF Files!SoundInit, Files!SoundAssumption
  <1>4. /\ recent \in [1..RecentSlots ->
              [path : Files!SpelledPaths \cup {<<>>}, seq : 0..MaxOpens, muted : BOOLEAN]]
        /\ seq = 0 /\ muted = {} /\ silenced = {} /\ 0 \in 0..MaxOpens
    BY <1>1 DEF Files!SoundInit, Files!SoundAssumption
  <1>5. \A f \in SoundFileNames : opened[f].seq = 0
    BY DEF Files!SoundInit
  <1> QED BY <1>2, <1>3, <1>4, <1>5 DEF Files!RecentInv, Files!SoundTypeOK

\* There is an oldest slot.
LEMMA OldestIsThere ==
  ASSUME Files!SoundAssumption, Files!SoundTypeOK
  PROVE  Files!Oldest \in 1..RecentSlots
         /\ \A j \in 1..RecentSlots : recent[Files!Oldest].seq <= recent[j].seq
  <1> DEFINE s(i) == recent[i].seq
             A == {s(i) : i \in 1..RecentSlots}
  <1>1. \A i \in 1..RecentSlots : s(i) \in Nat
    BY DEF Files!SoundTypeOK
  <1>2. 1 \in 1..RecentSlots
    BY DEF Files!SoundAssumption
  <1> HIDE DEF s
  <1>3. A \in SUBSET Nat /\ A # {}
    BY <1>1, <1>2
  <1>4. PICK m \in A : \A y \in A : m <= y
    <2> HIDE DEF A
    <2> QED BY <1>3, LeastNat
  <1> DEFINE I == {i \in 1..RecentSlots : s(i) = m}
  <1>5. I \in SUBSET Nat /\ I # {}
    BY <1>4
  <1>6. PICK i \in I : \A j \in I : i <= j
    <2> HIDE DEF I
    <2> QED BY <1>5, LeastNat
  <1>7. i \in 1..RecentSlots /\ s(i) = m
    BY <1>6
  <1>8. ASSUME NEW j \in 1..RecentSlots PROVE s(i) < s(j) \/ (s(i) = s(j) /\ i <= j)
    <2>1. m <= s(j) /\ m \in Nat /\ s(j) \in Nat
      BY <1>1, <1>3, <1>4
    <2>2. s(j) = m => j \in I
      OBVIOUS
    <2> QED BY <1>6, <1>7, <2>1, <2>2
  <1>9. /\ Files!Oldest \in 1..RecentSlots
        /\ \A j \in 1..RecentSlots : s(Files!Oldest) < s(j)
           \/ (s(Files!Oldest) = s(j) /\ Files!Oldest <= j)
    BY <1>7, <1>8 DEF Files!Oldest, s
  <1>10. \A j \in 1..RecentSlots : s(Files!Oldest) <= s(j)
    BY <1>1, <1>9, SMTT(30)
  <1> QED BY <1>9, <1>10 DEF s

\* A slot that is written anew, the file's own or else the oldest, holds the newest file.
LEMMA SlotWritten ==
  ASSUME Files!SoundAssumption, Files!RecentInv, seq < MaxOpens,
         NEW t \in 1..RecentSlots, NEW p \in Files!SpelledPaths, NEW q \in Files!SpelledPaths,
         p[1] = q[1],
         recent' = [recent EXCEPT ![t]
                    = [path |-> q, seq |-> seq + 1, muted |-> Files!IsMuted(p)]],
         seq' = seq + 1,
         opened' = [opened EXCEPT ![p[1]] = [seq |-> seq + 1, plays |-> ~Files!IsMuted(p)]],
         \A i \in Files!UsedSlots : Files!FileAt(i) = p[1] => i = t,
         \/ t \in Files!UsedSlots /\ Files!FileAt(t) = p[1]
         \/ \A j \in 1..RecentSlots : recent[t].seq <= recent[j].seq,
         UNCHANGED <<muted, silenced>>
  PROVE  Files!RecentInv'
  <1> DEFINE f == p[1]
             s == seq + 1
             new == [path |-> q, seq |-> s, muted |-> Files!IsMuted(p)]
             Slot == [path : Files!SpelledPaths \cup {<<>>}, seq : 0..MaxOpens, muted : BOOLEAN]
             Open == [seq : 0..MaxOpens, plays : BOOLEAN]
  <1>1. /\ recent \in [1..RecentSlots -> Slot] /\ seq \in 0..MaxOpens /\ MaxOpens \in Nat
        /\ opened \in [SoundFileNames -> Open] /\ muted \subseteq SoundFileNames
    BY DEF Files!RecentInv, Files!SoundTypeOK, Files!SoundAssumption
  <1>2. f \in SoundFileNames /\ s \in 1..MaxOpens /\ s # 0 /\ s \in Int /\ seq \in Int
    BY <1>1 DEF Files!SpelledPaths
  <1>3. new \in Slot /\ new.path = q /\ new.seq = s /\ new.muted = Files!IsMuted(p)
        /\ Files!IsMuted(p) \in BOOLEAN
    <2>1. Files!IsMuted(p) \in BOOLEAN
      BY DEF Files!IsMuted
    <2>2. s \in 0..MaxOpens
      BY <1>2
    <2> QED BY <2>1, <2>2
  <1>4. [seq |-> s, plays |-> ~Files!IsMuted(p)] \in Open
    BY <1>2, <1>3
  <1> HIDE DEF new, Slot
  <1>5. /\ recent' \in [1..RecentSlots -> Slot] /\ recent'[t] = new
        /\ \A i \in 1..RecentSlots : i # t => recent'[i] = recent[i]
    BY <1>1, <1>3 DEF new
  <1>6. /\ opened' \in [SoundFileNames -> Open]
        /\ opened'[f].seq = s /\ opened'[f].plays = ~Files!IsMuted(p)
        /\ \A g \in SoundFileNames : g # f => opened'[g] = opened[g]
    BY <1>1, <1>2, <1>4
  <1> HIDE DEF f, s, Open
  <1>7. Files!SoundTypeOK'
    BY <1>1, <1>2, <1>5, <1>6 DEF Files!SoundTypeOK, Slot, Open, s
  <1>8. /\ \A i \in 1..RecentSlots : recent[i].seq \in Nat
        /\ \A g \in SoundFileNames : opened[g].seq \in Nat /\ opened[g].seq <= seq
           /\ opened[g].seq < s
    <2>1. \A i \in 1..RecentSlots : recent[i] \in Slot
      BY <1>1
    <2>2. \A x \in Slot : x.seq \in Nat
      BY DEF Slot
    <2>3. \A g \in SoundFileNames : opened[g] \in Open
      BY <1>1
    <2>4. \A x \in Open : x.seq \in Nat
      BY DEF Open
    <2>5. \A g \in SoundFileNames : opened[g].seq <= seq
      BY DEF Files!RecentInv
    <2>6. \A x \in Nat : x <= seq => x < s
      BY <1>2 DEF s
    <2> QED BY <2>1, <2>2, <2>3, <2>4, <2>5, <2>6
  <1>9. Files!UsedSlots' = Files!UsedSlots \cup {t}
    BY <1>2, <1>3, <1>5 DEF Files!UsedSlots
  <1>10. \A i \in Files!UsedSlots : i # t
         => Files!FileAt(i) # f /\ Files!FileAt(i) \in SoundFileNames
    BY DEF f, Files!FileAt, Files!RecentInv, Files!SpelledPaths
  <1>11. Files!FileAt(t)' = f /\ \A i \in Files!UsedSlots : i # t => recent'[i] = recent[i]
    BY <1>3, <1>5 DEF Files!FileAt, f, Files!UsedSlots
  <1>12. ASSUME NEW i \in Files!UsedSlots'
         PROVE  /\ recent'[i].path \in Files!SpelledPaths
                /\ opened'[recent'[i].path[1]].seq = recent'[i].seq
                /\ recent'[i].muted = ~opened'[recent'[i].path[1]].plays
    <2>1. CASE i = t
      <3>1. recent'[i] = new /\ new.path[1] = f
        BY <1>3, <1>5, <2>1 DEF f
      <3>2. (~(~Files!IsMuted(p))) = Files!IsMuted(p)
        BY <1>3
      <3>3. recent'[i].path = q /\ recent'[i].seq = s /\ recent'[i].muted = Files!IsMuted(p)
            /\ recent'[i].path[1] = f
        BY <1>3, <3>1
      <3>4. recent'[i].muted = ~opened'[f].plays
        BY <1>6, <3>2, <3>3
      <3> QED BY <1>6, <3>3, <3>4
    <2>2. CASE i # t
      <3>1. i \in Files!UsedSlots /\ recent'[i] = recent[i]
        BY <1>9, <1>11, <2>2
      <3>2. opened'[Files!FileAt(i)] = opened[Files!FileAt(i)]
        BY <1>6, <1>10, <2>2, <3>1
      <3>3. recent[i].path \in Files!SpelledPaths /\ opened[Files!FileAt(i)].seq = recent[i].seq
            /\ recent[i].muted = ~opened[Files!FileAt(i)].plays
        BY <3>1 DEF Files!RecentInv
      <3> QED BY <3>1, <3>2, <3>3 DEF Files!FileAt
    <2> QED BY <2>1, <2>2
  <1>13. ASSUME NEW i \in Files!UsedSlots', NEW j \in Files!UsedSlots',
                recent'[i].path[1] = recent'[j].path[1]
         PROVE  i = j
    <2>1. \A k \in Files!UsedSlots' : k # t =>
            k \in Files!UsedSlots /\ recent'[k].path[1] = Files!FileAt(k) /\ Files!FileAt(k) # f
      BY <1>9, <1>10, <1>11 DEF Files!FileAt
    <2>2. recent'[t].path[1] = f
      BY <1>11 DEF Files!FileAt
    <2>3. \A k, l \in Files!UsedSlots : Files!FileAt(k) = Files!FileAt(l) => k = l
      BY DEF Files!RecentInv
    <2> QED BY <1>13, <2>1, <2>2, <2>3
  <1>14. \A g \in SoundFileNames : opened'[g].seq <= seq'
    <2>1. seq' = s
      BY DEF s
    <2> QED BY <1>2, <1>6, <1>8, <2>1
  <1>15. ASSUME NEW g \in SoundFileNames, NEW h \in SoundFileNames,
                opened'[g].seq = opened'[h].seq, opened'[g].seq # 0
         PROVE  g = h
    <2>1. \A k \in SoundFileNames : k # f => opened'[k].seq = opened[k].seq /\ opened'[k].seq # s
      BY <1>2, <1>6, <1>8
    <2>2. opened[g].seq = opened[h].seq /\ opened[g].seq # 0 => g = h
      BY DEF Files!RecentInv
    <2> QED BY <1>6, <1>15, <2>1, <2>2
  <1>16. ASSUME NEW g \in SoundFileNames, opened'[g].seq # 0
         PROVE  \/ \E i \in Files!UsedSlots' : recent'[i].path[1] = g
                \/ \A j \in 1..RecentSlots : recent'[j].seq > opened'[g].seq
    <2>1. CASE g = f
      BY <1>9, <1>11, <2>1 DEF Files!FileAt
    <2>2. CASE g # f
      <3>1. opened'[g] = opened[g] /\ opened[g].seq # 0 /\ recent'[t].seq > opened[g].seq
            /\ opened[g].seq \in Nat
        <4>1. recent'[t].seq = s /\ opened[g].seq < s
          BY <1>3, <1>5, <1>8
        <4> QED BY <1>2, <1>6, <1>8, <1>16, <2>2, <4>1
      <3>2. CASE \A j \in 1..RecentSlots : recent[j].seq > opened[g].seq
        BY <1>5, <3>1, <3>2
      <3>3. ASSUME NEW i \in Files!UsedSlots, Files!FileAt(i) = g, i # t
            PROVE  \E k \in Files!UsedSlots' : recent'[k].path[1] = g
        BY <1>9, <1>11, <3>3 DEF Files!FileAt
      <3>4. ASSUME t \in Files!UsedSlots, Files!FileAt(t) = g
            PROVE  \A j \in 1..RecentSlots : recent'[j].seq > opened[g].seq
        <4> SUFFICES ASSUME NEW j \in 1..RecentSlots, j # t PROVE recent[j].seq > opened[g].seq
          BY <1>5, <3>1
        <4>1. recent[t].seq = opened[g].seq
          BY <3>4 DEF Files!RecentInv
        <4>2. recent[t].seq <= recent[j].seq
          BY <2>2, <3>4 DEF f
        <4>3. recent[j].seq # recent[t].seq
          <5> SUFFICES ASSUME recent[j].seq = recent[t].seq PROVE FALSE
            OBVIOUS
          <5>1. j \in Files!UsedSlots
            BY <3>1, <4>1 DEF Files!UsedSlots
          <5>2. opened[Files!FileAt(j)].seq = opened[g].seq /\ Files!FileAt(j) \in SoundFileNames
            BY <4>1, <5>1 DEF Files!RecentInv, Files!FileAt, Files!SpelledPaths
          <5>3. Files!FileAt(j) = g
            BY <3>1, <5>2 DEF Files!RecentInv
          <5> QED BY <3>4, <5>1, <5>3 DEF Files!RecentInv
        <4> QED BY <1>8, <4>1, <4>2, <4>3
      <3>5. \/ \E i \in Files!UsedSlots : Files!FileAt(i) = g
            \/ \A j \in 1..RecentSlots : recent[j].seq > opened[g].seq
        BY <3>1 DEF Files!RecentInv
      <3> QED BY <3>1, <3>2, <3>3, <3>4, <3>5
    <2> QED BY <2>1, <2>2
  <1>17. silenced' = muted'
    BY SMTT(30) DEF Files!RecentInv
  <1>18. /\ \A i \in Files!UsedSlots' : /\ recent'[i].path \in Files!SpelledPaths
                                        /\ opened'[recent'[i].path[1]].seq = recent'[i].seq
                                        /\ recent'[i].muted = ~opened'[recent'[i].path[1]].plays
         /\ \A i, j \in Files!UsedSlots' : recent'[i].path[1] = recent'[j].path[1] => i = j
         /\ \A g, h \in SoundFileNames :
                opened'[g].seq = opened'[h].seq /\ opened'[g].seq # 0 => g = h
         /\ \A g \in SoundFileNames : opened'[g].seq # 0 =>
                \/ \E i \in Files!UsedSlots' : recent'[i].path[1] = g
                \/ \A j \in 1..RecentSlots : recent'[j].seq > opened'[g].seq
    BY <1>12, <1>13, <1>15, <1>16
  <1> QED BY <1>7, <1>14, <1>17, <1>18 DEF Files!RecentInv, Files!FileAt

\* Each opening keeps the files opened last in the slots.
LEMMA RecentStays == ASSUME Files!SoundAssumption, Files!RecentInv, Files!SoundNext
                     PROVE  Files!RecentInv'
  <1>1. ASSUME NEW p \in Files!SpelledPaths, Files!CreateWaveData(p) PROVE Files!RecentInv'
    <2> DEFINE own == {i \in 1..RecentSlots : recent[i].seq # 0
                       /\ Files!SamePath(recent[i].path, p)}
    <2>1. /\ seq < MaxOpens /\ seq' = seq + 1 /\ UNCHANGED <<muted, silenced>>
          /\ opened' = [opened EXCEPT ![p[1]] = [seq |-> seq + 1, plays |-> ~Files!IsMuted(p)]]
      BY <1>1 DEF Files!CreateWaveData, Files!Record
    <2>2. own = {i \in Files!UsedSlots : Files!FileAt(i) = p[1]}
      BY DEF Files!UsedSlots, Files!FileAt, Files!SamePath, Files!Normalize
    <2>3. CASE own # {}
      <3>1. PICK t \in own : TRUE
        BY <2>3
      <3>2. t \in Files!UsedSlots /\ Files!FileAt(t) = p[1] /\ t \in 1..RecentSlots
            /\ \A i \in Files!UsedSlots : Files!FileAt(i) = p[1] => i = t
        BY <2>2, <3>1 DEF Files!RecentInv
      <3>3. own = {t}
        BY <2>2, <3>2
      <3>4. recent' = [i \in 1..RecentSlots |-> IF i \in own
                 THEN [path |-> recent[i].path, seq |-> seq + 1, muted |-> Files!IsMuted(p)]
                 ELSE recent[i]]
        BY <1>1, <2>3 DEF Files!CreateWaveData, Files!Record
      <3>6. DOMAIN recent = 1..RecentSlots
        BY DEF Files!RecentInv, Files!SoundTypeOK
      <3> HIDE DEF own
      <3>7. recent' = [recent EXCEPT ![t]
                       = [path |-> recent[t].path, seq |-> seq + 1, muted |-> Files!IsMuted(p)]]
        BY <3>2, <3>3, <3>4, <3>6
      <3>8. recent[t].path \in Files!SpelledPaths /\ p[1] = recent[t].path[1]
        BY <3>2 DEF Files!RecentInv, Files!FileAt
      <3> QED BY <2>1, <3>2, <3>7, <3>8, SlotWritten
    <2>4. CASE own = {}
      <3>1. recent' = [recent EXCEPT ![Files!Oldest]
                       = [path |-> p, seq |-> seq + 1, muted |-> Files!IsMuted(p)]]
        BY <1>1, <2>4 DEF Files!CreateWaveData, Files!Record
      <3>2. Files!Oldest \in 1..RecentSlots
            /\ \A j \in 1..RecentSlots : recent[Files!Oldest].seq <= recent[j].seq
        BY OldestIsThere DEF Files!RecentInv
      <3>3. \A i \in Files!UsedSlots : Files!FileAt(i) # p[1]
        BY <2>2, <2>4
      <3> QED BY <2>1, <3>1, <3>2, <3>3, SlotWritten
    <2> QED BY <2>3, <2>4
  <1>2. ASSUME UNCHANGED <<recent, seq, opened>>, silenced' = muted',
               muted' \subseteq SoundFileNames
        PROVE  Files!RecentInv'
    BY <1>2 DEF Files!RecentInv, Files!SoundTypeOK, Files!UsedSlots, Files!FileAt
  <1>3. ASSUME NEW p \in Files!SpelledPaths PROVE p[1] \in SoundFileNames
    BY DEF Files!SpelledPaths
  <1>4. muted \subseteq SoundFileNames /\ silenced = muted
    BY DEF Files!RecentInv, Files!SoundTypeOK
  <1>5. ASSUME NEW p \in Files!SpelledPaths, Files!MuteSoundFile(p) \/ Files!UnmuteSoundFile(p)
        PROVE  Files!RecentInv'
    BY <1>2, <1>3, <1>4, <1>5 DEF Files!MuteSoundFile, Files!UnmuteSoundFile, Files!Normalize
  <1>6. CASE Files!SoundReload
    BY <1>2, <1>6 DEF Files!SoundReload
  <1> QED BY <1>1, <1>5, <1>6 DEF Files!SoundNext

\* So the recent sounds are the ones opened last.
LEMMA RecentIsRight == ASSUME Files!SoundAssumption, Files!RecentInv PROVE Files!RecentRight
  <1> DEFINE F == {f \in SoundFileNames : opened[f].seq # 0}
             U == Files!UsedSlots
             file == [i \in U |-> Files!FileAt(i)]
             R == {x \in U \X U : recent[x[1]].seq > recent[x[2]].seq}
  <1>1. /\ \A i \in 1..RecentSlots : recent[i].seq \in Nat
        /\ \A g \in SoundFileNames : opened[g].seq \in Nat
        /\ RecentSlots \in Nat /\ IsFiniteSet(SoundFileNames)
    BY SoundsCounted DEF Files!RecentInv, Files!SoundTypeOK, Files!SoundAssumption
  <1>2. U \in SUBSET (1..RecentSlots) /\ \A i \in U : recent[i].seq # 0
    BY DEF Files!UsedSlots
  <1>3. \A i \in U : Files!FileAt(i) \in F /\ opened[Files!FileAt(i)].seq = recent[i].seq
    <2>1. ASSUME NEW i \in U
          PROVE  /\ recent[i].path \in SoundFileNames \X Spellings
                 /\ opened[Files!FileAt(i)].seq = recent[i].seq
      BY DEF Files!RecentInv, Files!SpelledPaths
    <2>2. \A i \in U : Files!FileAt(i) \in SoundFileNames
      BY <2>1 DEF Files!FileAt
    <2> HIDE DEF U
    <2> QED BY <1>2, <2>1, <2>2
  <1>4. \A i, j \in U : Files!FileAt(i) = Files!FileAt(j) => i = j
    BY DEF Files!RecentInv
  <1>5. \A i, j \in U : recent[i].seq = recent[j].seq => i = j
    BY <1>2, <1>3, <1>4 DEF Files!RecentInv
  <1>6. \A g \in F : (\E i \in U : Files!FileAt(i) = g)
        \/ \A j \in 1..RecentSlots : recent[j].seq > opened[g].seq
    BY DEF Files!RecentInv
  <1>7. /\ IsFiniteSet(1..RecentSlots) /\ Cardinality(1..RecentSlots) = RecentSlots
        /\ IsFiniteSet(U) /\ Cardinality(U) \in Nat /\ Cardinality(U) <= RecentSlots
        /\ IsFiniteSet(F) /\ Cardinality(F) \in Nat
    <2>1. IsFiniteSet(1..RecentSlots) /\ Cardinality(1..RecentSlots) = RecentSlots
      BY <1>1, FS_Interval
    <2>2. IsFiniteSet(U) /\ Cardinality(U) <= RecentSlots
      BY <1>2, <2>1, FS_Subset
    <2>3. IsFiniteSet(F)
      BY <1>1, FS_Subset
    <2> HIDE DEF F, U
    <2> QED BY <2>1, <2>2, <2>3, FS_CardinalityType
  <1> HIDE DEF U, F
  <1>8. file \in Injection(U, F)
    <2>1. file \in [U -> F]
      BY <1>3
    <2> QED BY <1>4, <2>1 DEF Injection, IsInjective
  <1>9. Cardinality(U) = IF Cardinality(F) < RecentSlots THEN Cardinality(F) ELSE RecentSlots
    <2>1. Cardinality(U) <= Cardinality(F)
      BY <1>7, <1>8, FS_Injection
    <2>2. CASE \A g \in F : \E i \in U : Files!FileAt(i) = g
      <3>1. file \in Surjection(U, F)
        BY <1>3, <2>2 DEF Surjection
      <3>2. Cardinality(U) = Cardinality(F)
        BY <1>7, <1>8, <3>1, FS_Injection
      <3> QED BY <1>1, <1>7, <3>2
    <2>3. CASE ~\A g \in F : \E i \in U : Files!FileAt(i) = g
      <3>1. PICK g \in F : \A j \in 1..RecentSlots : recent[j].seq > opened[g].seq
        BY <1>6, <2>3
      <3>2. opened[g].seq \in Nat
        BY <1>1 DEF F
      <3>3. \A j \in 1..RecentSlots : recent[j].seq # 0
        BY <1>1, <3>1, <3>2
      <3>4. U = 1..RecentSlots
        BY <3>3 DEF U, Files!UsedSlots
      <3> QED BY <1>1, <1>7, <2>1, <3>4
    <2> QED BY <2>2, <2>3
  <1>10. \A x, y \in U : <<x, y>> \in R <=> recent[x].seq > recent[y].seq
    OBVIOUS
  <1>11. \A x \in U : recent[x].seq \in Nat
    BY <1>1, <1>2
  <1> HIDE DEF R
  <1>12. ASSUME NEW n \in 1..Cardinality(U) PROVE \E i \in U : Cardinality(Files!Newer(i)) = n - 1
    <2>1. \A x \in U : <<x, x>> \notin R
      BY <1>10, <1>11
    <2>2. \A x, y \in U : x = y \/ <<x, y>> \in R \/ <<y, x>> \in R
      <3> SUFFICES ASSUME NEW x \in U, NEW y \in U, x # y PROVE <<x, y>> \in R \/ <<y, x>> \in R
        OBVIOUS
      <3>1. recent[x].seq # recent[y].seq /\ recent[x].seq \in Nat /\ recent[y].seq \in Nat
        BY <1>5, <1>11
      <3>2. recent[x].seq > recent[y].seq \/ recent[y].seq > recent[x].seq
        BY <3>1
      <3> QED BY <1>10, <3>2
    <2>3. \A x, y, z \in U : <<x, y>> \in R /\ <<y, z>> \in R => <<x, z>> \in R
      BY <1>10, <1>11
    <2>4. \A k \in 1..Cardinality(U) : \E x \in U :
          Cardinality({y \in U : <<y, x>> \in R}) = k - 1
      BY <1>7, <2>1, <2>2, <2>3, EachInOrder, ZenonT(60)
    <2>5. \A x \in U : {y \in U : <<y, x>> \in R} = Files!Newer(x)
      BY <1>10 DEF Files!Newer, U
    <2> QED BY <2>4, <2>5
  <1>13. ASSUME NEW i \in U
         PROVE  Cardinality({g \in SoundFileNames : opened[g].seq > opened[Files!FileAt(i)].seq})
                  = Cardinality(Files!Newer(i))
    <2> DEFINE G == {g \in SoundFileNames : opened[g].seq > opened[Files!FileAt(i)].seq}
               N == Files!Newer(i)
               b == [j \in N |-> Files!FileAt(j)]
    <2>1. N \in SUBSET U
      BY DEF Files!Newer, U
    <2>2. \A j \in N : Files!FileAt(j) \in G
      BY <1>3 DEF Files!Newer, F, U
    <2>3. ASSUME NEW g \in G PROVE \E j \in N : Files!FileAt(j) = g
      <3>1. opened[g].seq > recent[i].seq /\ g \in SoundFileNames /\ i \in 1..RecentSlots
        BY <1>2, <1>3
      <3>2. g \in F
        BY <1>1, <3>1 DEF F
      <3>3. ~(recent[i].seq > opened[g].seq)
        BY <1>1, <3>1
      <3>4. PICK j \in U : Files!FileAt(j) = g
        BY <1>6, <3>1, <3>2, <3>3
      <3>5. recent[j].seq > recent[i].seq
        BY <1>3, <3>1, <3>4
      <3> QED BY <3>4, <3>5 DEF Files!Newer, U
    <2>4. IsFiniteSet(N)
      BY <1>7, <2>1, FS_Subset
    <2> HIDE DEF G, N
    <2>5. b \in Bijection(N, G)
      <3>1. b \in [N -> G]
        BY <2>2
      <3>2. b \in Injection(N, G)
        BY <1>4, <2>1, <3>1 DEF Injection, IsInjective
      <3>3. b \in Surjection(N, G)
        BY <2>3, <3>1 DEF Surjection
      <3> QED BY <3>2, <3>3 DEF Bijection
    <2>6. ExistsBijection(N, G)
      BY <2>5 DEF ExistsBijection
    <2>7. Cardinality(G) = Cardinality(N)
      BY <2>4, <2>6, FS_Bijection
    <2> QED BY <2>7 DEF G, N
  <1>14. ASSUME NEW n \in DOMAIN Files!GetRecentSoundFiles
         PROVE  LET r == Files!GetRecentSoundFiles[n] IN
                /\ Cardinality({f \in SoundFileNames : opened[f].seq > opened[r.file].seq})
                   = n - 1
                /\ r.muted = ~opened[r.file].plays
    <2> DEFINE i == CHOOSE i \in Files!UsedSlots : Cardinality(Files!Newer(i)) = n - 1
    <2>1. n \in 1..Cardinality(U)
      BY SoundsCounted DEF Files!GetRecentSoundFiles, U
    <2>2. i \in U /\ Cardinality(Files!Newer(i)) = n - 1
      BY <1>12, <2>1 DEF U
    <2>3. Files!GetRecentSoundFiles[n] = [file |-> recent[i].path[1], muted |-> recent[i].muted]
      BY <2>1, SoundsCounted DEF Files!GetRecentSoundFiles, U
    <2> HIDE DEF i
    <2>4. recent[i].muted = ~opened[Files!FileAt(i)].plays
      BY <2>2 DEF Files!RecentInv, U
    <2>5. Files!GetRecentSoundFiles[n].file = Files!FileAt(i)
          /\ Files!GetRecentSoundFiles[n].muted = recent[i].muted
      BY <2>3 DEF Files!FileAt
    <2> QED BY <1>13, <2>2, <2>4, <2>5
  <1>15. DOMAIN Files!GetRecentSoundFiles = 1..Cardinality(U)
    BY SoundsCounted DEF Files!GetRecentSoundFiles, U
  <1>16. \A p \in Files!SpelledPaths : Files!IsMuted(p) <=> p[1] \in silenced
    BY DEF Files!RecentInv, Files!IsMuted, Files!Normalize
  <1> QED BY <1>9, <1>14, <1>15, <1>16, SoundsCounted DEF Files!RecentRight, F

-----------------------------------------------------------------------------
(* Factions (Reputation).                                                  *)

CONSTANTS
    FactionDbc, Headers, MaxStanding

VARIABLES
    delta, watched, collapsed, notifying, packet, last, told

Rep      == INSTANCE Reputation WITH Dbc <- FactionDbc

repVars == <<delta, watched, collapsed, notifying, packet, last, told>>

\* Its sets are counted as ours are.
LEMMA FactionsCounted ==
  ASSUME NEW S
  PROVE  Rep!Cardinality(S) = Cardinality(S) /\ (Rep!IsFiniteSet(S) <=> IsFiniteSet(S))
  BY DEF Rep!Cardinality, Cardinality, Rep!IsFiniteSet, IsFiniteSet

\* Scripts know the standings they log in with.
LEMMA StandingsStart ==
  ASSUME Rep!ReputationAssumption, Rep!ReputationInit
  PROVE  Rep!StandingsInv
  <1>1. \A f \in Rep!Ranked : FactionDbc[f].base \in Int
    BY DEF Rep!ReputationAssumption, Rep!Ranked
  <1>2. delta \in [Rep!Ranked -> Int] /\ told \in [Rep!Ranked -> Int]
    BY <1>1 DEF Rep!ReputationInit, Rep!GetFactionStandings
  <1>3. \A f \in Rep!Ranked : told[f] = FactionDbc[f].base + delta[f]
    BY DEF Rep!ReputationInit, Rep!GetFactionStandings
  <1>4. notifying = "idle" /\ notifying \in Rep!Stages /\ packet \in Seq(Rep!Ranked \X Int)
    BY SMTT(60) DEF Rep!ReputationInit, Rep!Stages
  <1> QED BY <1>2, <1>3, <1>4 DEF Rep!StandingsInv

\* Between an update of a standing and its event one faction is behind, the one that the
\* event is about to name, however many factions a packet holds.
LEMMA StandingsStay ==
  ASSUME Rep!ReputationAssumption, Rep!StandingsInv, Rep!ReputationNext
  PROVE  Rep!StandingsInv'
  <1>a. \A f \in Rep!Ranked : FactionDbc[f].base \in Int
    BY DEF Rep!ReputationAssumption, Rep!Ranked
  <1> USE DEF Rep!StandingsInv
  <1>1. ASSUME NEW f \in Rep!Ranked, NEW g \in Rep!Ranked, NEW d \in -1..1, NEW e \in -1..1,
               Rep!Arrives(<<<<f, d>>, <<g, e>>>>)
        PROVE  Rep!StandingsInv'
    <2>1. packet' \in Seq(Rep!Ranked \X Int)
      BY <1>1 DEF Rep!Arrives
    <2> QED BY <1>1, <2>1 DEF Rep!Arrives
  <1>2. CASE Rep!FireNotify
    <2> DEFINE f == packet[1][1]
               d == packet[1][2]
    <2>1. f \in Rep!Ranked /\ d \in Int /\ packet' \in Seq(Rep!Ranked \X Int)
      <3>1. packet # <<>> /\ packet' = Tail(packet) /\ packet \in Seq(Rep!Ranked \X Int)
        BY <1>2 DEF Rep!FireNotify
      <3>2. packet[1] \in Rep!Ranked \X Int /\ Tail(packet) \in Seq(Rep!Ranked \X Int)
        BY <3>1
      <3> QED BY <3>1, <3>2
    <2>2. /\ notifying = "idle" /\ delta' = [delta EXCEPT ![f] = @ + d] /\ told' = told
          /\ notifying' = IF d = 0 THEN "idle" ELSE "message"
          /\ d # 0 => last' = [faction |-> f, standing |-> FactionDbc[f].base + delta'[f],
                               gained |-> d]
      BY <1>2 DEF Rep!FireNotify
    <2>3. delta' \in [Rep!Ranked -> Int] /\ notifying' \in Rep!Stages
      BY <2>1, <2>2 DEF Rep!Stages
    <2>4. ASSUME NEW g \in Rep!Ranked
          PROVE  told'[g] = FactionDbc[g].base + delta'[g]
                 \/ (notifying' = "message" /\ g = last'.faction)
      <3>1. told[g] = FactionDbc[g].base + delta[g]
        BY <2>2
      <3>2. CASE g # f \/ d = 0
        <4>1. delta'[g] = delta[g]
          BY <2>1, <2>2, <3>2
        <4> QED BY <2>2, <3>1, <4>1
      <3>3. CASE g = f /\ d # 0
        BY <2>2, <3>3
      <3> QED BY <3>2, <3>3
    <2>5. notifying' # "idle" => last'.faction \in Rep!Ranked
          /\ last'.standing = FactionDbc[last'.faction].base + delta'[last'.faction]
      BY <2>1, <2>2, SMTT(30)
    <2> QED BY <2>1, <2>2, <2>3, <2>4, <2>5
  <1>3. CASE Rep!FiresEvent
    <2>1. /\ notifying = "message" /\ notifying' = "event" /\ delta' = delta /\ packet' = packet
          /\ last' = last
          /\ told' = [told EXCEPT ![last.faction] = last.standing]
          /\ last.faction \in Rep!Ranked
          /\ last.standing = FactionDbc[last.faction].base + delta[last.faction]
      BY <1>3 DEF Rep!FiresEvent
    <2>2. told' \in [Rep!Ranked -> Int] /\ notifying' \in Rep!Stages
      BY <1>a, <2>1 DEF Rep!Stages
    <2>3. ASSUME NEW g \in Rep!Ranked PROVE told'[g] = FactionDbc[g].base + delta'[g]
      BY <2>1
    <2> QED BY <2>1, <2>2, <2>3
  <1>4. CASE Rep!NotifyReturns
    BY <1>4 DEF Rep!NotifyReturns, Rep!Stages
  <1>5. ASSUME NEW h, Rep!Collapses(h) PROVE Rep!StandingsInv'
    BY <1>5 DEF Rep!Collapses
  <1>6. ASSUME NEW f, Rep!SetWatchedFactionByID(f) PROVE Rep!StandingsInv'
    BY <1>6 DEF Rep!SetWatchedFactionByID
  <1> QED BY <1>1, <1>2, <1>3, <1>4, <1>5, <1>6 DEF Rep!ReputationNext

\* So scripts know every standing when no event is on its way.
LEMMA StandingsAreTold ==
  ASSUME Rep!StandingsInv PROVE Rep!StandingsTold
  BY DEF Rep!StandingsInv, Rep!StandingsTold, Rep!GetFactionStandings, Rep!GET_STANDING

\* The list shows its rows.
LEMMA RowsAreShown ==
  ASSUME Rep!ReputationAssumption, NEW i \in DOMAIN Rep!DisplayList
  PROVE  Rep!RowAt(i) \in Rep!Rows
  <1> DEFINE R == {q \in Rep!Rows \X Rep!Rows : Rep!Above(q[1], q[2])}
  <1>1. /\ IsFiniteSet(DOMAIN Headers) /\ IsFiniteSet(DOMAIN FactionDbc)
        /\ DOMAIN Headers \subseteq Nat
        /\ DOMAIN FactionDbc \subseteq Nat
    <2>1. DOMAIN Headers = 1..Len(Headers) /\ Len(Headers) \in Nat
      BY DEF Rep!ReputationAssumption
    <2>2. IsFiniteSet(1..Len(Headers))
      BY <2>1, FS_Interval
    <2> QED BY <2>1, <2>2, FactionsCounted DEF Rep!ReputationAssumption
  <1>2. Rep!Rows \subseteq Nat \X Nat
    <2>1. \A S, T \in SUBSET Nat : S \X T \subseteq Nat \X Nat
      OBVIOUS
    <2>2. (DOMAIN Headers) \X {0} \subseteq Nat \X Nat
      BY <1>1, <2>1
    <2>3. (DOMAIN Headers) \X (DOMAIN FactionDbc) \subseteq Nat \X Nat
      BY <1>1, <2>1
    <2> QED BY <2>2, <2>3 DEF Rep!Rows
  <1>3. IsFiniteSet(Rep!Rows)
    <2>1. IsFiniteSet({0})
      BY FS_Singleton
    <2>2. IsFiniteSet((DOMAIN Headers) \X {0})
          /\ IsFiniteSet((DOMAIN Headers) \X (DOMAIN FactionDbc))
      <3>1. IsFiniteSet((DOMAIN Headers) \X {0})
        BY <1>1, <2>1, FS_Product
      <3>2. IsFiniteSet((DOMAIN Headers) \X (DOMAIN FactionDbc))
        BY <1>1, FS_Product
      <3> QED BY <3>1, <3>2
    <2>3. IsFiniteSet(((DOMAIN Headers) \X {0}) \cup ((DOMAIN Headers) \X (DOMAIN FactionDbc)))
      BY <2>2, FS_Union
    <2>4. Rep!Rows \in SUBSET (((DOMAIN Headers) \X {0})
                               \cup ((DOMAIN Headers) \X (DOMAIN FactionDbc)))
      BY DEF Rep!Rows
    <2> QED BY <2>3, <2>4, FS_Subset
  <1>4. \A x, y \in Rep!Rows : <<x, y>> \in R <=> Rep!Above(x, y)
    OBVIOUS
  <1>5. \A x \in Rep!Rows : ~Rep!Above(x, x)
    BY <1>2 DEF Rep!Above
  <1>6. \A x, y \in Rep!Rows : x = y \/ Rep!Above(x, y) \/ Rep!Above(y, x)
    BY <1>2 DEF Rep!Above
  <1>7. \A x, y, z \in Rep!Rows : Rep!Above(x, y) /\ Rep!Above(y, z) => Rep!Above(x, z)
    BY <1>2 DEF Rep!Above
  <1>8. i \in 1..Cardinality(Rep!Rows)
    BY FactionsCounted DEF Rep!DisplayList
  <1> HIDE DEF R
  <1>9. \E x \in Rep!Rows : Cardinality({y \in Rep!Rows : <<y, x>> \in R}) = i - 1
    <2>1. /\ \A x \in Rep!Rows : <<x, x>> \notin R
          /\ \A x, y \in Rep!Rows : x = y \/ <<x, y>> \in R \/ <<y, x>> \in R
          /\ \A x, y, z \in Rep!Rows : <<x, y>> \in R /\ <<y, z>> \in R => <<x, z>> \in R
      BY <1>4, <1>5, <1>6, <1>7
    <2>2. \A k \in 1..Cardinality(Rep!Rows) :
            \E x \in Rep!Rows : Cardinality({y \in Rep!Rows : <<y, x>> \in R}) = k - 1
      BY <1>3, <2>1, EachInOrder, ZenonT(60)
    <2> QED BY <1>8, <2>2
  <1>10. ASSUME NEW x \in Rep!Rows
         PROVE  {y \in Rep!Rows : <<y, x>> \in R} = {q \in Rep!Rows : Rep!Above(q, x)}
    BY <1>4
  <1>11. \E x \in Rep!Rows : Cardinality({q \in Rep!Rows : Rep!Above(q, x)}) = i - 1
    BY <1>9, <1>10
  <1> QED BY <1>11, FactionsCounted DEF Rep!RowAt

\* What a row shows is a header, or a child of one that is not collapsed.
LEMMA WhatIsShown ==
  ASSUME Rep!ReputationAssumption, NEW i \in DOMAIN Rep!DisplayList
  PROVE  LET f == Rep!DisplayList[i] IN
         /\ f \in DOMAIN FactionDbc \cup {0}
         /\ f # 0 /\ ~Rep!Contains(Headers, f) => FactionDbc[f].parent \notin collapsed
  <1>1. Rep!RowAt(i) \in Rep!Rows
        /\ Rep!DisplayList[i] = IF Rep!RowAt(i)[2] = 0 THEN Headers[Rep!RowAt(i)[1]]
           ELSE Rep!RowAt(i)[2]
    BY RowsAreShown DEF Rep!DisplayList
  <1> DEFINE r == Rep!RowAt(i)
  <1>2. \A f \in DOMAIN FactionDbc : f # 0
    BY DEF Rep!ReputationAssumption
  <1>3. Headers \in Seq(DOMAIN FactionDbc \cup {0})
    BY DEF Rep!ReputationAssumption
  <1> HIDE DEF r
  <1>4. CASE Rep!RowAt(i) \in (DOMAIN Headers) \X {0}
    <2>1. Rep!DisplayList[i] = Headers[Rep!RowAt(i)[1]] /\ Rep!RowAt(i)[1] \in DOMAIN Headers
      <3>1. r[1] \in DOMAIN Headers /\ r[2] = 0
        BY <1>4 DEF r
      <3> QED BY <1>1, <3>1 DEF r
    <2>2. Headers[Rep!RowAt(i)[1]] \in DOMAIN FactionDbc \cup {0}
      BY <1>3, <2>1
    <2>3. Rep!Contains(Headers, Rep!DisplayList[i])
      BY <1>3, <2>1 DEF Rep!Contains
    <2> QED BY <2>1, <2>2, <2>3
  <1>5. CASE Rep!RowAt(i) \notin (DOMAIN Headers) \X {0}
    <2>1. /\ Rep!RowAt(i)[2] \in DOMAIN FactionDbc /\ Headers[Rep!RowAt(i)[1]] \notin collapsed
          /\ FactionDbc[Rep!RowAt(i)[2]].parent = Headers[Rep!RowAt(i)[1]]
      <3>1. r \in Rep!Rows /\ r \notin (DOMAIN Headers) \X {0}
        BY <1>1, <1>5 DEF r
      <3>2. r \in (DOMAIN Headers) \X (DOMAIN FactionDbc) /\ Headers[r[1]] \notin collapsed
            /\ FactionDbc[r[2]].parent = Headers[r[1]]
        BY <3>1 DEF Rep!Rows
      <3> QED BY <3>2 DEF r
    <2> QED BY <1>1, <1>2, <2>1
  <1> QED BY <1>4, <1>5

\* So the ways to a faction agree.
LEMMA FactionsAreOne == ASSUME Rep!ReputationAssumption PROVE Rep!QueriesAgree
  <1>1. ASSUME NEW i
        PROVE  LET id == Rep!GetFactionIDByIndex(i) IN
               /\ id # {} <=> i \in DOMAIN Rep!DisplayList
               /\ id # {} /\ Rep!GetFactionDataByIndex(i) = {} => id = {0}
    <2>1. i \in DOMAIN Rep!DisplayList => Rep!DisplayList[i] \in DOMAIN FactionDbc \cup {0}
      BY WhatIsShown
    <2> QED
      BY <2>1 DEF Rep!GetFactionIDByIndex, Rep!GetFactionDataByIndex, Rep!ResolveIndex,
         Rep!HasRecord
  <1>2. ASSUME NEW i, NEW d \in Rep!GetFactionDataByIndex(i)
        PROVE  /\ Rep!GetFactionIDByIndex(i) = {d.factionID}
               /\ d.isWatched <=> \E w \in Rep!GetWatchedFactionData : w.factionID = d.factionID
               /\ d.factionID \in Rep!Ranked
                  => d.currentStanding = Rep!GetFactionStandings[d.factionID]
               /\ d.isCollapsed => \A j \in DOMAIN Rep!DisplayList :
                  LET f == Rep!DisplayList[j] IN
                    Rep!HasRecord(f) /\ ~Rep!HeaderState(f).isHeader
                    => FactionDbc[f].parent # d.factionID
    <2> DEFINE f == Rep!ResolveIndex(i)
    <2>1. i \in DOMAIN Rep!DisplayList /\ d = Rep!ReadFactionData(f) /\ Rep!HasRecord(f)
      BY <1>2 DEF Rep!GetFactionDataByIndex
    <2> HIDE DEF f
    <2>2. /\ d.factionID = f /\ d.currentStanding = Rep!GET_STANDING(f)
          /\ d.isWatched = Rep!IS_WATCHED(f)
          /\ d.isCollapsed = Rep!HeaderState(f).isCollapsed
      BY <2>1 DEF Rep!ReadFactionData
    <2>3. Rep!GetFactionIDByIndex(i) = {d.factionID}
      BY <2>1, <2>2 DEF Rep!GetFactionIDByIndex, f
    <2>4. d.isWatched <=> \E w \in Rep!GetWatchedFactionData : w.factionID = d.factionID
      <3>1. \A g : [Rep!ReadFactionData(g) EXCEPT !.isWatched = TRUE].factionID = g
        BY DEF Rep!ReadFactionData
      <3> QED BY <2>2, <3>1, ZenonT(60) DEF Rep!GetWatchedFactionData, Rep!IS_WATCHED
    <2>5. d.factionID \in Rep!Ranked => d.currentStanding = Rep!GetFactionStandings[d.factionID]
      BY <2>2 DEF Rep!GET_STANDING, Rep!GetFactionStandings
    <2>6. ASSUME d.isCollapsed, NEW j \in DOMAIN Rep!DisplayList,
                 Rep!HasRecord(Rep!DisplayList[j]), ~Rep!HeaderState(Rep!DisplayList[j]).isHeader
          PROVE  FactionDbc[Rep!DisplayList[j]].parent # d.factionID
      <3>1. f \in collapsed
        BY <2>2, <2>6 DEF Rep!HeaderState
      <3>2. Rep!DisplayList[j] # 0
        BY <2>6 DEF Rep!HasRecord, Rep!ReputationAssumption
      <3>3. ~Rep!Contains(Headers, Rep!DisplayList[j])
        BY <2>6, <3>2 DEF Rep!HeaderState
      <3> QED BY <2>2, <3>1, <3>2, <3>3, WhatIsShown
    <2> QED BY <2>3, <2>4, <2>5, <2>6
  <1>3. Cardinality(Rep!GetWatchedFactionData) <= 1
    <2> DEFINE W == {g \in Rep!Ranked : FactionDbc[g].slot = watched}
    <2>1. \A f, g \in W : f = g
      BY DEF Rep!Ranked, Rep!ReputationAssumption
    <2>2. \A f, g \in Rep!GetWatchedFactionData : f = g
      BY <2>1 DEF Rep!GetWatchedFactionData
    <2>3. Rep!GetWatchedFactionData = {} \/ \E x : Rep!GetWatchedFactionData = {x}
      BY <2>2
    <2>4. Cardinality(Rep!GetWatchedFactionData) \in {0, 1}
      BY <2>3, FS_EmptySet, FS_Singleton
    <2> QED BY <2>4
  <1> QED BY <1>1, <1>2, <1>3, FactionsCounted DEF Rep!QueriesAgree

\* No packet is open at first.
LEMMA FactionsStart == ASSUME Rep!ReputationAssumption, Rep!ReputationInit PROVE Rep!FactionsInv
  <1>1. MaxStanding \in Nat
    BY DEF Rep!ReputationAssumption
  <1>2. 0 \in -MaxStanding..MaxStanding /\ -1 \in Int
    BY <1>1
  <1>3. delta \in [Rep!Ranked -> -MaxStanding..MaxStanding] /\ watched \in Int
    BY <1>2 DEF Rep!ReputationInit
  <1>4. packet = <<>> /\ notifying = "idle" /\ last = <<>>
    BY DEF Rep!ReputationInit
  <1>5. packet \in Seq(Rep!Ranked \X Int) /\ DOMAIN packet = {}
    <2>1. \A S : <<>> \in Seq(S)
      OBVIOUS
    <2>2. DOMAIN <<>> = {}
      BY SMTT(30)
    <2> QED BY <1>4, <2>1, <2>2
  <1> QED BY <1>3, <1>4, <1>5 DEF Rep!FactionsInv, Rep!ReputationTypeOK, Rep!Stages

\* Each step keeps the standings in their range, and a packet to one standing a faction.
LEMMA FactionsStay == ASSUME Rep!ReputationAssumption, Rep!FactionsInv, Rep!ReputationNext
                      PROVE  Rep!FactionsInv'
  <1> DEFINE B == -MaxStanding..MaxStanding
  <1>0. /\ delta \in [Rep!Ranked -> B] /\ watched \in Int /\ notifying \in Rep!Stages
        /\ (last = <<>>) = (notifying = "idle") /\ packet \in Seq(Rep!Ranked \X Int)
    BY DEF Rep!FactionsInv, Rep!ReputationTypeOK
  <1>1. ASSUME NEW f \in Rep!Ranked, NEW g \in Rep!Ranked, NEW d \in -1..1, NEW e \in -1..1,
               f # g,
               {delta[f] + d, delta[g] + e} \subseteq -MaxStanding..MaxStanding,
               Rep!Arrives(<<<<f, d>>, <<g, e>>>>)
        PROVE  Rep!FactionsInv'
    <2>1. packet' = <<<<f, d>>, <<g, e>>>> /\ UNCHANGED <<delta, watched, notifying, last>>
      BY <1>1 DEF Rep!Arrives
    <2>2. /\ packet' \in Seq(Rep!Ranked \X Int) /\ DOMAIN packet' = {1, 2}
          /\ packet'[1] = <<f, d>> /\ packet'[2] = <<g, e>>
      BY <2>1
    <2>3. \A i, j \in DOMAIN packet' : packet'[i][1] = packet'[j][1] => i = j
      BY <1>1, <2>2
    <2>4. \A i \in DOMAIN packet' :
          delta'[packet'[i][1]] + packet'[i][2] \in -MaxStanding..MaxStanding
      BY <1>1, <2>1, <2>2
    <2> QED BY <1>0, <2>1, <2>2, <2>3, <2>4 DEF Rep!FactionsInv, Rep!ReputationTypeOK
  <1>2. CASE Rep!FireNotify
    <2> DEFINE f == packet[1][1]
               d == packet[1][2]
    <2>1. /\ notifying = "idle" /\ packet # <<>> /\ delta' = [delta EXCEPT ![f] = @ + d]
          /\ notifying' = IF d = 0 THEN "idle" ELSE "message"
          /\ last' = IF d = 0 THEN last
                     ELSE [faction |-> f, standing |-> FactionDbc[f].base + delta'[f],
                           gained |-> d]
          /\ packet' = Tail(packet) /\ watched' = watched
      BY <1>2 DEF Rep!FireNotify
    <2>2. /\ Tail(packet) \in Seq(Rep!Ranked \X Int) /\ 1 \in DOMAIN packet /\ Len(packet) \in Nat
          /\ DOMAIN packet = 1..Len(packet)
          /\ DOMAIN Tail(packet) = 1..Len(packet) - 1
          /\ \A i \in 1..Len(packet) - 1 : Tail(packet)[i] = packet[i + 1]
      BY <1>0, <2>1
    <2>3. packet[1] \in Rep!Ranked \X Int
      BY <1>0, <2>2
    <2>4. f \in Rep!Ranked /\ d \in Int /\ delta[f] + d \in B
      BY <2>2, <2>3 DEF Rep!FactionsInv
    <2> HIDE DEF f, d
    <2>5. delta' \in [Rep!Ranked -> B] /\ \A h \in Rep!Ranked : h # f => delta'[h] = delta[h]
      BY <1>0, <2>1, <2>4
    <2>6. (last' = <<>>) = (notifying' = "idle")
      <3>1. \A x, y, z : [faction |-> x, standing |-> y, gained |-> z] # <<>>
        <4> SUFFICES ASSUME NEW x, NEW y, NEW z, [faction |-> x, standing |-> y, gained |-> z]
                            = <<>>
                     PROVE  FALSE
          OBVIOUS
        <4>1. "faction" \in DOMAIN [faction |-> x, standing |-> y, gained |-> z]
          OBVIOUS
        <4>2. DOMAIN <<>> = {}
          OBVIOUS
        <4>3. DOMAIN [faction |-> x, standing |-> y, gained |-> z] = DOMAIN <<>>
          BY Zenon
        <4> QED BY <4>1, <4>2, <4>3
      <3>2. CASE d = 0
        BY <1>0, <2>1, <3>2
      <3>3. CASE d # 0
        BY <2>1, <3>1, <3>3
      <3> QED BY <3>2, <3>3
    <2>7. notifying' \in Rep!Stages
      BY <2>1 DEF Rep!Stages
    <2>8. ASSUME NEW i \in DOMAIN packet'
          PROVE  /\ i + 1 \in DOMAIN packet /\ packet'[i] = packet[i + 1] /\ i \in Nat
                 /\ packet'[i][1] # f /\ packet'[i][1] \in Rep!Ranked
      <3>1. i \in 1..Len(packet) - 1
        BY <2>1, <2>2
      <3>2. i + 1 \in DOMAIN packet /\ i + 1 # 1 /\ packet'[i] = packet[i + 1] /\ i \in Nat
        BY <2>1, <2>2, <3>1
      <3>3. packet[i + 1] \in Rep!Ranked \X Int
        BY <1>0, <3>2
      <3>4. packet[i + 1][1] # f
        BY <2>2, <3>2 DEF Rep!FactionsInv, f
      <3> QED BY <3>2, <3>3, <3>4
    <2>9. ASSUME NEW i \in DOMAIN packet', NEW j \in DOMAIN packet', packet'[i][1] = packet'[j][1]
          PROVE  i = j
      <3>1. i + 1 = j + 1
        BY <2>8, <2>9 DEF Rep!FactionsInv
      <3> QED BY <2>8, <3>1
    <2>10. ASSUME NEW i \in DOMAIN packet'
           PROVE  delta'[packet'[i][1]] + packet'[i][2] \in B
      <3>1. delta'[packet'[i][1]] = delta[packet[i + 1][1]] /\ packet'[i][2] = packet[i + 1][2]
        BY <2>5, <2>8
      <3>2. delta[packet[i + 1][1]] + packet[i + 1][2] \in B
        BY <2>8 DEF Rep!FactionsInv
      <3> QED BY <3>1, <3>2
    <2>11. \A i, j \in DOMAIN packet' : packet'[i][1] = packet'[j][1] => i = j
      BY <2>9
    <2>12. packet' \in Seq(Rep!Ranked \X Int) /\ watched' \in Int
      BY <1>0, <2>1, <2>2
    <2> QED BY <2>5, <2>6, <2>7, <2>10, <2>11, <2>12 DEF Rep!FactionsInv, Rep!ReputationTypeOK
  <1>3. CASE Rep!FiresEvent
    BY <1>3 DEF Rep!FiresEvent, Rep!FactionsInv, Rep!ReputationTypeOK, Rep!Stages
  <1>4. CASE Rep!NotifyReturns
    BY <1>4 DEF Rep!NotifyReturns, Rep!FactionsInv, Rep!ReputationTypeOK, Rep!Stages
  <1>5. ASSUME NEW h, Rep!Collapses(h) PROVE Rep!FactionsInv'
    BY <1>5 DEF Rep!Collapses, Rep!FactionsInv, Rep!ReputationTypeOK
  <1>6. ASSUME NEW f, Rep!SetWatchedFactionByID(f) PROVE Rep!FactionsInv'
    <2>1. watched' \in Int
      <3>1. f \in Rep!Ranked => FactionDbc[f].slot \in Int
        BY DEF Rep!Ranked, Rep!ReputationAssumption
      <3>2. -1 \in Int
        OBVIOUS
      <3> QED BY <1>0, <1>6, <3>1, <3>2 DEF Rep!SetWatchedFactionByID
    <2> QED BY <1>6, <2>1 DEF Rep!SetWatchedFactionByID, Rep!FactionsInv, Rep!ReputationTypeOK
  <1> QED BY <1>1, <1>2, <1>3, <1>4, <1>5, <1>6 DEF Rep!ReputationNext

-----------------------------------------------------------------------------
(* What is said of items (ItemInfo).                                       *)

CONSTANTS
    Records, Dbc, Unreal, Suffixes, Instances, Places, Characters, MaxNames

VARIABLES
    stats, queried, worn, character, arrivals, awaited

Info     == INSTANCE ItemInfo

infoVars == <<stats, queried, worn, character, arrivals, awaited>>

\* Its sets are counted as ours are.
LEMMA InfoCounted ==
  ASSUME NEW S
  PROVE  Info!Cardinality(S) = Cardinality(S) /\ (Info!IsFiniteSet(S) <=> IsFiniteSet(S))
  BY DEF Info!Cardinality, Cardinality, Info!IsFiniteSet, IsFiniteSet

\* Nothing is asked about at first.
LEMMA InfoStarts == ASSUME Info!ItemInfoAssumption, Info!InfoInit PROVE Info!InfoInv
  BY DEF Info!ItemInfoAssumption, Info!InfoInit, Info!InfoInv, Info!InfoTypeOK

\* A location is an item the character has, or none.
LEMMA LocationsResolve ==
  ASSUME Info!ItemInfoAssumption, Info!InfoTypeOK, NEW loc
  PROVE  /\ Info!ResolveLocation(loc) \in DOMAIN Instances \cup {Info!NoGuid}
         /\ Info!ResolveLocation(loc) = Info!NoGuid <=> Info!GetItemID(loc) = 0
         /\ Info!ResolveLocation(loc) # Info!NoGuid => Info!ResolveLocation(loc) \in Info!Held
         /\ Info!GetItemID(loc) \in DOMAIN Records \cup {0}
  <1>1. Info!ResolveLocation(loc) \in DOMAIN Instances \cup {Info!NoGuid}
    BY DEF Info!ResolveLocation, Info!Held, Info!InfoTypeOK
  <1>2. Info!ResolveLocation(loc) # Info!NoGuid => Info!ResolveLocation(loc) \in Info!Held
    BY DEF Info!ResolveLocation, Info!Held
  <1>3. \A g \in DOMAIN Instances : Instances[g].item \in DOMAIN Records /\ Instances[g].item # 0
    BY DEF Info!ItemInfoAssumption, Info!Ids
  <1> QED BY <1>1, <1>2, <1>3 DEF Info!GetItemID, Info!FromCGItem

\* What an argument resolves to is an item that may be, or none.
LEMMA ResolvedIds ==
  ASSUME Info!ItemInfoAssumption, Info!InfoTypeOK, NEW arg \in Info!Args
  PROVE  /\ Info!Resolve(arg).itemID \in Info!Ids \cup {0}
         /\ arg.form = "link" => Info!Resolve(arg)
            = [itemID |-> arg.id, suffix |-> arg.suffix, seed |-> arg.seed]
  <1>1. ASSUME NEW i \in Info!Ids, arg = Info!ByNumber(i)
        PROVE  Info!Resolve(arg).itemID \in Info!Ids /\ arg.form # "link"
    BY <1>1 DEF Info!Resolve, Info!ByNumber
  <1>2. ASSUME NEW g \in DOMAIN Instances, arg = Info!ByGuid(g)
        PROVE  Info!Resolve(arg).itemID \in Info!Ids \cup {0} /\ arg.form # "link"
    BY <1>2, LocationsResolve DEF Info!Resolve, Info!ByGuid, Info!Ids
  <1>3. ASSUME NEW i \in Info!Ids, NEW x, NEW y, arg = Info!ByLink(i, x, y)
        PROVE  Info!Resolve(arg).itemID \in Info!Ids
               /\ Info!Resolve(arg) = [itemID |-> arg.id, suffix |-> arg.suffix,
                                       seed |-> arg.seed]
    BY <1>3 DEF Info!Resolve, Info!ByLink
  <1>4. ASSUME NEW text, text[1] \in Info!Ids \cup {0}, arg = Info!ByText(text)
        PROVE  Info!Resolve(arg).itemID \in Info!Ids \cup {0} /\ arg.form # "link"
    <2>1. Info!EngineStringToItemID(text) \in Info!Ids \cup {0}
      <3>1. stats \subseteq Info!Ids
        BY DEF Info!InfoTypeOK, Info!Ids
      <3> QED BY <3>1 DEF Info!EngineStringToItemID
    <2>2. arg.form = "text" /\ arg.text = text
      BY <1>4 DEF Info!ByText
    <2>3. Info!Resolve(arg).itemID = IF text[1] > 0 THEN text[1]
          ELSE Info!EngineStringToItemID(text)
      BY <2>2 DEF Info!Resolve
    <2> QED BY <1>4, <2>1, <2>2, <2>3
  <1>5. \A i \in DOMAIN Records : Records[i].name[1] \in Info!Ids \cup {0}
    BY DEF Info!ItemInfoAssumption
  <1>6. ASSUME NEW i \in DOMAIN Records, arg = Info!ByText(Records[i].name)
        PROVE  Info!Resolve(arg).itemID \in Info!Ids \cup {0} /\ arg.form # "link"
    BY <1>4, <1>5, <1>6
  <1>7. ASSUME NEW i \in Info!Ids, arg = Info!ByText(Info!Digits(i))
        PROVE  Info!Resolve(arg).itemID \in Info!Ids \cup {0} /\ arg.form # "link"
    <2>1. Info!Digits(i)[1] \in Info!Ids \cup {0}
      BY DEF Info!Digits
    <2> QED BY <1>4, <1>7, <2>1
  <1>8. \/ \E i \in Info!Ids : arg = Info!ByNumber(i)
        \/ \E g \in DOMAIN Instances : arg = Info!ByGuid(g)
        \/ \E i \in Info!Ids, s \in Suffixes \cup {0} : arg = Info!ByLink(i, s, s)
        \/ \E i \in DOMAIN Records : arg = Info!ByText(Records[i].name)
        \/ \E i \in Info!Ids : arg = Info!ByText(Info!Digits(i))
    <2> DEFINE A == {Info!ByNumber(i) : i \in Info!Ids}
               B == {Info!ByGuid(g) : g \in DOMAIN Instances}
               C == {Info!ByLink(i, s, s) : i \in Info!Ids, s \in Suffixes \cup {0}}
               D == {Info!ByText(Records[i].name) : i \in DOMAIN Records}
               E == {Info!ByText(Info!Digits(i)) : i \in Info!Ids}
               IsA == \E i \in Info!Ids : arg = Info!ByNumber(i)
               IsB == \E g \in DOMAIN Instances : arg = Info!ByGuid(g)
               IsC == \E i \in Info!Ids, s \in Suffixes \cup {0} : arg = Info!ByLink(i, s, s)
               IsD == \E i \in DOMAIN Records : arg = Info!ByText(Records[i].name)
               IsE == \E i \in Info!Ids : arg = Info!ByText(Info!Digits(i))
    <2>1. arg \in A \cup B \cup C \cup D \cup E
      <3>1. Info!Args = A \cup B \cup C \cup D \cup E
        BY DEF Info!Args
      <3> HIDE DEF A, B, C, D, E
      <3> QED BY <3>1
    <2>2. (arg \in A => IsA) /\ (arg \in B => IsB) /\ (arg \in D => IsD)
      OBVIOUS
    <2>3. arg \in C => IsC
      OBVIOUS
    <2>4. arg \in E => IsE
      OBVIOUS
    <2> HIDE DEF A, B, C, D, E
    <2>5. IsA \/ IsB \/ IsC \/ IsD \/ IsE
      <3> HIDE DEF IsA, IsB, IsC, IsD, IsE
      <3> QED BY <2>1, <2>2, <2>3, <2>4
    <2> QED BY <2>5
  <1> QED BY <1>1, <1>2, <1>3, <1>6, <1>7, <1>8

\* What is asked about is awaited until it is there.
LEMMA AsksStay ==
  ASSUME Info!InfoInv, NEW missing \in SUBSET (Info!Ids \ stats), Info!Ask(missing)
  PROVE  Info!InfoInv'
  BY DEF Info!Ask, Info!InfoInv, Info!InfoTypeOK

\* Each step awaits no more than was asked about.
LEMMA InfoStays == ASSUME Info!ItemInfoAssumption, Info!InfoInv, Info!InfoNext PROVE Info!InfoInv'
  <1>1. ASSUME NEW arg \in Info!Args, Info!QueryInfo(arg) \/ Info!QueryInstant(arg)
        PROVE  Info!InfoInv'
    <2>1. Info!Missing(arg) \in SUBSET (Info!Ids \ stats)
      BY ResolvedIds DEF Info!Missing, Info!InfoInv
    <2> QED BY <1>1, <2>1, AsksStay DEF Info!QueryInfo, Info!QueryInstant
  <1>2. ASSUME NEW i \in Info!Ids, Info!Answered(i) PROVE Info!InfoInv'
    BY <1>2 DEF Info!Answered, Info!InfoInv, Info!InfoTypeOK
  <1>3. ASSUME NEW g \in DOMAIN Instances, NEW p \in Places, Info!Lands(g, p) PROVE Info!InfoInv'
    <2>1. Instances[g].item \in Info!Ids
      BY DEF Info!ItemInfoAssumption, Info!Ids
    <2>2. arrivals' \in 0..MaxNames
      BY <1>3 DEF Info!Lands, Info!InfoInv, Info!InfoTypeOK, Info!ItemInfoAssumption
    <2> QED BY <1>3, <2>1, <2>2 DEF Info!Lands, Info!InfoInv, Info!InfoTypeOK
  <1>4. ASSUME NEW p \in Places, Info!Empties(p) PROVE Info!InfoInv'
    BY <1>4 DEF Info!Empties, Info!InfoInv, Info!InfoTypeOK
  <1>5. ASSUME NEW c \in Characters, Info!Becomes(c) PROVE Info!InfoInv'
    BY <1>5 DEF Info!Becomes, Info!InfoInv, Info!InfoTypeOK
  <1> QED BY <1>1, <1>2, <1>3, <1>4, <1>5 DEF Info!InfoNext

\* The item at a place answers by its place, its GUID, its number and its link alike.
LEMMA PlacesSpeak ==
  ASSUME Info!ItemInfoAssumption, Info!InfoTypeOK, NEW p \in Places
  PROVE  LET id == Info!GetItemID(p)  guid == Info!GetItemGUID(p)
         IN  /\ Info!DoesItemExist(p) <=> id # 0
             /\ id # 0 => /\ Info!Resolve(Info!ByGuid(guid)).itemID = id
                          /\ Info!ResolveLocation(guid) = guid
                          /\ Info!FetchByLuaArg(Info!ByNumber(id)) = Info!FetchByLuaLocation(p)
                          /\ Info!IsBound(p) = Info!IsBound(guid)
                          /\ Info!GetItemLink(p) # Info!Nil
                             => Info!Resolve(Info!GetItemLink(p)).itemID = id
                          /\ Info!CanUseItem(Info!ByGuid(guid))
                             = Info!CanUseItem(Info!ByNumber(id))
  <1> DEFINE id == Info!GetItemID(p)
             guid == Info!GetItemGUID(p)
  <1>1. Info!DoesItemExist(p) <=> id # 0
    BY LocationsResolve DEF Info!DoesItemExist
  <1>2. ASSUME id # 0
        PROVE  /\ Info!Resolve(Info!ByGuid(guid)).itemID = id /\ Info!ResolveLocation(guid) = guid
               /\ Info!FetchByLuaArg(Info!ByNumber(id)) = Info!FetchByLuaLocation(p)
               /\ Info!IsBound(p) = Info!IsBound(guid)
               /\ Info!GetItemLink(p) # Info!Nil => Info!Resolve(Info!GetItemLink(p)).itemID = id
               /\ Info!CanUseItem(Info!ByGuid(guid)) = Info!CanUseItem(Info!ByNumber(id))
    <2>1. guid = Info!ResolveLocation(p) /\ guid \in Info!Held /\ guid \in DOMAIN Instances
      BY <1>2, LocationsResolve DEF Info!GetItemGUID
    <2>2. Info!ResolveLocation(guid) = guid
      BY <2>1 DEF Info!ResolveLocation, Info!ItemInfoAssumption
    <2>3. Info!GetItemID(guid) = id
      BY <2>1, <2>2 DEF Info!GetItemID
    <2>4. Info!Resolve(Info!ByGuid(guid)).itemID = id
      BY <2>3 DEF Info!Resolve, Info!ByGuid
    <2>5. Info!Resolve(Info!ByNumber(id)).itemID = id
      BY DEF Info!Resolve, Info!ByNumber
    <2>6. Info!FetchByLuaArg(Info!ByNumber(id)) = Info!FetchByLuaLocation(p)
      BY <2>5 DEF Info!FetchByLuaArg, Info!FetchByLuaLocation
    <2>7. Info!IsBound(p) = Info!IsBound(guid)
      BY <2>1, <2>2 DEF Info!IsBound
    <2>8. Info!GetItemLink(p) # Info!Nil => Info!Resolve(Info!GetItemLink(p)).itemID = id
      BY DEF Info!GetItemLink, Info!BuildItemLink, Info!Resolve
    <2>9. Info!CanUseItem(Info!ByGuid(guid)) = Info!CanUseItem(Info!ByNumber(id))
      BY <2>4, <2>5 DEF Info!CanUseItem
    <2> QED BY <2>2, <2>4, <2>6, <2>7, <2>8, <2>9
  <1> QED BY <1>1, <1>2

\* A name finds one of the items of that name, and digits the item of that number.
LEMMA NamesSpeak ==
  ASSUME Info!ItemInfoAssumption, Info!InfoTypeOK, NEW i \in stats
  PROVE  LET name == Records[i].name IN
         /\ name[1] = 0 =>
             /\ \E j \in stats : Records[j].name = name
                /\ Info!Resolve(Info!ByText(name)).itemID = j
             /\ Info!GetItemInfo(Info!ByText(name)) \in
                  {Info!GetItemInfo(Info!ByNumber(j)) :
                   j \in {k \in stats : Records[k].name = name}}
         /\ Info!GetItemInfo(Info!ByText(Info!Digits(i))) = Info!GetItemInfo(Info!ByNumber(i))
  <1> DEFINE name == Records[i].name
             R(j) == [itemID |-> j, suffix |-> 0, seed |-> 0]
  <1>1. \A j : Info!Resolve(Info!ByNumber(j)) = R(j)
    BY DEF Info!Resolve, Info!ByNumber
  <1>2. ASSUME name[1] = 0
        PROVE  \E j \in stats : Records[j].name = name /\ Info!Resolve(Info!ByText(name)) = R(j)
    <2> DEFINE named == {k \in stats : Records[k].name = name}
    <2>1. named # {} /\ Info!EngineStringToItemID(name) = CHOOSE k \in named : TRUE
      BY DEF Info!EngineStringToItemID
    <2>2. Info!EngineStringToItemID(name) \in named
      BY <2>1
    <2>3. Info!ByText(name).form = "text" /\ Info!ByText(name).text = name
      BY DEF Info!ByText
    <2>4. Info!Resolve(Info!ByText(name)) = R(Info!EngineStringToItemID(name))
      <3>1. ~(name[1] > 0)
        BY <1>2
      <3> QED BY <2>3, <3>1 DEF Info!Resolve
    <2> QED BY <2>2, <2>4
  <1>3. ASSUME NEW j, NEW arg, Info!Resolve(arg) = R(j)
        PROVE  Info!GetItemInfo(arg) = Info!GetItemInfo(Info!ByNumber(j))
    BY <1>1, <1>3 DEF Info!GetItemInfo
  <1>4. Info!GetItemInfo(Info!ByText(Info!Digits(i))) = Info!GetItemInfo(Info!ByNumber(i))
    <2>1. i \in Nat /\ i > 0
      BY DEF Info!InfoTypeOK, Info!ItemInfoAssumption, Info!Ids
    <2>2. Info!ByText(Info!Digits(i)).form = "text" /\ Info!ByText(Info!Digits(i)).text[1] = i
      BY DEF Info!ByText, Info!Digits
    <2>3. Info!Resolve(Info!ByText(Info!Digits(i))) = R(i)
      BY <2>1, <2>2 DEF Info!Resolve
    <2> QED BY <1>3, <2>3
  <1>5. ASSUME name[1] = 0
        PROVE  /\ \E j \in stats : Records[j].name = name
                  /\ Info!Resolve(Info!ByText(name)).itemID = j
               /\ Info!GetItemInfo(Info!ByText(name)) \in
                    {Info!GetItemInfo(Info!ByNumber(j)) :
                     j \in {k \in stats : Records[k].name = name}}
    <2>1. PICK j \in stats : Records[j].name = name /\ Info!Resolve(Info!ByText(name)) = R(j)
      BY <1>2, <1>5
    <2>2. Info!GetItemInfo(Info!ByText(name)) = Info!GetItemInfo(Info!ByNumber(j))
      BY <1>3, <2>1
    <2>3. Info!Resolve(Info!ByText(name)).itemID = j
      BY <2>1
    <2> HIDE DEF name, R
    <2> QED BY <2>1, <2>2, <2>3
  <1> QED BY <1>4, <1>5

\* An answer's link answers as the argument did.
LEMMA AnswersSpeak ==
  ASSUME Info!ItemInfoAssumption, Info!InfoTypeOK, NEW arg \in Info!Args,
         Info!GetItemInfo(arg) # Info!Nil
  PROVE  LET info == Info!GetItemInfo(arg) IN
         /\ Info!GetItemInfo(info.link) = info
         /\ Info!DoesItemExistByID(arg) /\ Info!FetchByLuaArg(arg) # {}
         /\ Info!GetItemInfoInstant(arg) = [id |-> info.id, instant |-> info.instant]
         /\ arg.form = "link" => info.link.suffix = arg.suffix
  <1> DEFINE r == Info!Resolve(arg)
             record == Records[r.itemID]
             name == Info!NameWithSuffix(r.itemID, r.suffix)
             info == Info!GetItemInfo(arg)
             link == Info!BuildItemLink(r.itemID, record.quality, name, r.suffix, r.seed)
  <1>1. /\ r.itemID \in stats
        /\ info = [id |-> r.itemID, name |-> name, instant |-> record.instant,
                   quality |-> record.quality, link |-> link]
    BY DEF Info!GetItemInfo
  <1>2. /\ link.form = "link" /\ link.id = r.itemID /\ link.suffix = r.suffix
        /\ link.seed = r.seed
    BY DEF Info!BuildItemLink
  <1>3. info.link = link /\ info.id = r.itemID /\ info.instant = record.instant
    BY <1>1, SMTT(60)
  <1>4. Info!Resolve(link) = [itemID |-> r.itemID, suffix |-> r.suffix, seed |-> r.seed]
    BY <1>2, Zenon DEF Info!Resolve
  <1>5. Info!GetItemInfo(link) = info
    <2>1. Info!Resolve(link).itemID = r.itemID /\ Info!Resolve(link).suffix = r.suffix
          /\ Info!Resolve(link).seed = r.seed
      BY <1>4
    <2>2. Info!GetItemInfo(link) = [id |-> r.itemID, name |-> name, instant |-> record.instant,
                               quality |-> record.quality, link |-> link]
      <3> DEFINE q == Info!Resolve(link)
      <3>1. q.itemID = r.itemID /\ q.suffix = r.suffix /\ q.seed = r.seed
        BY <2>1
      <3>2. Info!GetItemInfo(link) =
              [id |-> q.itemID, name |-> Info!NameWithSuffix(q.itemID, q.suffix),
               instant |-> Records[q.itemID].instant, quality |-> Records[q.itemID].quality,
               link |-> Info!BuildItemLink(q.itemID, Records[q.itemID].quality,
                                      Info!NameWithSuffix(q.itemID, q.suffix), q.suffix, q.seed)]
        <4>1. q.itemID \in stats
          BY <1>1, <3>1
        <4> HIDE DEF q, link
        <4> QED BY <4>1 DEF Info!GetItemInfo, q
      <3>3. Info!NameWithSuffix(q.itemID, q.suffix) = name
        BY <3>1
      <3> HIDE DEF q
      <3> QED BY <3>1, <3>2, <3>3
    <2> QED BY <1>1, <2>2
  <1>6. Info!DoesItemExistByID(arg) /\ Info!FetchByLuaArg(arg) # {}
    BY <1>1 DEF Info!DoesItemExistByID, Info!FetchByLuaArg, Info!FetchItemRecord
  <1>7. Info!GetItemInfoInstant(arg) = [id |-> r.itemID, instant |-> record.instant]
    BY <1>1 DEF Info!GetItemInfoInstant, Info!ItemInfoAssumption
  <1>8. arg.form = "link" => r.suffix = arg.suffix
    BY ResolvedIds
  <1> HIDE DEF link, r, info, record, name
  <1> QED BY <1>2, <1>3, <1>5, <1>6, <1>7, <1>8 DEF info

\* So the forms of an argument agree.
LEMMA FormsAreOne == ASSUME Info!ItemInfoAssumption, Info!InfoTypeOK
                     PROVE  Info!FormsAgree /\ Info!CachedNamesResolve
  BY PlacesSpeak, NamesSpeak, AnswersSpeak DEF Info!FormsAgree, Info!CachedNamesResolve

\* A character who may do more may use what another may.
LEMMA StrongerUses ==
  ASSUME Info!ItemInfoAssumption, Info!InfoTypeOK PROVE Info!UsableGrows
  <1> SUFFICES ASSUME NEW i \in stats PROVE
         /\ \A d \in Characters : Info!Stronger(d, character) /\ Info!ComputeCanUse(character, i)
            => Info!ComputeCanUse(d, i)
         /\ /\ character.inWorld /\ Records[i].level = 0 /\ Records[i].classes = {}
            /\ Records[i].races = {}
            /\ Records[i].skill = "none" /\ Records[i].spell = 0 /\ Records[i].faction = 0
            /\ \A c \in Characters : c.proficient[Records[i].class] = {}
            => Info!ComputeCanUse(character, i)
    BY DEF Info!UsableGrows
  <1> DEFINE r == Records[i]
             c == character
  <1>1. /\ i \in DOMAIN Records /\ c \in Characters /\ Info!FetchItemRecord(i) = {r}
        /\ {r.level, r.rank, r.band} \subseteq Int
        /\ \A x \in Characters : /\ r.class \in DOMAIN x.proficient
                                 /\ r.faction # 0 => r.faction \in DOMAIN x.standing
                                 /\ x.level \in Nat /\ x.skills \in [DOMAIN x.skills -> Int]
                                 /\ x.standing \in [DOMAIN x.standing -> Int]
    BY DEF Info!InfoTypeOK, Info!FetchItemRecord, Info!ItemInfoAssumption
  <1>2. ASSUME NEW d \in Characters, Info!Stronger(d, c), Info!ComputeCanUse(c, i)
        PROVE  Info!ComputeCanUse(d, i)
    <2>1. /\ c.inWorld /\ Info!ProficiencyMet(c, r) /\ r.level <= c.level
          /\ ~Info!RestrictedOut(r.classes, c.class) /\ ~Info!RestrictedOut(r.races, c.race)
          /\ Info!RequiredSkillMet(c, r) /\ Info!RequiredSpellMet(c, r)
          /\ Info!RequiredReputationMet(c, r)
      BY <1>1, <1>2 DEF Info!ComputeCanUse
    <2>2. /\ d.class = c.class /\ d.race = c.race /\ d.inWorld = c.inWorld
          /\ c.spells \subseteq d.spells
          /\ c.level <= d.level /\ DOMAIN c.skills \subseteq DOMAIN d.skills
          /\ \A s \in DOMAIN c.skills : c.skills[s] <= d.skills[s]
          /\ \A f \in DOMAIN c.standing : c.standing[f] <= d.standing[f]
          /\ \A k \in DOMAIN c.proficient : c.proficient[k] = d.proficient[k]
      BY <1>2 DEF Info!Stronger
    <2>3. d.level \in Int /\ c.level \in Int /\ r.level \in Int
      BY <1>1
    <2>4. r.level <= d.level
      BY <2>1, <2>2, <2>3
    <2>5. Info!ProficiencyMet(d, r)
      BY <1>1, <2>1, <2>2 DEF Info!ProficiencyMet
    <2>6. Info!RequiredSkillMet(d, r)
      <3> SUFFICES ASSUME r.skill # "none"
                   PROVE  r.skill \in DOMAIN d.skills /\ d.skills[r.skill] >= r.rank
        BY DEF Info!RequiredSkillMet
      <3>1. r.skill \in DOMAIN c.skills /\ c.skills[r.skill] >= r.rank
            /\ r.skill \in DOMAIN d.skills
            /\ c.skills[r.skill] <= d.skills[r.skill]
        BY <2>1, <2>2 DEF Info!RequiredSkillMet
      <3>2. c.skills[r.skill] \in Int /\ d.skills[r.skill] \in Int /\ r.rank \in Int
        BY <1>1, <3>1
      <3> QED BY <3>1, <3>2
    <2>7. Info!RequiredSpellMet(d, r)
      BY <2>1, <2>2 DEF Info!RequiredSpellMet
    <2>8. Info!RequiredReputationMet(d, r)
      <3> SUFFICES ASSUME r.faction # 0 PROVE d.standing[r.faction] >= r.band
        BY DEF Info!RequiredReputationMet
      <3>1. c.standing[r.faction] >= r.band /\ c.standing[r.faction] <= d.standing[r.faction]
        BY <1>1, <2>1, <2>2 DEF Info!RequiredReputationMet
      <3>2. c.standing[r.faction] \in Int /\ d.standing[r.faction] \in Int /\ r.band \in Int
        BY <1>1
      <3> QED BY <3>1, <3>2
    <2> QED BY <1>1, <2>1, <2>2, <2>4, <2>5, <2>6, <2>7, <2>8 DEF Info!ComputeCanUse
  <1>3. ASSUME /\ c.inWorld /\ r.level = 0 /\ r.classes = {} /\ r.races = {}
               /\ r.skill = "none" /\ r.spell = 0 /\ r.faction = 0
               /\ \A x \in Characters : x.proficient[r.class] = {}
        PROVE  Info!ComputeCanUse(c, i)
    <2>1. r.level <= c.level
      BY <1>1, <1>3
    <2> QED
      BY <1>1, <1>3, <2>1 DEF Info!ComputeCanUse, Info!ProficiencyMet, Info!RestrictedOut,
         Info!RequiredSkillMet,
               Info!RequiredSpellMet, Info!RequiredReputationMet
  <1> QED BY <1>2, <1>3

-----------------------------------------------------------------------------
(* The server's time (ServerTime).                                         *)

CONSTANTS
    SecondsPerMinute, TickRange, MaxClock, Dates, DayShifts, MinuteShifts, MaxShifts

VARIABLES
    clock, ticks, lastMinute, anchor, answer, before, ours, rolled, cal, from, shift, shifts

Time     == INSTANCE ServerTime

clockVars == <<clock, ticks, lastMinute, anchor, answer, before, ours, rolled>>
calVars == <<cal, from, shift, shifts>>

\* Multiples of p are p apart.
LEMMA Products ==
  ASSUME NEW p \in Nat \ {0}, NEW a \in Int, NEW b \in Int, a < b
  PROVE  a * p + p <= b * p
  <1>1. b - a - 1 \in Nat
    OBVIOUS
  <1>2. \A n \in Nat : n * p \in Nat
    OBVIOUS
  <1>3. (b - a - 1) * p >= 0
    BY <1>1, <1>2
  <1>4. (b - a - 1) * p = b * p - a * p - p
    OBVIOUS
  <1> QED BY <1>3, <1>4

\* Quotient and remainder.
LEMMA Divided ==
  ASSUME NEW p \in Nat \ {0}, NEW c \in Int
  PROVE  c \div p \in Int /\ c % p \in 0..p - 1 /\ c = (c \div p) * p + (c % p)
  OBVIOUS

\* A number has one quotient and one remainder.
LEMMA Unique ==
  ASSUME NEW p \in Nat \ {0}, NEW q \in Int, NEW r \in 0..p - 1, NEW c, c = q * p + r
  PROVE  c \div p = q /\ c % p = r
  <1>1. c \in Int
    OBVIOUS
  <1>2. c \div p \in Int /\ c % p \in 0..p - 1 /\ c = (c \div p) * p + (c % p)
    BY <1>1, Divided
  <1>3. ~(c \div p < q)
    <2>1. c \div p < q => (c \div p) * p + p <= q * p
      BY <1>2, Products
    <2> QED BY <1>2, <2>1
  <1>4. ~(q < c \div p)
    <2>1. q < c \div p => q * p + p <= (c \div p) * p
      BY <1>2, Products
    <2> QED BY <1>2, <2>1
  <1>5. c \div p = q
    BY <1>2, <1>3, <1>4
  <1> QED BY <1>2, <1>5

\* The server's second is in its minute.
LEMMA MinuteOfClock ==
  ASSUME Time!TimeAssumption, clock \in Nat
  PROVE  /\ Time!Minute \in Nat /\ clock % SecondsPerMinute \in 0..SecondsPerMinute - 1
         /\ clock = Time!Minute * SecondsPerMinute + (clock % SecondsPerMinute)
  <1>1. SecondsPerMinute \in Nat \ {0} /\ clock \in Int
    BY DEF Time!TimeAssumption
  <1>2. /\ Time!Minute \in Int /\ clock % SecondsPerMinute \in 0..SecondsPerMinute - 1
        /\ clock = Time!Minute * SecondsPerMinute + (clock % SecondsPerMinute)
    BY <1>1, Divided DEF Time!Minute
  <1>3. Time!Minute < 0 => Time!Minute * SecondsPerMinute
        + SecondsPerMinute <= 0 * SecondsPerMinute
    BY <1>1, <1>2, Products
  <1> QED BY <1>1, <1>2, <1>3

\* The ticks from one to another, over the wrap of the counter.
LEMMA Between ==
  ASSUME NEW n \in Nat \ {0}, NEW a \in 0..n - 1, NEW t \in 0..n - 1
  PROVE  (t - a) % n = IF t >= a THEN t - a ELSE t - a + n
  <1> DEFINE c == t - a
  <1>1. \A q \in Int, r \in 0..n - 1 : c = q * n + r => c % n = r
    BY Unique
  <1>2. t >= a => c = 0 * n + c /\ c \in 0..n - 1
    OBVIOUS
  <1>3. t < a => c = (-1) * n + (c + n) /\ c + n \in 0..n - 1
    OBVIOUS
  <1>4. c % n = IF t >= a THEN c ELSE c + n
    <2> HIDE DEF c
    <2>1. 0 \in Int /\ -1 \in Int
      OBVIOUS
    <2> QED BY <1>1, <1>2, <1>3, <2>1, SMTT(60)
  <1> QED BY <1>4

\* The tick after a tick, over the wrap of the counter.
LEMMA NextTick ==
  ASSUME NEW n \in Nat \ {0}, NEW t \in 0..n - 1
  PROVE  (t + 1) % n = IF t = n - 1 THEN 0 ELSE t + 1
  <1> DEFINE c == t + 1
  <1>1. \A q \in Int, r \in 0..n - 1 : c = q * n + r => c % n = r
    BY Unique
  <1>2. t = n - 1 => c = 1 * n + 0 /\ 0 \in 0..n - 1
    OBVIOUS
  <1>3. t # n - 1 => c = 0 * n + c /\ c \in 0..n - 1
    OBVIOUS
  <1>4. c % n = IF t = n - 1 THEN 0 ELSE c
    <2> HIDE DEF c
    <2>1. 0 \in Int /\ 1 \in Int
      OBVIOUS
    <2> QED BY <1>1, <1>2, <1>3, <2>1
  <1> QED BY <1>4

\* No answer has been given at first.
LEMMA ClockStarts ==
  ASSUME Time!TimeAssumption, Time!TimeInit
  PROVE  Time!ClockInv
  <1>1. /\ clock \in Nat /\ ticks \in 0..TickRange - 1 /\ lastMinute = -1 /\ anchor = 0
        /\ answer = -1 /\ before = -1 /\ ours = FALSE /\ rolled = FALSE
        /\ anchor \in 0..TickRange - 1
    BY DEF Time!TimeAssumption, Time!TimeInit
  <1>2. Time!Latest = -1
    BY <1>1 DEF Time!Latest
  <1>3. {lastMinute, answer, before} \subseteq Int
    BY <1>1
  <1>4. {ours, rolled} \subseteq BOOLEAN
    BY <1>1
  <1> QED BY <1>1, <1>2, <1>3, <1>4 DEF Time!ClockInv

\* GetServerTime in a minute that it has not seen yet counts from now; in one that it has, on
\* from the ticks it keeps.
LEMMA GetKeepsClock ==
  ASSUME Time!TimeAssumption, Time!ClockInv, Time!GetServerTime
  PROVE  Time!ClockInv'
  <1> DEFINE P == SecondsPerMinute
             R == TickRange
  <1>1. /\ P \in Nat \ {0} /\ R \in Nat \ {0} /\ P < R /\ clock \in Nat /\ clock' = clock
        /\ ticks \in 0..R - 1 /\ ticks' = ticks /\ anchor \in 0..R - 1
        /\ lastMinute \in Int /\ answer \in Int /\ before \in Int
    BY DEF Time!TimeAssumption, Time!ClockInv, Time!GetServerTime
  <1>2. /\ Time!Minute \in Nat /\ clock % P \in 0..P - 1 /\ clock = Time!Minute * P + (clock % P)
        /\ Time!Minute' = Time!Minute
    BY <1>1, MinuteOfClock DEF Time!Minute
  <1>3. /\ lastMinute' = Time!Minute
        /\ anchor' = IF Time!Minute # lastMinute THEN ticks ELSE anchor
        /\ answer' = Time!Minute * P + Time!Elapsed(anchor') /\ before' = Time!Latest
        /\ (ours' <=> ours \/ Time!Minute # lastMinute) /\ ours' \in BOOLEAN
        /\ rolled' = IF Time!Minute # lastMinute THEN clock % P = 0 ELSE rolled
    BY DEF Time!GetServerTime
  <1>4. anchor' \in 0..R - 1 /\ Time!Elapsed(anchor') \in 0..P - 1
        /\ Time!SinceAnchor' = (ticks - anchor') % R /\ Time!SinceAnchor' \in 0..R - 1
    <2>1. anchor' \in 0..R - 1
      BY <1>1, <1>3
    <2>2. (ticks - anchor') % R \in 0..R - 1
      <3>1. ticks - anchor' \in Int
        BY <1>1, <2>1
      <3> QED BY <1>1, <3>1, Divided
    <2>3. Time!Elapsed(anchor') \in 0..P - 1
      BY <1>1, <2>2 DEF Time!Elapsed
    <2> QED BY <1>1, <2>1, <2>2, <2>3 DEF Time!SinceAnchor
  <1> DEFINE M == Time!Minute * P
             e == Time!Elapsed(anchor')
  <1>5. M \in Int /\ (Time!Minute + 1) * P = M + P
    BY <1>1, <1>2
  <1>6. /\ Time!Elapsed(anchor)' = e /\ answer' = M + e /\ answer' # -1 /\ Time!Latest' = answer'
        /\ e = IF Time!SinceAnchor' > P - 1 THEN P - 1 ELSE Time!SinceAnchor'
    <2>1. Time!Elapsed(anchor)' = e
      BY <1>1 DEF Time!Elapsed
    <2>2. M >= 0
      BY <1>1, <1>2
    <2>3. answer' = M + e /\ e \in Nat
      BY <1>1, <1>3, <1>4
    <2>4. e = IF Time!SinceAnchor' > P - 1 THEN P - 1 ELSE Time!SinceAnchor'
      BY <1>4 DEF Time!Elapsed
    <2> HIDE DEF M, e
    <2>5. answer' # -1
      BY <1>5, <2>2, <2>3
    <2> QED BY <2>1, <2>3, <2>4, <2>5 DEF Time!Latest
  <1>7. /\ {lastMinute', answer', before'} \subseteq Int /\ (rolled' => ours')
        /\ {ours', rolled'} \subseteq BOOLEAN
    <2>1. Time!Latest \in Int
      BY <1>1 DEF Time!Latest
    <2>2. {lastMinute', answer', before'} \subseteq Int
      BY <1>2, <1>3, <1>4, <1>5, <2>1
    <2>3. {ours', rolled'} \subseteq BOOLEAN /\ (rolled' => ours')
      <3>1. {ours, rolled} \subseteq BOOLEAN /\ (rolled => ours)
        BY DEF Time!ClockInv
      <3> QED BY <1>3, <3>1
    <2> QED BY <2>2, <2>3
  <1>8. /\ Time!Latest' < (lastMinute' + 1) * P
        /\ lastMinute' = Time!Minute' /\ answer' = Time!Minute' * P + Time!Elapsed(anchor)'
    BY <1>1, <1>2, <1>3, <1>4, <1>5, <1>6
  <1>9. /\ ours' => before' <= answer'
        /\ ours' => /\ Time!SinceAnchor' <= clock' % P
                    /\ rolled' => Time!SinceAnchor' = clock' % P
                    /\ Time!Latest' <= M + Time!SinceAnchor'
    <2>1. CASE Time!Minute # lastMinute
      <3>1. Time!SinceAnchor' = 0 /\ e = 0
        <4>1. (ticks - ticks) % R = 0
          BY <1>1, Between
        <4> QED BY <1>1, <1>3, <1>4, <1>6, <2>1, <4>1
      <3>2. Time!Latest <= M
        <4>1. CASE Time!Latest = -1
          BY <1>1, <1>2, <4>1
        <4>2. CASE Time!Latest # -1
          <5>1. lastMinute <= Time!Minute /\ Time!Latest < (lastMinute + 1) * P
            BY <4>2 DEF Time!ClockInv
          <5>2. lastMinute * P + P <= M /\ (lastMinute + 1) * P = lastMinute * P + P
            BY <1>1, <1>2, <2>1, <5>1, Products
          <5>3. Time!Latest \in Int
            BY <1>1 DEF Time!Latest
          <5>4. lastMinute * P \in Int
            BY <1>1
          <5>5. Time!Latest < lastMinute * P + P
            BY <5>1, <5>2
          <5> HIDE DEF M
          <5> QED BY <1>1, <1>5, <5>2, <5>3, <5>4, <5>5
        <4> QED BY <4>1, <4>2
      <3>3. rolled' => clock % P = 0
        BY <1>3, <2>1
      <3> QED BY <1>1, <1>2, <1>3, <1>5, <1>6, <3>1, <3>2, <3>3
    <2>2. CASE Time!Minute = lastMinute
      <3>1. ours' <=> ours
        BY <1>3, <2>2
      <3>2. rolled' = rolled /\ anchor' = anchor /\ Time!SinceAnchor' = Time!SinceAnchor
        BY <1>1, <1>3, <2>2 DEF Time!SinceAnchor
      <3>3. ours => /\ Time!SinceAnchor <= clock % P /\ (rolled => Time!SinceAnchor = clock % P)
                    /\ Time!Latest <= M + Time!SinceAnchor
        BY <2>2 DEF Time!ClockInv
      <3>4. ours => e = Time!SinceAnchor
        BY <1>1, <1>2, <1>4, <1>6, <3>2, <3>3
      <3> QED BY <1>1, <1>3, <1>5, <1>6, <3>1, <3>2, <3>3, <3>4
    <2> QED BY <2>1, <2>2
  <1>10. lastMinute' <= Time!Minute'
    BY <1>2, <1>3
  <1>11. Time!Minute' * P = M
    BY <1>2
  <1> QED BY <1>1, <1>4, <1>7, <1>8, <1>9, <1>10, <1>11 DEF Time!ClockInv

\* A second brings the clock and the ticks on by one, over a minute and over the wrap.
LEMMA SecondKeepsClock ==
  ASSUME Time!TimeAssumption, Time!ClockInv, Time!SecondPasses
  PROVE  Time!ClockInv'
  <1> DEFINE P == SecondsPerMinute
             R == TickRange
             e == Time!SinceAnchor
  <1>1. /\ P \in Nat \ {0} /\ R \in Nat \ {0} /\ P < R /\ clock \in Nat /\ clock' = clock + 1
        /\ ticks \in 0..R - 1 /\ ticks' = (ticks + 1) % R /\ anchor \in 0..R - 1
        /\ anchor' = anchor
        /\ lastMinute \in Int /\ answer \in Int /\ before \in Int /\ lastMinute' = lastMinute
        /\ answer' = -1 /\ before' = Time!Latest
    BY DEF Time!TimeAssumption, Time!ClockInv, Time!SecondPasses
  <1>2. /\ Time!Minute \in Nat /\ clock % P \in 0..P - 1 /\ clock = Time!Minute * P + (clock % P)
    BY <1>1, MinuteOfClock
  <1>3. /\ Time!Minute' = IF clock % P = P - 1 THEN Time!Minute + 1 ELSE Time!Minute
        /\ (clock + 1) % P = IF clock % P = P - 1 THEN 0 ELSE (clock % P) + 1
    <2>1. CASE clock % P = P - 1
      <3>1. clock + 1 = (Time!Minute + 1) * P + 0 /\ 0 \in 0..P - 1 /\ Time!Minute + 1 \in Int
        BY <1>1, <1>2, <2>1
      <3>2. \A q \in Int, r \in 0..P - 1 :
                clock + 1 = q * P + r => (clock + 1) \div P = q /\ (clock + 1) % P = r
        BY <1>1, Unique
      <3>3. (clock + 1) \div P = Time!Minute + 1 /\ (clock + 1) % P = 0
        BY <3>1, <3>2
      <3> QED BY <1>1, <2>1, <3>3 DEF Time!Minute
    <2>2. CASE clock % P # P - 1
      <3> DEFINE r == (clock % P) + 1
      <3>1. clock + 1 = Time!Minute * P + r /\ r \in 0..P - 1 /\ Time!Minute \in Int
        BY <1>1, <1>2, <2>2
      <3>2. \A q \in Int, s \in 0..P - 1 :
                clock + 1 = q * P + s => (clock + 1) \div P = q /\ (clock + 1) % P = s
        BY <1>1, Unique
      <3>3. (clock + 1) \div P = Time!Minute /\ (clock + 1) % P = r
        BY <3>1, <3>2
      <3> QED BY <1>1, <2>2, <3>3 DEF Time!Minute
    <2> QED BY <2>1, <2>2
  <1>4. ticks' \in 0..R - 1 /\ e \in 0..R - 1 /\ (e + 1 < R => Time!SinceAnchor' = e + 1)
    <2>1. ticks' = IF ticks = R - 1 THEN 0 ELSE ticks + 1
      BY <1>1, NextTick
    <2>2. ticks' \in 0..R - 1
      BY <1>1, <2>1
    <2>3. e = IF ticks >= anchor THEN ticks - anchor ELSE ticks - anchor + R
      BY <1>1, Between DEF Time!SinceAnchor
    <2>4. Time!SinceAnchor' = IF ticks' >= anchor THEN ticks' - anchor ELSE ticks' - anchor + R
      BY <1>1, <2>2, Between DEF Time!SinceAnchor
    <2> QED BY <1>1, <2>1, <2>2, <2>3, <2>4
  <1>5. Time!Latest' = Time!Latest /\ Time!Latest \in Int
    BY <1>1 DEF Time!Latest
  <1>6. {lastMinute', answer', before'} \subseteq Int /\ clock' \in Nat
    BY <1>1, <1>5
  <1>7. {ours', rolled'} \subseteq BOOLEAN /\ (rolled' => ours')
    BY DEF Time!ClockInv, Time!SecondPasses
  <1>8. ours' \/ Time!Latest' # -1 => lastMinute' <= Time!Minute'
    <2>1. ours' \/ Time!Latest' # -1 => lastMinute <= Time!Minute
      BY <1>5 DEF Time!ClockInv, Time!SecondPasses
    <2>2. Time!Minute <= Time!Minute' /\ Time!Minute' \in Int
      BY <1>2, <1>3
    <2> QED BY <1>1, <1>2, <2>1, <2>2
  <1>9. Time!Latest' # -1 => Time!Latest' < (lastMinute' + 1) * P
    BY <1>1, <1>5 DEF Time!ClockInv
  <1>10. ASSUME ours', lastMinute' = Time!Minute'
         PROVE  /\ Time!SinceAnchor' <= clock' % P
                /\ rolled' => Time!SinceAnchor' = clock' % P
                /\ Time!Latest' <= Time!Minute' * P + Time!SinceAnchor'
    <2>1. ours /\ (rolled' => rolled) /\ lastMinute <= Time!Minute
      BY <1>10 DEF Time!ClockInv, Time!SecondPasses
    <2>2. clock % P # P - 1 /\ Time!Minute' = Time!Minute /\ lastMinute = Time!Minute
      BY <1>1, <1>2, <1>3, <1>10, <2>1
    <2>3. /\ e <= clock % P /\ (rolled => e = clock % P)
          /\ Time!Latest <= Time!Minute * P + e
      BY <2>1, <2>2 DEF Time!ClockInv
    <2>4. e + 1 < R
      BY <1>1, <1>2, <1>4, <2>2, <2>3
    <2>5. Time!SinceAnchor' = e + 1 /\ clock' % P = (clock % P) + 1
      BY <1>1, <1>3, <1>4, <2>2, <2>4
    <2>6. Time!Minute * P \in Int
      BY <1>1, <1>2
    <2> QED BY <1>2, <1>4, <1>5, <2>1, <2>2, <2>3, <2>5, <2>6
  <1> QED BY <1>1, <1>4, <1>6, <1>7, <1>8, <1>9, <1>10 DEF Time!ClockInv

\* Each step keeps the last answer behind the clock in a minute that turned before our eyes.
LEMMA ClockStays ==
  ASSUME Time!TimeAssumption, Time!ClockInv, Time!ClockNext
  PROVE  Time!ClockInv'
  <1>1. CASE Time!SwitchRealm
    <2>1. /\ answer' = -1 /\ before' = -1 /\ ours' = FALSE /\ rolled' = FALSE
          /\ UNCHANGED <<ticks, lastMinute, anchor>> /\ clock' \in Nat
      BY <1>1 DEF Time!SwitchRealm, Time!TimeAssumption
    <2>2. Time!Latest' = -1
      BY <2>1 DEF Time!Latest
    <2>3. {lastMinute', answer', before'} \subseteq Int
      BY <2>1 DEF Time!ClockInv
    <2>4. {ours', rolled'} \subseteq BOOLEAN
      BY <2>1
    <2> QED BY <2>1, <2>2, <2>3, <2>4 DEF Time!ClockInv
  <1> QED BY <1>1, GetKeepsClock, SecondKeepsClock DEF Time!ClockNext

\* So an answer is in the server's minute, never ahead of it and never behind the last.
LEMMA ClockIsRight ==
  ASSUME Time!TimeAssumption, Time!ClockInv
  PROVE  Time!ClockRight
  <1> DEFINE P == SecondsPerMinute
             M == Time!Minute * P
  <1> SUFFICES ASSUME answer # -1
               PROVE  /\ answer \div P = Time!Minute
                      /\ ours => answer <= clock /\ before <= answer
                      /\ rolled => answer = clock
    BY DEF Time!ClockRight
  <1>1. /\ P \in Nat \ {0} /\ TickRange \in Nat \ {0} /\ clock \in Nat
        /\ ticks \in 0..TickRange - 1 /\ anchor \in 0..TickRange - 1
    BY DEF Time!TimeAssumption, Time!ClockInv
  <1>2. /\ Time!Minute \in Nat /\ clock % P \in 0..P - 1 /\ clock = M + (clock % P) /\ M \in Int
    BY <1>1, MinuteOfClock
  <1>3. lastMinute = Time!Minute /\ answer = M + Time!Elapsed(anchor)
        /\ (ours => before <= answer)
    BY DEF Time!ClockInv
  <1>4. Time!SinceAnchor \in 0..TickRange - 1
    BY <1>1, Between DEF Time!SinceAnchor
  <1>5. Time!Elapsed(anchor) \in 0..P - 1
        /\ Time!Elapsed(anchor) = IF Time!SinceAnchor > P - 1 THEN P - 1 ELSE Time!SinceAnchor
    BY <1>1, <1>4 DEF Time!Elapsed, Time!SinceAnchor
  <1>6. answer \div P = Time!Minute
    <2>1. \A q \in Int, r \in 0..P - 1 : answer = q * P + r => answer \div P = q
      BY <1>1, Unique
    <2> QED BY <1>2, <1>3, <1>5, <2>1
  <1>7. ours => Time!SinceAnchor <= clock % P /\ (rolled => Time!SinceAnchor = clock % P)
    BY <1>3 DEF Time!ClockInv
  <1>8. ours => answer <= clock /\ before <= answer
    BY <1>1, <1>2, <1>3, <1>4, <1>5, <1>7
  <1>9. rolled => answer = clock
    <2>1. rolled => ours
      BY DEF Time!ClockInv
    <2> QED BY <1>1, <1>2, <1>3, <1>4, <1>5, <1>7, <2>1
  <1> QED BY <1>6, <1>8, <1>9

\* The clock and the ticks stay in their ranges.
LEMMA ClockTyped ==
  ASSUME Time!TimeAssumption
  PROVE  /\ Time!TimeInit => Time!ClockTypes
         /\ Time!ClockTypes /\ Time!ClockNext => Time!ClockTypes'
  <1>1. /\ SecondsPerMinute \in Nat \ {0} /\ TickRange \in Nat \ {0} /\ MaxClock \in Nat
        /\ SecondsPerMinute - 1 <= MaxClock
    BY DEF Time!TimeAssumption
  <1>2. Time!TimeInit => Time!ClockTypes
    BY <1>1 DEF Time!TimeInit, Time!ClockTypes
  <1>3. ASSUME Time!ClockTypes, Time!ClockNext PROVE Time!ClockTypes'
    <2>1. ticks \in 0..TickRange - 1 /\ anchor \in 0..TickRange - 1 /\ clock \in 0..MaxClock
      BY <1>3 DEF Time!ClockTypes
    <2>2. CASE Time!GetServerTime
      BY <2>1, <2>2 DEF Time!GetServerTime, Time!ClockTypes
    <2>3. CASE Time!SecondPasses
      <3>1. clock < MaxClock /\ clock' = clock + 1 /\ ticks' = (ticks + 1) % TickRange
            /\ anchor' = anchor
        BY <2>3 DEF Time!SecondPasses
      <3>2. ticks' \in 0..TickRange - 1
        <4>1. ticks + 1 \in Int
          BY <1>1, <2>1
        <4> QED BY <1>1, <3>1, <4>1, Divided
      <3>3. clock' \in 0..MaxClock
        BY <1>1, <2>1, <3>1
      <3> QED BY <2>1, <3>1, <3>2, <3>3 DEF Time!ClockTypes
    <2>4. CASE Time!SwitchRealm
      BY <2>1, <2>4 DEF Time!SwitchRealm, Time!ClockTypes
    <2> QED BY <1>3, <2>2, <2>3, <2>4 DEF Time!ClockNext
  <1> QED BY <1>2, <1>3

\* The leap days of the years up to one.
LeapDays(y) == (y \div 4) - (y \div 100) + (y \div 400)

\* One a year at most, of which 477 were before 1970.
LEMMA LeapDaysGrow ==
  ASSUME NEW y \in Int
  PROVE  /\ LeapDays(y) \in Int /\ LeapDays(y + 1) \in {LeapDays(y), LeapDays(y) + 1}
         /\ y >= 1969 => LeapDays(y) >= 477 /\ LeapDays(y) <= y - 1492
  <1>1. /\ (y + 1) \div 4 \in {y \div 4, (y \div 4) + 1}
        /\ (y + 1) \div 100 \in {y \div 100, (y \div 100) + 1}
        /\ (y + 1) \div 400 \in {y \div 400, (y \div 400) + 1}
    BY SMT
  <1>2. /\ (y + 1) \div 100 # y \div 100 => (y + 1) \div 4 # y \div 4
        /\ (y + 1) \div 400 # y \div 400 => (y + 1) \div 100 # y \div 100
    BY SMT
  <1>3. y >= 1969 => /\ (y \div 4) - (y \div 100) + (y \div 400) >= 477
                     /\ (y \div 4) - (y \div 100) + (y \div 400) <= y - 1492
    BY SMT
  <1> QED BY <1>1, <1>2, <1>3, SMT DEF LeapDays

\* Years have 365 or 366 days, and 1970 begins with day 0.
LEMMA YearsLong ==
  ASSUME NEW y \in Int
  PROVE  LET J(x) == Time!DayNumber(x, 1, 1) IN
         /\ J(y) \in Int /\ J(y) < J(y + 1)
         /\ y >= 1970 => 365 * (y - 1970) <= J(y) /\ J(y) <= 366 * (y - 1970)
  <1> DEFINE J(x) == Time!DayNumber(x, 1, 1)
  <1>1. J(y) = 365 * (y - 1) + LeapDays(y - 1) - 719162
    BY SMT DEF Time!DayNumber, LeapDays
  <1>2. J(y + 1) = 365 * y + LeapDays(y) - 719162
    BY SMT DEF Time!DayNumber, LeapDays
  <1>3. LeapDays(y - 1) \in Int /\ LeapDays(y) \in {LeapDays(y - 1), LeapDays(y - 1) + 1}
    <2>1. y - 1 \in Int /\ (y - 1) + 1 = y
      OBVIOUS
    <2> HIDE DEF J
    <2> QED BY <2>1, LeapDaysGrow
  <1>4. y >= 1970 => LeapDays(y - 1) >= 477 /\ LeapDays(y - 1) <= (y - 1) - 1492
    BY LeapDaysGrow, SMT
  <1> HIDE DEF J
  <1>5. J(y) \in Int /\ J(y) < J(y + 1)
    BY <1>1, <1>2, <1>3, SMT
  <1>6. y >= 1970 => 365 * (y - 1970) <= J(y) /\ J(y) <= 366 * (y - 1970)
    BY <1>1, <1>3, <1>4, SMT
  <1> QED BY <1>5, <1>6, SMT DEF J

\* Months have at most 31 days; the one after December is the next January.
LEMMA MonthsLong ==
  ASSUME NEW y \in Int, NEW m \in 1..12
  PROVE  /\ Time!DayNumber(y, m, 1) \in Int /\ Time!DayNumber(y, m + 1, 1) \in Int
         /\ Time!DayNumber(y, m + 1, 1) <= Time!DayNumber(y, m, 1) + 31
         /\ Time!DayNumber(y, 13, 1) = Time!DayNumber(y + 1, 1, 1)
  BY SMTT(30) DEF Time!DayNumber

\* Each day from 1970 on is in a year that gmtime looks at.
LEMMA YearOfDay ==
  ASSUME NEW days \in Nat
  PROVE  \E y \in Time!YearsNear(days) :
            Time!DayNumber(y, 1, 1) <= days /\ days < Time!DayNumber(y + 1, 1, 1)
  <1> DEFINE J(x) == Time!DayNumber(x, 1, 1)
             Later == {n \in Nat : days < J(1970 + n)}
  <1>1. \A y \in Int : /\ J(y) \in Int /\ J(y) < J(y + 1)
                       /\ y >= 1970 => 365 * (y - 1970) <= J(y) /\ J(y) <= 366 * (y - 1970)
    BY YearsLong, SMT
  <1> HIDE DEF J
  <1>2. days + 1 \in Nat /\ days < J(1970 + (days + 1))
    BY <1>1, SMT
  <1>3. \E n \in Later : \A k \in Later : n <= k
    <2>1. days + 1 \in Later /\ Later \in SUBSET Nat
      BY <1>2
    <2> HIDE DEF Later
    <2> QED BY <2>1, LeastNat
  <1>4. PICK n \in Nat : days < J(1970 + n) /\ \A k \in Nat : days < J(1970 + k) => n <= k
    BY <1>3, SMT
  <1> DEFINE y == 1969 + n
  <1>5. y \in Int /\ y >= 1970 /\ J(y) <= days /\ days < J(y + 1)
    <2>1. n # 0
      BY <1>1, <1>4, SMT
    <2>2. n - 1 \in Nat /\ 1970 + (n - 1) = y /\ y + 1 = 1970 + n /\ y \in Int /\ y >= 1970
      BY <2>1, SMT
    <2>3. ~(days < J(1970 + (n - 1)))
      BY <1>4, <2>2, SMT
    <2>4. ~(days < J(y)) /\ days < J(y + 1)
      BY <1>4, <2>2, <2>3, SMT
    <2> HIDE DEF y
    <2> QED BY <1>1, <2>2, <2>4, SMT
  <1>6. y \in Time!YearsNear(days)
    BY <1>1, <1>5, SMT DEF Time!YearsNear
  <1> QED BY <1>5, <1>6, SMT DEF J

\* Each day of a year is in one of its months, and a day of it.
LEMMA MonthOfDay ==
  ASSUME NEW y \in Int, NEW days \in Int,
         Time!DayNumber(y, 1, 1) <= days, days < Time!DayNumber(y + 1, 1, 1)
  PROVE  \E m \in 1..12 : /\ Time!DayNumber(y, m, 1) <= days
                          /\ days < Time!DayNumber(y, m + 1, 1)
  <1> DEFINE D(m) == Time!DayNumber(y, m, 1)
  <1>1. \A m \in 1..12 : D(m) \in Int /\ D(m + 1) \in Int
    BY MonthsLong, Zenon
  <1>2. days < D(13) /\ D(1) <= days
    BY MonthsLong, SMT
  <1> HIDE DEF D
  <1>3. \A m \in 1..12 : D(m) <= days => days < D(m + 1) \/ D(m + 1) <= days
    BY <1>1, SMT
  <1>4. \E m \in 1..12 : D(m) <= days /\ days < D(m + 1)
    BY <1>2, <1>3, SMT
  <1> QED BY <1>4 DEF D

\* The day of the month counts from one and leads back.
LEMMA DayOfMonth ==
  ASSUME NEW y \in Int, NEW m \in 1..12, NEW days \in Int,
         Time!DayNumber(y, m, 1) <= days, days < Time!DayNumber(y, m + 1, 1)
  PROVE  /\ days - Time!DayNumber(y, m, 1) + 1 \in 1..31
         /\ Time!DayNumber(y, m, days - Time!DayNumber(y, m, 1) + 1) = days
  <1>1. \A d \in Int : Time!DayNumber(y, m, d) = Time!DayNumber(y, m, 1) + d - 1
    BY SMT DEF Time!DayNumber
  <1>2. /\ Time!DayNumber(y, m, 1) \in Int /\ Time!DayNumber(y, m + 1, 1) \in Int
        /\ Time!DayNumber(y, m + 1, 1) <= Time!DayNumber(y, m, 1) + 31
    BY MonthsLong, Zenon
  <1>3. days - Time!DayNumber(y, m, 1) + 1 \in 1..31
    BY <1>2, SMT
  <1> QED BY <1>1, <1>2, <1>3, SMT

\* What gmtime makes of a time from 1970 on is a date, and mkgmtime takes it back there.
LEMMA DatesComeBack ==
  ASSUME NEW epoch \in Nat
  PROVE  /\ Time!gmtime(epoch) \in
              [year : Nat, month : 1..12, monthDay : 1..31, hour : 0..23, minute : 0..59]
         /\ Time!mkgmtime(Time!gmtime(epoch)) = epoch - (epoch % 60)
  <1> DEFINE days == epoch \div 86400
             hour == (epoch % 86400) \div 3600
             minute == (epoch % 3600) \div 60
             y == CHOOSE x \in Time!YearsNear(days) :
                    Time!DayNumber(x, 1, 1) <= days /\ days < Time!DayNumber(x + 1, 1, 1)
             m == CHOOSE x \in 1..12 :
                    Time!DayNumber(y, x, 1) <= days /\ days < Time!DayNumber(y, x + 1, 1)
             day == days - Time!DayNumber(y, m, 1) + 1
  <1>1. Time!gmtime(epoch) =
            [year |-> y, month |-> m, monthDay |-> day, hour |-> hour, minute |-> minute]
    BY DEF Time!gmtime
  <1>2. /\ days \in Nat /\ hour \in 0..23 /\ minute \in 0..59
        /\ ((days * 24 + hour) * 60 + minute) * 60 = epoch - (epoch % 60)
        /\ epoch - (epoch % 60) \in Nat
    BY SMT
  <1> HIDE DEF days, hour, minute
  <1>3. y \in Nat /\ Time!DayNumber(y, 1, 1) <= days /\ days < Time!DayNumber(y + 1, 1, 1)
    <2>1. \E x \in Time!YearsNear(days) :
              Time!DayNumber(x, 1, 1) <= days /\ days < Time!DayNumber(x + 1, 1, 1)
      BY <1>2, YearOfDay
    <2>2. /\ y \in Time!YearsNear(days)
          /\ Time!DayNumber(y, 1, 1) <= days /\ days < Time!DayNumber(y + 1, 1, 1)
      BY <2>1
    <2>3. \A x \in Time!YearsNear(days) : x \in Nat
      BY <1>2, SMT DEF Time!YearsNear
    <2> QED BY <2>2, <2>3
  <1> HIDE DEF y
  <1>4. /\ m \in 1..12 /\ Time!DayNumber(y, m, 1) <= days
        /\ days < Time!DayNumber(y, m + 1, 1)
    <2>1. y \in Int /\ days \in Int
      BY <1>2, <1>3
    <2>2. \E x \in 1..12 :
              Time!DayNumber(y, x, 1) <= days /\ days < Time!DayNumber(y, x + 1, 1)
      BY <1>3, <2>1, MonthOfDay
    <2> QED BY <2>2
  <1> HIDE DEF m
  <1>5. day \in 1..31 /\ Time!DayNumber(y, m, day) = days
    <2>1. y \in Int /\ days \in Int
      BY <1>2, <1>3
    <2> QED BY <1>4, <2>1, DayOfMonth
  <1> HIDE DEF day
  <1>6. Time!mkgmtime(Time!gmtime(epoch)) = epoch - (epoch % 60)
    BY <1>1, <1>2, <1>5, SMT DEF Time!mkgmtime
  <1> QED BY <1>1, <1>2, <1>3, <1>4, <1>5, <1>6, SMT

\* A table that a caller passes stands for whole minutes.
LEMMA WholeMinutes ==
  ASSUME Time!TimeAssumption, NEW t \in Dates
  PROVE  /\ Time!mkgmtime(t) \in Int
         /\ Time!mkgmtime(t) >= 0 => Time!mkgmtime(t) % 60 = 0
  <1>1. /\ t.year \in Int /\ t.month \in Int /\ t.monthDay \in Int /\ t.hour \in Int
        /\ t.minute \in Int
    BY DEF Time!TimeAssumption
  <1> DEFINE d == Time!DayNumber(t.year, t.month, t.monthDay)
  <1>2. d \in Int
    BY <1>1, SMT DEF Time!DayNumber
  <1>3. Time!mkgmtime(t) = LET e == ((d * 24 + t.hour) * 60 + t.minute) * 60
                           IN  IF e < 0 THEN -1 ELSE e
    BY DEF Time!mkgmtime
  <1> HIDE DEF d
  <1> QED BY <1>1, <1>2, <1>3, SMT

\* The time that the calendar's date stands for.
LEMMA DateOfShift ==
  ASSUME Time!TimeAssumption, Time!CalendarInv
  PROVE  /\ Time!mkgmtime(from) \in Int /\ shift \in Int /\ shifts \in Nat
         /\ Time!mkgmtime(cal) = Time!mkgmtime(from) + shift * 60
         /\ shifts > 0 =>
              /\ Time!mkgmtime(cal) >= 0 /\ cal = Time!gmtime(Time!mkgmtime(cal))
              /\ cal \in [year : Nat, month : 1..12, monthDay : 1..31, hour : 0..23,
                          minute : 0..59]
  <1> DEFINE E == Time!mkgmtime(from) + shift * 60
  <1>1. /\ shift \in Int /\ shifts \in Nat /\ (shifts = 0 => cal = from /\ shift = 0)
        /\ from \in Dates
        /\ shifts > 0 => Time!mkgmtime(from) >= 0 /\ E >= 0 /\ cal = Time!gmtime(E)
    BY DEF Time!CalendarInv, Time!Adjust
  <1>2. /\ Time!mkgmtime(from) \in Int
        /\ Time!mkgmtime(from) >= 0 => Time!mkgmtime(from) % 60 = 0
    BY <1>1, WholeMinutes
  <1>3. ASSUME shifts > 0
        PROVE  Time!mkgmtime(cal) = E /\ cal \in [year : Nat, month : 1..12,
                                    monthDay : 1..31, hour : 0..23, minute : 0..59]
    <2>1. E \in Nat /\ E - (E % 60) = E
      BY <1>1, <1>2, <1>3, SMT
    <2> HIDE DEF E
    <2> QED BY <1>1, <1>3, <2>1, DatesComeBack
  <1>4. shifts = 0 => E = Time!mkgmtime(cal)
    BY <1>1, <1>2, SMT
  <1>5. shifts = 0 \/ shifts > 0
    BY <1>1
  <1> QED BY <1>1, <1>2, <1>3, <1>4, <1>5

\* The date is the one that the minutes added lead to, from each call to the next.
LEMMA CalendarStarts ==
  ASSUME Time!TimeInit
  PROVE  Time!CalendarInv
  <1>1. from \in Dates /\ cal = from /\ shift = 0 /\ shifts = 0
    BY DEF Time!TimeInit
  <1>2. shift \in Int /\ shifts \in Nat /\ ~(shifts > 0)
    BY <1>1
  <1> QED BY <1>1, <1>2 DEF Time!CalendarInv

\* A call moves it by what it was asked to.
LEMMA CalendarStays ==
  ASSUME Time!TimeAssumption, Time!CalendarInv, Time!CalendarNext
  PROVE  Time!CalendarInv'
  <1>1. PICK d \in Int, mi \in Int : Time!AdjustTime(d, mi)
    <2>1. DayShifts \cup MinuteShifts \subseteq Int /\ 0 \in Int
      BY DEF Time!TimeAssumption
    <2> QED BY <2>1 DEF Time!CalendarNext
  <1> DEFINE e == Time!mkgmtime(cal)
             s == d * 86400 + mi * 60
  <1>2. /\ e >= 0 /\ e + d * 86400 + mi * 60 >= 0 /\ cal' = Time!gmtime(e + s)
        /\ shift' = shift + d * 1440 + mi /\ shifts' = shifts + 1 /\ from' = from
    BY <1>1 DEF Time!AdjustTime, Time!Adjust
  <1>3. /\ Time!mkgmtime(from) \in Int /\ shift \in Int /\ shifts \in Nat
        /\ e = Time!mkgmtime(from) + shift * 60
    BY DateOfShift
  <1>4. Time!mkgmtime(from) >= 0
    <2>1. shifts = 0 => e = Time!mkgmtime(from)
      BY DEF Time!CalendarInv
    <2>2. shifts > 0 => Time!mkgmtime(from) >= 0
      BY DEF Time!CalendarInv
    <2>3. shifts = 0 \/ shifts > 0
      BY <1>3
    <2> QED BY <1>2, <2>1, <2>2, <2>3
  <1>5. /\ shift' \in Int /\ shifts' \in Nat /\ shifts' > 0
        /\ e + s = Time!mkgmtime(from) + shift' * 60 /\ Time!mkgmtime(from) + shift' * 60 >= 0
    <2> HIDE DEF e
    <2> QED BY <1>2, <1>3, SMT
  <1> HIDE DEF e, s
  <1>6. from' \in Dates /\ Time!mkgmtime(from)' = Time!mkgmtime(from)
    BY <1>2 DEF Time!CalendarInv
  <1>7. cal' = Time!Adjust(from, shift * 60)'
    BY <1>2, <1>5 DEF Time!Adjust
  <1>8. shifts' # 0
    BY <1>5
  <1> QED BY <1>4, <1>5, <1>6, <1>7, <1>8 DEF Time!CalendarInv

\* So steps add up to one, compare as the minutes do, and come back from their epoch.
LEMMA CalendarIsRight ==
  ASSUME Time!TimeAssumption, Time!CalendarInv
  PROVE  Time!CalendarRight
  <1>1. /\ Time!mkgmtime(from) \in Int /\ shift \in Int /\ shifts \in Nat
        /\ Time!mkgmtime(cal) = Time!mkgmtime(from) + shift * 60
    BY DateOfShift
  <1>2. shifts > 0 => Time!gmtime(Time!mkgmtime(cal)) = cal
    BY DateOfShift
  <1>3. shifts > 0 => cal = Time!Adjust(from, shift * 60)
    BY DEF Time!CalendarInv
  <1> DEFINE a == Time!mkgmtime(from)
             b == Time!mkgmtime(cal)
  <1>4. /\ (a < b <=> shift > 0) /\ (b < a <=> shift < 0) /\ (a > b <=> shift < 0)
        /\ (b > a <=> shift > 0) /\ (shift = 0 \/ shift > 0 \/ shift < 0)
    <2> HIDE DEF a, b
    <2> QED BY <1>1, SMT DEF a, b
  <1>5. /\ Time!CompareCalendarTime(from, cal) =
             IF shift = 0 THEN 0 ELSE IF shift > 0 THEN -1 ELSE 1
        /\ Time!CompareCalendarTime(cal, from) =
             -(IF shift = 0 THEN 0 ELSE IF shift > 0 THEN -1 ELSE 1)
    BY <1>1, <1>4, SMT DEF Time!CompareCalendarTime
  <1> QED BY <1>2, <1>3, <1>5 DEF Time!CalendarRight, Time!GetCalendarTimeFromEpoch
=============================================================================

------------------------------ MODULE Encodings ------------------------------
(***************************************************************************)
(* C_EncodingUtil's byte codecs (src/src/encoding/Base64.cpp, Hex.cpp,     *)
(* Compress.cpp): an add-on encodes a string, something carries the text   *)
(* (a chat message, a paste window, a saved file) and may change it on the *)
(* way, an add-on decodes it.  Bytes are 0..255; a character of a text is  *)
(* the number that its alphabet below gives it.                            *)
(***************************************************************************)
EXTENDS Integers, Sequences, FiniteSets, SequencesExt

CONSTANTS
    Payloads,       \* the strings encoded, as sequences of bytes
    RoomFactor, RoomSlack, Ceiling  \* Inflate's 4, 64 and 64 MB, scaled

EncodingsAssumption ==
    /\ Payloads \subseteq Seq(0..255)
    /\ RoomFactor \in Nat \ {0} /\ RoomSlack \in Nat \ {0} /\ Ceiling \in Nat

Nil == <<-1>>       \* decode's answer to malformed input
Error == <<-2>>     \* the call raises

-----------------------------------------------------------------------------
(* Base64.  0..61 are the letters and digits both alphabets share.         *)

Plus == 62
Slash == 63
Minus == 64
Under == 65
Pad == 66
Junk == 67

Variants == {"Standard", "UrlSafe", "invalid"}  \* the numbers 0, 1 and any other

\* Mutant: one alphabet for both variants.
SymbolStandard(digit, variant) == digit

Symbol(digit, variant) ==
    IF digit >= 62 /\ variant = "UrlSafe" THEN digit + 2 ELSE digit

\* The characters a decode takes, and the digit each stands for.
DecodeChar(strict, variant) ==
    LET own == IF variant = "Standard" THEN {Plus, Slash} ELSE {Minus, Under}
        taken == 0..61 \union IF strict THEN own ELSE {Plus, Slash, Minus, Under}
    IN  [c \in taken |-> IF c >= Minus THEN c - 2 ELSE c]

\* Byte k of a string, 0 past its end.
ByteAt(s, k) == IF k \in DOMAIN s THEN s[k] ELSE 0

\* Digit i of the bytes: four digits to a group of three bytes.
DigitOf(bytes, i) ==
    LET b == 3 * ((i - 1) \div 4)
    IN  CASE i % 4 = 1 -> bytes[b + 1] \div 4
          [] i % 4 = 2 -> (bytes[b + 1] % 4) * 16 + ByteAt(bytes, b + 2) \div 16
          [] i % 4 = 3 -> (bytes[b + 2] % 16) * 4 + ByteAt(bytes, b + 3) \div 64
          [] i % 4 = 0 -> bytes[b + 3] % 64

Repeat(c, n) == [i \in 1..n |-> c]

EncodeBase64(bytes, variant) ==
    IF Len(bytes) = 0 THEN <<>>
    ELSE IF variant = "invalid" THEN Error
    ELSE LET digits == (8 * Len(bytes) + 5) \div 6
             padding == IF variant = "Standard" THEN (4 - (digits % 4)) % 4 ELSE 0
         IN  [i \in 1..digits |-> Symbol(DigitOf(bytes, i), variant)] \o Repeat(Pad, padding)

\* The text without its trailing run of '='.
Effective(text) ==
    SubSeq(text, 1, CHOOSE n \in 0..Len(text) :
                        /\ n = 0 \/ text[n] # Pad
                        /\ \A i \in n + 1..Len(text) : text[i] = Pad)

\* Byte k of the digits; bits left over at the end are dropped.
ByteOf(digits, k) ==
    LET d == 4 * ((k - 1) \div 3)
    IN  CASE k % 3 = 1 -> digits[d + 1] * 4 + digits[d + 2] \div 16
          [] k % 3 = 2 -> (digits[d + 2] % 16) * 16 + digits[d + 3] \div 4
          [] k % 3 = 0 -> (digits[d + 3] % 4) * 64 + digits[d + 4]

\* Without a variant ("none") the decode is lenient.
DecodeBase64(text, variant) ==
    LET strict == variant # "none"
        digitOf == DecodeChar(strict, IF strict THEN variant ELSE "Standard")
        body == Effective(text)
        pads == Len(text) - Len(body)
    IN  CASE Len(text) = 0 -> <<>>
          [] Len(text) > 0 /\ variant = "invalid" -> Error
          [] OTHER ->
               IF \/ variant = "Standard" /\ Len(text) % 4 # 0
                  \/ pads > 2 \/ Len(body) % 4 = 1
                  \/ \E i \in DOMAIN body : body[i] \notin DOMAIN digitOf
               THEN Nil
               ELSE LET digits == [i \in DOMAIN body |-> digitOf[body[i]]]
                    IN  [k \in 1..(6 * Len(body)) \div 8 |-> ByteOf(digits, k)]

-----------------------------------------------------------------------------
(* Hex.  0..15 are the lower-case digits, 16..21 stand for 'A'..'F'.       *)

OtherChar == 22

EncodeHex(bytes) ==
    [i \in 1..2 * Len(bytes) |->
        LET b == bytes[(i + 1) \div 2] IN IF i % 2 = 1 THEN b \div 16 ELSE b % 16]

Nibble(c) == IF c \in 16..21 THEN c - 6 ELSE c

DecodeHex(text) ==
    IF Len(text) % 2 = 1 \/ OtherChar \in Range(text) THEN Nil
    ELSE [k \in 1..Len(text) \div 2 |-> Nibble(text[2 * k - 1]) * 16 + Nibble(text[2 * k])]

-----------------------------------------------------------------------------
(* Compression.  zlib itself is the client's: a stream is what it was made *)
(* from, its format, its length and whether its end is missing.            *)

Methods == {"Deflate", "Zlib", "Gzip"}

\* A run packs into one byte, any other string into a byte more than it has.
Packed(bytes) == IF Cardinality(Range(bytes)) = 1 THEN 1 ELSE Len(bytes) + 1

\* The stream, if any: deflateInit2 refuses another level.
CompressString(bytes, method, level) ==
    {[format |-> method, of |-> bytes, length |-> Packed(bytes), cut |-> FALSE] :
        l \in {level} \intersect -1..9}

\* What inflateInit2's windowBits take: without a method, a zlib or a gzip header.
WindowBitsFor(method) == IF method = "none" THEN {"Zlib", "Gzip"} ELSE {method}

\* The rooms that Inflate tries, one after the other.
Doublings(first) == LET room[k \in Nat] == IF k = 0 THEN first ELSE 2 * room[k - 1] IN room

\* Whether one of them, doubled up to the ceiling, takes size bytes.
RoomFor(length, size) ==
    LET room == Doublings(length * RoomFactor + RoomSlack)
    IN  \E k \in 0..size : /\ room[k] >= size
                           /\ k = 0 \/ room[k] <= Ceiling

DecompressString(stream, method) ==
    CASE method = "invalid" -> Error
      [] method # "invalid" /\ \/ stream.format \notin WindowBitsFor(method)
                               \/ stream.cut
                               \/ ~RoomFor(stream.length, Len(stream.of)) -> Nil
      [] OTHER -> stream.of

-----------------------------------------------------------------------------
(* One text on its way.                                                    *)

VARIABLES
    codec,      \* what made the text: the codec, and the variant or method
    payload,    \* the string encoded
    carried,    \* the text, as it was sent and then as it arrives
    changed,    \* what the way did to it
    decoded     \* DecodeX's answer and the variant or method it was called with

encodingVars == <<codec, payload, carried, changed, decoded>>

NotYet == [asked |-> "", answer |-> Nil]

EncodingsInit ==
    /\ codec = <<"none", "">> /\ payload \in Payloads
    /\ carried = <<>> /\ changed = "nothing" /\ decoded = NotYet

\* The add-on encodes.  What the call refuses is not sent.
Encode ==
    /\ codec[1] = "none"
    /\ \/ /\ codec' = <<"hex", "">> /\ carried' = EncodeHex(payload)
       \/ \E v \in Variants :
            /\ codec' = <<"base64", v>> /\ carried' = EncodeBase64(payload, v)
            /\ carried' # Error
       \/ \E method \in Methods, level \in {-1, 10} :
            /\ codec' = <<"compress", method>>
            /\ carried' \in CompressString(payload, method, level)
    /\ UNCHANGED <<payload, changed, decoded>>

Swap62 == [c \in 0..Junk |-> CASE c \in {Plus, Slash} -> c + 2
                               [] c \in {Minus, Under} -> c - 2 [] OTHER -> c]
Upper == [c \in 0..OtherChar |-> IF c \in 10..15 THEN c + 6 ELSE c]

\* What happens to the text on the way.
Carry ==
    /\ codec[1] # "none" /\ changed = "nothing" /\ decoded = NotYet
    /\ codec[1] # "compress" => Len(carried) > 0
    /\ \/ /\ changed' = "padding" /\ codec[1] = "base64"
          /\ carried' = Effective(carried)
       \/ /\ changed' = "alphabet" /\ codec[1] = "base64"
          /\ carried' = [i \in DOMAIN carried |-> Swap62[carried[i]]]
       \/ /\ changed' = "case" /\ codec[1] = "hex"
          /\ carried' = [i \in DOMAIN carried |-> Upper[carried[i]]]
       \/ /\ changed' = "character" /\ codec[1] # "compress"
          /\ \E i \in DOMAIN carried :
                carried' = [carried EXCEPT ![i] = IF codec[1] = "hex" THEN OtherChar ELSE Junk]
       \/ /\ changed' = "cut"
          /\ carried' = IF codec[1] = "compress" THEN [carried EXCEPT !.cut = TRUE]
                        ELSE Front(carried)
    /\ UNCHANGED <<codec, payload, decoded>>

\* The add-on decodes what arrived, as it may again with another argument.
Decode ==
    /\ \/ /\ codec[1] = "hex"
          /\ decoded' = [asked |-> "", answer |-> DecodeHex(carried)]
       \/ /\ codec[1] = "base64"
          /\ \E v \in Variants \union {"none"} :
                decoded' = [asked |-> v, answer |-> DecodeBase64(carried, v)]
       \/ /\ codec[1] = "compress"
          /\ \E method \in Methods \union {"none", "invalid"} :
                decoded' = [asked |-> method, answer |-> DecompressString(carried, method)]
    /\ UNCHANGED <<codec, payload, carried, changed>>

EncodingsNext == Encode \/ Carry \/ Decode

EncodingsTypeOK ==
    /\ codec[1] \in {"none", "hex", "base64", "compress"} /\ payload \in Payloads
    /\ changed \in {"nothing", "padding", "alphabet", "case", "character", "cut"}
    /\ decoded.asked \in Variants \union Methods \union {"none", ""}

-----------------------------------------------------------------------------
(* What the steps keep, for the theorems (Answers).                        *)

\* The text has a digit of the bytes at each place.
HexOf(text, bytes) ==
    /\ text \in Seq(Nat) /\ Len(text) = 2 * Len(bytes)
    /\ \A i \in DOMAIN text : text[i] # OtherChar /\ Nibble(text[i]) = EncodeHex(bytes)[i]

Digits(bytes) == (8 * Len(bytes) + 5) \div 6

\* The text has the first n digits of the bytes, as digitOf reads them, and then padding.
Spells(text, bytes, n, digitOf) ==
    /\ text \in Seq(Nat) /\ n \in 0..Digits(bytes) /\ n <= Len(text)
    /\ \A i \in 1..n : text[i] \in DOMAIN digitOf /\ digitOf[text[i]] = DigitOf(bytes, i)
    /\ \A i \in n + 1..Len(text) : text[i] = Pad

\* There is a character of no alphabet before the padding.
IsSpoilt(text) ==
    /\ text \in Seq(Nat)
    /\ \E n \in 1..Len(text) :
        /\ text[n] # Pad /\ \A i \in n + 1..Len(text) : text[i] = Pad
        /\ \E i \in 1..n : text[i] = Junk

HexInv == codec[1] = "hex" =>
    /\ changed = "nothing" => carried = EncodeHex(payload)
    /\ changed = "case" => HexOf(carried, payload)
    /\ changed = "character" => OtherChar \in Range(carried)
    /\ changed = "cut" => Len(carried) % 2 = 1
    /\ changed \notin {"padding", "alphabet"}
    /\ decoded # NotYet => decoded = [asked |-> "", answer |-> DecodeHex(carried)]

Base64Inv == codec[1] = "base64" =>
    LET own == DecodeChar(TRUE, codec[2])
        any == DecodeChar(FALSE, "Standard")
        all == Digits(payload)
    IN  /\ codec[2] \in Variants
        /\ payload = <<>> => carried = <<>> /\ changed = "nothing"
        /\ payload # <<>> =>
             /\ codec[2] # "invalid"
             /\ changed = "nothing" =>
                  /\ Spells(carried, payload, all, own)
                  /\ Len(carried) = all + IF codec[2] = "Standard" THEN (4 - (all % 4)) % 4 ELSE 0
             /\ changed = "padding" => Spells(carried, payload, all, own) /\ Len(carried) = all
             /\ changed = "alphabet" =>
                  /\ Spells(carried, payload, all, any)
                  /\ Len(carried) <= all + ((4 - (all % 4)) % 4)
             /\ changed = "cut" => \E n \in 0..all : Spells(carried, payload, n, any)
             /\ changed = "character" => IsSpoilt(carried)
        /\ changed # "case"
        /\ decoded # NotYet =>
             /\ decoded.asked \in Variants \union {"none"}
             /\ decoded.answer = DecodeBase64(carried, decoded.asked)

StreamInv == codec[1] = "compress" =>
    /\ codec[2] \in Methods /\ changed \in {"nothing", "cut"}
    /\ carried = [format |-> codec[2], of |-> payload, length |-> Packed(payload),
                  cut |-> changed = "cut"]
    /\ decoded # NotYet =>
         /\ decoded.asked \in Methods \union {"none", "invalid"}
         /\ decoded.answer = DecompressString(carried, decoded.asked)

EncodingsInv ==
    /\ EncodingsTypeOK
    /\ codec[1] = "none" => changed = "nothing" /\ decoded = NotYet
    /\ HexInv /\ Base64Inv /\ StreamInv

-----------------------------------------------------------------------------
(* What a reader of docs/API.md expects.                                   *)

\* What each call that answers must take: the codec's own argument or none, and only
\* what the way may change under it.
Takes ==
    LET given == decoded.asked
    IN  CASE codec[1] = "hex" -> changed \in {"nothing", "case"}
          [] codec[1] = "compress" ->
               /\ changed = "nothing"
               /\ given = codec[2] \/ (given = "none" /\ codec[2] # "Deflate")
               /\ Packed(payload) = 1 => 2 * Len(payload) <= Ceiling
          [] OTHER ->
               \/ changed = "nothing" /\ given \in {codec[2], "none"}
               \/ changed \in {"padding", "alphabet"} /\ given = "none"
               \/ changed = "padding" /\ given = codec[2] /\ given = "UrlSafe"

\* A decode gives the payload back whenever docs/API.md says it can read the text, and
\* never another string in its place: malformed input is refused, not skipped.  A cut
\* text of base64 has no mark of its end and reads as a prefix of the payload.
BytesReturn ==
    decoded # NotYet =>
        /\ Takes => decoded.answer = payload
        /\ decoded.answer \notin {Nil, Error, payload} =>
              changed = "cut" /\ IsPrefix(decoded.answer, payload)
        /\ decoded.answer = Error => decoded.asked = "invalid"
=============================================================================

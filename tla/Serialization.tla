---------------------------- MODULE Serialization ----------------------------
(***************************************************************************)
(* C_EncodingUtil's value codecs (src/src/encoding/CBOR.cpp, JSON.cpp): an *)
(* add-on saves a Lua value as text and loads it later.  tinycbor and      *)
(* picojson stand for the trees they write and read; a Lua value is a      *)
(* tuple that starts with its type:                                        *)
(*    <<"nil">>  <<"boolean", b>>  <<"number", n>>  <<"nan">>              *)
(*    <<"string", chars>>  <<"function">>  <<"table", pairs>>              *)
(* where n counts halves (so 3 is 1.5), "nan" is any number that is not    *)
(* finite, and pairs is a table's <<key, value>>s in lua_next's order,     *)
(* which a table with the same contents may have otherwise.                *)
(***************************************************************************)
EXTENDS Integers, Sequences, FiniteSets, SequencesExt, FiniteSetsExt

CONSTANTS Values,   \* the Lua values saved
          kMaxDepth \* 64

Fail == <<"fail">>      \* the call answers nil
Raise == <<"raise">>    \* the call raises an error
LuaNil == <<"nil">>

Type(v) == IF v[1] = "nan" THEN "number" ELSE v[1]
Whole(v) == v[1] = "number" /\ v[2] % 2 = 0
Keys(pairs) == {pairs[i][1] : i \in DOMAIN pairs}
ValueOf(pairs, k) == pairs[CHOOSE i \in DOMAIN pairs : pairs[i][1] = k][2]

\* Keys 1..N and no other (a table with no keys is one); both files have the same copy.
IsLuaArray(pairs) ==
    /\ \A k \in Keys(pairs) : Whole(k) /\ k[2] >= 2
    /\ Keys(pairs) = {<<"number", 2 * i>> : i \in 1..Len(pairs)}

Element(pairs, i) == ValueOf(pairs, <<"number", 2 * i>>)

\* What a Lua value, an item or a picojson::value is made of, one level down.
Parts(x) ==
    CASE x[1] \in {"table", "map"} -> UNION {Range(x[2][i]) : i \in DOMAIN x[2]}
      [] x[1] \in {"array", "arr"} -> Range(x[2])
      [] x[1] = "obj" -> {member[2] : member \in x[2]}
      [] OTHER -> {}

\* All of it: the domain of what is recursive below.
Within(x) ==
    LET down[n \in Nat] == IF n = 0 THEN {x} ELSE
            LET above == down[n - 1] IN above \cup UNION {Parts(y) : y \in above}
    IN  down[kMaxDepth + 2]

SerializationAssumption ==
    /\ kMaxDepth \in Nat \ {0}
    /\ \A v \in Values : UNION {Parts(x) : x \in Within(v)} \subseteq Within(v)

-----------------------------------------------------------------------------
(* CBOR.  An item is <<"uint" | "negative", n>>, <<"double", v>>, <<"null">>, *)
(* <<"bool", b>>, <<"text", chars>>, <<"array", items>> or                 *)
(* <<"map", <<key, value>>s>>.                                             *)

LeadBytes(major, n) == IF n < 24 THEN <<32 * major + n>> ELSE <<32 * major + 24, n>>

\* An item's bytes; a double's eight are its number's and seven more.
EncodedBytes(item) ==
    LET bytes[x \in Within(item)] ==
          CASE x[1] = "uint" -> LeadBytes(0, x[2])
            [] x[1] = "negative" -> LeadBytes(1, x[2] - 1)
            [] x[1] = "text" -> LeadBytes(3, Len(x[2])) \o x[2]
            [] x[1] = "bool" -> <<IF x[2] THEN 245 ELSE 244>>
            [] x[1] = "null" -> <<246>>
            [] x[1] = "double" -> <<251>> \o [i \in 1..8 |-> IF i = 1 THEN x[2] ELSE 0]
            [] x[1] = "array" -> LeadBytes(4, Len(x[2])) \o FlattenSeq([i \in DOMAIN x[2] |-> bytes[x[2][i]]])
            [] x[1] = "map" -> LeadBytes(5, Len(x[2])) \o
                  FlattenSeq([i \in DOMAIN x[2] |-> bytes[x[2][i][1]] \o bytes[x[2][i][2]]])
    IN  bytes[item]

\* Shorter keys first, then bytewise.
Before(a, b) ==
    \/ Len(a) < Len(b)
    \/ /\ Len(a) = Len(b)
       /\ \E i \in DOMAIN a : a[i] < b[i] /\ \A j \in 1..i - 1 : a[j] = b[j]

\* Mutant: the entries in lua_next's order.
TakenAsTheyCome(entries) == entries

\* The map's entries sorted by their encoded keys.
Canonical(entries) == SortSeq(entries, LAMBDA a, b : Before(EncodedBytes(a[1]), EncodedBytes(b[1])))

NumberItem(v) ==
    CASE v[1] = "nan" \/ ~Whole(v) -> <<"double", v>>
      [] Whole(v) /\ v[2] >= 0 -> <<"uint", v[2] \div 2>>
      [] Whole(v) /\ v[2] < 0 -> <<"negative", (-v[2]) \div 2>>

\* encode is EncodeValue as a function of a value and its depth.
EncodeTable(pairs, depth, encode) ==
    IF depth >= kMaxDepth THEN Fail
    ELSE IF IsLuaArray(pairs)
      THEN LET items == [i \in DOMAIN pairs |-> encode[Element(pairs, i), depth + 1]]
           IN  IF Fail \in Range(items) THEN Fail ELSE <<"array", items>>
      ELSE LET entries == [i \in DOMAIN pairs |->
                              <<encode[pairs[i][1], depth + 1], encode[pairs[i][2], depth + 1]>>]
           IN  IF \E i \in DOMAIN entries : Fail \in Range(entries[i]) THEN Fail
               ELSE <<"map", Canonical(entries)>>

EncodeValue(v, depth) ==
    LET encoded[x \in Within(v), d \in depth..kMaxDepth] ==
          CASE x[1] = "nil" -> <<"null">>
            [] x[1] = "boolean" -> <<"bool", x[2]>>
            [] Type(x) = "number" -> NumberItem(x)
            [] x[1] = "string" -> <<"text", x[2]>>
            [] x[1] = "table" -> EncodeTable(x[2], d, encoded)
            [] OTHER -> Fail
    IN  encoded[v, depth]

SerializeCBOR(v) == EncodeValue(v, 0)

\* A table's <<key, value>>s as RawSet leaves them: nil is no value, the last set stays.
Table(sets) ==
    LET last == {i \in DOMAIN sets : /\ sets[i][2] # LuaNil
                                     /\ \A j \in i + 1..Len(sets) : sets[j][1] # sets[i][1]}
    IN  <<"table", [n \in 1..Cardinality(last) |-> sets[SetToSortSeq(last, <)[n]]]>>

DecodeContainer(item, depth, decode) ==
    LET parts == IF item[1] = "map" THEN FlattenSeq(item[2]) ELSE item[2]
        read == [i \in DOMAIN parts |-> decode[parts[i], depth + 1]]
        keys == {i \in DOMAIN read : item[1] = "map" /\ i % 2 = 1}
    IN  IF depth >= kMaxDepth THEN Fail
        ELSE IF Fail \in Range(read) THEN Fail
        ELSE IF Raise \in Range(read) \/ \E i \in keys : read[i] \in {LuaNil, <<"nan">>}
          THEN Raise
        ELSE IF item[1] = "map"
          THEN Table([i \in DOMAIN item[2] |-> <<read[2 * i - 1], read[2 * i]>>])
          ELSE Table([i \in DOMAIN read |-> <<<<"number", 2 * i>>, read[i]>>])

DecodeValue(item, depth) ==
    LET decoded[x \in Within(item), d \in depth..kMaxDepth] ==
          CASE x[1] = "uint" -> <<"number", 2 * x[2]>>
            [] x[1] = "negative" -> <<"number", -2 * x[2]>>
            [] x[1] = "bool" -> <<"boolean", x[2]>>
            [] x[1] = "null" -> LuaNil
            [] x[1] = "double" -> x[2]
            [] x[1] = "text" -> <<"string", x[2]>>
            [] OTHER -> DecodeContainer(x, d, decoded)
    IN  decoded[item, depth]

DeserializeCBOR(item) == DecodeValue(item, 0)

-----------------------------------------------------------------------------
(* JSON.  A picojson::value is <<"null">>, <<"bool", b>>, <<"num", v>>,    *)
(* <<"str", chars>>, <<"arr", values>> or <<"obj", members>>, a member a   *)
(* <<chars, value>>, each name once (a std::map).                          *)

\* "%.14g" of a number: digits as characters 48..57, here of one-digit numbers.
NumberText(v) == (IF v[2] < 0 THEN <<45>> ELSE <<>>) \o
                 LET n == IF v[2] < 0 THEN -v[2] ELSE v[2]
                 IN  <<48 + n \div 2>> \o IF Whole(v) THEN <<>> ELSE <<46, 53>>

NamedKeys(pairs) == {i \in DOMAIN pairs : pairs[i][1][1] \in {"string", "number"}}
KeyText(k) == IF k[1] = "number" THEN NumberText(k) ELSE k[2]

LuaTableToPicojson(pairs, depth, convert) ==
    IF depth >= kMaxDepth THEN Fail
    ELSE IF IsLuaArray(pairs)
      THEN LET items == [i \in DOMAIN pairs |-> convert[Element(pairs, i), depth + 1]]
           IN  IF Fail \in Range(items) THEN Fail ELSE <<"arr", items>>
      ELSE LET member == [i \in NamedKeys(pairs) |->
                             <<KeyText(pairs[i][1]), convert[pairs[i][2], depth + 1]>>]
               stays == {i \in NamedKeys(pairs) :
                            \A j \in NamedKeys(pairs) : j > i => member[j][1] # member[i][1]}
           IN  IF \E i \in NamedKeys(pairs) : member[i][2] = Fail THEN Fail
               ELSE <<"obj", {member[i] : i \in stays}>>

LuaToPicojson(v, depth) ==
    LET converted[x \in Within(v), d \in depth..kMaxDepth] ==
          CASE x[1] \in {"nil", "nan"} -> <<"null">>
            [] x[1] = "boolean" -> <<"bool", x[2]>>
            [] x[1] = "number" -> <<"num", x>>
            [] x[1] = "string" -> <<"str", x[2]>>
            [] x[1] = "table" -> LuaTableToPicojson(x[2], d, converted)
            [] OTHER -> Fail
    IN  converted[v, depth]

SerializeJSON(v) == LuaToPicojson(v, 0)

PicojsonToLua(j) ==
    LET lua[x \in Within(j)] ==
          CASE x[1] = "null" -> LuaNil
            [] x[1] = "bool" -> <<"boolean", x[2]>>
            [] x[1] = "num" -> x[2]
            [] x[1] = "str" -> <<"string", x[2]>>
            [] x[1] = "arr" -> Table([i \in DOMAIN x[2] |-> <<<<"number", 2 * i>>, lua[x[2][i]]>>])
            [] x[1] = "obj" -> LET ms == SetToSeq(x[2])
                               IN  Table([i \in DOMAIN ms |-> <<<<"string", ms[i][1]>>, lua[ms[i][2]]>>])
    IN  lua[j]

\* picojson reads the whole text or the call answers nil.
DeserializeJSON(j, trailing) == IF trailing THEN Fail ELSE PicojsonToLua(j)

-----------------------------------------------------------------------------
(* A value on its way through a saved text, twice.                         *)

VARIABLES
    value,  \* what the add-on saves
    saved,  \* SerializeX's answer
    loaded  \* DeserializeX's answer

serialVars == <<value, saved, loaded>>

None == [format |-> "none", text |-> Fail]

SerializationInit == value \in Values /\ saved = None /\ loaded = Fail

Save ==
    /\ saved = None
    /\ \/ saved' = [format |-> "CBOR", text |-> SerializeCBOR(value)]
       \/ saved' = [format |-> "JSON", text |-> SerializeJSON(value)]
    /\ UNCHANGED <<value, loaded>>

Load ==
    /\ saved.text # Fail /\ loaded = Fail
    /\ \/ saved.format = "CBOR" /\ loaded' = DeserializeCBOR(saved.text)
       \/ /\ saved.format = "JSON"
          /\ \E trailing \in BOOLEAN : loaded' = DeserializeJSON(saved.text, trailing)
    /\ UNCHANGED <<value, saved>>

\* What was loaded is saved again, by the next session.
Resave ==
    /\ loaded \notin {Fail, Raise} /\ value # loaded
    /\ value' = loaded /\ saved' = None /\ loaded' = Fail

SerializationNext == Save \/ Load \/ Resave

-----------------------------------------------------------------------------
(* What a reader of docs/API.md expects.                                   *)

\* A Lua value whatever order its tables are walked in.
Content(v) ==
    LET content[x \in Within(v)] ==
          IF x[1] # "table" THEN x
          ELSE <<"table", {<<content[x[2][i][1]], content[x[2][i][2]]>> : i \in DOMAIN x[2]}>>
    IN  content[v]

Nesting(v) ==
    LET nesting[x \in Within(v)] ==
          IF x[1] # "table" THEN 0 ELSE 1 + Max({0} \union {nesting[y] : y \in Parts(x)})
    IN  nesting[v]

HasFunction(v) == \E x \in Within(v) : x[1] = "function"

\* CBOR gives back what was saved, whatever the keys, and refuses only functions and
\* tables nested too deep; equal tables have equal bytes.
CborReturns ==
    saved.format = "CBOR" =>
        /\ saved.text = Fail <=> HasFunction(value) \/ Nesting(value) > kMaxDepth
        /\ loaded # Fail => Content(loaded) = Content(value)
        /\ saved.text # Fail =>
             \A v \in Values : Content(v) = Content(value) =>
                EncodedBytes(SerializeCBOR(v)) = EncodedBytes(saved.text)

\* Whether j is what JSON may make of v: keys as text, of those with one text any one's
\* value, other keys left out, numbers that are not finite left out.
JsonOf(j, v) ==
    LET got(x, k) == IF k \in Keys(x[2]) THEN ValueOf(x[2], k) ELSE LuaNil
        of[x \in Within(j) \cup {LuaNil}, y \in Within(v)] ==
          IF y[1] = "nan" THEN x = LuaNil
          ELSE IF y[1] # "table" THEN x = y
          ELSE IF IsLuaArray(y[2])
          THEN \A i \in 1..Len(y[2]) : of[got(x, <<"number", 2 * i>>), Element(y[2], i)]
          ELSE /\ \A k \in Keys(x[2]) : k[1] = "string"
               /\ \A i \in NamedKeys(y[2]) : \E o \in NamedKeys(y[2]) :
                     /\ KeyText(y[2][o][1]) = KeyText(y[2][i][1])
                     /\ of[got(x, <<"string", KeyText(y[2][i][1])>>), y[2][o][2]]
               /\ \A k \in Keys(x[2]) : \E i \in NamedKeys(y[2]) : KeyText(y[2][i][1]) = k[2]
    IN  of[j, v]

\* JSON gives back what was saved as far as JSON can say it.
JsonReturns == saved.format = "JSON" /\ loaded # Fail => JsonOf(loaded, value)

ValuesReturn == CborReturns /\ JsonReturns
=============================================================================

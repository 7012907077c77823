------------------------------ MODULE MCQueries ------------------------------
(* Small instances of the queries: what each constant stands for is said in  *)
(* its module.                                                               *)
EXTENDS Queries, TLC

-----------------------------------------------------------------------------
(* A faction without standing over one with it, and a second header; the     *)
(* "Other" row comes last.                                                   *)
MCFactionDbc == 1 :> [slot |-> -1, parent |-> -1, base |-> 0]
             @@ 2 :> [slot |-> 0, parent |-> 1, base |-> 3]
             @@ 5 :> [slot |-> 1, parent |-> -1, base |-> 0]
MCHeaders == <<1, 5, 0>>

Date(y, mo, d, h, mi) == [year |-> y, month |-> mo, monthDay |-> d, hour |-> h, minute |-> mi]
MCDates == {Date(2008, 2, 29, 23, 59), Date(2010, 12, 31, 0, 0), Date(2000, 3, 1, 12, 30),
            Date(1970, 1, 31, 23, 0)}
MCDayShifts == {-31, -1, 1, 366}
MCMinuteShifts == {-1441, -1, 1, 61}

AuraOf(spell, harmful, effective, caster) ==
    [spell |-> spell, harmful |-> harmful, effective |-> effective, caster |-> caster]
MCSpellDbc == [s \in 1..3 |-> [hidden |-> FALSE, noIcon |-> s = 2,
                               effects |-> IF s = 3 THEN {"track"} ELSE {"dot", "track"}]]
MCAuraEntries == {AuraOf(1, FALSE, TRUE, "player"), AuraOf(4, TRUE, TRUE, "nil"), AuraOf(3, FALSE, TRUE, "pet")}

MCClasses == 1 :> [male |-> {"m"}, female |-> {}, neutral |-> {"n"}]
MCAreas == 1 :> 0 @@ 2 :> 1

MCStats == {[health |-> 1, maxHealth |-> 2, type |-> 0, power |-> 0 :> 1 @@ 1 :> 3, maxPower |-> 0 :> 2 @@ 1 :> 0],
            [health |-> 3, maxHealth |-> 2, type |-> 1, power |-> 0 :> 0 @@ 1 :> 5, maxPower |-> 0 :> 0 @@ 1 :> 20]}
MCDivisors == 0 :> 1 @@ 1 :> 10
MCBytes == "me" :> 3 @@ "mate" :> 2 @@ "boar" :> 0

Quest1(id, status) == [id |-> id, status |-> status]
Greets(id, complete) == [id |-> id, complete |-> complete]
MCMenus == {[options |-> <<-1, 7, -1, 0>>, quests |-> <<Quest1(1, 2), Quest1(2, 4), Quest1(3, 1)>>],
            [options |-> <<3>>, quests |-> <<Quest1(2, 3)>>]}
MCGreetings == {[active |-> <<Greets(3, TRUE)>>, available |-> <<Greets(1, FALSE), Greets(2, FALSE)>>],
                [active |-> <<>>, available |-> <<Greets(4, FALSE), Greets(5, FALSE), Greets(6, FALSE)>>]}

-----------------------------------------------------------------------------
(* A pane of one place, a worn bag of one, a backpack and a keyring of two   *)
(* and a bank of one; the array of the server's build ends before the         *)
(* keyring does.  Callers name places past the ends of each, too.            *)
Stack(id, kind, count) == [id |-> id, kind |-> kind, count |-> count]
MCRanges == 0 :> [first |-> 2, last |-> 3] @@ -1 :> [first |-> 4, last |-> 4] @@ -2 :> [first |-> 5, last |-> 6]
MCStartingItems == <<"player", 2>> :> Stack(1, "cloth", 2) @@ <<"player", 4>> :> Stack(2, "cloth", 1)
                @@ <<"player", 0>> :> Stack(4, "hat", 1) @@ <<"player", 3>> :> Stack(5, "herb", 1)
MCMaxStacks == [cloth |-> 2, herb |-> 2, hat |-> 1, bag |-> 1]
MCNamed == {<<0, 1>>, <<0, 2>>, <<0, 3>>, <<-1, 1>>, <<-1, 2>>, <<-2, 2>>, <<1, 1>>}

-----------------------------------------------------------------------------
(* An item the client ships, an heirloom of plate, and one the server made.  *)
AnyItem == [name |-> <<0, "herb">>, instant |-> "herb", quality |-> 9, heirloom |-> FALSE,
            class |-> 0, subclass |-> 0, level |-> 0, classes |-> {}, races |-> {},
            skill |-> "none", rank |-> 0, spell |-> 0, faction |-> 0, band |-> 0]
MCRecords ==
    7 :> AnyItem
 @@ 8 :> [AnyItem EXCEPT !.name = <<0, "plate">>, !.instant = "plate", !.quality = 7, !.heirloom = TRUE,
                         !.class = 4, !.subclass = 2, !.level = 2, !.classes = {1, 2}]
 @@ 9 :> [AnyItem EXCEPT !.name = <<3, "Pound Fish">>, !.instant = "fish", !.skill = "ride", !.rank = 2,
                         !.spell = 5, !.faction = 1, !.band = 4, !.races = {1}]
MCDbc == 7 :> "herb" @@ 8 :> "plate"
MCInstances == "g1" :> [item |-> 7, suffix |-> 0, seed |-> 0, soulbound |-> FALSE]
            @@ "g2" :> [item |-> 8, suffix |-> 55, seed |-> 3, soulbound |-> FALSE]
            @@ "g3" :> [item |-> 9, suffix |-> 0, seed |-> 0, soulbound |-> TRUE]
Newcomer == [inWorld |-> TRUE, level |-> 1, class |-> 1, race |-> 1, proficient |-> 0 :> {} @@ 4 :> {1},
             skills |-> <<>>, spells |-> {}, standing |-> 1 :> 3]
MCCharacters ==
    {Newcomer, [Newcomer EXCEPT !.inWorld = FALSE], [Newcomer EXCEPT !.class = 3],
     [Newcomer EXCEPT !.level = 2, !.proficient = 0 :> {} @@ 4 :> {1, 2}],
     [Newcomer EXCEPT !.level = 2, !.skills = "ride" :> 2, !.spells = {5}, !.standing = 1 :> 4],
     [Newcomer EXCEPT !.level = 3, !.skills = "ride" :> 3, !.spells = {5, 6}, !.standing = 1 :> 5]}

-----------------------------------------------------------------------------
(* Bytes at the ends of their range and of each group of three, and runs     *)
(* that a compressor shortens.                                               *)
MCPayloads == {<<>>, <<0>>, <<255>>, <<77, 97, 110>>, <<255, 255, 254>>, <<251, 240>>, <<1, 2, 3, 4>>,
               <<62, 63>>, [i \in 1..6 |-> 7], [i \in 1..4 |-> 7], [i \in 1..3 |-> 7]}

N(n) == <<"number", 2 * n>>
S(a) == <<"string", a>>
T(pairs) == <<"table", pairs>>
Yes == <<"boolean", TRUE>>
Function == <<"function">>
MCLuaValues ==
    {<<"nil">>, <<"nan">>, N(5), N(-3), <<"number", 3>>, S(<<97>>), Yes, T(<<>>),
     T(<<<<N(1), S(<<97>>)>>, <<N(2), <<"nan">>>>>>), T(<<<<N(2), <<"nan">>>>, <<N(1), S(<<97>>)>>>>),
     T(<<<<N(1), Yes>>, <<N(3), Yes>>>>),
     T(<<<<S(<<97>>), N(1)>>, <<S(<<98>>), N(2)>>, <<N(-1), Yes>>>>),
     T(<<<<S(<<98>>), N(2)>>, <<N(-1), Yes>>, <<S(<<97>>), N(1)>>>>),
     T(<<<<N(1), S(<<110>>)>>, <<S(<<49>>), S(<<115>>)>>, <<<<"boolean", FALSE>>, S(<<102>>)>>>>),
     T(<<<<S(<<49>>), S(<<115>>)>>, <<<<"boolean", FALSE>>, S(<<102>>)>>, <<N(1), S(<<110>>)>>>>),
     T(<<<<S(<<97>>), Function>>>>), T(<<<<Yes, Function>>>>), T(<<<<T(<<>>), N(1)>>>>),
     T(<<<<N(1), T(<<<<N(1), T(<<>>)>>>>)>>>>)}

-----------------------------------------------------------------------------
(* Lines of a TOC: what an author writes for several games.                  *)
Text(t) == <<"text", t>>
Space == <<"space">>
Token(word, args) == <<"token", word, args>>
MCLines ==
    {<<"interface", <<40400, 30300>>>>, <<"interface", <<20504, 11500>>>>,
     <<"flag", "LoadSavedVariablesFirst", 1>>, <<"flag", "LoadSavedVariablesFirst", 0>>, <<"comment">>,
     <<"file", <<Text("a.lua")>>>>,
     <<"file", <<Token("Family", <<>>), Text("b.lua"), Space,
                 Token("AllowLoadGameType", <<"mainline", "wrath">>)>>>>,
     <<"file", <<Token("AllowLoadTextLocale", <<"deDE">>), Space, Text("c.lua"), Space,
                 Token("AllowLoad", <<"glue", "game">>)>>>>,
     <<"file", <<Token("Unknown", <<"x">>), Text("d.lua")>>>>,
     <<"file", <<Token("AllowLoad", <<"game">>)>>>>,
     <<"file", <<Token("TextLocale", <<>>), Token("Other", <<>>)>>>>}
MCPaths == [p \in {"add-on TOC", "FrameXML"} |-> p = "add-on TOC"]
=============================================================================

------------------------------- MODULE TocFiles -------------------------------
(***************************************************************************)
(* An add-on's TOC on its way to the engine's parser and loader            *)
(* (src/src/addons/TocRewrite.cpp, TocFile.cpp, Toc.h): every read of a    *)
(* .toc under AddOns goes through Transform, which gives Retail's          *)
(* directives their meaning on a client that knows none of them.           *)
(*                                                                         *)
(* A TOC is a sequence of lines:                                           *)
(*    <<"interface", numbers>>  <<"flag", key, number>>  <<"comment">>     *)
(*    <<"blank">>  <<"file", parts>>  <<"gated", parts>> (a # before them) *)
(* and a file line's parts are <<"text", t>>, <<"space">> and              *)
(* <<"token", word, args>>, the [word args] of Retail.  Words compare      *)
(* without case (EqCI) and are written here in one.                        *)
(***************************************************************************)
EXTENDS Integers, Sequences, FiniteSets, SequencesExt

CONSTANTS Lines,    \* the lines that a TOC may have
          Paths,    \* the files read: path |-> is it an add-on's TOC
          Locales, CLIENT_INTERFACE_VERSION, MaxLines

\* An interface line has a number.
IsNumbered(line) == line[1] = "interface" => line[2] \in Seq(Nat) /\ Len(line[2]) > 0

TocAssumption ==
    /\ MaxLines \in Nat /\ Paths \in [DOMAIN Paths -> BOOLEAN]
    /\ CLIENT_INTERFACE_VERSION \in Nat /\ \A line \in Lines : IsNumbered(line)

VARIABLES
    disk,   \* the TOC as its author wrote it
    locale, \* GetLocale(), one for the process
    source, \* what the engine's reader has read, for which path
    read    \* the buffer after the hook

tocVars == <<disk, locale, source, read>>

Space == <<"space">>
Text(t) == <<"text", t>>

-----------------------------------------------------------------------------
(* TocRewrite.cpp.                                                         *)

\* [Family], [Game] and [TextLocale]; any other word stays as it is written.
VariableValue(part) ==
    CASE part[2] = "Family" -> Text("Classic") [] part[2] = "Game" -> Text("Wrath")
      [] part[2] = "TextLocale" -> Text(locale) [] OTHER -> part

ListContains(list, name) == name \in Range(list)

\* Mutant: a condition that is not known does not stop the line.
EvalLeniently(word, args) ==
    CASE word = "AllowLoadGameType" -> ListContains(args, "wrath")
      [] word = "AllowLoadTextLocale" -> ListContains(args, locale)
      [] word = "AllowLoad" -> ListContains(args, "game") [] OTHER -> TRUE

EvalCondition(word, args) ==
    CASE word = "AllowLoadGameType" -> ListContains(args, "wrath")
      [] word = "AllowLoadTextLocale" -> ListContains(args, locale)
      [] word = "AllowLoad" -> ListContains(args, "game") [] OTHER -> FALSE

IsCondition(part) == part[1] = "token" /\ Len(part[3]) > 0

\* One step along a line: a condition goes, and one space before it.
ProcessPart(part, done) ==
    IF IsCondition(part)
      THEN [keep |-> done.keep /\ EvalCondition(part[2], part[3]),
            out |-> IF Len(done.out) > 0 /\ Last(done.out) = Space THEN Front(done.out) ELSE done.out]
    ELSE [done EXCEPT !.out = Append(@, IF part[1] = "token" THEN VariableValue(part) ELSE part)]

RTrim(parts) ==
    SubSeq(parts, 1, CHOOSE n \in 0..Len(parts) :
                        /\ n = 0 \/ parts[n] # Space
                        /\ \A i \in n + 1..Len(parts) : parts[i] = Space)

ProcessFileLine(parts) ==
    LET done == FoldLeft(LAMBDA acc, part : ProcessPart(part, acc), [out |-> <<>>, keep |-> TRUE], parts)
    IN  [done EXCEPT !.out = RTrim(@)]

\* A list that has the client's version somewhere after its first number.
HidesClientVersion(numbers) ==
    /\ Len(numbers) > 1 /\ CLIENT_INTERFACE_VERSION \in Range(numbers)
    /\ numbers[1] # CLIENT_INTERFACE_VERSION

TryRewriteInterfaceLine(line) ==
    IF HidesClientVersion(line[2]) THEN <<"interface", <<CLIENT_INTERFACE_VERSION>>>> ELSE line

RebuildLine(line) ==
    IF line[1] = "interface" THEN TryRewriteInterfaceLine(line)
    ELSE IF line[1] # "file" THEN line
    ELSE IF ProcessFileLine(line[2]).keep
      THEN (IF ProcessFileLine(line[2]).out = <<>> THEN <<"blank">>
            ELSE <<"file", ProcessFileLine(line[2]).out>>)
    ELSE <<"gated", line[2]>>

RebuildToc(toc) == [i \in DOMAIN toc |-> RebuildLine(toc[i])]

\* Every other read passes: a .lua file has brackets of its own.
Transform(path, toc) == IF Paths[path] THEN RebuildToc(toc) ELSE toc

-----------------------------------------------------------------------------
(* TocFile.cpp, over the buffer the hook left.                             *)

\* The first line with the key counts.
FlagIn(toc, key) ==
    LET with == {i \in DOMAIN toc : toc[i][1] = "flag" /\ toc[i][2] = key}
    IN  \E i \in with : toc[i][3] # 0 /\ \A j \in with : i <= j

\* The engine's parser: the first number; its loader: each line that is no comment.
ParsedInterface(toc) ==
    {toc[i][2][1] : i \in {i \in DOMAIN toc : toc[i][1] = "interface"}}
LoadedFiles(toc) == SelectSeq(toc, LAMBDA line : line[1] = "file")

-----------------------------------------------------------------------------
TocInit ==
    /\ disk \in BoundedSeq(Lines, MaxLines) /\ locale \in Locales
    /\ source = <<"none">> /\ read = <<>>

\* FileRead_h: the file from the disk, or what an earlier read left, if a tool saved it.
FileRead ==
    \E path \in DOMAIN Paths, text \in {disk} \union (IF source = <<"none">> THEN {} ELSE {read}) :
        /\ read' = Transform(path, text) /\ source' = <<path, text>>
        /\ UNCHANGED <<disk, locale>>

TocNext == FileRead

TocTypeOK == Len(disk) <= MaxLines /\ Len(read) <= MaxLines /\ locale \in Locales

-----------------------------------------------------------------------------
(* What a TOC says on Retail.                                              *)

Allowed(part) ==
    \/ part[2] = "AllowLoadGameType" /\ "wrath" \in Range(part[3])
    \/ part[2] = "AllowLoadTextLocale" /\ locale \in Range(part[3])
    \/ part[2] = "AllowLoad" /\ "game" \in Range(part[3])

\* The path of a file line without its spaces, the conditions left out.
PathOf(parts) ==
    LET rest == SelectSeq(parts, LAMBDA p : p # Space /\ ~IsCondition(p))
    IN  [i \in DOMAIN rest |-> IF rest[i][1] = "token" THEN VariableValue(rest[i]) ELSE rest[i]]

RetailFiles(toc) ==
    LET loads == SelectSeq(toc, LAMBDA line :
                    /\ line[1] = "file" /\ PathOf(line[2]) # <<>>
                    /\ \A i \in DOMAIN line[2] : IsCondition(line[2][i]) => Allowed(line[2][i]))
    IN  [i \in DOMAIN loads |-> PathOf(loads[i][2])]

\* An add-on for several games is not out of date on this one and no other becomes current;
\* flags read as they were written, and a line stays the line of its number.  No other file
\* is touched.
LinesInPlace ==
    source # <<"none">> =>
        LET path == source[1]  toc == source[2]
        IN  IF ~Paths[path] THEN read = toc
            ELSE /\ Len(read) = Len(toc)
                 /\ \A i \in DOMAIN toc : toc[i][1] = "interface" =>
                        /\ read[i][1] = "interface"
                        /\ (read[i][2][1] = CLIENT_INTERFACE_VERSION) =
                           (CLIENT_INTERFACE_VERSION \in Range(toc[i][2]))
                        /\ read[i] # toc[i] => CLIENT_INTERFACE_VERSION \in Range(toc[i][2])
                 /\ \A i \in DOMAIN toc :
                        toc[i][1] = "flag" => FlagIn(read, toc[i][2]) = FlagIn(toc, toc[i][2])

\* The client loads exactly the files that Retail would load on it, in that order, and a text
\* that has been through the hook once is not changed by it again.
FilesLoad ==
    source # <<"none">> /\ Paths[source[1]] =>
        LET files == LoadedFiles(read)
        IN  /\ [i \in DOMAIN files |-> PathOf(files[i][2])] = RetailFiles(source[2])
            /\ RebuildToc(read) = read

TocRight == LinesInPlace /\ FilesLoad

\* What the steps keep, for the theorems (Answers).
IsText(toc) == /\ \E n \in 0..MaxLines : DOMAIN toc = 1..n
               /\ \A i \in DOMAIN toc : IsNumbered(toc[i])

LinesInv == IsText(disk) /\ IsText(read) /\ locale \in Locales /\ LinesInPlace
=============================================================================

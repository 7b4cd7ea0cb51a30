------------------------------ MODULE MCSources ------------------------------
(***************************************************************************)
(* The sources of a project and their commands, for TLC.                   *)
(***************************************************************************)
EXTENDS DriverProbe, IncludeGraph
LOCAL INSTANCE Sequences

-----------------------------------------------------------------------------
(* Driver probing: two directories build a file of one name, each with two  *)
(* commands; a third source links to the first and has its file's commands  *)

Flag(flag, at, name) == [flag |-> flag, at |-> at, name |-> name]
Gnu(directory, options) ==
    [driver |-> "g++", directory |-> directory, file |-> [at |-> ".", name |-> "x"], options |-> options]
Relative == Gnu("a", <<Flag("--sysroot", ".", "root"), Flag("-resource-dir", "/", "old")>>)
ForTarget == Gnu(".", <<Flag("--target", "/", "other"), Flag("--sysroot", ".", "root")>>)
PlainCommand == Gnu(".", <<>>)
WithClang == [Relative EXCEPT !.driver = "clang++"]
PathAt(directory) == [at |-> directory, name |-> "x"]

MCCommandsFor ==
    [p \in {PathAt(d) : d \in {"a", ".", "l"}} |->
        IF p.at = "." THEN <<PlainCommand, ForTarget>> ELSE <<Relative, WithClang, Relative>>]
MCPhysicalOf == [p \in {PathAt(d) : d \in {"a", "b", "l"}} |-> IF p.at = "l" THEN PathAt("a") ELSE p]
MCBroken == {<<"g13", 2>>}
MCSelections == {<<>>, <<PathAt("a"), PathAt("l")>>, <<PathAt(".")>>}

-----------------------------------------------------------------------------
(* The include graph: two sources, an include directory with links up, to a *)
(* directory outside and to one that is named alike, and an include         *)
(* directory of the commands that is itself a link                          *)

Src == <<"src">>
Inc == <<"inc">>
SourceA == <<"src", "a.cpp">>
SourceB == <<"src", "b.cpp">>
Header1 == <<"inc", "h.h">>
Detail == <<"inc", "detail", "detail", "vector">>
Private == <<"src", "private">>
Third == <<"ext", "detail", "k.h">>
\* A source with a directory of its own, which its command includes.
Tool == <<"tool">>
SourceC == <<"tool", "c.cpp">>
ToolHeader == <<"tool", "lib", "lib", "vector">>

MCDirectories == {Src, Inc, <<"inc", "detail">>, <<"inc", "detail", "detail">>, <<"ext">>, <<"ext", "detail">>, <<"out">>, Private,
                  Tool, <<"tool", "lib">>, <<"tool", "lib", "lib">>}
MCTreeFiles == {SourceA, SourceB, Header1, Detail, Third, <<"inc", "README">>, <<"src", "notes">>, <<"out", "o.h">>, Append(Private, "o.h"),
                SourceC, ToolHeader}
MCTreeLinks == [p \in {<<"link">>, <<"inc", "up">>, <<"inc", "other">>, <<"inc", "away">>, <<"inc", "also">>} |->
               CASE p = <<"link">> -> <<"ext">>
                 [] p = <<"inc", "up">> -> Inc
                 [] p = <<"inc", "other">> -> <<"ext", "detail">>
                 [] p = <<"inc", "also">> -> <<"inc", "detail">>
                 [] OTHER -> <<"out">>]

MCCommandsOf ==
    [s \in {SourceA, SourceB, SourceC} |->
        IF s = SourceA THEN {[source |-> SourceA, includes |-> {Inc, <<"link">>, <<"gone">>}]}
        ELSE IF s = SourceC THEN {[source |-> SourceC, includes |-> {Tool}]}
        ELSE {[source |-> SourceB, includes |-> {Inc, Src}]}]

MCIncludesAt ==
    [f \in MCTreeFiles |->
        CASE f = SourceA -> <<{Header1}>>
          [] f = SourceB -> <<{Header1}, {}>>
          [] f = Header1 -> <<{Detail}, {}, {Third}>>
          [] f = Detail -> <<{Third}>>
          [] OTHER -> <<{}>>]
MCOnlyFor == [e \in {<<Detail, Third>>} |-> {SourceA}]
MCUnreadable == {Private}
MCForced == [f \in MCTreeFiles |-> IF f = SourceB THEN {Detail} ELSE {}]
MCSelected == {{SourceA}, {SourceB}, {SourceC}, {SourceA, SourceB}}
=============================================================================

-------------------------- MODULE MCStoredCommands --------------------------
(* Two checkouts a and b of a repository with a component lib below its     *)
(* root, a link l to the first one, and a second repository q.              *)
EXTENDS StoredCommands
LOCAL INSTANCE Sequences

MCClones == {"a", "b", "q"}
MCCloneRoot == [c \in MCClones |-> <<"w", c>>]
MCRepositoryOf == [c \in MCClones |-> IF c = "q" THEN "q" ELSE "r"]
MCProjectComponents ==
    [r \in {"r", "q"} |-> IF r = "q" THEN <<[name |-> "q", path |-> <<>>]>>
                          ELSE <<[name |-> "r", path |-> <<>>], [name |-> "lib", path |-> <<"lib">>]>>]
MCVersions == [n \in {"1.0", "2.0"} |-> IF n = "1.0" THEN 1 ELSE 2]
\* Both checkouts hold a link to x.
MCLinks == [l \in {<<"w", "l">>, <<"w", "a", "ext">>, <<"w", "b", "ext">>} |->
              IF l = <<"w", "l">> THEN <<"w", "a">> ELSE <<"x">>]

Local(names) == [at |-> ".", names |-> names]
In(top, names) == Absolute(<<"w", top>> \o names)

\* A source outside lib that uses lib, and what a build adds.
MainSource(top, rank, level) ==
    [directory |-> <<"w", top, "build">>, file |-> Local(<<"..", "src", "m.cpp">>),
     driver |-> In(top, <<"tools", "clang++">>), usable |-> TRUE, rank |-> rank,
     arguments |->
       <<Argument("-I", Local(<<"..", "inc">>)), Argument("-I", NoPath), Word(In(top, <<"lib", "inc">>)),
         Argument("-isystem", NoPath), Word(Absolute(<<"usr", "inc">>)), Argument(level, NoPath),
         Argument("-include", NoPath), Word(Local(<<"pre.h">>)), Argument("-MF", NoPath), Word(Local(<<"m.d">>)),
         Argument("-c", NoPath), Word(Local(<<"..", "src", "m.cpp">>)),
         Argument("-o", NoPath), Word(Local(<<"m.o">>))>>]

\* A source of lib, named before its options.
Library(top) ==
    [directory |-> <<"w", top, "lib">>, file |-> In(top, <<"lib", "l.cpp">>),
     driver |-> Local(<<"ccx">>), usable |-> FALSE, rank |-> 1,
     arguments |->
       <<Word(Local(<<"l.cpp">>)), Argument("-I", Local(<<>>)), Argument("-isystem", NoPath),
         Word(In(top, <<"lib", "..", "src">>)), Argument("-include", NoPath), Word(In(top, <<"lib", "pre.h">>)),
         Argument("-MF", Local(<<"l.d">>))>>]

\* A source that is reached through a link inside the checkout.
Linked(top) ==
    [directory |-> <<"w", top>>, file |-> Local(<<"ext", "e.cpp">>),
     driver |-> Local(<<"clang">>), usable |-> TRUE, rank |-> 1,
     arguments |-> <<Argument("-I", Local(<<"ext">>)), Word(Local(<<"ext", "e.cpp">>))>>]

MCDatabases ==
    {<<MainSource("a", 2, "-O0"), MainSource("a", 1, "-O2"), Library("a")>>, <<MainSource("l", 1, "-O2"), Linked("l")>>,
     <<MainSource("b", 1, "-O2"), Linked("b")>>, <<Library("b")>>, <<Library("l")>>, <<Linked("a")>>, <<MainSource("q", 1, "-O2")>>}

=============================================================================

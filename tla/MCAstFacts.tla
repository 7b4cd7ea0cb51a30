----------------------------- MODULE MCAstFacts ------------------------------
(***************************************************************************)
(* A small program for TLC: a header with a hierarchy, two templates and   *)
(* an inline function, three sources, and a header that may be a system's. *)
(***************************************************************************)
EXTENDS AstFacts
LOCAL INSTANCE Sequences
LOCAL INSTANCE SequencesExt
LOCAL INSTANCE TLC

Builtin == [is |-> "builtin"]
Dependent == [is |-> "dependent"]
Undeduced == [is |-> "undeduced"]
Through(type) == [is |-> "through", of |-> type]

Plain(kind, usr, file) ==
    [kind |-> kind, usr |-> usr, file |-> file, top |-> file, implicit |-> FALSE, defines |-> TRUE,
     owner |-> None, type |-> Builtin, parameters |-> <<>>, arguments |-> <<>>, bases |-> <<>>,
     pattern |-> None, by |-> None, special |-> FALSE, local |-> FALSE, overrides |-> <<>>,
     dependent |-> FALSE, initial |-> None, body |-> None]
Does(does, target, at) == [does |-> does, target |-> target, receiver |-> None, at |-> at]
On(record, e) == [e EXCEPT !.receiver = record]
Record(usr, file, bases) == [Plain("record", usr, file) EXCEPT !.bases = bases]
Typed(kind, usr, file, owner, type) == [Plain(kind, usr, file) EXCEPT !.owner = owner, !.type = type]
Function(usr, file, type, body) ==
    [Plain("function", usr, file) EXCEPT !.type = type, !.body = body, !.defines = body # None]
Method(usr, file, owner, body) == [Function(usr, file, Builtin, body) EXCEPT !.owner = owner]
Instance(n, pattern, by, arguments) == [n EXCEPT !.pattern = pattern, !.by = by, !.arguments = arguments]

MCNode ==
    LET declarations ==
    [Sys |-> Record("Sys", "s", <<>>),
     endSys |-> [Method("~Sys", "s", "Sys", <<>>) EXCEPT !.special = TRUE],
     sysf |-> Function("sysf", "s", Declared("Sys"),
                <<Does("call", "sysg", "s"), On("Sys", Does("destroy", "endSys", "s"))>>),
     sysg |-> Function("sysg", "s", Builtin, None),
     Al |-> [Plain("alias", "Al", "h") EXCEPT !.type = Through(Declared("Sys"))],
     E |-> Plain("enum", "E", "h"),
     E1 |-> [Plain("enumerator", "E1", "h") EXCEPT !.owner = "E"],
     Base |-> Record("Base", "h", <<>>),
     Base_x |-> Typed("field", "Base::x", "h", "Base", Declared("Al")),
     Base_f |-> Method("Base::f", "h", "Base", None),
     nameless |-> Typed("field", None, "h", "Base", Builtin),
     BoxT |-> Plain("template", "Box", "h"),
     Box |-> Record("Box", "h", <<Dependent>>),
     Box_v |-> Typed("field", "Box::v", "h", "Box", Dependent),
     Box_put |-> [Method("Box::put", "h", "Box",
                   <<Does("use", "count", "h"), Does("unresolved", None,
                "h")>>) EXCEPT !.dependent = TRUE],
     BoxD |-> Instance(Record("Box<D>", "h", <<>>), "Box", "instantiated", <<Declared("D")>>),
     BoxD_v |-> Typed("field", "Box<D>::v", "h", "BoxD", Declared("D")),
     BoxD_put |-> Instance(Method("Box<D>::put", "h", "BoxD",
                   <<Does("use", "count", "h"), On("D", Does("call", "D_f", "h"))>>), "Box_put",
                "member", <<>>),
     BoxI |-> Instance(Record("Box<int>", "b", <<>>), "Box", "explicit", <<Builtin>>),
     id |-> [Function("id", "h", Undeduced, <<Does("use", "count", "h")>>) EXCEPT
                !.dependent = TRUE, !.parameters = <<Dependent>>],
     idD |-> Instance([Function("id<D>", "h", Declared("D"), <<Does("call", "helper", "h")>>) EXCEPT
                !.parameters = <<Through(Declared("D"))>>], "id", "instantiated",
                <<Declared("D")>>),
     helper |-> Function("helper", "h", Declared("Al"), None),
     count |-> [Typed("variable", "count", "h", None, Builtin) EXCEPT !.defines = FALSE],
     twice |-> Function("twice", "h", Builtin,
                <<Does("call", "helper", "h"), Does("use", "E1", "h"), Does("call", "twice",
                "h")>>),
     D |-> Record("D", "a", <<Declared("Base")>>),
     D_make |-> [Method("D::D", "a", "D", <<>>) EXCEPT !.special = TRUE],
     D_end |-> [Method("D::~D", None, "D", None) EXCEPT !.special = TRUE, !.implicit = TRUE],
     D_f |-> [Method("D::f", "a", "D",
                <<Does("use", "count", "a"), Does("declare", "closure", "a"), Does("declare",
                "operator", "a"),
                  Does("call", "operator", "a"), Does("use", "nameless",
                "a")>>) EXCEPT !.overrides = <<"Base_f">>],
     closure |-> Record("D::f::lambda", "a", <<>>),
     operator |-> Method("D::f::lambda()", "a", "closure",
                    <<Does("use", "Base_x", "a"), Does("construct", "D_make", "a")>>),
     p |-> [Typed("variable", "main::p", "a", None, Through(Builtin)) EXCEPT !.local = TRUE,
                !.initial = "helper"],
     q |-> [Typed("variable", "main::q", "a", None, Through(Builtin)) EXCEPT !.local = TRUE,
                !.initial = "twice"],
     main |-> Function("main", "a", Builtin,
                <<Does("construct", "D_make", "a"), On("D", Does("call", "D_f", "a")),
                Does("use", "p", "a"),
                  Does("pointer", "p", "a"), Does("pointer", "q", "a"), Does("write", "q", "a"),
                  Does("call", "idD", "a"), Does("pointer", None, "a"), On("D", Does("destroy",
                "D_end", "a")),
                  Does("call", "sysf", "a"), On("D", Does("call", "BoxD_put", "a"))>>),
     defHelper |-> Function("helper", "b", Declared("Sys"), <<Does("use", "count", "b"),
                Does("call", "sysg", "b")>>),
     defCount |-> Typed("variable", "count", "b", None, Builtin),
     defBase_f |-> Method("Base::f", "b", "Base", <<Does("call", "helper", "b"), Does("use",
                "hidden", "b")>>),
     hidden |-> Function("hidden", "g", Builtin, None),
     defHidden |-> Function("hidden", "c", Builtin, <<Does("call", "hidden", "c")>>)]
    IN declarations

Before == <<"Sys", "endSys", "sysf", "sysg">>
HeaderNodes == Before \o <<"Al", "E", "E1", "Base", "Base_x", "nameless", "Base_f", "count", "helper", "twice", "BoxT", "Box",
                      "Box_v", "Box_put">>
MCTrees ==
    [a |-> HeaderNodes \o <<"BoxD", "BoxD_v", "BoxD_put", "id", "idD", "D", "D_make", "D_f", "main">>,
     b |-> HeaderNodes \o <<"id", "hidden", "BoxI", "defHelper", "defCount", "defBase_f">>,
     c |-> <<"hidden", "defHidden">>]
AllFiles == {"s", "h", "a", "b", "c", "g"}

AstSpec == AstInit /\ [][AstNext]_astVars
=============================================================================

--------------------------- MODULE MCVariableFlow ---------------------------
(***************************************************************************)
(* Small programs for VariableFlow: a loop with dead code, references      *)
(* passed on through two calls, a function that is met again nearer to the *)
(* root, recursion and a diamond; "ext" is never defined.  Each is         *)
(* analysed for every variable of main and every depth limit that differs. *)
(***************************************************************************)
EXTENDS VariableFlow
LOCAL INSTANCE Naturals

Stmt(k, t, fr, g, a) == [kind |-> k, to |-> t, from |-> fr, callee |-> g, args |-> a]
Assign(t, fr) == Stmt("assign", t, fr, None, << >>)
Update(t, fr) == Stmt("update", t, fr, None, << >>)
Call(t, g, v) == Stmt("call", t, {v}, g, <<v>>)
Ret(v) == Stmt("return", None, {v}, None, << >>)

NoParams == << >>
ByCopy(v) == <<[var |-> v, ref |-> FALSE]>>
ByRef(v) == <<[var |-> v, ref |-> TRUE]>>
Fun(ps, bs, ss) == [params |-> ps, blocks |-> bs, succ |-> ss]
Straight(ps, b) == Fun(ps, <<b>>, <<{}>>)

Loop == [
    main |-> Fun(NoParams,
        << <<Assign("a", {}), Assign("b", {})>>,
           <<Call(None, "inc", "a"), Update("b", {"a"})>>,
           <<Ret("b")>>,
           <<Assign("a", {})>> >>,
        <<{2}, {2, 3}, {}, {}>>),
    inc |-> Straight(ByRef("p"), <<Update("p", {})>>)]

Nested == [
    main |-> Straight(NoParams,
        <<Assign("a", {}), Call(None, "outer", "a"), Assign("b", {"a"})>>),
    outer |-> Straight(ByRef("p"), <<Call(None, "inner", "p")>>),
    inner |-> Fun(ByRef("q"),
        << << >>, <<Call(None, "ext", "q")>>, <<Update("q", {})>> >>, <<{2, 3}, {}, {}>>)]

\* g is met through h first, two calls deep, and later from main.
Detour == [
    main |-> Fun(NoParams,
        << <<Assign("a", {}), Call(None, "h", "a"), Assign("b", {"a"}), Assign("c", {"b"})>>,
           <<Assign("d", {"c"}), Assign("e", {"d"}), Call("z", "g", "e")>> >>,
        <<{2}, {}>>),
    h |-> Straight(ByCopy("p"), <<Call(None, "g", "p")>>),
    g |-> Straight(ByCopy("q"), <<Call("r", "k", "q"), Ret("r")>>),
    k |-> Straight(ByCopy("p"), <<Ret("p")>>)]

Recursive == [
    main |-> Fun(ByCopy("p"),
        << << >>, <<Assign("a", {"p"}), Call("b", "main", "a"), Ret("b")>>, <<Ret("p")>> >>,
        <<{2, 3}, {}, {}>>)]

Diamond == [
    main |-> Fun(ByRef("p"),
        << <<Assign("a", {"p"})>>, <<Assign("a", {"b"})>>, <<Call("b", "ext", "a")>>,
           <<Assign("p", {"a"}), Ret("b")>> >>,
        <<{2, 3}, {4}, {4}, {}>>)]

FlowPrograms == {Loop, Nested, Detour, Recursive, Diamond}
Questions == [fn : {"main"}, var : {"a", "b", "c", "p"}, depth : {None, 0, 1, 2},
              output : {"new", "alien"}]

MCFlowInit ==
    /\ FlowInit(FlowPrograms, Questions)
    /\ asked.var \in LocalsOf("main")
    /\ asked.output = "alien" => asked.var = "b" /\ asked.depth = 1
=============================================================================

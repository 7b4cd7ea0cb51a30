---------------------------- MODULE MCCallGraph -----------------------------
(* Call graphs for TLC: every small graph with every query, and programs     *)
(* with virtual calls that are extracted, stored and searched.               *)
EXTENDS CallDispatch
LOCAL INSTANCE Naturals
LOCAL INSTANCE FiniteSets

CONSTANTS
    MaxGraph,        \* calls in a graph
    Limits,          \* values of a budget
    OneUnit,         \* methods are defined in the unit that calls them
    SharedTargets,   \* two classes of receivers may run the same override
    OtherObjects     \* a method may call another object of its class

Nodes == 1..4
PlainCall(p) == [src |-> p[1], dst |-> p[2], kind |-> "call", recv |-> None, cert |-> None]
Ordered(pairs) ==
    [i \in 1..Cardinality(pairs) |->
        PlainCall(CHOOSE p \in pairs :
            Cardinality({q \in pairs : q[1] < p[1] \/ (q[1] = p[1] /\ q[2] < p[2])}) = i - 1)]
SmallGraphs ==
    {pairs \in SUBSET {p \in Nodes \X Nodes : p[1] # p[2]} : Cardinality(pairs) <= MaxGraph}
\* Function 3 is first met three calls away from 1 and then two.
ShortCut == {<<1, 2>>, <<1, 3>>, <<2, 3>>, <<3, 4>>, <<4, 5>>}

NoLimits == [depth |-> None, nodes |-> None, edges |-> None]
Budgets == {NoLimits} \cup {[NoLimits EXCEPT !.depth = k] : k \in Limits}
           \cup {[NoLimits EXCEPT !.nodes = k] : k \in Limits}
           \cup {[NoLimits EXCEPT !.edges = k] : k \in Limits}
Query(mode, roots, b, stop) ==
    [mode |-> mode, roots |-> roots, depth |-> b.depth, nodes |-> b.nodes, edges |-> b.edges,
     target |-> IF mode \in {"shortest", "simple"} THEN 3 ELSE None, mayStop |-> stop]

Main == <<"main">>
Run == <<"run", "B">>
Step(c) == <<"step", c>>
StepSelf == [site |-> 1, caller |-> Run, callee |-> Step("B"), recv |-> "B", cert |-> "possible",
             virtual |-> TRUE, self |-> TRUE]
StepOther == [StepSelf EXCEPT !.site = 2, !.self = FALSE]
\* obj.run(), obj.step(), ref.run() or ref.step() in main: the callee is the
\* declaration that name lookup finds.
MainCall(site, name, c, cert, methods) ==
    [site |-> site, caller |-> Main, recv |-> c, cert |-> cert, virtual |-> name = "step", self |-> FALSE,
     callee |-> CASE name = "run" -> Run
                  [] c = "E" /\ Step("E") \in methods -> Step("E")
                  [] c \in {"D", "E"} /\ Step("D") \in methods -> Step("D")
                  [] OTHER -> Step("B")]
Programs ==
    {[calls |-> {StepSelf} \cup other \cup {MainCall(3, x[1], x[2], x[3], ms), MainCall(4, y[1], y[2], y[3], ms)},
      methods |-> ms \cup {Run},
      unit |-> [f \in ms \cup {Run, Main} |-> IF f = Main \/ OneUnit THEN 1 ELSE un]] :
     other \in IF OtherObjects THEN {{}, {StepOther}} ELSE {{}},
     x \in {"run", "step"} \X Classes \X {"exact", "possible"},
     y \in {"run", "step"} \X Classes \X {"exact", "possible"},
     ms \in {{Step("B")} \cup m : m \in SUBSET {Step("D"), Step("E")}},
     un \in {1, 2}}
\* Receivers of two exact classes never run the same override.
NothingShared ==
    \A a, b \in program.calls :
        a.callee = Run /\ b.callee = Run /\ a.cert = "exact" /\ b.cert = "exact" /\ a.recv # b.recv
          => Final("step", a.recv) # Final("step", b.recv)
Bases == [B |-> None, D |-> "B", E |-> "D"]

NoProgram == [calls |-> {}, methods |-> {}, unit |-> [f \in {} |-> 1]]

CallInit ==
    \/ \E pairs \in SmallGraphs, mode \in {"callees", "callers", "shortest", "simple"}, b \in Budgets,
          bodies \in {Nodes, Nodes \ {2}}, outside \in {{}, {4}} :
        /\ bodies = Nodes \/ outside = {}
        /\ Begin([edges |-> Ordered(pairs), bodies |-> bodies, outside |-> outside],
                 Query(mode, <<1>>, b, FALSE))
        /\ DispatchInit(NoProgram)
    \/ \E p \in Programs :
        /\ DispatchInit(p)
        /\ SharedTargets \/ NothingShared
        /\ Begin(None, Query("callees", <<Main>>, NoLimits, FALSE))

CallSpec == CallInit /\ [][CallNext]_<<searchVars, dispatchVars>>
=============================================================================

---------------------------- MODULE VariableFlow ----------------------------
(***************************************************************************)
(* analyse variable-flow: what a variable of a function depends on and     *)
(* what depends on it, through calls, arguments, results and references.   *)
(* A worklist activates the occurrences that are connected to the variable *)
(* and expands their calls; at the end reaching definitions connect them.  *)
(* Next to the finished graph the model runs the program, to see what      *)
(* really flows.                                                           *)
(***************************************************************************)
EXTENDS NoValue
LOCAL INSTANCE Naturals
LOCAL INSTANCE Sequences
LOCAL INSTANCE FiniteSets
LOCAL INSTANCE SequencesExt

CONSTANT MaxSteps       \* bound on the statements of an execution

VARIABLES
    text,       \* the program: parameters, blocks and successors per function
    asked,      \* root function, root variable and depth limit
    flow,       \* the traversal and the graph that it builds
    flowStatus,     \* None, "complete" or "partial"
    frames,     \* the stack of an execution of the program
    happened,   \* what flowed in the last step of the execution
    executed       \* statements executed (bound)

flowVars == <<text, asked, flow, flowStatus, frames, happened, executed>>

(* A statement assigns, updates, calls or returns; `from` is what it reads  *)
(* and `to` what it writes.  A call has one argument for every parameter.   *)

Defined == DOMAIN text
Body(f, b) == text[f].blocks[b]
Places(f) == {<<b, i>> \in (DOMAIN text[f].blocks) \X (1..5) : i <= Len(Body(f, b))}
StatementAt(f, p) == Body(f, p[1])[p[2]]

-----------------------------------------------------------------------------
(* The occurrences that the collector finds in a function *)

Node(f, p, kind, v) == [fn |-> f, at |-> p, kind |-> kind, var |-> v]
ParamNode(f, v) == Node(f, <<1, 0>>, "parameter", v)
CallNode(f, p) == Node(f, p, "call", None)
EffectNode(c, v) == [c EXCEPT !.kind = "effect", !.var = v]
Reads(f, p) == {Node(f, p, "read", v) : v \in StatementAt(f, p).from}
WriteOf(f, p) == Node(f, p, IF StatementAt(f, p).kind = "update" THEN "update" ELSE "write",
                      StatementAt(f, p).to)

Calls(f) == {CallNode(f, p) : p \in {q \in Places(f) : StatementAt(f, q).kind = "call"}}
Returns(f) == {Node(f, p, "return", None) :
                  p \in {q \in Places(f) : StatementAt(f, q).kind = "return"}}
Writes(f) == {WriteOf(f, p) : p \in {q \in Places(f) : StatementAt(f, q).to # None}}
Accesses(f) ==
    {ParamNode(f, x.var) : x \in ToSet(text[f].params)}
      \cup Writes(f) \cup UNION {Reads(f, p) : p \in Places(f)}

Callee(c) == StatementAt(c.fn, c.at).callee
Arguments(c) == StatementAt(c.fn, c.at).args

\* Edges inside a statement.
LocalEdges(f) ==
    UNION {
        LET s == StatementAt(f, p) IN
        {[src |-> r, dst |-> CallNode(f, p), kind |-> "argument"] :
            r \in IF s.kind = "call" THEN Reads(f, p) ELSE {}}
          \cup {[src |-> CallNode(f, p), dst |-> w, kind |-> "call-result"] :
            w \in IF s.kind = "call" /\ s.to # None THEN {WriteOf(f, p)} ELSE {}}
          \cup {[src |-> r, dst |-> w, kind |-> "value"] :
            r \in IF s.kind = "call" THEN {} ELSE Reads(f, p),
            w \in IF s.kind = "return" THEN {Node(f, p, "return", None)} ELSE {WriteOf(f, p)}}
        : p \in Places(f)}

-----------------------------------------------------------------------------
(* The traversal.  Its steps are functions of the state of the traversal;   *)
(* order among equals is arbitrary.                                         *)

EmptyFlow == [active |-> {}, pending |-> << >>, depth |-> [f \in Defined |-> None],
          expanded |-> [c \in {} |-> 0], edges |-> {}, boundaries |-> {}, bindings |-> << >>,
          effects |-> {}, phase |-> "drain", before |-> 0]

Activate(t, ids) ==
    [t EXCEPT !.active = @ \cup ids, !.pending = @ \o SetToSeq(ids \ t.active)]

Link(t, es) == [t EXCEPT !.edges = @ \cup es]

\* A function that is met again nearer to the root expands its calls again.
Summarise(t, f, d) ==
    CASE t.depth[f] = None -> Link([t EXCEPT !.depth[f] = d], LocalEdges(f))
      [] t.depth[f] # None /\ d < t.depth[f] ->
           [t EXCEPT !.depth[f] = d, !.pending = @ \o SetToSeq(Calls(f) \cap t.active)]
      [] OTHER -> t

\* The call may write the caller's variable.
CallerEffect(t, c, i) ==
    LET e == EffectNode(c, Arguments(c)[i])
    IN Activate(Link([t EXCEPT !.effects = @ \cup {e}],
                     {[src |-> c, dst |-> e, kind |-> "effect"]}), {e})

Reason(t, c) ==
    CASE Callee(c) \notin Defined -> "external"
      [] Callee(c) \in Defined /\ asked.depth # None /\ t.depth[c.fn] >= asked.depth -> "depth-limit"
      [] OTHER -> None

ByReference(c, i) == Callee(c) \notin Defined \/ text[Callee(c)].params[i].ref

UnknownEffects(t, c) ==
    FoldLeft(LAMBDA u, i : IF ByReference(c, i) THEN CallerEffect(u, c, i) ELSE u,
             t, [i \in 1..Len(Arguments(c)) |-> i])

ExpandCall(t, c) ==
    IF Reason(t, c) # None
    THEN UnknownEffects([t EXCEPT !.boundaries = @ \cup {<<c, Reason(t, c)>>}], c)
    ELSE LET g == Callee(c)
             ps == text[g].params
             u == Summarise(t, g, t.depth[c.fn] + 1)
             bound == [u EXCEPT !.bindings = @ \o [i \in 1..Len(ps) |-> <<c, i>>]]
         IN Activate(Link(bound,
                {[src |-> Node(c.fn, c.at, "read", Arguments(c)[i]), dst |-> ParamNode(g, ps[i].var),
                  kind |-> IF ps[i].ref THEN "argument-ref" ELSE "argument-copy"] : i \in DOMAIN ps}
                  \cup {[src |-> r, dst |-> c, kind |-> "return"] : r \in Returns(g)}),
                {ParamNode(g, ps[i].var) : i \in DOMAIN ps} \cup Returns(g))

Neighbours(t, n) ==
    {e.dst : e \in {x \in t.edges : x.src = n /\ x.kind \in {"value", "argument", "call-result"}}}
      \cup {e.src : e \in {x \in t.edges : x.dst = n /\ x.kind \in {"value", "argument", "call-result"}}}

Occurrences(t, n) ==
    IF n.var = None THEN {}
    ELSE {x \in Accesses(n.fn) \cup t.effects : x.fn = n.fn /\ x.var = n.var}

\* Traversal::drain, one element
Drain(t) ==
    LET n == Head(t.pending)
        u == Activate([t EXCEPT !.pending = Tail(@)], Occurrences(t, n) \cup Neighbours(t, n))
    IN IF n.kind = "call" /\ (n \in DOMAIN t.expanded => t.depth[n.fn] < t.expanded[n])
       THEN ExpandCall([u EXCEPT !.expanded =
                [c \in DOMAIN @ \cup {n} |-> IF c = n THEN t.depth[n.fn] ELSE @[c]]], n)
       ELSE u

\* What writes the storage behind a reference parameter.
EffectsOf(t, f, v) ==
    {x \in Writes(f) \cup t.effects : x.fn = f /\ x.var = v}

\* Mutant of LinkBinding: an effect is not passed on to the caller's caller.
LinkBindingOnce(t, b) ==
    LET c == b[1] p == text[Callee(c)].params[b[2]]
        sources == IF p.ref THEN {x \in Writes(Callee(c)) : x.var = p.var} \cap t.active ELSE {}
    IN IF sources = {} THEN t
       ELSE Link(CallerEffect(t, c, b[2]),
                 {[src |-> x, dst |-> EffectNode(c, Arguments(c)[b[2]]), kind |-> "reference-effect"] :
                     x \in sources})

LinkBinding(t, b) ==
    LET c == b[1] p == text[Callee(c)].params[b[2]]
        sources == IF p.ref THEN EffectsOf(t, Callee(c), p.var) \cap t.active ELSE {}
    IN IF sources = {} THEN t
       ELSE Link(CallerEffect(t, c, b[2]),
                 {[src |-> x, dst |-> EffectNode(c, Arguments(c)[b[2]]), kind |-> "reference-effect"] :
                     x \in sources})

LinkEffects(t) == FoldLeft(LinkBinding, t, t.bindings)

-----------------------------------------------------------------------------
(* Reaching definitions of one variable of one function, over the blocks    *)
(* that are reachable                                                       *)

ReachableBlocks(f) ==
    LET near[n \in Nat] == IF n = 0 THEN {1}
                           ELSE near[n - 1] \cup UNION {text[f].succ[b] : b \in near[n - 1]}
    IN near[Len(text[f].blocks)]

Order(n) ==
    CASE n.kind = "read" -> 1 [] n.kind = "effect" -> 2 [] OTHER -> 3

\* The events of a block in order: statement, then position in it.
Events(t, f, v, b) ==
    SetToSortSeq({n \in (Accesses(f) \cup t.effects) \cap t.active :
                      n.fn = f /\ n.var = v /\ n.at[1] = b},
                 LAMBDA x, y : x.at[2] < y.at[2] \/ (x.at[2] = y.at[2] /\ Order(x) < Order(y)))

\* A call only may write.
Transferred(defs, n) ==
    CASE n.kind = "read" -> defs
      [] n.kind = "effect" -> defs \cup {n}
      [] OTHER -> {n}

Transfer(defs, events) == FoldLeft(Transferred, defs, events)

DataEdges(t, f, v) ==
    LET blocks == ReachableBlocks(f)
        events == [b \in blocks |-> Events(t, f, v, b)]
        size == 1 + Cardinality(blocks) * Cardinality(UNION {ToSet(events[b]) : b \in blocks})
        in[n \in Nat] ==
            IF n = 0 THEN [b \in blocks |-> {}]
            ELSE LET before == in[n - 1]
                 IN [b \in blocks |-> UNION {Transfer(before[p], events[p]) :
                                                p \in {q \in blocks : b \in text[f].succ[q]}}]
        entering == in[size]
    IN UNION {{[src |-> d, dst |-> events[b][k], kind |-> "data"] :
                  d \in Transfer(entering[b], SubSeq(events[b], 1, k - 1))} :
              <<b, k>> \in {x \in blocks \X (1..8) : /\ x[2] <= Len(events[x[1]])
                                                    /\ events[x[1]][x[2]].kind \in {"read", "update"}}}

Variables(t, f) == {n.var : n \in {x \in Accesses(f) \cup t.effects : x.fn = f}}

\* Traversal::finish: what was not activated is dropped, and depth limits of
\* functions that turned out to be nearer.
Finished(t) ==
    LET kept == [t EXCEPT
            !.edges = {e \in @ : e.src \in t.active /\ e.dst \in t.active},
            !.boundaries = {b \in @ : /\ b[1] \in t.active
                                      /\ b[2] = "depth-limit" => t.depth[b[1].fn] >= asked.depth}]
    IN Link([kept EXCEPT !.phase = "done"],
            UNION {UNION {DataEdges(t, f, v) : v \in Variables(t, f)} :
                       f \in {g \in Defined : t.depth[g] # None}})

\* An access in a block that is never reached cannot be ordered.
Unmapped(t) ==
    \E n \in t.active : n.kind \in {"read", "write", "update", "effect"}
                        /\ n.at[1] \notin ReachableBlocks(n.fn)

-----------------------------------------------------------------------------
(* The command *)

SelectVariable(p, q) ==
    /\ text = p /\ asked = q
    /\ flow = LET t == Summarise(EmptyFlow, q.fn, 0)
              IN Activate(t, {n \in Accesses(q.fn) : n.var = q.var})
    /\ flowStatus = None /\ frames = << >> /\ happened = {} /\ executed = 0

DrainOne ==
    /\ flow.phase = "drain" /\ flow.pending # << >>
    /\ flow' = Drain(flow)
    /\ UNCHANGED <<text, asked, flowStatus, frames, happened, executed>>

Effects ==
    /\ flow.phase = "drain" /\ flow.pending = << >>
    /\ LET t == LinkEffects(flow)
           again == Cardinality(t.edges) # Cardinality(flow.edges) \/ t.pending # << >>
       IN flow' = [t EXCEPT !.phase = IF again THEN "drain" ELSE "finish"]
    /\ UNCHANGED <<text, asked, flowStatus, frames, happened, executed>>

FinishGraph ==
    /\ flow.phase = "finish"
    /\ flow' = Finished(flow)
    /\ flowStatus' = IF Unmapped(flow) THEN "partial" ELSE "complete"
    /\ UNCHANGED <<text, asked, frames, happened, executed>>

(* variable_flow_edge and variable_flow_boundary refer to stored nodes, in  *)
(* one transaction on a new database or one that has exactly this schema.   *)
ReferencesStored ==
    /\ \A e \in flow.edges : e.src \in flow.active /\ e.dst \in flow.active
    /\ \A b \in flow.boundaries : b[1] \in flow.active

Prepared == asked.output # "alien"

Persist ==
    /\ flow.phase = "done"
    /\ flow' = [flow EXCEPT !.phase = CASE ~Prepared -> "refused"
                                        [] Prepared /\ ~ReferencesStored -> "failed"
                                        [] OTHER -> "stored"]
    /\ UNCHANGED <<text, asked, flowStatus, frames, happened, executed>>

-----------------------------------------------------------------------------
(* The execution of the program, from its root function.  A variable holds  *)
(* the occurrence that wrote it last, and whether the queried variable       *)
(* flowed into what it holds.                                               *)

TopFrame == frames[Len(frames)]
Held(v) == TopFrame.cells[v]
Queried(n) == n.fn = asked.fn /\ n.var = asked.var
Value(n, hot) == [def |-> n, hot |-> hot \/ Queried(n)]
From(value, n) == [src |-> value.def, dst |-> n, hot |-> value.hot]

LocalsOf(f) ==
    {n.var : n \in {m \in Accesses(f) : m.var # None}}

Frame(f, bound) ==
    [fn |-> f, at |-> <<1, 1>>,
     cells |-> [v \in LocalsOf(f) |-> IF v \in DOMAIN bound THEN bound[v] ELSE None]]

(* What the statement at the top reads: the values, and where they come from. *)
ReadValues == {Value(r, Held(r.var).hot) :
                  r \in {n \in Reads(TopFrame.fn, TopFrame.at) : Held(n.var) # None}}
ReadFlows == {From(Held(r.var), r) :
                  r \in {n \in Reads(TopFrame.fn, TopFrame.at) : Held(n.var) # None}}
AnyHot(values) == \E x \in values : x.hot

Executing == flow.phase = "stored" /\ frames # << >> /\ executed < MaxSteps
AtStatement == Executing /\ TopFrame.at[2] <= Len(Body(TopFrame.fn, TopFrame.at[1]))
Now == StatementAt(TopFrame.fn, TopFrame.at)

Continue(frame, cells) == [frame EXCEPT !.at[2] = @ + 1, !.cells = cells]
SetTop(frame) == [frames EXCEPT ![Len(frames)] = frame]

Execute ==
    /\ flow.phase = "stored" /\ frames = << >> /\ executed = 0
    /\ frames' = <<Frame(asked.fn,
            [v \in {x.var : x \in ToSet(text[asked.fn].params)} |->
                Value(ParamNode(asked.fn, v), FALSE)])>>
    /\ executed' = 1
    /\ UNCHANGED <<text, asked, flow, flowStatus, happened>>

Assigns ==
    /\ AtStatement /\ Now.kind \in {"assign", "update"}
    /\ LET w == WriteOf(TopFrame.fn, TopFrame.at)
           old == IF Now.kind = "update" /\ Held(Now.to) # None THEN {Held(Now.to)} ELSE {}
       IN /\ frames' = SetTop(Continue(TopFrame,
                           [TopFrame.cells EXCEPT ![Now.to] = Value(w, AnyHot(ReadValues \cup old))]))
          /\ happened' = ReadFlows \cup {From(x, w) : x \in ReadValues \cup old}
    /\ executed' = executed + 1
    /\ UNCHANGED <<text, asked, flow, flowStatus>>

(* A call is followed within the depth limit, and wherever the analysis     *)
(* claims to have followed it.                                              *)
WithinLimit(c) ==
    (asked.depth # None /\ \E b \in flow.boundaries : b[1] = c) => Len(frames) <= asked.depth

WithResult(cells, c, hot) ==
    IF StatementAt(c.fn, c.at).to = None THEN cells
    ELSE [cells EXCEPT ![StatementAt(c.fn, c.at).to] = Value(WriteOf(c.fn, c.at), hot)]

ResultFlow(c, hot) ==
    IF StatementAt(c.fn, c.at).to = None THEN {}
    ELSE {[src |-> c, dst |-> WriteOf(c.fn, c.at), hot |-> hot]}

(* What is called is not seen: it may write what it got by reference.       *)
CallsUnseen ==
    /\ AtStatement /\ Now.kind = "call"
    /\ LET c == CallNode(TopFrame.fn, TopFrame.at)
           hot == AnyHot(ReadValues)
       IN /\ Callee(c) \in Defined => ~WithinLimit(c)
          /\ \E written \in SUBSET {i \in DOMAIN Arguments(c) : ByReference(c, i)} :
                LET vars == {Arguments(c)[i] : i \in written}
                    cells == [v \in DOMAIN TopFrame.cells |->
                                 IF v \in vars THEN Value(EffectNode(c, v), hot) ELSE TopFrame.cells[v]]
                IN /\ frames' = SetTop(Continue(TopFrame, WithResult(cells, c, hot)))
                   /\ happened' = ReadFlows \cup {From(x, c) : x \in ReadValues}
                                    \cup {[src |-> c, dst |-> EffectNode(c, v), hot |-> hot] : v \in vars}
                                    \cup ResultFlow(c, hot)
    /\ executed' = executed + 1
    /\ UNCHANGED <<text, asked, flow, flowStatus>>

CallsDefined ==
    /\ AtStatement /\ Now.kind = "call"
    /\ LET c == CallNode(TopFrame.fn, TopFrame.at)
           ps == text[Callee(c)].params
           Index(v) == CHOOSE i \in DOMAIN ps : ps[i].var = v
           Read(i) == Node(c.fn, c.at, "read", Arguments(c)[i])
           Passed(i) == Value(Read(i), Held(Arguments(c)[i]) # None /\ Held(Arguments(c)[i]).hot)
       IN /\ Callee(c) \in Defined /\ WithinLimit(c)
          /\ frames' = Append(frames, Frame(Callee(c),
                [v \in {x.var : x \in ToSet(ps)} |->
                    Value(ParamNode(Callee(c), v), Passed(Index(v)).hot)]))
          /\ happened' = ReadFlows \cup {From(x, c) : x \in ReadValues}
                           \cup {From(Passed(i), ParamNode(Callee(c), ps[i].var)) : i \in DOMAIN ps}
    /\ executed' = executed + 1
    /\ UNCHANGED <<text, asked, flow, flowStatus>>

(* Back in the caller: reference parameters that were written wrote its     *)
(* variables, and the result is stored.                                     *)
LeaveFrame(results, flows) ==
    IF Len(frames) = 1 THEN frames' = << >> /\ happened' = flows
    ELSE LET caller == frames[Len(frames) - 1]
             c == CallNode(caller.fn, caller.at)
             ps == text[TopFrame.fn].params
             written == {i \in DOMAIN ps : /\ ps[i].ref
                                           /\ Held(ps[i].var).def # ParamNode(TopFrame.fn, ps[i].var)}
             Effect(i) == EffectNode(c, Arguments(c)[i])
             cells == [v \in DOMAIN caller.cells |->
                IF \E i \in written : Arguments(c)[i] = v
                THEN LET i == CHOOSE i \in written : Arguments(c)[i] = v
                     IN Value(Effect(i), Held(ps[i].var).hot)
                ELSE caller.cells[v]]
         IN /\ frames' = Append(SubSeq(frames, 1, Len(frames) - 2),
                                Continue(caller, WithResult(cells, c, AnyHot(results))))
            /\ happened' = flows \cup {From(Held(ps[i].var), Effect(i)) : i \in written}
                  \cup {From(x, c) : x \in results}
                  \cup IF results = {} THEN {} ELSE ResultFlow(c, AnyHot(results))

ReturnsValue ==
    /\ AtStatement /\ Now.kind = "return"
    /\ LET r == Node(TopFrame.fn, TopFrame.at, "return", None)
       IN LeaveFrame({Value(r, AnyHot(ReadValues))}, ReadFlows \cup {From(x, r) : x \in ReadValues})
    /\ executed' = executed + 1
    /\ UNCHANGED <<text, asked, flow, flowStatus>>

FallsOff ==
    /\ Executing /\ ~AtStatement /\ text[TopFrame.fn].succ[TopFrame.at[1]] = {}
    /\ LeaveFrame({}, {})
    /\ executed' = executed + 1
    /\ UNCHANGED <<text, asked, flow, flowStatus>>

Branches ==
    /\ Executing /\ ~AtStatement
    /\ \E b \in text[TopFrame.fn].succ[TopFrame.at[1]] : frames' = SetTop([TopFrame EXCEPT !.at = <<b, 1>>])
    /\ happened' = {} /\ executed' = executed + 1
    /\ UNCHANGED <<text, asked, flow, flowStatus>>

FlowInit(programs, queries) == \E p \in programs, q \in queries : SelectVariable(p, q)

FlowNext ==
    \/ DrainOne \/ Effects \/ FinishGraph \/ Persist
    \/ Execute \/ Assigns \/ CallsUnseen \/ CallsDefined \/ ReturnsValue \/ FallsOff \/ Branches

-----------------------------------------------------------------------------
(* Correctness *)

\* Everything that the value of the queried variable really reaches, through
\* assignments, arguments, results and written references, at most the allowed
\* number of calls deep, is in the graph with an edge from where it came
\* (analysis/variableflow/Flow.cpp, Effects.cpp, Reaching.cpp), and the graph
\* names no node that it dropped, which the store would refuse.
FlowSound ==
    /\ flow.phase # "failed"
    /\ \A e \in happened :
         e.hot => /\ e.src \in flow.active /\ e.dst \in flow.active
                  /\ \E x \in flow.edges : x.src = e.src /\ x.dst = e.dst
=============================================================================

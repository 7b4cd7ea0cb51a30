----------------------------- MODULE CallSearch -----------------------------
(***************************************************************************)
(* Searching a stored call graph: the callees of some functions, their     *)
(* callers, or the paths from one to another.  Calls through an object     *)
(* carry the class of their receiver, and a search enters a function in    *)
(* the context of the receiver that it met last.  The search stops at      *)
(* functions without a body and outside of the selected components, at its *)
(* budgets, and when it is interrupted; what it leaves out it must tell.   *)
(***************************************************************************)
EXTENDS NoValue, Naturals, FiniteSets, Sequences, SequencesExt

VARIABLES
    graph,      \* its edges in their order, the functions with a body, those outside
    query,      \* mode, roots, target and budgets (None: no limit)
    interrupt,  \* "cancelled", "time_limit" or None
    todo,       \* the roots that were not looked at
    stack,      \* the frames of the recursion, innermost first
    queue,      \* paths to extend (shortest path only)
    expanded,   \* the contexts that were entered
    result,     \* what was found, and why the search stopped
    status      \* of the finished run, or None

searchVars == <<graph, query, interrupt, todo, stack, queue, expanded, result, status>>

ASSUME SearchAssumption ==
    /\ None # {}
    /\ None \notin {"max_depth", "max_nodes", "max_edges", "cancelled", "time_limit", "complete", "truncated"}

NoResult == [nodes |-> {}, keys |-> {}, edges |-> {}, paths |-> {},
             frontier |-> {}, reason |-> None, excluded |-> {}]

Begin(g, q) ==
    /\ graph = g /\ query = q /\ interrupt = None
    /\ todo = q.roots /\ stack = <<>> /\ queue = <<>> /\ expanded = {}
    /\ result = NoResult /\ status = None

-----------------------------------------------------------------------------
(* Contexts *)

Context(n, recv, cert) == [node |-> n, recv |-> recv, cert |-> cert]
Anywhere(n) == Context(n, None, None)

\* A virtual call on an object of a known class takes the edges of that class.
Matches(e, c) ==
    e.kind = "dispatch" /\ c.cert = "exact" => e.cert = "exact" /\ e.recv = c.recv

Descend(e, c) == IF e.cert # None THEN Context(e.dst, e.recv, e.cert)
                 ELSE Context(e.dst, c.recv, c.cert)

Backwards == query.mode = "callers"
Walking == query.mode \in {"callees", "callers"}
Far(e) == IF Backwards THEN e.src ELSE e.dst
Entered(e, c) == IF Backwards THEN Anywhere(e.src) ELSE Descend(e, c)
InScope(n) == n \notin graph.outside
Boundary(n) == n \notin graph.bodies

\* The edges to follow from a context, by their positions.
Leaving(c) ==
    {i \in DOMAIN graph.edges :
        LET e == graph.edges[i]
        IN IF Backwards THEN e.dst = c.node ELSE e.src = c.node /\ Matches(e, c)}
EdgesOf(c) == {graph.edges[i] : i \in Leaving(c)}

-----------------------------------------------------------------------------
(* Budgets *)

Key(e) == <<e.src, e.dst, e.kind>>

\* Mutant of Truncate: a cut by depth is not remembered at a known function.
TruncateNew(r, n, why) ==
    IF why = "max_depth" /\ n \in r.nodes THEN r
    ELSE [r EXCEPT !.frontier = @ \cup {<<n, why>>}, !.reason = why]

Truncate(r, n, why) ==
    [r EXCEPT !.frontier = @ \cup {<<n, why>>},
              !.reason = IF @ = None \/ why # "max_depth" THEN why ELSE @]

Spent(r) == r.reason \notin {None, "max_depth"}
Stops == Spent(result) \/ interrupt # None
StopReason == IF Spent(result) THEN result.reason ELSE interrupt

\* Every level of a search by SearchBudget notes that it was cut short.
StopAt(n) == IF query.mode = "callees" /\ Spent(result) THEN result
             ELSE Truncate(result, n, StopReason)

Over(limit, set) == limit # None /\ Cardinality(set) >= limit
Refusal(n, keys) ==
    CASE n \notin result.nodes /\ Over(query.nodes, result.nodes) -> "max_nodes"
      [] keys \ result.keys # {} /\ Over(query.edges, result.keys) -> "max_edges"
      [] OTHER -> None
Admit(r, n, keys) == [r EXCEPT !.nodes = @ \cup {n}, !.keys = @ \cup keys]

-----------------------------------------------------------------------------
(* One root after the other *)

Idle == graph # None /\ status = None /\ stack = <<>> /\ queue = <<>>

FirstFrame(n) ==
    [ctx |-> Anywhere(n), depth |-> 0, path |-> <<n>>, on |-> {Anywhere(n)},
     rest |-> IF Walking THEN Leaving(Anywhere(n)) ELSE None]

StartRoot ==
    /\ Idle /\ todo # <<>>
    /\ todo' = Tail(todo)
    /\ LET n == Head(todo)
           refusal == Refusal(n, {})
           admitted == Admit(result, n, {})
       IN \/ /\ ~InScope(n)
             /\ result' = [result EXCEPT !.excluded = @ \cup {n}]
             /\ UNCHANGED <<stack, expanded>>
          \/ /\ InScope(n) /\ Stops
             /\ result' = Truncate(result, n, StopReason)
             /\ UNCHANGED <<stack, expanded>>
          \/ /\ InScope(n) /\ ~Stops /\ refusal # None
             /\ result' = Truncate(result, n, refusal)
             /\ UNCHANGED <<stack, expanded>>
          \/ /\ InScope(n) /\ ~Stops /\ refusal = None /\ n = query.target
             /\ result' = [admitted EXCEPT !.paths = {<<n>>}]
             /\ UNCHANGED <<stack, expanded>>
          \/ /\ InScope(n) /\ ~Stops /\ refusal = None /\ n # query.target
             /\ result' = admitted
             /\ stack' = <<FirstFrame(n)>>
             /\ expanded' = expanded \cup {Anywhere(n)}
    /\ UNCHANGED <<graph, query, interrupt, queue, status>>

-----------------------------------------------------------------------------
(* The innermost frame *)

Top == Head(stack)
Below == Tail(stack)
Looking == stack # <<>> /\ Top.rest \notin {None, {}}
NextPosition == CHOOSE i \in Top.rest : \A j \in Top.rest : i <= j
Edge == graph.edges[NextPosition]
Later == <<[Top EXCEPT !.rest = @ \ {NextPosition}]>> \o Below

\* A path search looks at a path when its turn comes.
Eligible == {i \in Leaving(Top.ctx) : ~Contains(Top.path, graph.edges[i].dst)}
PathAtLimit == query.depth # None /\ Len(Top.path) > query.depth

EnterPath ==
    /\ ~Walking /\ stack # <<>> /\ Top.rest = None
    /\ LET inside == {i \in Eligible : InScope(graph.edges[i].dst)}
           seen == [result EXCEPT !.excluded = @ \cup {graph.edges[i].dst : i \in Eligible \ inside}]
       IN \/ /\ Stops /\ result' = StopAt(Top.ctx.node) /\ stack' = Below
          \/ /\ ~Stops /\ PathAtLimit /\ stack' = Below
             /\ result' = IF inside = {} THEN seen
                          ELSE Truncate(seen, Top.ctx.node, "max_depth")
          \/ /\ ~Stops /\ ~PathAtLimit /\ result' = seen
             /\ stack' = <<[Top EXCEPT !.rest = inside]>> \o Below
    /\ UNCHANGED <<graph, query, interrupt, todo, queue, expanded, status>>

Stopped ==
    /\ Looking /\ Stops
    /\ result' = StopAt(Top.ctx.node)
    /\ stack' = Below
    /\ UNCHANGED <<graph, query, interrupt, todo, queue, expanded, status>>

Exclude ==
    /\ Looking /\ ~Stops /\ ~InScope(Far(Edge))
    /\ result' = [result EXCEPT !.excluded = @ \cup {Far(Edge)}]
    /\ stack' = Later
    /\ UNCHANGED <<graph, query, interrupt, todo, queue, expanded, status>>

Refuse ==
    /\ Looking /\ ~Stops /\ InScope(Far(Edge))
    /\ Refusal(Far(Edge), {Key(Edge)}) # None
    /\ result' = Truncate(result, Far(Edge), Refusal(Far(Edge), {Key(Edge)}))
    /\ stack' = Below
    /\ UNCHANGED <<graph, query, interrupt, todo, queue, expanded, status>>

Admissible == Looking /\ ~Stops /\ InScope(Far(Edge)) /\ Refusal(Far(Edge), {Key(Edge)}) = None
Found == [Admit(result, Far(Edge), {Key(Edge)}) EXCEPT !.edges = @ \cup {Edge}]

Known(c) == c \in expanded

More(c) ==
    IF Backwards
    THEN \E e \in EdgesOf(c) :
            InScope(e.src) /\ e.src # c.node /\ Anywhere(e.src) \notin Top.on
    ELSE \E e \in EdgesOf(c) : InScope(e.dst)

Follow ==
    /\ Walking /\ Admissible
    /\ LET c == Entered(Edge, Top.ctx)
           atLimit == query.depth # None /\ Top.depth + 1 >= query.depth
           capped == atLimit /\ More(c) /\ ~(Backwards /\ Boundary(c.node))
           enters == c \notin Top.on /\ ~Known(c) /\ ~Boundary(c.node) /\ ~capped
       IN /\ result' = IF capped THEN Truncate(Found, c.node, "max_depth") ELSE Found
          /\ stack' = IF ~enters THEN Later
                      ELSE <<[ctx |-> c, depth |-> Top.depth + 1, path |-> <<>>,
                              on |-> Top.on \cup {c}, rest |-> Leaving(c)]>> \o Later
          /\ expanded' = IF enters THEN expanded \cup {c} ELSE expanded
    /\ UNCHANGED <<graph, query, interrupt, todo, queue, status>>

ExtendPath ==
    /\ ~Walking /\ Admissible
    /\ LET c == Descend(Edge, Top.ctx)
           path == Append(Top.path, Edge.dst)
           next == [ctx |-> c, depth |-> 0, path |-> path, on |-> {}, rest |-> None]
           found == Edge.dst = query.target
           simple == query.mode = "simple"
           extends == ~found /\ ~Boundary(Edge.dst)
       IN /\ result' = IF found THEN [Found EXCEPT !.paths = @ \cup {path}] ELSE Found
          /\ stack' = CASE simple /\ extends -> <<next>> \o Later
                        [] ~simple /\ found -> Below
                        [] OTHER -> Later
          /\ queue' = CASE ~simple /\ found -> <<>>
                        [] ~simple /\ extends /\ ~Known(c) -> Append(queue, next)
                        [] OTHER -> queue
          /\ expanded' = IF ~simple /\ extends THEN expanded \cup {c} ELSE expanded
    /\ UNCHANGED <<graph, query, interrupt, todo, status>>

\* The engine also looks at its clock at edges that leave other functions.
Return ==
    /\ stack # <<>> /\ Top.rest = {}
    /\ result' \in {result} \cup
         (IF query.mode = "callees" /\ Stops THEN {StopAt(Top.ctx.node)} ELSE {})
    /\ stack' = Below
    /\ UNCHANGED <<graph, query, interrupt, todo, queue, expanded, status>>

NextPath ==
    /\ stack = <<>> /\ queue # <<>>
    /\ stack' = <<Head(queue)>> /\ queue' = Tail(queue)
    /\ UNCHANGED <<graph, query, interrupt, todo, expanded, result, status>>

-----------------------------------------------------------------------------
Steps(p) == {<<p[i], p[i + 1]>> : i \in 1..(Len(p) - 1)}

\* A search for paths keeps what lies on one, if it found any.
Retained ==
    IF result.paths = {} THEN result
    ELSE [result EXCEPT
            !.nodes = UNION {Range(p) : p \in result.paths},
            !.edges = {e \in @ : <<e.src, e.dst>> \in UNION {Steps(p) : p \in result.paths}}]

Finish ==
    /\ Idle /\ todo = <<>>
    /\ result' = Retained
    /\ status' = CASE interrupt = "cancelled" \/ result.reason = "cancelled" -> "cancelled"
                   [] result.frontier # {} -> "truncated"
                   [] OTHER -> "complete"
    /\ UNCHANGED <<graph, query, interrupt, todo, stack, queue, expanded>>

\* A signal, or the time limit of a query that has one.
Interrupt ==
    /\ status = None /\ interrupt = None /\ query.mayStop
    /\ interrupt' \in {"cancelled", "time_limit"}
    /\ UNCHANGED <<graph, query, todo, stack, queue, expanded, result, status>>

SearchNext ==
    \/ StartRoot \/ EnterPath \/ Stopped \/ Exclude \/ Refuse \/ Follow
    \/ ExtendPath \/ Return \/ NextPath \/ Finish \/ Interrupt

-----------------------------------------------------------------------------
(* Reference definitions *)

Starts == {Anywhere(n) : n \in {x \in Range(query.roots) : InScope(x)}}
Onward(c) == {e \in EdgesOf(c) : InScope(Far(e))}
Expands(c) == ~Boundary(c.node) \/ c \in Starts
NextContexts(cs) ==
    UNION {{Entered(e, c) : e \in Onward(c)} : c \in {x \in cs : Expands(x)}}

\* The contexts within a number of calls from some others.  A call leads to
\* its function, with the receiver of a call, or with none.
MaxContexts == Len(graph.edges) * (Len(graph.edges) + 1)
Within(cs) ==
    LET ring[i \in 0..MaxContexts] ==
            IF i = 0 THEN cs ELSE LET nearer == ring[i - 1] IN nearer \cup NextContexts(nearer)
    IN ring
ContextsFrom(cs) == Within(cs)[MaxContexts]
NodesOf(cs) == {c.node : c \in cs}

\* Paths with the context of their last function, which visit none twice.
Extensions(pc) ==
    IF pc[2].node = query.target \/ ~Expands(pc[2]) THEN {}
    ELSE {<<Append(pc[1], e.dst), Descend(e, pc[2])>> : e \in {x \in Onward(pc[2]) : ~Contains(pc[1], x.dst)}}
Routes ==
    LET grow[i \in 0..Len(graph.edges)] ==
            IF i = 0 THEN {<<<<c.node>>, c>> : c \in Starts}
            ELSE LET shorter == grow[i - 1] IN shorter \cup UNION {Extensions(pc) : pc \in shorter}
    IN grow
SimplePaths == {pc[1] : pc \in {x \in Routes[Len(graph.edges)] : x[2].node = query.target}}

\* A run that claims to be complete found every caller or callee with each of
\* the calls, every simple path, or a shortest one if there is one.
CompleteIsExact ==
    status = "complete" =>
      /\ Walking =>
           LET closure == ContextsFrom(Starts)
           IN /\ result.nodes = NodesOf(closure)
              /\ result.edges = UNION {Onward(c) : c \in {x \in closure : Expands(x)}}
      /\ query.mode = "simple" => result.paths = SimplePaths
      /\ query.mode = "shortest" =>
           /\ result.paths \subseteq SimplePaths
           /\ (result.paths = {}) = (SimplePaths = {})
           /\ \A p \in result.paths, s \in SimplePaths : Len(p) <= Len(s)

\* What only the depth limit kept from the result lies behind its frontier.
CutsAreTold ==
    status = "truncated" /\ result.reason = "max_depth" /\ Walking =>
      NodesOf(ContextsFrom(Starts))
        \subseteq result.nodes \cup
                  NodesOf(ContextsFrom({c \in ContextsFrom(Starts) : <<c.node, "max_depth">> \in result.frontier}))

\* A search never leaves a function out without saying so: reuse of contexts,
\* cycles, scopes and budgets hide nothing behind a complete status.
SearchHonest == CompleteIsExact /\ CutsAreTold

=============================================================================

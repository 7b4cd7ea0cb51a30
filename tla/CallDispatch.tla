---------------------------- MODULE CallDispatch ----------------------------
(***************************************************************************)
(* Virtual calls on their way into the call graph and out again.  Each     *)
(* translation unit resolves the virtual calls in the bodies that it has,  *)
(* by carrying the class of a receiver along calls of methods; the store   *)
(* keeps one row for each site and target; a search then follows the rows  *)
(* that fit the receiver of its context.                                   *)
(* A function is <<name>> or a method <<name, class>>.                     *)
(***************************************************************************)
EXTENDS CallSearch
LOCAL INSTANCE Naturals
LOCAL INSTANCE Sequences
LOCAL INSTANCE SequencesExt
LOCAL INSTANCE FiniteSets

CONSTANTS Classes, BaseOf   \* a tree: the base class of a class, or None

(* A program: the calls in its bodies, each with its site, the class that   *)
(* is known of its receiver, whether that is the exact class, and whether   *)
(* it is virtual; the methods that classes override; the unit of each body. *)
VARIABLES
    program,
    units,      \* units that were not extracted yet
    work,       \* receiver contexts that wait in the unit that is extracted
    visited,    \* those that were handled
    output,     \* the dispatch calls of the unit so far, None between units
    sites       \* the stored rows

dispatchVars == <<program, units, work, visited, output, sites>>

DispatchInit(p) ==
    /\ program = p /\ units = {p.unit[f] : f \in DOMAIN p.unit}
    /\ work = {} /\ visited = {} /\ output = None /\ sites = {}

ClassOf(f) == f[2]
IsMethod(f) == Len(f) = 2
BasesOf(c) ==
    LET up[i \in Nat] == IF i = 0 THEN {c}
                         ELSE LET near == up[i - 1]
                              IN near \cup ({BaseOf[x] : x \in near} \ {None})
    IN up[Cardinality(Classes)]
Derived(c) == {d \in Classes : c \in BasesOf(d)}

\* The method that a call on an object of class c runs.
Declaring(name, c) == {d \in BasesOf(c) : <<name, d>> \in program.methods}
Final(name, c) ==
    <<name, CHOOSE d \in Declaring(name, c) : \A x \in Declaring(name, c) : x \in BasesOf(d)>>

-----------------------------------------------------------------------------
(* The overriders of a method: source overrides destination. *)

Overrides ==
    {<<m, b>> \in program.methods \X program.methods :
        /\ m[1] = b[1] /\ m # b
        /\ BaseOf[ClassOf(m)] # None /\ b = Final(b[1], BaseOf[ClassOf(m)])}

ReachableOverrides(base) ==
    LET grow[i \in Nat] ==
            IF i = 0 THEN {base}
            ELSE LET s == grow[i - 1] IN s \cup {o[1] : o \in {x \in Overrides : x[2] \in s}}
    IN grow[Cardinality(Classes)] \ {base}

\* Mutant of AppliesTo: an override that the receiver's class inherits is missed.
AppliesToOwn(m, ctx) == ctx.cert = "possible" \/ ClassOf(m) = ctx.recv

AppliesTo(m, ctx) == ctx.cert = "possible" \/ ClassOf(m) \in BasesOf(ctx.recv)

Targets(base, ctx) ==
    LET applicable == {m \in ReachableOverrides(base) : AppliesTo(m, ctx)}
        overridden == {o[2] : o \in {x \in Overrides : x[1] \in applicable}}
        final == IF ctx.cert = "possible" THEN applicable ELSE applicable \ overridden
    IN IF final = {} THEN {base} ELSE final

-----------------------------------------------------------------------------
(* Resolution in one unit *)

Receives(fn, recv, cert) == [fn |-> fn, recv |-> recv, cert |-> cert]
CallsIn(u) == {c \in program.calls : program.unit[c.caller] = u}

\* Inside of a method, a call on an object of its own class counts as one on this.
OnSelf(c) == IsMethod(c.caller) /\ c.recv = ClassOf(c.caller)

Emitted(c, ctx) ==
    IF ~c.virtual \/ ctx.recv = None THEN {}
    ELSE {[site |-> c.site, src |-> c.caller, dst |-> m, kind |-> "dispatch",
           recv |-> IF ctx.cert = "exact" THEN ctx.recv ELSE None, cert |-> ctx.cert] :
          m \in Targets(c.callee, ctx)}

FromOutside(u) == {c \in CallsIn(u) : c.recv # None /\ ~OnSelf(c)}

BeginUnit ==
    /\ output = None
    /\ \E u \in units :
         /\ units' = units \ {u}
         /\ work' = {<<u, Receives(c.callee, c.recv, c.cert)>> : c \in FromOutside(u)}
         /\ output' = UNION {Emitted(c, Receives(c.caller, c.recv, c.cert)) : c \in FromOutside(u)}
    /\ visited' = {}
    /\ UNCHANGED <<program, sites>>

Onwards(u, ctx, calls) ==
    {<<u, Receives(c.callee, ctx.recv, ctx.cert)>> :
        c \in {x \in calls : ~x.virtual /\ IsMethod(x.callee)}}

Propagate ==
    /\ output # None
    /\ \E w \in work :
         LET ctx == w[2]
             calls == {c \in CallsIn(w[1]) : c.caller = ctx.fn}
         IN /\ visited' = visited \cup {w}
            /\ work' = (work \cup Onwards(w[1], ctx, calls)) \ visited'
            /\ output' = output \cup UNION {Emitted(c, ctx) : c \in calls}
    /\ UNCHANGED <<program, units, sites>>

-----------------------------------------------------------------------------
(* The store has one row for each source, target, kind and site: receivers  *)
(* that disagree leave "possible" behind.                                   *)

SiteKey(s) == <<s.src, s.dst, s.kind, s.site>>
Merged(ss) ==
    IF \A a, b \in ss : a.recv = b.recv /\ a.cert = b.cert THEN CHOOSE s \in ss : TRUE
    ELSE [CHOOSE s \in ss : TRUE EXCEPT !.recv = None, !.cert = "possible"]

DirectCalls ==
    {[site |-> c.site, src |-> c.caller, dst |-> c.callee, kind |-> "call",
      recv |-> IF c.cert = "exact" THEN c.recv ELSE None, cert |-> c.cert] : c \in program.calls}

LinkUnit ==
    /\ output # None /\ work = {}
    /\ LET all == sites \cup output
       IN sites' = {Merged({s \in all : SiteKey(s) = k}) : k \in {SiteKey(s) : s \in all}}
    /\ output' = None
    /\ visited' = {}
    /\ UNCHANGED <<program, units, work>>

-----------------------------------------------------------------------------
(* All units are stored: somebody asks for the callees of a function. *)

StoredEdges ==
    LET rows == DirectCalls \cup sites
    IN SetToSeq({[src |-> s.src, dst |-> s.dst, kind |-> s.kind,
                  recv |-> s.recv, cert |-> s.cert] : s \in rows})

Load ==
    /\ units = {} /\ output = None /\ graph = None
    /\ graph' = [edges |-> StoredEdges, bodies |-> DOMAIN program.unit, outside |-> {}]
    /\ UNCHANGED <<query, interrupt, todo, stack, queue, expanded, result, status>>

CallNext ==
    \/ (BeginUnit \/ Propagate \/ LinkUnit) /\ UNCHANGED searchVars
    \/ (Load \/ SearchNext) /\ UNCHANGED dispatchVars

-----------------------------------------------------------------------------
(* What a program does: a configuration is a function and the class of the  *)
(* object it runs on, if any.                                               *)

Running(c, this) ==
    CASE c.recv = None -> {<<c.callee, None>>}
      [] c.self -> {<<IF c.virtual THEN Final(c.callee[1], this) ELSE c.callee, this>>}
      [] OTHER -> {<<IF c.virtual THEN Final(c.callee[1], d) ELSE c.callee, d>> :
                      d \in IF c.cert = "exact" THEN {c.recv} ELSE Derived(c.recv)}

Executed(root) ==
    LET run[i \in Nat] ==
            IF i = 0 THEN {<<root, None>>}
            ELSE LET s == run[i - 1]
                 IN s \cup UNION {Running(c[1], c[2][2]) :
                                    c \in {x \in program.calls \X s : x[1].caller = x[2][1]}}
    IN {f[1] : f \in run[2 + Cardinality(program.calls)]}

\* "It never silently drops a plausible override": a complete search finds
\* every function that a run of the program can call.
NoOverrideDropped ==
    status = "complete" => Executed(Head(query.roots)) \subseteq result.nodes
=============================================================================

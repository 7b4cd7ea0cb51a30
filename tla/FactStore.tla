----------------------------- MODULE FactStore -----------------------------
(***************************************************************************)
(* The facts that an extraction run leaves in a facts database.  A run     *)
(* replaces what its sources say in one transaction: it sets their         *)
(* definitions aside, visits every translation unit (declarations, bodies, *)
(* then the call graph), and drops the symbols that nobody declared again. *)
(* Everything else in the database belongs to sources that the run did not *)
(* select.  Sources are edited at any time, a unit is read when its turn   *)
(* comes, and a run may fail before it commits.  Symbols are functions;    *)
(* local pointers and targets in system headers are left out.              *)
(***************************************************************************)
EXTENDS NoValue, Naturals, FiniteSets

CONSTANTS
    Units,       \* translation units, each with a file id of its own
    Header,      \* the file id of a header that every unit includes
    Functions,   \* what the units declare, by USR
    Shared,      \* the functions that are declared in the header
    Texts,       \* what a unit may say: [Functions -> None or line and body]
    MaxEdits,    \* bound on the edits
    MaxRefreshes \* bound on the runs

(* A body is a set of references <<kind, function>>, "calls" or "uses". *)
Lines == {x[1][x[2]].line : x \in {y \in Texts \X Functions : y[1][y[2]] # None}}

SymbolRows == [id : (Units \cup {Header}) \X Nat, line : Lines, defined : BOOLEAN]

ASSUME TextAssumption ==
    /\ IsFiniteSet(Functions) /\ None \notin Units /\ None \notin SymbolRows
    /\ Shared \subseteq Functions
    /\ \A t \in Texts, u \in Functions : t[u] # None =>
         /\ {"line", "body"} = DOMAIN t[u]
         /\ t[u].body # None =>
              \A r \in t[u].body : r[2] \in Functions /\ t[r[2]] # None

VARIABLES
    text,        \* [Units -> the text on disk]
    db,          \* committed contents of the database
    refresh,     \* the run in its transaction, or None
    edits,       \* edits so far
    refreshes    \* runs so far

storeVars == <<text, db, refresh, edits, refreshes>>

Declares(t) == {u \in Functions : t[u] # None}
Defines(t) == {u \in Declares(t) : t[u].body # None}
DeclaredIn(u, unit) == IF u \in Shared THEN Header ELSE unit
OneDefinition(ts) ==
    \A a, b \in Units : a # b => Defines(ts[a]) \cap Defines(ts[b]) = {}

NewStore ==
    [symbol |-> [u \in Functions |-> None],      \* id, location, is_definition
     definition |-> [u \in Functions |-> None],  \* file of the definition
     next |-> [f \in Units \cup {Header} |-> 0], \* symbol_allocator
     relation |-> [p \in {} |-> 0],              \* count, by kind and ends
     site |-> {}, external |-> {},               \* occurrences; of undefined targets
     entry |-> {},                               \* callgraph_entry
     given |-> {},                               \* ids that were ever committed
     parsed |-> [a \in Units |-> [u \in Functions |-> None]]]   \* texts of the facts

StoreInit ==
    /\ text \in [Units -> Texts] /\ OneDefinition(text)
    /\ db = NewStore /\ refresh = None /\ edits = 0 /\ refreshes = 0

-----------------------------------------------------------------------------
(* One symbol.  It keeps its id, and the location that came with the id. *)

\* Mutant of Allocate: ids follow the highest that is in use.
AllocateHighest(d, file) ==
    LET used == {d.symbol[u].id[2] + 1 :
                    u \in {x \in Functions : d.symbol[x] # None /\ d.symbol[x].id[1] = file}}
    IN IF used = {} THEN 0 ELSE CHOOSE n \in used : \A m \in used : m <= n

Allocate(d, file) == d.next[file]

\* The symbols of a file that a unit declares and the database does not know.
Unknown(d, us, unit, file) == {u \in us : d.symbol[u] = None /\ DeclaredIn(u, unit) = file}

\* They get the next ids, in the order in which the unit declares them.
Numberings(d, us, unit) ==
    LET new == {u \in us : d.symbol[u] = None}
        Of(u) == Unknown(d, us, unit, DeclaredIn(u, unit))
    IN {number \in [new -> 0..Cardinality(new)] :
            \A u \in new : /\ number[u] < Cardinality(Of(u))
                           /\ \A v \in Of(u) : number[u] = number[v] => u = v}

\* Mutant of ReferencesKept: references to a symbol that is now defined stay.
ReferencesKeptAll(d, us) == d.external

ReferencesKept(d, us) == {s \in d.external : s.to \notin us}

SymbolRow(d, u, decl, file, number) ==
    LET row == d.symbol[u]
        defined == decl.body # None
    IN IF row # None THEN [row EXCEPT !.defined = @ \/ defined]
       ELSE [id |-> <<file, Allocate(d, file) + number[u]>>, line |-> decl.line, defined |-> defined]

DefinitionRow(d, u, decl, unit) == IF decl.body # None THEN unit ELSE d.definition[u]

\* Symbols, each saved once: no row depends on another one.
Save(d, us, t, unit, number) ==
    [d EXCEPT !.symbol = [u \in Functions |-> IF u \in us THEN SymbolRow(d, u, t[u], DeclaredIn(u, unit), number)
                                              ELSE @[u]],
              !.next = [file \in DOMAIN @ |-> IF Unknown(d, us, unit, file) = {} THEN @[file]
                            ELSE Allocate(d, file) + Cardinality(Unknown(d, us, unit, file))],
              !.definition = [u \in Functions |-> IF u \in us THEN DefinitionRow(d, u, t[u], unit) ELSE @[u]],
              !.external = ReferencesKept(d, us)]

(* ON DELETE CASCADE takes the relations of a symbol along. *)
WithoutSymbols(d, gone) ==
    LET kept == {p \in DOMAIN d.relation : p[2] \notin gone /\ p[3] \notin gone}
        sites == {s \in d.site : s.from \notin gone /\ s.to \notin gone}
    IN [d EXCEPT !.symbol = [u \in Functions |-> IF u \in gone THEN None ELSE @[u]],
                 !.definition = [u \in Functions |-> IF u \in gone THEN None ELSE @[u]],
                 !.relation = [p \in kept |-> @[p]],
                 !.site = sites, !.external = @ \cap sites, !.entry = @ \ gone]

-----------------------------------------------------------------------------
(* Relations and their sites: addRelationFacts and addCallGraphFacts. *)

Pair(s) == <<s.kind, s.from, s.to>>
SitesOf(d, p) == {s \in d.site : Pair(s) = p}

(* Only the relations of the batch are counted again. *)
Counts(d, sites) ==
    LET batch == {Pair(s) : s \in sites} IN
    [p \in DOMAIN d.relation \cup batch |->
        IF p \in batch THEN Cardinality({s \in d.site \cup sites : Pair(s) = p})
        ELSE d.relation[p]]

(* A call whose target has no definition refers to an external one; all the
   sites that are there are looked at, not only the new ones. *)
AddSites(d, sites) ==
    LET all == d.site \cup sites IN
    [d EXCEPT !.site = all, !.relation = Counts(d, sites),
              !.external = @ \cup {s \in all : s.kind = "calls" /\ d.definition[s.to] = None}]

\* Mutant of ClearCalls: what callers called before stays.
ClearCallsNever(d, callers) == d

ClearCalls(d, callers) ==
    LET gone == {s \in d.site : s.kind = "calls" /\ s.from \in callers}
        kept == {p \in DOMAIN d.relation : p[1] = "calls" => p[2] \notin callers}
    IN [d EXCEPT !.site = @ \ gone, !.external = @ \ gone, !.entry = @ \ callers,
                 !.relation = [p \in kept |-> @[p]]]

References(t, unit, u, kind) ==
    {[kind |-> kind, from |-> u, to |-> r[2], file |-> unit, line |-> t[u].line] :
        r \in {x \in t[u].body : x[1] = kind}}

(* Nothing is linked for a unit without calls and bodies. *)
Link(d, callers, calls) ==
    IF callers = {} THEN d
    ELSE [AddSites(ClearCalls(d, callers), calls) EXCEPT !.entry = @ \cup callers]

(* A unit: SymbolVisitor, the bodies that it found, CallGraphVisitor.  Each
   body is a batch of its own, and no two batches have a relation in common. *)
VisitDeclarations(d, t, unit, number) == Save(d, Declares(t), t, unit, number)
VisitBodies(d, t, unit) ==
    IF Defines(t) = {} THEN d
    ELSE AddSites(d, UNION {References(t, unit, u, "uses") : u \in Defines(t)})
VisitCallGraph(d, t, unit) ==
    Link(d, Defines(t), UNION {References(t, unit, u, "calls") : u \in Defines(t)})
Visit(d, t, unit, number) ==
    VisitCallGraph(VisitBodies(VisitDeclarations(d, t, unit, number), t, unit), t, unit)

-----------------------------------------------------------------------------
(* A run: begin, beginSymbolRefresh, the units, finishSymbolRefresh, end. *)

BeginRefresh(selected) ==
    LET declared == {u \in Functions : db.symbol[u] # None /\ db.symbol[u].id[1] \in selected}
        defined == {u \in Functions : db.definition[u] \in selected}
        work == [db EXCEPT !.entry = {},
                   !.definition = [u \in Functions |-> IF u \in defined THEN None ELSE @[u]],
                   !.symbol = [u \in Functions |-> IF u \in declared \cup defined
                                 THEN [@[u] EXCEPT !.defined = FALSE] ELSE @[u]]]
    IN /\ refresh = None /\ refreshes < MaxRefreshes /\ refreshes' = refreshes + 1
       /\ refresh' = [todo |-> selected, old |-> declared, seen |-> {}, work |-> work]
       /\ UNCHANGED <<text, db, edits>>

VisitUnit(unit) ==
    /\ refresh # None /\ unit \in refresh.todo
    /\ \E number \in Numberings(refresh.work, Declares(text[unit]), unit) :
          refresh' = [refresh EXCEPT
             !.todo = @ \ {unit}, !.seen = @ \cup Declares(text[unit]),
             !.work = [Visit(@, text[unit], unit, number) EXCEPT !.parsed[unit] = text[unit]]]
    /\ UNCHANGED <<text, db, edits, refreshes>>

Obsolete(r) == {u \in r.old \ r.seen : r.work.definition[u] = None}

CommitRefresh ==
    LET d == WithoutSymbols(refresh.work, Obsolete(refresh))
        present == {u \in Functions : d.symbol[u] # None}
    IN /\ refresh # None /\ refresh.todo = {}
       /\ db' = [d EXCEPT
             !.symbol = [u \in Functions |-> IF d.definition[u] = None THEN @[u]
                                             ELSE [@[u] EXCEPT !.defined = TRUE]],
             !.given = @ \cup {<<d.symbol[u].id, u>> : u \in present}]
       /\ refresh' = None
       /\ UNCHANGED <<text, edits, refreshes>>

(* A unit that fails, a crash, an error: everything is as it was. *)
RollBackRefresh ==
    /\ refresh # None /\ refresh' = None
    /\ UNCHANGED <<text, db, edits, refreshes>>

EditUnit(unit, t) ==
    /\ edits < MaxEdits /\ edits' = edits + 1
    /\ text' = [text EXCEPT ![unit] = t] /\ OneDefinition(text')
    /\ UNCHANGED <<db, refresh, refreshes>>

StoreNext ==
    \/ \E selected \in SUBSET Units : selected # {} /\ BeginRefresh(selected)
    \/ \E unit \in Units : VisitUnit(unit)
    \/ CommitRefresh
    \/ RollBackRefresh
    \/ \E unit \in Units, t \in Texts : EditUnit(unit, t)

StoreSpec == StoreInit /\ [][StoreNext]_storeVars

-----------------------------------------------------------------------------
(* Properties *)

(* What runs over different sources have left fits together: the two records
   of a definition agree, counts are those of the sites, and only calls of
   functions without a definition are listed as external.  An entry says that
   the calls of its function are known: they are exactly those of the body
   that the run has read, even when a definition moved from one unit to
   another between the two visits (docs/call-graph-entries.md). *)
FactsAgree ==
    /\ \A u \in Functions : db.symbol[u] # None =>
          (db.symbol[u].defined <=> db.definition[u] # None)
    /\ \A p \in DOMAIN db.relation : db.relation[p] = Cardinality(SitesOf(db, p))
    /\ \A s \in db.external : s \in db.site /\ db.definition[s.to] = None
    /\ \A u \in db.entry :
          LET unit == db.definition[u] IN
          /\ unit # None
          /\ {s \in db.site : s.kind = "calls" /\ s.from = u}
               = References(db.parsed[unit], unit, u, "calls")

(* Runs and reports keep symbol ids; an id never denotes another symbol, even
   when its own is gone and comes back (SymbolAllocation.h). *)
IdsNeverReused == \A x, y \in db.given : x[1] = y[1] => x[2] = y[2]
=============================================================================

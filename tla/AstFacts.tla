------------------------------ MODULE AstFacts -------------------------------
(***************************************************************************)
(* What one extraction stores of the syntax trees of its translation       *)
(* units, which come in any order.  A unit is traversed three times: its   *)
(* declarations, then the bodies met on the way, then the call graph of    *)
(* Clang.  A relation may be stored before the declaration at its end has  *)
(* been met, which then exists as an external placeholder only.            *)
(***************************************************************************)
EXTENDS NoValue
LOCAL INSTANCE Naturals
LOCAL INSTANCE Sequences
LOCAL INSTANCE SequencesExt
LOCAL INSTANCE FiniteSetsExt

CONSTANTS
    Trees,          \* per unit: its declarations in the order of the traversal
    Node,           \* what a declaration is
    SourceFiles,
    SystemFiles,    \* those that may be system headers
    Unregistered    \* those that the project may not know

VARIABLES
    system, registeredFiles,     \* files, for the whole run
    unitsLeft, unit,        \* units to come, and the one in progress or None
    scheduledBodies,        \* those that are left of it
    ofTrees,                \* symbols, relations, staged calls
    outcome
astVars == <<system, registeredFiles, unitsLeft, unit, scheduledBodies, ofTrees, outcome>>

\* Call sites without a known callee are relations to the pointer or the file.
NothingStored == [symbols |-> <<>>, relations |-> {}, calls |-> {}, sites |-> {}, entries |-> {},
                  graph |-> {}, wrong |-> FALSE]
Failed(s) == [s EXCEPT !.wrong = TRUE]
Known(s, usr) == usr \in DOMAIN s.symbols
Relation(from, kind, to, position) ==
    [from |-> from, kind |-> kind, to |-> to, position |-> position]

-----------------------------------------------------------------------------
(* Symbols *)

\* Where a declaration or an expression is: in a file of the project or not.
extractLocation(file) ==
    IF file = None THEN "invalid" ELSE IF file \in system THEN "system" ELSE "file"
Placed(file) == extractLocation(file) = "file" /\ file \in registeredFiles

\* Mutant of Merged: what was once a placeholder stays external.
MergedAsFirst(old, new) == [new EXCEPT !.external = old.external, !.defined = old.defined \/ @]

Merged(old, new) == [new EXCEPT !.external = @ /\ old.external, !.defined = @ \/ old.defined]

save(s, usr, row) ==
    LET saved == IF Known(s, usr) THEN Merged(s.symbols[usr], row) ELSE row
    IN  [s EXCEPT !.symbols = [u \in DOMAIN @ \cup {usr} |-> IF u = usr THEN saved ELSE @[u]]]

\* Another declaration of a function stands in for one without a place.
visibleTarget(d) ==
    IF Node[d].file # None \/ Node[d].kind # "function" THEN Node[d]
    ELSE LET placed == {e \in DOMAIN Node : Node[e].usr = Node[d].usr /\ Node[e].file # None}
         IN  IF placed = {} THEN Node[d] ELSE Node[CHOOSE e \in placed : TRUE]

compilerProvided(n) == n.kind \in {"function", "record"} /\ n.implicit /\ n.file = None

\* A target that is not stored yet becomes an external symbol of its file.
findOrStoreSymbolTarget(s, d) ==
    LET n == visibleTarget(d)
        row == [external |-> TRUE, defined |-> FALSE, compiler |-> compilerProvided(n)]
    IN  IF Known(s, n.usr) THEN s
        ELSE IF compilerProvided(n) \/ n.file \in registeredFiles THEN save(s, n.usr, row)
        ELSE Failed(s)

resolveRelationTarget(s, d) == IF Node[d].usr = None THEN s ELSE findOrStoreSymbolTarget(s, d)

-----------------------------------------------------------------------------
(* Types lead through pointers, arrays, deduction and sugar to a declaration, *)
(* or are builtin, dependent, or not deduced.                                 *)

RECURSIVE TypeTarget(_)
TypeTarget(type) == IF type.is = "through" THEN TypeTarget(type.of) ELSE type

extractType(s, type) ==
    LET t == TypeTarget(type)
    IN  IF t.is = "undeduced" \/ (t.is = "declared" /\ Node[t.of].usr = None) THEN Failed(s)
        ELSE IF t.is = "declared" THEN findOrStoreSymbolTarget(s, t.of)
        ELSE s

\* Relations with a builtin type are stored for what callables return only.
storeRelation(s, from, r) ==
    LET t == TypeTarget(r.to)
        resolved == extractType(s, r.to)
        builtin == t.is = "builtin"
                   \/ (t.is = "declared" /\ ~ resolved.wrong
                       /\ resolved.symbols[Node[t.of].usr].compiler)
        usr == IF t.is = "declared" THEN Node[t.of].usr ELSE "builtin"
        edge == IF r.kind = "Contains" THEN Relation(usr, r.kind, from, r.position)
                ELSE Relation(from, r.kind, usr, r.position)
        replaced == {x \in resolved.relations :
                       r.kind = "ReturnType" /\ x.from = from /\ x.kind = r.kind}
    IN  IF resolved.wrong \/ t.is = "dependent" THEN resolved
        ELSE IF builtin /\ r.kind \in {"OfType", "AliasOf", "TemplateArgumentType"} THEN resolved
        ELSE [resolved EXCEPT !.relations = (@ \ replaced) \cup {edge}]

-----------------------------------------------------------------------------
(* Declarations *)

Declared(d) == [is |-> "declared", of |-> d]
To(kind, type) == [kind |-> kind, to |-> type, position |-> 0]
Each(kind, types) == [i \in DOMAIN types |-> [kind |-> kind, to |-> types[i], position |-> i]]
Maybe(condition, relation) == IF condition THEN <<relation>> ELSE <<>>

storeInheritanceRelations(n) == IF n.defines THEN Each("Inherits", n.bases) ELSE <<>>

storeTemplateInstanceRelations(n) ==
    Maybe(n.by = "explicit", To("Specializes", Declared(n.pattern)))
    \o Maybe(n.by = "instantiated", To("Instantiates", Declared(n.pattern)))
    \o Each("TemplateArgumentType", n.arguments)

storeValueRelations(n) ==
    Maybe(n.owner # None, To("FieldOf", Declared(n.owner))) \o <<To("OfType", n.type)>>

storeMethodRelation(n) == Maybe(n.owner # None /\ ~ n.special, To("MethodOf", Declared(n.owner)))

storeReturnType(n) ==
    Maybe(~ n.special /\ TypeTarget(n.type).is # "undeduced", To("ReturnType", n.type))

\* What is stored after a symbol of each kind, in order.
RelationsOf(n) ==
    CASE n.kind = "record" -> storeInheritanceRelations(n) \o storeTemplateInstanceRelations(n)
      [] n.kind = "enumerator" -> <<To("Contains", Declared(n.owner))>>
      [] n.kind \in {"field", "variable"} -> storeValueRelations(n)
      [] n.kind = "function" ->
           storeMethodRelation(n) \o storeReturnType(n) \o storeTemplateInstanceRelations(n)
      [] n.kind = "alias" -> <<To("AliasOf", n.type)>>
      [] OTHER -> <<>>

\* The types that are resolved on the way to the symbol itself.
extractTemplateParameters(n) == IF n.kind \in {"record", "function"} THEN n.arguments ELSE <<>>

signature(n) ==
    CASE n.kind \in {"record", "function"} -> n.parameters \o extractTemplateParameters(n)
      [] n.kind \in {"enum", "alias"} -> <<n.type>>
      [] OTHER -> <<>>

\* Local variables and what other extractors handle are no symbols.
Collected(n) == n.kind # "template" /\ ~ (n.kind = "variable" /\ n.local)

storeExtracted(s, n) ==
    LET saved == save(s, n.usr, [external |-> FALSE, defined |-> n.defines, compiler |-> FALSE])
    IN  IF n.file \in registeredFiles
        THEN FoldLeft(LAMBDA t, r : storeRelation(t, n.usr, r), saved, RelationsOf(n))
        ELSE Failed(s)

\* An alias is resolved before it is known whether it is kept.
collectDeclaredSymbol(s, n) ==
    LET resolved == FoldLeft(extractType, s, signature(n))
        filtered == extractLocation(n.file) = "system" \/ (n.usr = None /\ n.file # None)
    IN  IF ~ Collected(n) THEN s
        ELSE IF n.kind = "alias" /\ resolved.wrong THEN resolved
        ELSE IF filtered THEN IF n.kind = "alias" THEN resolved ELSE s
        ELSE IF n.file = None \/ resolved.wrong THEN Failed(resolved)
        ELSE storeExtracted(resolved, n)

-----------------------------------------------------------------------------
(* Bodies *)

\* The declaration that owns the body of a function: its pattern, if it has one.
referenceOwner(d) ==
    IF Node[d].pattern # None /\ Node[d].by # "explicit" THEN Node[d].pattern ELSE d

HasBody(d) == Node[d].kind = "function" /\ Node[d].body # None
schedule(scheduled, d) ==
    IF Node[d].kind # "function" THEN scheduled
    ELSE LET owner == referenceOwner(d)
         IN  IF HasBody(owner) /\ owner \notin Range(scheduled) THEN Append(scheduled, owner)
             ELSE scheduled

\* A name in the body, unless it is the callee of a call.
extractUseReference(s, owner, e) ==
    LET target == resolveRelationTarget(s, e.target)
    IN  IF ~ Known(s, owner) \/ Node[e.target].local THEN s
        ELSE IF target.wrong \/ Node[e.target].usr = None \/ ~ Placed(e.at) THEN target
        ELSE [target EXCEPT !.relations = @ \cup {Relation(owner, "Uses", Node[e.target].usr, 0)}]

extractReceiverContext(s, record) == IF record = None THEN s ELSE findOrStoreSymbolTarget(s, record)

extractCallableSite(s, owner, callee, e, position) ==
    LET d == referenceOwner(callee)
        target == resolveRelationTarget(s, d)
    IN  IF ~ Placed(e.at) \/ ~ Known(s, owner) \/ s.wrong THEN s
        ELSE IF target.wrong \/ Node[d].usr = None THEN target
        ELSE [target EXCEPT !.calls = @ \cup {Relation(owner, "Calls", Node[d].usr, position)}]

\* A called pointer is stored with the call, a local one as a symbol of its own.
storeLocalPointer(s, d) ==
    IF Node[d].file \notin registeredFiles THEN Failed(s)
    ELSE IF extractLocation(Node[d].file) # "file" THEN s
    ELSE save(s, Node[d].usr, [external |-> FALSE, defined |-> TRUE, compiler |-> FALSE])

stagePointerCall(s, owner, e) ==
    LET v == e.target
        target == IF v = None \/ Node[v].usr = None \/ Known(s, Node[v].usr) THEN s
                  ELSE IF Node[v].local THEN storeLocalPointer(s, v)
                  ELSE resolveRelationTarget(s, v)
        named == IF v = None \/ ~ Known(target, Node[v].usr) THEN e.at ELSE Node[v].usr
    IN  IF extractLocation(e.at) = "system" THEN s
        ELSE IF ~ Placed(e.at) \/ ~ Known(s, owner) THEN Failed(s)
        ELSE [target EXCEPT !.sites = @ \cup {Relation(owner, "CallsThrough", named, 0)}]

stageUnresolvedCall(s, owner, e) ==
    IF extractLocation(e.at) = "system" THEN s
    ELSE IF ~ Placed(e.at) \/ ~ Known(s, owner) THEN Failed(s)
    ELSE [s EXCEPT !.sites = @ \cup {Relation(owner, "CallsUnknown", e.at, 0)}]

\* Variables of function pointer type that are more than read in a body.
unsafeVariables(body) == {body[i].target : i \in {i \in DOMAIN body : body[i].does = "write"}}

\* The function that a local pointer still has from its initializer, or None.
extractIndirectCallTarget(e, body) ==
    IF e.does # "pointer" \/ e.target = None THEN None
    ELSE IF e.target \in unsafeVariables(body) THEN None
    ELSE Node[e.target].initial

\* Indirect calls are looked at when the whole body has been seen.
captureIndirectCall(s, owner, e, body) ==
    LET pointer == IF e.does = "pointer" THEN stagePointerCall(s, owner, e) ELSE s
        target == extractIndirectCallTarget(e, body)
    IN  IF target # None THEN extractCallableSite(pointer, owner, target, e, 0)
        ELSE IF e.does = "pointer" THEN pointer
        ELSE stageUnresolvedCall(s, owner, e)

\* One expression or declaration of the body.
Traversed(s, owner, e) ==
    CASE e.does \in {"use", "write"} -> extractUseReference(s, owner, e)
      [] e.does = "construct" ->
           extractCallableSite(extractReceiverContext(s, Node[e.target].owner),
                               owner, e.target, e, 0)
      [] e.does = "declare" -> collectDeclaredSymbol(s, Node[e.target])
      [] OTHER -> s

\* flush: the calls are linked at once, and again with the entries of the unit.
stageEvidence(s, owner) ==
    [s EXCEPT !.relations = @ \cup s.calls,
              !.entries = IF Known(s, owner) THEN @ \cup {owner} ELSE @]

BodyVisitor(s, d) ==
    LET owner == Node[d].usr
        body == Node[d].body
        indirect == SelectSeq(body, LAMBDA e : e.does \in {"pointer", "unresolved"})
        traversed == FoldLeft(LAMBDA t, e : Traversed(t, owner, e), s, body)
        captured == FoldLeft(LAMBDA t, e : captureIndirectCall(t, owner, e, body),
                             traversed, indirect)
    IN  stageEvidence(captured, owner)

\* The bodies within a body follow it.
RECURSIVE WithNested(_)
WithNested(d) ==
    LET declared == SelectSeq(Node[d].body, LAMBDA e : e.does = "declare")
        nested == FoldLeft(LAMBDA b, e : schedule(b, e.target), <<>>, declared)
    IN  FoldLeft(LAMBDA b, n : b \o WithNested(n), <<d>>, nested)

-----------------------------------------------------------------------------
(* The call graph of a unit *)

RECURSIVE Inside(_)
Inside(d) ==
    {d} \cup IF ~ HasBody(d) THEN {}
             ELSE UNION {Inside(e.target) : e \in {e \in Range(Node[d].body) : e.does = "declare"}}
InTree(u) == UNION {Inside(d) : d \in Range(Trees[u])}

Callees(d) == {e.target : e \in {e \in Range(Node[d].body) : e.does \in {"call", "construct"}}}

\* Clang has a node for each function with a body, a template's excepted, and
\* for each one that these call.
GraphNodes(u) ==
    LET callers == {d \in InTree(u) : HasBody(d) /\ ~ Node[d].dependent}
    IN  callers \cup UNION {Callees(d) : d \in callers}

\* The overrides of a node, and the calls that are not seen in bodies.
extractOverrideRelations(s, d) ==
    LET method == resolveRelationTarget(s, d)
        Override(t, base) ==
            LET target == resolveRelationTarget(t, base)
            IN  IF target.wrong \/ Node[base].usr = None THEN target
                ELSE [target EXCEPT !.relations = @ \cup
                        {Relation(Node[d].usr, "Overrides", Node[base].usr, 0)}]
    IN  IF ~ Placed(Node[d].file) \/ Node[d].overrides = <<>> \/ Node[d].usr = None THEN s
        ELSE FoldLeft(Override, method, Node[d].overrides)

extractCallSite(s, owner, e) ==
    IF ~ Placed(e.at) THEN s
    ELSE extractCallableSite(extractReceiverContext(s, e.receiver), owner, e.target, e, 0)

extractDestructorCall(s, owner, e) ==
    extractCallableSite(extractReceiverContext(s, e.receiver), owner, e.target, e, 1)

collectGraphNode(s, d) ==
    LET owner == Node[referenceOwner(d)].usr
        Call(t, e) == CASE e.does = "call" -> extractCallSite(t, owner, e)
                        [] e.does = "destroy" -> extractDestructorCall(t, owner, e)
                        [] OTHER -> t
        overridden == extractOverrideRelations(s, d)
    IN  IF HasBody(d) /\ ~ Node[d].dependent THEN FoldLeft(Call, overridden, Node[d].body)
        ELSE overridden

\* The calls of the bodies of this unit replace those of their owners.
OfCallGraph == {"Calls", "CallsThrough", "CallsUnknown"}
clearCallGraphFacts(s) == {r \in s.relations : r.kind \notin OfCallGraph \/ r.from \notin s.entries}

\* Mutant of addCallGraphFacts: what was found in bodies is not stored again.
addNewFacts(s, found) ==
    [found EXCEPT !.relations = clearCallGraphFacts(found)
                                \cup (found.calls \ s.calls) \cup found.sites,
                  !.graph = @ \cup s.entries, !.calls = {}, !.sites = {}, !.entries = {}]

addCallGraphFacts(s, found) ==
    [found EXCEPT !.relations = clearCallGraphFacts(found) \cup found.calls \cup found.sites,
                  !.graph = @ \cup s.entries, !.calls = {}, !.sites = {}, !.entries = {}]

-----------------------------------------------------------------------------
AstInit ==
    /\ system \in SUBSET SystemFiles
    /\ registeredFiles \in {SourceFiles \ missing : missing \in SUBSET Unregistered}
    /\ unitsLeft = DOMAIN Trees /\ unit = None
    /\ scheduledBodies = <<>> /\ ofTrees = NothingStored /\ outcome = None

VisitedIn(u) == SelectSeq(Trees[u], LAMBDA d : Node[d].top \notin system)

\* The declarations that are not below one in a system header.
VisitUnitDeclarations(u) ==
    /\ unit = None /\ u \in unitsLeft
    /\ unit' = u /\ unitsLeft' = unitsLeft \ {u}
    /\ ofTrees' = FoldLeft(LAMBDA s, d : collectDeclaredSymbol(s, Node[d]), ofTrees, VisitedIn(u))
    /\ scheduledBodies' = FoldLeft(schedule, <<>>, VisitedIn(u))
    /\ UNCHANGED <<system, registeredFiles, outcome>>

VisitUnitBodies ==
    /\ scheduledBodies # <<>>
    /\ LET Visit(s, d) == FoldLeft(BodyVisitor, s, WithNested(d))
       IN  ofTrees' = FoldLeft(Visit, ofTrees, scheduledBodies)
    /\ scheduledBodies' = <<>>
    /\ UNCHANGED <<system, registeredFiles, unitsLeft, unit, outcome>>

CallGraphVisitor ==
    /\ unit # None /\ scheduledBodies = <<>>
    /\ LET Visit(d, s) == collectGraphNode(s, d)
       IN  ofTrees' = addCallGraphFacts(ofTrees, FoldSet(Visit, ofTrees, GraphNodes(unit)))
    /\ unit' = None
    /\ UNCHANGED <<system, registeredFiles, unitsLeft, scheduledBodies, outcome>>

\* One failure of any unit takes everything back.
FinishExtraction ==
    /\ unitsLeft = {} /\ unit = None /\ outcome = None
    /\ outcome' = IF ofTrees.wrong THEN "rolled back" ELSE "committed"
    /\ ofTrees' = IF ofTrees.wrong THEN NothingStored ELSE ofTrees
    /\ UNCHANGED <<system, registeredFiles, unitsLeft, unit, scheduledBodies>>

AstNext ==
    \/ \E u \in unitsLeft : VisitUnitDeclarations(u)
    \/ VisitUnitBodies
    \/ CallGraphVisitor
    \/ FinishExtraction

-----------------------------------------------------------------------------
(* Properties *)

OwnBodies(d) ==
    LET owner == referenceOwner(d)
    IN  IF HasBody(owner) THEN {b \in Inside(owner) : HasBody(b)} ELSE {}
BodiesIn(u) == UNION {OwnBodies(d) : d \in {d \in Range(VisitedIn(u)) : Node[d].kind = "function"}}
Bodies == UNION {BodiesIn(u) : u \in DOMAIN Trees}
LocalTo(b) == {e.target : e \in {e \in Range(Node[b].body) : e.does = "declare"}}
CalledThrough(b) == {e.target : e \in {e \in Range(Node[b].body) : e.does = "pointer"}} \ {None}

\* The declarations of the sources that stand for symbols of their own.
Meant ==
    LET named == UNION {Range(VisitedIn(u)) : u \in DOMAIN Trees}
                 \cup UNION {LocalTo(b) : b \in Bodies}
        pointers == {d \in UNION {CalledThrough(b) : b \in Bodies} : Node[d].local}
    IN  {d \in named : Collected(Node[d])} \cup pointers
Kept == {d \in Meant : Node[d].usr # None /\ Node[d].file \notin system}

\* What cannot be stored: it has no place, or a type that leads nowhere.
Unstorable(d) ==
    \/ Node[d].file = None \/ Node[d].file \notin registeredFiles
    \/ \E i \in DOMAIN signature(Node[d]) : TypeTarget(signature(Node[d])[i]).is = "undeduced"

\* The calls of a body, whoever's instance it is, with a place in the project.
CallsOf(u, usr) ==
    LET callers == {d \in GraphNodes(u) : HasBody(d) /\ Node[referenceOwner(d)].usr = usr}
        made == UNION {{e \in Range(Node[d].body) : e.does \in {"call", "destroy"}} :
                         d \in {d \in callers : ~ Node[d].dependent}}
        bodies == {b \in BodiesIn(u) : Node[b].usr = usr}
        seen == UNION {{e \in Range(Node[b].body) : e.does = "construct"} : b \in bodies}
        Writes(b, v) == \E w \in Range(Node[b].body) : w.does = "write" /\ w.target = v
        proven == UNION {{[target |-> Node[e.target].initial, at |-> e.at] :
                            e \in {e \in Range(Node[b].body) :
                                     /\ e.does = "pointer" /\ e.target # None
                                     /\ ~ Writes(b, e.target) /\ Node[e.target].initial # None}} :
                           b \in bodies}
    IN  {Node[referenceOwner(e.target)].usr : e \in {e \in made \cup seen : Placed(e.at)}}
        \cup {Node[referenceOwner(p.target)].usr : p \in {p \in proven : Placed(p.at)}}

CallsMade(usr) == UNION {CallsOf(u, usr) : u \in DOMAIN Trees}
CallsStored(usr) == {r.to : r \in {r \in ofTrees.relations : r.from = usr /\ r.kind = "Calls"}}

\* Whatever the order of the units, an extraction ends with the facts of the
\* sources: it is committed unless a declaration cannot be stored; a symbol is
\* external only if no declaration of it was visited, and defined only if a
\* definition was; both ends of each relation are stored, each declaration has
\* the relations of its kind, and a body the calls that it makes and no other
\* (of a template, for the calls of its instances, at most those).
FactsAreTheSources ==
    /\ outcome # None => (outcome = "committed" <=> ~ \E d \in Kept : Unstorable(d))
    /\ outcome = "committed" =>
        /\ \A d \in Kept : Known(ofTrees, Node[d].usr)
        /\ \A usr \in DOMAIN ofTrees.symbols :
             LET own == {d \in Kept : Node[d].usr = usr}
             IN  /\ ofTrees.symbols[usr].external <=> own = {}
                 /\ ofTrees.symbols[usr].defined <=> \E d \in own : Node[d].defines
        /\ \A r \in ofTrees.relations :
             /\ Known(ofTrees, r.from) \/ r.kind = "Contains"
             /\ Known(ofTrees, r.to) \/ r.to = "builtin" \/ r.kind \in OfCallGraph
        /\ \A d \in Kept : \A i \in DOMAIN RelationsOf(Node[d]) :
             LET r == RelationsOf(Node[d])[i]
             IN  (r.kind # "ReturnType" /\ TypeTarget(r.to).is = "declared"
                  /\ ~ compilerProvided(Node[TypeTarget(r.to).of]))
                 => \E x \in ofTrees.relations :
                      /\ x.kind = r.kind /\ x.position = r.position
                      /\ {x.from, x.to} = {Node[d].usr, Node[TypeTarget(r.to).of].usr}
        /\ ofTrees.graph = {Node[b].usr : b \in {b \in Bodies : Known(ofTrees, Node[b].usr)}}
        /\ \A b \in Bodies : Known(ofTrees, Node[b].usr) =>
             /\ CallsStored(Node[b].usr) \subseteq CallsMade(Node[b].usr)
             /\ ~ Node[b].dependent => CallsStored(Node[b].usr) = CallsMade(Node[b].usr)

\* An entry of the call graph says that its body has been collected in full,
\* a template's with the calls of its instances.
EntriesComplete ==
    outcome = "committed" =>
        \A usr \in ofTrees.graph : CallsMade(usr) \subseteq CallsStored(usr)
=============================================================================

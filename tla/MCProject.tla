----------------------------- MODULE MCProject ------------------------------
(***************************************************************************)
(* The databases of a project for TLC.  The components have no variable in *)
(* common; a behaviour chooses one of them and leaves the others at rest,  *)
(* so that the run explores the sum of their states and not the product.   *)
(***************************************************************************)
EXTENDS ProjectFacts, Migration, MCExtractIndex, FactStore, MCStoredCommands, MCAstFacts

VARIABLE part    \* the component that moves
vars == <<part, factsVars, migrationVars, extractVars, storeVars, commandVars, astVars>>

\* Facts: fa is declared in the header, fb and fc by the units that define
\* or call them.
CONSTANTS fa, fb, fc
Decl(line, body) == [line |-> line, body |-> body]
Unit(a, b, c) == [u \in {fa, fb, fc} |-> IF u = fa THEN Decl(1, a) ELSE IF u = fb THEN b ELSE c]
Silent == Unit(None, None, None)
MCTexts ==
    {Silent,
     Unit({}, None, None),
     Unit({}, Decl(1, None), None),
     Unit(None, Decl(1, {<<"calls", fa>>}), None),
     Unit(None, Decl(2, {<<"uses", fa>>}), None),
     Unit(None, Decl(2, {<<"calls", fc>>}), Decl(1, None)),
     Unit(None, None, Decl(1, {<<"calls", fa>>}))}

CONSTANTS A, B, f, g
FilesOnDisk == {<<A, f>>, <<A, g>>, <<B, f>>}

Init ==
    /\ part \in {"catalog", "migration", "extraction", "facts", "commands", "trees"}
    /\ FactsInit
    (* Either of the two databases may be an old one: nothing relates them. *)
    /\ IF part = "migration"
       THEN MigrationInit /\ (facts = NoStore \/ project.rows = {})
       ELSE /\ facts = NoStore /\ project = CHOOSE p \in Registries({}) : TRUE
            /\ opener = [o \in Openers |-> None]
    /\ ExtractInit
    /\ StoreInit
    /\ part # "facts" => text = [a \in Units |-> Silent]
    /\ StoredCommandsInit
    /\ AstInit
    /\ part # "trees" => system = {} /\ registeredFiles = SourceFiles

Next ==
    \/ /\ part = "catalog" /\ FactsNext
       /\ UNCHANGED <<part, migrationVars, extractVars, storeVars, commandVars, astVars>>
    \/ /\ part = "migration" /\ MigrationNext
       /\ UNCHANGED <<part, factsVars, extractVars, storeVars, commandVars, astVars>>
    \/ /\ part = "extraction" /\ ExtractNext
       /\ UNCHANGED <<part, factsVars, migrationVars, storeVars, commandVars, astVars>>
    \/ /\ part = "facts" /\ StoreNext
       /\ UNCHANGED <<part, factsVars, migrationVars, extractVars, commandVars, astVars>>
    \/ /\ part = "commands" /\ StoredCommandsNext
       /\ UNCHANGED <<part, factsVars, migrationVars, extractVars, storeVars, astVars>>
    \/ /\ part = "trees" /\ AstNext
       /\ UNCHANGED <<part, factsVars, migrationVars, extractVars, storeVars, commandVars>>

Spec == Init /\ [][Next]_vars
=============================================================================

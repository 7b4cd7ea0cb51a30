---------------------------- MODULE ProjectFacts ----------------------------
(***************************************************************************)
(* A project database and the facts databases paired with it.  Facts name  *)
(* a file by the id of its row in the project; ids are SQLite rowids, so   *)
(* that the highest one is given out again once its row is gone.  The      *)
(* provenance stored with the facts (path of every id) is what tells a     *)
(* reader that a pair belongs together (FactPairValidation.cpp).           *)
(* Modelled are the commands on the catalog (repositories with several     *)
(* checkouts, components, directories, files, import), each of which first *)
(* invalidates the call graph entries of a facts database and then changes *)
(* the project in one transaction, and the runs that write facts.          *)
(***************************************************************************)
EXTENDS NoValue, Naturals, FiniteSetsExt

CONSTANTS
    Checkouts,    \* directories that hold a checkout
    Names,        \* files, relative to their checkout
    OnDisk,       \* the places (checkout and name) that exist
    Stores,       \* facts databases
    MaxRows,      \* bound on the rows of each table
    MaxCommands,  \* bound on the commands on the catalog
    MayOverlap    \* may a command change the project while a writer runs?

VARIABLES
    repository,   \* [Ids -> a repository's checkouts and the active one, or None]
    component,    \* [Ids -> owner or absolute base, and whether it has a directory]
    file,         \* [Ids -> component and name, or None]
    store,        \* [Stores -> contents of the facts database, None if absent]
    command,      \* "idle", or "mutating" once the entries are invalidated
    writer,       \* the run that writes facts and the project that it saw
    commands      \* commands so far

catalog == <<repository, component, file>>
factsVars == <<catalog, store, command, writer, commands>>

Ids == 1..MaxRows
Rows(table) == {i \in Ids : table[i] # None}
NewId(table) == Max({0} \cup Rows(table)) + 1
Insert(table, new) == [table EXCEPT ![NewId(table)] = new]
Free(table) == NewId(table) \in Ids

FactsInit ==
    /\ repository = [i \in Ids |-> None]
    /\ component = [i \in Ids |-> None]
    /\ file = [i \in Ids |-> None]
    /\ store = [d \in Stores |-> None]
    /\ command = "idle" /\ writer = None /\ commands = 0

-----------------------------------------------------------------------------
(* Where a row is on disk. *)

Root(c) ==
    IF component[c].repo = None THEN component[c].base
    ELSE repository[component[c].repo].active

Place(f) == <<Root(file[f].component), file[f].name>>

(* The same file in the other checkouts of its repository. *)
Aliases(f) ==
    LET r == component[file[f].component].repo IN
    IF r = None THEN {}
    ELSE {<<k, file[f].name>> : k \in repository[r].clones \ {repository[r].active}}

(* Of components with the same root the first owns the path. *)
Owner(among, checkout) ==
    LET owners == {c \in among : Root(c) = checkout} IN
    IF owners = {} THEN None ELSE Min(owners)

FileOf(c, name) ==
    LET found == {f \in Rows(file) : file[f] = [component |-> c, name |-> name]} IN
    IF found = {} THEN None ELSE CHOOSE f \in found : TRUE

GetId(place) ==
    LET owner == Owner(Rows(component), place[1]) IN
    IF owner = None THEN None ELSE FileOf(owner, place[2])

-----------------------------------------------------------------------------
(* Does a facts database belong to the project?  (validateFactsProvenance) *)

ProjectProvenance == [f \in Rows(file) |-> [path |-> Place(f), aliases |-> Aliases(f)]]
Empty == [known |-> [f \in {} |-> None], symbols |-> [f \in {} |-> None], entries |-> {}]

Same(row, path) == path = row.path \/ path \in row.aliases
UsedFiles(s) == DOMAIN s.symbols \cup s.entries

\* Mutant of ReadAccepts: only ids that the project does not know are refused.
ReadAcceptsAny(s, rows) == UsedFiles(s) \cap DOMAIN s.known \subseteq DOMAIN rows

ReadAccepts(s, rows) ==
    \A f \in UsedFiles(s) \cap DOMAIN s.known :
        f \in DOMAIN rows /\ Same(rows[f], s.known[f])

(* Writing also needs a provenance for whatever is there already. *)
WriteAccepts(s, rows) == ReadAccepts(s, rows) /\ UsedFiles(s) \subseteq DOMAIN s.known

-----------------------------------------------------------------------------
(* Commands on the catalog. *)

(* The entries of the paired store go first, in a transaction of their own;
   a pair that does not match refuses the command.  d = None is a path at
   which there is no store. *)
Invalidate(d) ==
    /\ command = "idle" /\ commands < MaxCommands
    /\ d # None /\ store[d] # None => ReadAccepts(store[d], ProjectProvenance)
    /\ command' = "mutating" /\ commands' = commands + 1
    /\ store' = [k \in Stores |-> IF k = d /\ store[k] # None
                                  THEN [store[k] EXCEPT !.entries = {}] ELSE store[k]]
    /\ UNCHANGED <<catalog, writer>>

(* What every mutation does besides its own change; it may also be refused. *)
Mutate ==
    /\ command = "mutating" /\ command' = "idle"
    /\ MayOverlap \/ writer = None
    /\ UNCHANGED <<store, writer, commands>>
Refuse == Mutate /\ UNCHANGED catalog

Without(table, gone) == [i \in Ids |-> IF i \in gone THEN None ELSE table[i]]
FilesOf(cs) == {f \in Rows(file) : file[f].component \in cs}
ComponentsOf(r) == {c \in Rows(component) : component[c].repo = r}
Taken(checkout) == {r \in Rows(repository) : checkout \in repository[r].clones}

AddRepository(k) ==
    /\ Mutate /\ Free(repository)
    /\ Taken(k) = {}
    /\ repository' = Insert(repository, [clones |-> {k}, active |-> k])
    /\ UNCHANGED <<component, file>>

AddClone(r, k) ==
    /\ Mutate /\ Taken(k) \subseteq {r}
    /\ repository' = [repository EXCEPT ![r].clones = @ \cup {k}]
    /\ UNCHANGED <<component, file>>

(* Every registered file of the repository must exist in the new checkout. *)
SwitchClone(r, k) ==
    /\ Mutate /\ k \in repository[r].clones
    /\ \A f \in FilesOf(ComponentsOf(r)) : <<k, file[f].name>> \in OnDisk
    /\ repository' = [repository EXCEPT ![r].active = k]
    /\ UNCHANGED <<component, file>>

RemoveClone(r, k) ==
    /\ Mutate /\ k \in repository[r].clones \ {repository[r].active}
    /\ repository' = [repository EXCEPT ![r].clones = @ \ {k}]
    /\ UNCHANGED <<component, file>>

(* Components go with their repository, or keep the path they had. *)
RemoveRepository(r, deleteComponents) ==
    LET cs == ComponentsOf(r) IN
    /\ Mutate
    /\ repository' = Without(repository, {r})
    /\ IF deleteComponents
       THEN component' = Without(component, cs) /\ file' = Without(file, FilesOf(cs))
       ELSE /\ component' = [c \in Ids |-> IF c \in cs
                    THEN [component[c] EXCEPT !.repo = None, !.base = Root(c)]
                    ELSE component[c]]
            /\ file' = file

NewComponent(r, base) == [repo |-> r, base |-> base, directory |-> FALSE]

(* An external component is absolute; any other belongs to a repository, which
   is registered with it when its name is new. *)
AddComponent(k) ==
    /\ Mutate /\ Free(component) /\ UNCHANGED file
    /\ Owner(Rows(component), k) = None
    /\ \/ component' = Insert(component, NewComponent(None, k)) /\ UNCHANGED repository
       \/ \E r \in Rows(repository) :
            /\ repository[r].active = k
            /\ component' = Insert(component, NewComponent(r, None))
            /\ UNCHANGED repository
       \/ /\ Free(repository) /\ Taken(k) = {}
          /\ repository' = Insert(repository, [clones |-> {k}, active |-> k])
          /\ component' = Insert(component, NewComponent(NewId(repository), None))

RemoveComponent(c) ==
    /\ Mutate
    /\ component' = Without(component, {c}) /\ file' = Without(file, FilesOf({c}))
    /\ UNCHANGED repository

RemoveDirectory(c) ==
    /\ Mutate /\ component[c].directory
    /\ component' = [component EXCEPT ![c].directory = FALSE]
    /\ file' = Without(file, FilesOf({c}))
    /\ UNCHANGED repository

(* A file can be added only below a directory that is registered. *)
AddFile(place) ==
    LET owner == Owner({c \in Rows(component) : component[c].directory}, place[1]) IN
    /\ Mutate /\ Free(file) /\ place \in OnDisk
    /\ owner # None /\ FileOf(owner, place[2]) = None
    /\ file' = Insert(file, [component |-> owner, name |-> place[2]])
    /\ UNCHANGED <<repository, component>>

RemoveFile(f) ==
    /\ Mutate
    /\ file' = Without(file, {f})
    /\ UNCHANGED <<repository, component>>

(* Import keeps the rows that exist: the repository is the one that has the
   checkout, the checkout becomes active, and a file that has a row keeps it.
   Its second transaction registers the file through the lookup as well. *)
Import(place) ==
    LET k == place[1]
        r == IF Taken(k) = {} THEN NewId(repository) ELSE Min(Taken(k))
        owned == {c \in ComponentsOf(r) : component[c].base = None}
        c == IF owned = {} THEN NewId(component) ELSE Min(owned)
    IN  /\ Mutate /\ place \in OnDisk /\ r \in Ids /\ c \in Ids /\ Free(file)
        /\ repository' = [repository EXCEPT ![r] =
               IF @ = None THEN [clones |-> {k}, active |-> k] ELSE [@ EXCEPT !.active = k]]
        /\ component' = [component EXCEPT ![c] = [NewComponent(r, None) EXCEPT !.directory = TRUE]]
        /\ file' = IF FileOf(c, place[2]) # None THEN file
                   ELSE Insert(file, [component |-> c, name |-> place[2]])

Mutation ==
    \/ Refuse
    \/ \E k \in Checkouts : AddRepository(k) \/ AddComponent(k)
    \/ \E r \in Rows(repository), k \in Checkouts :
         AddClone(r, k) \/ SwitchClone(r, k) \/ RemoveClone(r, k)
    \/ \E r \in Rows(repository), cascade \in BOOLEAN : RemoveRepository(r, cascade)
    \/ \E c \in Rows(component) : RemoveComponent(c) \/ RemoveDirectory(c)
    \/ \E f \in Rows(file) : RemoveFile(f)
    \/ \E place \in OnDisk : AddFile(place) \/ Import(place)

-----------------------------------------------------------------------------
(* A run that writes facts: extraction, matching, recovery, dependencies. *)

PrepareWrite(d, places) ==
    /\ writer = None
    /\ \A p \in places : GetId(p) # None
    /\ store[d] # None => WriteAccepts(store[d], ProjectProvenance)
    /\ writer' = [store |-> d, places |-> places, rows |-> ProjectProvenance]
    /\ UNCHANGED <<catalog, store, command, commands>>

(* Facts of a file that were taken from another checkout are dropped, and its
   provenance follows.  Rows without aliases are not looked at. *)
Movable(w, ids) == {f \in ids : w.rows[f].aliases # {}}
Refreshable(w, s, ids) ==
    /\ ids \subseteq DOMAIN w.rows
    /\ \A f \in Movable(w, ids) \cap DOMAIN s.known : Same(w.rows[f], s.known[f])

Refreshed(w, s, ids) ==
    LET moved == {f \in Movable(w, ids) \cap DOMAIN s.known : s.known[f] # w.rows[f].path} IN
    [s EXCEPT !.known = [f \in DOMAIN @ |-> IF f \in moved THEN w.rows[f].path ELSE @[f]],
              !.symbols = [f \in DOMAIN @ \ moved |-> @[f]]]

\* Mutant of Registrable: ids that are known already are not compared.
RegistrableUnchecked(w, s, ids) == ids \cup DOMAIN s.symbols \subseteq DOMAIN w.rows

(* Every file that is used must have a row, and the path it is known by. *)
Registrable(w, s, ids) ==
    \A f \in ids \cup DOMAIN s.symbols :
        /\ f \in DOMAIN w.rows
        /\ f \in DOMAIN s.known => Same(w.rows[f], s.known[f])

Provenance(w, s, ids) ==
    [f \in DOMAIN s.known \cup ids \cup DOMAIN s.symbols |->
        IF f \in DOMAIN s.known THEN s.known[f] ELSE w.rows[f].path]

(* One transaction: entries are dropped, moved files refreshed, the symbols of
   the files that declare any replaced, provenance registered.  Any refusal
   rolls it back. *)
Write(declaring, complete) ==
    LET w == writer
        before == IF store[w.store] = None THEN Empty ELSE store[w.store]
        ids == {GetId(p) : p \in w.places}
        s == Refreshed(w, before, ids)
        kept == {f \in DOMAIN s.symbols : f \notin ids}
        symbols == [f \in kept \cup {GetId(p) : p \in declaring} |->
                       IF f \in kept THEN s.symbols[f]
                       ELSE CHOOSE p \in declaring : GetId(p) = f]
        after == [s EXCEPT !.symbols = symbols]
    IN  /\ writer # None /\ declaring \subseteq w.places /\ complete \subseteq declaring
        /\ None \notin ids
        /\ Refreshable(w, before, ids) /\ Registrable(w, after, ids)
        /\ store' = [store EXCEPT ![w.store] =
               [after EXCEPT !.known = Provenance(w, after, ids),
                             !.entries = {GetId(p) : p \in complete}]]
        /\ writer' = None
        /\ UNCHANGED <<catalog, command, commands>>

(* The run ends without a commit; opening the store has created it. *)
WriteFails ==
    /\ writer # None
    /\ store' = [store EXCEPT ![writer.store] = IF @ = None THEN Empty ELSE @]
    /\ writer' = None
    /\ UNCHANGED <<catalog, command, commands>>

FactsNext ==
    \/ \E d \in Stores \cup {None} : Invalidate(d)
    \/ Mutation
    \/ \E d \in Stores, k \in Checkouts, names \in SUBSET Names :
         names # {} /\ PrepareWrite(d, {k} \X names)
    \/ \E declaring \in SUBSET (Checkouts \X Names) :
         \E complete \in SUBSET declaring : Write(declaring, complete)
    \/ WriteFails

FactsSpec == FactsInit /\ [][FactsNext]_factsVars

-----------------------------------------------------------------------------
(* Properties *)

(* Ids are used again and checkouts are switched, but symbols that a reader of
   an accepted pair attributes to a file were taken from that file, in its
   current checkout or in another one of the same repository. *)
PairedIdentity ==
    \A d \in Stores :
        (store[d] # None /\ ReadAccepts(store[d], ProjectProvenance)) =>
            \A f \in DOMAIN store[d].symbols :
                f \in Rows(file) /\ Same(ProjectProvenance[f], store[d].symbols[f])

(* A writer leaves a pair that it would accept again: it never commits facts
   with which the project refuses every later command (FactPairValidation). *)
CommittedPairAgrees ==
    [][\A d \in Stores :
         (writer # None /\ writer' = None /\ store'[d] # store[d]) =>
            WriteAccepts(store'[d], ProjectProvenance)]_factsVars
=============================================================================

----------------------------- MODULE SymbolIndex -----------------------------
(***************************************************************************)
(* The symbol index that the server derives from the facts databases of a  *)
(* project and publishes in the project database.  Extractions write facts *)
(* databases at any time; edits of the catalog hide what they make         *)
(* obsolete; a refresh copies what changed and publishes the result;       *)
(* clients read pages of it and details from the facts databases.          *)
(***************************************************************************)
EXTENDS NoValue, Naturals, Sequences, FiniteSets

CONSTANTS
    FileIds,        \* ids of files, ordered
    ScopeOf,        \* the repository of a file
    NameOf,         \* the place of a symbol among the names
    Contents,       \* what an extraction may leave in a facts database
    MaxFacts,       \* bound on writes to facts databases
    MaxCatalog,     \* bound on edits of the catalog
    RemovesWhileRead  \* may the command line remove a file while a client reads?

VARIABLES
    owned,          \* project: per file its facts database, None when not registered
    current,        \* project: files whose facts are those of their last command
    invalid,        \* project: files whose published facts are obsolete
    store,          \* facts databases: rows, None when there is no such database
    stamp,          \* facts databases: the fingerprint of the files on disk
    cache,          \* project: rows copied from a database with its fingerprint
    published,      \* project: row at each position
    revision,       \* project: generation of the index, None before the first refresh
    job,            \* the refresh in progress
    settled,        \* nothing has changed since what is published was read (ghost)
    client,         \* who reads the pages of a search
    reader,         \* who reads the occurrences of a symbol
    factsWrites, catalogWrites

projectVars == <<owned, current, invalid, published, revision>>
indexVars == <<owned, current, invalid, store, stamp, cache, published, revision, job, settled,
               client, reader, factsWrites, catalogWrites>>

Databases == DOMAIN Contents
NoDatabase == 0
AtRest == [phase |-> "idle"]
Nobody == [phase |-> "absent"]
NoCache == [d \in {} |-> None]
NoRows == [p \in {} |-> None]
SymbolRows == [usr : DOMAIN NameOf, file : FileIds, def : BOOLEAN]

\* A facts database has finitely many rows, in the columns that are copied.
ASSUME IndexAssumption ==
    /\ FileIds \subseteq Nat /\ DOMAIN NameOf \subseteq Nat
    /\ Databases \subseteq Nat \ {NoDatabase} /\ IsFiniteSet(Databases)
    /\ \A d \in Databases : \A rows \in Contents[d] \ {None} :
         rows \subseteq SymbolRows /\ IsFiniteSet(rows)
    /\ \A usr \in DOMAIN NameOf : NameOf[usr] \in Nat
    /\ None \notin Nat

SymbolIndexInit ==
    /\ owned \in {o \in [FileIds -> Databases \cup {None, NoDatabase}] : \E f \in FileIds : o[f] \in Databases}
    /\ current = {f \in FileIds : owned[f] \in Databases}
    /\ invalid = {}
    /\ store \in {s \in [Databases -> UNION {Contents[d] : d \in Databases}] : \A d \in Databases : s[d] \in Contents[d]}
    /\ stamp = [d \in Databases |-> 0]
    /\ cache = NoCache /\ published = NoRows /\ revision = None
    /\ job = AtRest /\ settled = FALSE
    /\ \/ client = AtRest /\ reader = Nobody
       \/ client = Nobody /\ reader = AtRest
    /\ factsWrites = 0 /\ catalogWrites = 0

Registered == {f \in FileIds : owned[f] # None}
OwnersOf(d) == {f \in Registered : owned[f] = d}
Linked == {d \in Databases : OwnersOf(d) # {}}
\* All that the database owns is obsolete.
Blocked(d) == OwnersOf(d) # {} /\ OwnersOf(d) \subseteq invalid
StoredRows(d) == IF store[d] = None THEN {} ELSE store[d]

-----------------------------------------------------------------------------
(* Publication *)

\* What a query returns with ORDER BY.
InOrder(S, precedes(_, _)) ==
    CHOOSE s \in [1..Cardinality(S) -> S] : \A i, j \in DOMAIN s : i < j => precedes(s[i], s[j])

Fingerprint(d) == stamp[d]
Stamp(d) == IF Blocked(d) THEN None ELSE Fingerprint(d)

Same(a, b) == a.usr = b.usr /\ a.file = b.file
Before(a, b) == a.usr < b.usr \/ (a.usr = b.usr /\ a.file < b.file)
\* The rows of all sources: a file is described by the database that owns it.
Staged(c) ==
    LET rows == UNION {{r \in c[d].rows : owned[r.file] \in {None, NoDatabase, d}} : d \in DOMAIN c}
    IN {r \in rows : r.def \/ ~\E q \in rows : Same(q, r) /\ q.def}
\* Mutant of Publishable: an obsolete definition still hides declarations.
PublishableObsolete(c) ==
    LET known == {r \in Staged(c) : r.file \in Registered}
    IN {r \in known : r.file \notin invalid /\ (r.def \/ ~\E q \in known :
                        q.usr = r.usr /\ q.def /\ ScopeOf[q.file] = ScopeOf[r.file])}
Publishable(c) ==
    LET known == {r \in Staged(c) : r.file \in Registered \ invalid}
    IN {r \in known : r.def \/ ~\E q \in known :
                        q.usr = r.usr /\ q.def /\ ScopeOf[q.file] = ScopeOf[r.file]}

-----------------------------------------------------------------------------
(* A refresh.  From Begin to Commit it holds the write lock of the project. *)

Locked == job.phase \in {"source", "copy", "confirm"}
quiet == <<store, stamp, client, reader, factsWrites, catalogWrites>>

InitializeIndex ==
    /\ job.phase = "idle"
    /\ invalid' = invalid \cap (Registered \ current)
    /\ revision' = IF revision = None THEN 0 ELSE revision
    /\ job' = [phase |-> "begin"]
    /\ settled' = (settled /\ invalid' = invalid)
    /\ UNCHANGED <<owned, current, published, cache, quiet>>

BeginRefresh ==
    /\ job.phase = "begin"
    /\ job' = [phase |-> "source", todo |-> Linked, before |-> None, stamp |-> None,
               cache |-> [d \in DOMAIN cache \cap Linked |-> cache[d]]]
    /\ UNCHANGED <<projectVars, cache, settled, quiet>>

\* The sources are taken in order.
Source == CHOOSE d \in job.todo : \A e \in job.todo : d <= e
Look ==
    /\ job.phase = "source" /\ job.todo # {}
    /\ job' = IF Source \in DOMAIN job.cache /\ job.cache[Source].stamp = Stamp(Source)
              THEN [job EXCEPT !.todo = @ \ {Source}]
              ELSE [job EXCEPT !.phase = "copy", !.before = Fingerprint(Source), !.stamp = Stamp(Source)]
    /\ UNCHANGED <<projectVars, cache, settled, quiet>>

Copy ==
    /\ job.phase = "copy"
    /\ LET row == [stamp |-> job.stamp,
                   rows |-> IF Blocked(Source) THEN {} ELSE StoredRows(Source)]
       IN job' = [job EXCEPT !.phase = "confirm",
                    !.cache = [d \in DOMAIN @ \cup {Source} |-> IF d = Source THEN row ELSE @[d]]]
    /\ UNCHANGED <<projectVars, cache, settled, quiet>>

\* A database that changed meanwhile fails the refresh; all is rolled back.
Confirm ==
    /\ job.phase = "confirm"
    /\ job' = IF Fingerprint(Source) = job.before
              THEN [job EXCEPT !.phase = "source", !.todo = @ \ {Source}] ELSE AtRest
    /\ UNCHANGED <<projectVars, cache, settled, quiet>>

Commit ==
    /\ job.phase = "source" /\ job.todo = {}
    /\ LET rows == InOrder(Publishable(job.cache), Before)
           changed == Publishable(job.cache) # {published[p] : p \in DOMAIN published}
       IN /\ published' = IF changed THEN rows ELSE published
          /\ revision' = IF changed \/ revision = 0 THEN revision + 1 ELSE revision
    /\ cache' = job.cache
    /\ settled' = \A d \in Linked : job.cache[d].stamp = Stamp(d)
    /\ job' = AtRest
    /\ UNCHANGED <<owned, current, invalid, quiet>>

-----------------------------------------------------------------------------
(* The writers *)

\* An extraction commits to a facts database, which needs no lock of the
\* project; the project records it later.
WriteFacts ==
    /\ factsWrites < MaxFacts
    /\ \E d \in Databases : \E rows \in Contents[d] \ {store[d]} :
        /\ store' = [store EXCEPT ![d] = rows]
        /\ stamp' = [stamp EXCEPT ![d] = @ + 1]
    /\ settled' = FALSE /\ factsWrites' = factsWrites + 1
    /\ UNCHANGED <<projectVars, cache, job, client, reader, catalogWrites>>

RecordFacts ==
    /\ ~Locked
    /\ \E f \in Registered, d \in {e \in Databases : store[e] # None} :
        /\ f \notin current \/ owned[f] # d
        /\ owned' = [owned EXCEPT ![f] = d]
        /\ current' = current \cup {f}
    /\ settled' = FALSE /\ catalogWrites < MaxCatalog /\ catalogWrites' = catalogWrites + 1
    /\ UNCHANGED <<invalid, published, revision, store, stamp, cache, job, client, reader, factsWrites>>

\* What an edit of the catalog hides leaves the published index with it.
\* Mutant of Invalidate: the edit does not count as a new revision.
InvalidateSilently(gone) ==
    /\ invalid' = invalid \cup gone
    /\ current' = current \ gone
    /\ LET kept == {p \in DOMAIN published : published[p].file \notin invalid'}
       IN published' = IF revision = None THEN published ELSE [p \in kept |-> published[p]]
    /\ UNCHANGED revision
Invalidate(gone) ==
    /\ invalid' = invalid \cup gone
    /\ current' = current \ gone
    /\ LET kept == {p \in DOMAIN published : published[p].file \notin invalid'}
       IN published' = IF revision = None THEN published ELSE [p \in kept |-> published[p]]
    /\ revision' = IF revision = None THEN None ELSE revision + 1

EditCatalog(files) ==
    /\ ~Locked /\ catalogWrites < MaxCatalog /\ catalogWrites' = catalogWrites + 1
    /\ settled' = FALSE
    /\ Invalidate(files)
    /\ UNCHANGED <<owned, store, stamp, cache, job, client, reader, factsWrites>>

\* A new compile command for one file; another checkout or version for all
\* files of a repository or component; or an edit that touches no facts.
EditCommand == \E f \in Registered : EditCatalog({f})
EditRepository == \E f \in Registered : EditCatalog({g \in Registered : ScopeOf[g] = ScopeOf[f]})
EditDisplay == EditCatalog({})

\* A removed file takes its rows with it.
RemoveFile(f, counted) ==
    /\ ~Locked /\ catalogWrites < MaxCatalog /\ catalogWrites' = catalogWrites + 1
    /\ owned' = [owned EXCEPT ![f] = None]
    /\ current' = current \ {f}
    /\ LET kept == {p \in DOMAIN published : published[p].file # f}
       IN published' = [p \in kept |-> published[p]]
    /\ revision' = IF counted /\ revision # None THEN revision + 1 ELSE revision
    /\ settled' = FALSE
    /\ UNCHANGED <<invalid, store, stamp, cache, job, client, reader, factsWrites>>

RemoveByServer == \E f \in Registered : RemoveFile(f, TRUE)
\* The command line does not know of revisions.
RemoveByCommand ==
    /\ RemovesWhileRead \/ {client.phase, reader.phase} \subseteq {"absent", "idle", "done"}
    /\ \E f \in Registered : RemoveFile(f, FALSE)

-----------------------------------------------------------------------------
(* A client that follows a search from page to page, one symbol on each.    *)
(* A query is one symbol, in the order of positions, or None for all, in    *)
(* the order of names.                                                      *)

Shown(p) == published[p].file \in Registered \ invalid
SameSymbol(p, q) ==
    published[p].usr = published[q].usr /\ ScopeOf[published[p].file] = ScopeOf[published[q].file]
\* The definition of a symbol stands for it, else what comes first.
Chosen(p) ==
    \A q \in {x \in DOMAIN published : Shown(x) /\ SameSymbol(x, p)} \ {p} :
        IF published[p].def = published[q].def THEN p < q ELSE published[p].def
Matching(query) ==
    {p \in DOMAIN published : Shown(p) /\ Chosen(p) /\ query \in {None, published[p].usr}}
Precedes(query, p, q) ==
    IF query = None
    THEN LET a == NameOf[published[p].usr] b == NameOf[published[q].usr] IN a < b \/ (a = b /\ p < q)
    ELSE p < q
\* The names start after the name at the cursor: none do when it is not there.
Following(query, position) ==
    IF position = 0 THEN Matching(query)
    ELSE {p \in Matching(query) : (query = None => position \in DOMAIN published) /\ Precedes(query, position, p)}
Positions(query) ==
    LET order(p, q) == Precedes(query, p, q) IN InOrder(Matching(query), order)
Result(query) == [i \in DOMAIN Positions(query) |-> published[Positions(query)[i]]]

Expired == client.revision # revision

\* A page holds one row; another one behind it makes a cursor.
Page(c) ==
    LET rows == Following(c.query, c.position)
        first == CHOOSE p \in rows : \A q \in rows \ {p} : Precedes(c.query, p, q)
    IN IF rows = {} THEN [c EXCEPT !.phase = "done"]
       ELSE [c EXCEPT !.phase = IF rows = {first} THEN "done" ELSE "reading",
                      !.position = first, !.got = Append(@, published[first])]

Search ==
    /\ client.phase = "idle" /\ revision \notin {None, 0}
    /\ \E query \in {None} \cup DOMAIN NameOf :
        client' = Page([phase |-> "reading", query |-> query, revision |-> revision, position |-> 0,
                        got |-> <<>>, due |-> Result(query)])
    /\ UNCHANGED <<projectVars, store, stamp, cache, job, settled, reader, factsWrites, catalogWrites>>

ReadPage ==
    /\ client.phase = "reading"
    /\ client' = IF Expired THEN AtRest ELSE Page(client)
    /\ UNCHANGED <<projectVars, store, stamp, cache, job, settled, reader, factsWrites, catalogWrites>>

-----------------------------------------------------------------------------
(* A client that asks for the occurrences of a symbol, which are read from  *)
(* one facts database after the other.                                      *)

Find ==
    /\ reader.phase = "idle" /\ revision \notin {None, 0}
    /\ \E p \in Matching(None) :
        reader' = [phase |-> "found", usr |-> published[p].usr, scope |-> ScopeOf[published[p].file],
                   revision |-> revision]
    /\ UNCHANGED <<projectVars, store, stamp, cache, job, settled, client, factsWrites, catalogWrites>>

Plan ==
    /\ reader.phase = "found"
    /\ LET valid == {f \in Registered \ invalid : ScopeOf[f] = reader.scope}
           from == {owned[f] : f \in valid} \ {NoDatabase}
       IN reader' = [phase |-> "reading", usr |-> reader.usr, scope |-> reader.scope, revision |-> reader.revision,
                     valid |-> valid, todo |-> from, seen |-> [d \in from |-> Fingerprint(d)], got |-> {},
                     due |-> UNION {{r \in StoredRows(d) : r.usr = reader.usr /\ r.file \in valid} : d \in from},
                     known |-> \E p \in Matching(reader.usr) : ScopeOf[published[p].file] = reader.scope]
    /\ UNCHANGED <<projectVars, store, stamp, cache, job, settled, client, factsWrites, catalogWrites>>

CollectFrom ==
    /\ reader.phase = "reading" /\ reader.todo # {}
    /\ LET d == CHOOSE d \in reader.todo : \A e \in reader.todo : d <= e
       IN reader' = [reader EXCEPT !.todo = @ \ {d},
                        !.got = @ \cup {r \in StoredRows(d) : r.usr = reader.usr /\ r.file \in reader.valid}]
    /\ UNCHANGED <<projectVars, store, stamp, cache, job, settled, client, factsWrites, catalogWrites>>

Unchanged == \A d \in DOMAIN reader.seen : Fingerprint(d) = reader.seen[d]

CheckSources ==
    /\ reader.phase = "reading" /\ reader.todo = {}
    /\ reader' = IF Unchanged THEN [reader EXCEPT !.phase = "checked"] ELSE AtRest
    /\ UNCHANGED <<projectVars, store, stamp, cache, job, settled, client, factsWrites, catalogWrites>>

Answer ==
    /\ reader.phase = "checked"
    /\ reader' = IF revision = reader.revision THEN [reader EXCEPT !.phase = "done"] ELSE AtRest
    /\ UNCHANGED <<projectVars, store, stamp, cache, job, settled, client, factsWrites, catalogWrites>>

SymbolIndexNext ==
    \/ InitializeIndex \/ BeginRefresh \/ Look \/ Copy \/ Confirm \/ Commit
    \/ WriteFacts \/ RecordFacts \/ EditCommand \/ EditRepository \/ EditDisplay
    \/ RemoveByServer \/ RemoveByCommand
    \/ Search \/ ReadPage \/ Find \/ Plan \/ CollectFrom \/ CheckSources \/ Answer

SymbolIndexSpec == SymbolIndexInit /\ [][SymbolIndexNext]_indexVars

-----------------------------------------------------------------------------
(* Once a refresh has read the databases as they are, the published index   *)
(* is what they say: every row that the owner of its file holds, unless the *)
(* file is obsolete, declarations only of symbols without a definition in   *)
(* the repository.  It holds however much was skipped as unchanged.         *)
Described(f) ==
    IF owned[f] = NoDatabase THEN UNION {StoredRows(d) : d \in {e \in Linked : ~Blocked(e)}}
    ELSE StoredRows(owned[f])
Reported == UNION {{r \in Described(f) : r.file = f} : f \in Registered \ invalid}
IndexIsCurrent ==
    settled =>
      {<<published[p].usr, published[p].file>> : p \in DOMAIN published} =
      {<<r.usr, r.file>> : r \in {x \in Reported :
          (\E y \in Reported : Same(x, y) /\ y.def)
          \/ ~\E y \in Reported : y.usr = x.usr /\ y.def /\ ScopeOf[y.file] = ScopeOf[x.file]}}

(* Who follows the cursors to the last page has received the result of one  *)
(* revision, each symbol once and in order; and the occurrences of a symbol *)
(* are those of one moment at which the index knew the symbol.              *)
ReadersSeeOneMoment ==
    /\ client.phase = "done" => client.got = client.due
    /\ reader.phase = "done" => reader.got = reader.due /\ reader.known

(* The index that is published is the facts', and whoever reads it reads    *)
(* one moment of it (index/Refresh, index/Page).                            *)
IndexServesFacts == IndexIsCurrent /\ ReadersSeeOneMoment
=============================================================================

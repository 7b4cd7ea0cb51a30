--------------------------- MODULE AnalysisProofs ---------------------------
(***************************************************************************)
(* Proofs about what the tools keep for later: the cache of parsed units,  *)
(* the facts that a call graph recovers, the answers of drivers and the    *)
(* includes of files, and about what a search of a call graph and a walk   *)
(* of directories find, for every set of processes, repositories, units,   *)
(* functions and drivers, any number of edits, replacements and damages,   *)
(* every graph and every tree of directories, files and links.             *)
(*                                                                         *)
(*   AstCache           a process never gets a tree that lacks a commit    *)
(*                      which was there before it asked: what it holds     *)
(*                      from one step to the next was looked up under one  *)
(*                      set of commits, and the files that it writes under *)
(*                      the lock belong together                           *)
(*   CallGraphRecovery  a run that says it is complete followed only       *)
(*                      bodies that the sources had while it ran, and it   *)
(*                      ends: what a round keeps, parsed or extracted is   *)
(*                      fresh, and each round adds a function to it        *)
(*   DriverProbe        a command gets what its driver answered when it    *)
(*                      was identified: what is kept under a key is what   *)
(*                      the driver of that key answers; and a source gets  *)
(*                      its commands, as what is done and what is left are *)
(*                      together the commands that were selected           *)
(*   CallSearch         a search of callees or callers that says it is     *)
(*                      complete found exactly what is to be found, in any *)
(*                      graph: every edge of a context that was entered    *)
(*                      was followed, or a frame of the recursion will do  *)
(*                      so; a search for paths found those that are to be  *)
(*                      found, as each leads through a frame or, if it is  *)
(*                      to be the shortest, through the queue, which is    *)
(*                      sorted and covers what has been entered            *)
(*   SourceDiscovery    a walk finds each file that is still reachable at  *)
(*                      its end: what an entry of a visited directory      *)
(*                      leads to has been found, or a path that leads to   *)
(*                      the directory waits to be read                     *)
(*   IncludeGraph       the stored edges of a file are those of the text   *)
(*                      that was stored last                               *)
(*                                                                         *)
(* Every action has a lemma; a step first names the new record of its      *)
(* process or run, and then shows the conjuncts of the invariant for it.   *)
(***************************************************************************)
EXTENDS AstCache, CallGraphRecovery, DriverProbe, CallSearch, IncludeGraph, Naturals, FiniteSetTheorems, SequenceTheorems, TLAPS

-----------------------------------------------------------------------------
(* The cache of parsed units: types *)

\* Per repository a version, or None where nobody has looked.
Looks == [Repositories -> TreeVersions \cup {None}]
CommitRecords == UNION {[S -> TreeVersions] : S \in SUBSET Repositories}
SnapshotRows == [inputs : SUBSET Repositories, revisions : CommitRecords, text : Looks]
ArtifactRows == [digest : Looks, generation : (SUBSET Repositories) \X CommitRecords]

UserSteps == {"rest", "lookup", "validate", "base", "parse", "check", "store", "rename", "metadata", "rows"}
Wants == {None, "unit", "prepare", "dependencies", "scan"}
UserRecords ==
    [at : UserSteps, want : Wants, floor : Looks, base : TreeVersions \cup {None}, seen : Looks, text : Looks,
     held : SnapshotRows \cup {None}, got : [inputs : SUBSET Repositories, text : Looks] \cup {None}]

CacheTypeOK ==
    /\ tree \in [Repositories -> TreeVersions]
    /\ headOf \in [Repositories -> TreeVersions]
    /\ snapshot \in SnapshotRows \cup {None}
    /\ artifact \in ArtifactRows \cup {None}
    /\ astFile \in Looks \cup {None}
    /\ lock \in Processes \cup {None}
    /\ user \in [Processes -> UserRecords]

-----------------------------------------------------------------------------
(* The cache of parsed units: the invariant *)

\* Whoever sees the recorded commits at HEAD may take the unit for current:
\* it was read from them or from something later.
Backed(inputs, revisions, text) ==
    /\ inputs = InputRepositories(text)
    /\ \A r \in Repositories : text[r] # None =>
          r \in DOMAIN revisions /\ revisions[r] \in TreeVersions /\ revisions[r] <= text[r]

\* A parse has looked at the commit of a repository before it read a file
\* of it, and reads only what the source names and the search directories.
ReadAfterLook(u) ==
    \A r \in Repositories :
        /\ u.seen[r] # None => u.seen[r] <= tree[r]
        /\ u.text[r] # None =>
             /\ u.seen[r] # None /\ u.seen[r] <= u.text[r]
             /\ u.text[MainRepository] # None
             /\ r \in {MainRepository} \cup NamedBy[u.text[MainRepository]] \cup Searched

Captured(s, text) ==
    /\ s.text = text /\ s.inputs = InputRepositories(text)
    /\ DOMAIN s.revisions = Recorded(text)
    /\ text[MainRepository] # None

\* What the last operation took, against the commits when it was asked for.
Honest(got, floor) ==
    /\ got.inputs = InputRepositories(got.text)
    /\ \A r \in Repositories : got.text[r] # None => got.text[r] >= floor[r]

FloorPassed(u) == \A r \in Repositories : u.floor[r] \in TreeVersions /\ u.floor[r] <= headOf[r]
HeldCurrent(u) ==
    \A r \in Repositories : u.floor[r] \in TreeVersions
        /\ (r \in DOMAIN u.held.revisions => u.floor[r] <= u.held.revisions[r])

\* One process, by how far it is.
UserOK(p, u) ==
    /\ u.at \in {"validate", "rename", "metadata"} => lock = p
    /\ u.at = "lookup" => FloorPassed(u)
    /\ u.at \in {"validate", "check", "store", "rename", "metadata", "rows"} => u.held \in SnapshotRows
    /\ u.at = "validate" => HeldCurrent(u)
    /\ u.at \in {"parse", "check"} => ReadAfterLook(u)
    /\ u.at = "check" => Captured(u.held, u.text)
    /\ u.at \in {"validate", "store", "rename", "metadata", "rows"} =>
         Backed(u.held.inputs, u.held.revisions, u.held.text)
    /\ u.at = "metadata" => astFile = u.held.text
    /\ u.got # None => Honest(u.got, u.floor)

CacheInv ==
    /\ CacheTypeOK
    /\ \A r \in Repositories : headOf[r] <= tree[r]
    /\ snapshot # None => Backed(snapshot.inputs, snapshot.revisions, snapshot.text)
    /\ artifact # None => Backed(artifact.generation[1], artifact.generation[2], artifact.digest)
    /\ \A p \in Processes : UserOK(p, user[p])

LEMMA RestingRecord ==
    /\ Unread \in Looks
    /\ Resting \in UserRecords
    /\ Resting.at = "rest" /\ Resting.got = None /\ Resting.held = None
BY DEF Unread, Looks, Resting, UserRecords, UserSteps, Wants

\* Whoever is at rest, at the beginning of a parse or turned away is in order.
LEMMA IdleUser ==
    ASSUME NEW p \in Processes, NEW u, u.at \in {"rest", "base"}, u.got = None
    PROVE  UserOK(p, u) /\ UserOK(p, u)'
BY DEF UserOK

\* A process moves; the others keep what they rely on.
LEMMA UserMoves ==
    ASSUME CacheInv, UNCHANGED people,
           NEW p \in Processes, NEW u \in UserRecords, user' = [user EXCEPT ![p] = u],
           UserOK(p, u)',
           snapshot' \in SnapshotRows \cup {None}, artifact' \in ArtifactRows \cup {None},
           astFile' \in Looks \cup {None}, lock' \in Processes \cup {None},
           snapshot' # None => Backed(snapshot'.inputs, snapshot'.revisions, snapshot'.text),
           artifact' # None => Backed(artifact'.generation[1], artifact'.generation[2], artifact'.digest),
           \A q \in Processes \ {p} : lock = q => lock' = q /\ astFile' = astFile
    PROVE  CacheInv'
<1>1. CacheTypeOK'
  BY DEF CacheInv, CacheTypeOK, people
<1>2. \A r \in Repositories : headOf'[r] <= tree'[r]
  BY DEF CacheInv, people
<1>3. ASSUME NEW q \in Processes PROVE UserOK(q, user[q])'
  <2>1. CASE q = p
    <3>1. user'[q] = u
      BY <2>1 DEF CacheInv, CacheTypeOK
    <3> QED BY <2>1, <3>1
  <2>2. CASE q # p
    <3>1. PICK v : v = user[q] /\ v = user'[q]
      BY <2>2 DEF CacheInv, CacheTypeOK
    <3>2. UserOK(q, v)
      BY <3>1 DEF CacheInv
    <3>3. lock = q => lock' = q /\ astFile' = astFile
      BY <2>2
    <3>4. UserOK(q, v)'
      BY <3>2, <3>3 DEF UserOK, FloorPassed, HeldCurrent, ReadAfterLook, people
    <3> QED BY <3>1, <3>4
  <2> QED BY <2>1, <2>2
<1> QED BY <1>1, <1>2, <1>3 DEF CacheInv, Backed, InputRepositories

-----------------------------------------------------------------------------
(* The cache of parsed units: one lemma for each action *)

\* A step of one process that touches neither the entry nor its lock.
LEMMA UserAlone ==
    ASSUME CacheInv, UNCHANGED <<people, rows, astFile, lock>>,
           NEW p \in Processes, NEW u \in UserRecords, user' = [user EXCEPT ![p] = u], UserOK(p, u)'
    PROVE  CacheInv'
<1>1. /\ snapshot' \in SnapshotRows \cup {None} /\ artifact' \in ArtifactRows \cup {None}
      /\ astFile' \in Looks \cup {None} /\ lock' \in Processes \cup {None}
  BY DEF CacheInv, CacheTypeOK, rows
<1>2. /\ snapshot' # None => Backed(snapshot'.inputs, snapshot'.revisions, snapshot'.text)
      /\ artifact' # None => Backed(artifact'.generation[1], artifact'.generation[2], artifact'.digest)
  BY DEF CacheInv, rows
<1> QED BY <1>1, <1>2, UserMoves, CacheAssumption DEF rows

\* The processes rest or begin again, and the entry is as it was.
LEMMA UserTurnsBack ==
    ASSUME CacheInv, UNCHANGED <<people, rows, astFile, lock>>,
           NEW p \in Processes, NEW u \in UserRecords, user' = [user EXCEPT ![p] = u],
           u.at \in {"rest", "base"}, u.got = None
    PROVE  CacheInv'
<1>1. UserOK(p, u)'
  BY IdleUser
<1> QED BY <1>1, UserAlone

LEMMA AskStep ==
    ASSUME CacheInv, NEW p \in Processes, Ask(p)
    PROVE  CacheInv'
<1>1. PICK want \in {"unit", "prepare", "dependencies"} :
         user' = [user EXCEPT ![p] = [Resting EXCEPT !.at = "lookup", !.want = want, !.floor = headOf]]
  BY DEF Ask
<1>2. PICK u : u = [Resting EXCEPT !.at = "lookup", !.want = want, !.floor = headOf]
  OBVIOUS
<1>3. headOf \in Looks
  BY DEF CacheInv, CacheTypeOK, Looks
<1>4. u \in UserRecords /\ u.at = "lookup" /\ u.got = None /\ u.floor = headOf
  BY <1>2, <1>3, RestingRecord DEF UserRecords, UserSteps, Wants
<1>5. FloorPassed(u)'
  BY <1>4 DEF FloorPassed, Ask, people, CacheInv, CacheTypeOK, TreeVersions
<1>6. UserOK(p, u)'
  BY <1>4, <1>5 DEF UserOK
<1> QED BY <1>1, <1>2, <1>4, <1>6, UserAlone DEF Ask

LEMMA MissedUser ==
    ASSUME NEW w \in Wants
    PROVE  LET u == [Resting EXCEPT !.at = "base", !.want = w]
           IN u \in UserRecords /\ u.at = "base" /\ u.got = None
BY RestingRecord DEF UserRecords, UserSteps

LEMMA WantsTyped ==
    ASSUME CacheInv, NEW p \in Processes
    PROVE  user[p] \in UserRecords /\ user[p].want \in Wants /\ UserOK(p, user[p])
BY DEF CacheInv, CacheTypeOK, UserRecords

LEMMA TryLoadStep ==
    ASSUME CacheInv, NEW p \in Processes, TryLoad(p)
    PROVE  CacheInv'
<1>1. CASE lock = None /\ snapshot # None /\ currentSnapshot(snapshot)
  <2>1. lock' = p /\ user' = [user EXCEPT ![p].at = "validate", ![p].held = snapshot]
    BY <1>1 DEF TryLoad
  <2>2. PICK u : u = [user[p] EXCEPT !.at = "validate", !.held = snapshot]
    OBVIOUS
  <2>3. user' = [user EXCEPT ![p] = u]
    BY <2>1, <2>2
  <2>4. snapshot \in SnapshotRows
    BY <1>1 DEF CacheInv, CacheTypeOK
  <2>5. /\ u \in UserRecords /\ u.at = "validate" /\ u.held = snapshot
        /\ u.floor = user[p].floor /\ u.got = user[p].got
    BY <2>2, <2>4, WantsTyped DEF UserRecords, UserSteps
  <2>6. FloorPassed(user[p]) /\ (user[p].got # None => Honest(user[p].got, user[p].floor))
    BY WantsTyped DEF UserOK, TryLoad, Reached
  <2>7. \A r \in DOMAIN snapshot.revisions : snapshot.revisions[r] = headOf[r]
    BY <1>1 DEF currentSnapshot
  <2>8. HeldCurrent(u)
    BY <2>5, <2>6, <2>7 DEF HeldCurrent, FloorPassed
  <2>9. Backed(u.held.inputs, u.held.revisions, u.held.text)
    BY <1>1, <2>5 DEF CacheInv
  <2>10. UserOK(p, u)'
    BY <1>1, <2>1, <2>4, <2>5, <2>6, <2>8, <2>9 DEF UserOK, HeldCurrent, TryLoad
  <2>11. \A q \in Processes : lock # q
    BY <1>1, CacheAssumption
  <2>12. UNCHANGED people /\ snapshot' = snapshot /\ artifact' = artifact /\ astFile' = astFile
    BY DEF TryLoad, others, people, rows
  <2> QED BY <2>1, <2>3, <2>5, <2>10, <2>11, <2>12, UserMoves DEF CacheInv, CacheTypeOK
<1>2. CASE ~(lock = None /\ snapshot # None /\ currentSnapshot(snapshot))
  <2>1. user' = [user EXCEPT ![p] = [Resting EXCEPT !.at = "base", !.want = user[p].want]]
    BY <1>2 DEF TryLoad, Miss
  <2>2. UNCHANGED <<people, rows, astFile, lock>>
    BY <1>2 DEF TryLoad, others, people, rows
  <2> QED BY <2>1, <2>2, MissedUser, WantsTyped, UserTurnsBack
<1> QED BY <1>1, <1>2

\* What the entry vouches for when its commits are those of HEAD.
LEMMA BackedIsHonest ==
    ASSUME NEW inputs, NEW revisions \in CommitRecords, NEW text \in Looks, NEW floor,
           Backed(inputs, revisions, text),
           \A r \in Repositories : floor[r] \in TreeVersions /\ (r \in DOMAIN revisions => floor[r] <= revisions[r])
    PROVE  Honest([inputs |-> inputs, text |-> text], floor)
<1>1. inputs = InputRepositories(text)
  BY DEF Backed
<1>2. ASSUME NEW r \in Repositories, text[r] # None PROVE text[r] >= floor[r]
  <2>1. revisions[r] <= text[r] /\ floor[r] <= revisions[r] /\ revisions[r] \in TreeVersions
    BY <1>2 DEF Backed
  <2>2. text[r] \in TreeVersions /\ floor[r] \in TreeVersions
    BY <1>2 DEF Looks
  <2> QED BY <2>1, <2>2 DEF TreeVersions
<1> QED BY <1>1, <1>2 DEF Honest

\* The operation ends with what it took.
LEMMA UserTakes ==
    ASSUME CacheInv, NEW p \in Processes, NEW g, g \in [inputs : SUBSET Repositories, text : Looks],
           Honest(g, user[p].floor),
           NEW u, u = [Resting EXCEPT !.floor = user[p].floor, !.got = g]
    PROVE  u \in UserRecords /\ UserOK(p, u)'
<1>2. user[p].floor \in Looks
  BY WantsTyped DEF UserRecords
<1>3. u \in UserRecords /\ u.at = "rest" /\ u.got = g /\ u.floor = user[p].floor
  BY <1>2, RestingRecord DEF UserRecords
<1>4. Honest(u.got, u.floor)
  BY <1>3
<1>5. UserOK(p, u)'
  BY <1>3, <1>4 DEF UserOK
<1> QED BY <1>3, <1>5

LEMMA ValidateStep ==
    ASSUME CacheInv, NEW p \in Processes, Validate(p)
    PROVE  CacheInv'
<1>1. user[p].at = "validate" /\ lock = p /\ lock' = None
  BY WantsTyped DEF Validate, Reached, UserOK
<1>2. UNCHANGED people /\ snapshot' = snapshot /\ artifact' = artifact /\ astFile' = astFile
  BY DEF Validate, others, people, rows
<1>3. \A q \in Processes \ {p} : lock # q
  BY <1>1
<1>4. ASSUME NEW u \in UserRecords, user' = [user EXCEPT ![p] = u], UserOK(p, u)'
      PROVE  CacheInv'
  BY <1>1, <1>2, <1>3, <1>4, UserMoves DEF CacheInv, CacheTypeOK
<1>5. CASE ~Intact(user[p].held)
  <2>1. PICK u : u = [Resting EXCEPT !.at = "base", !.want = user[p].want]
    OBVIOUS
  <2>2. user' = [user EXCEPT ![p] = u]
    BY <1>5, <2>1 DEF Validate, Miss
  <2>3. u \in UserRecords /\ u.at = "base" /\ u.got = None
    BY <2>1, MissedUser, WantsTyped
  <2>4. UserOK(p, u)'
    BY <2>3, IdleUser
  <2> QED BY <1>4, <2>2, <2>3, <2>4
<1>6. CASE Intact(user[p].held)
  <2>1. PICK held : held = user[p].held
    OBVIOUS
  <2>2. /\ held \in SnapshotRows /\ HeldCurrent(user[p])
        /\ Backed(held.inputs, held.revisions, held.text)
    BY <1>1, <2>1, WantsTyped DEF UserOK, UserRecords
  <2>3. /\ artifact # None /\ artifact.generation = <<held.inputs, held.revisions>>
        /\ astFile = artifact.digest
    BY <1>6, <2>1 DEF Intact, Generation
  <2>4. artifact \in ArtifactRows /\ Backed(artifact.generation[1], artifact.generation[2], artifact.digest)
    BY <2>3 DEF CacheInv, CacheTypeOK
  <2>5. astFile \in Looks /\ Backed(held.inputs, held.revisions, astFile)
    BY <2>3, <2>4 DEF ArtifactRows
  <2>6. PICK text : text = IF user[p].want = "unit" THEN astFile ELSE held.text
    OBVIOUS
  <2>7. text \in Looks /\ Backed(held.inputs, held.revisions, text)
    BY <2>2, <2>5, <2>6 DEF SnapshotRows
  <2>8. held.inputs \in SUBSET Repositories /\ held.revisions \in CommitRecords
    BY <2>2 DEF SnapshotRows
  <2>9. Honest([inputs |-> held.inputs, text |-> text], user[p].floor)
    BY <2>1, <2>2, <2>7, <2>8, BackedIsHonest DEF HeldCurrent
  <2>10. PICK u : u = [Resting EXCEPT !.floor = user[p].floor, !.got = [inputs |-> held.inputs, text |-> text]]
    OBVIOUS
  <2>11. u \in UserRecords /\ UserOK(p, u)'
    BY <2>7, <2>8, <2>9, <2>10, UserTakes
  <2>12. user' = [user EXCEPT ![p] = u]
    BY <1>6, <2>1, <2>6, <2>10 DEF Validate
  <2> QED BY <1>4, <2>11, <2>12
<1> QED BY <1>5, <1>6

LEMMA cachedIncludesStep ==
    ASSUME CacheInv, NEW p \in Processes, cachedIncludes(p)
    PROVE  CacheInv'
<1>1. UNCHANGED <<people, rows, astFile, lock>>
  BY DEF cachedIncludes, others, people, rows
<1>2. CASE snapshot # None /\ currentSnapshot(snapshot)
  <2>1. PICK g : g = [inputs |-> snapshot.inputs, text |-> snapshot.text]
    OBVIOUS
  <2>2. snapshot \in SnapshotRows /\ Backed(snapshot.inputs, snapshot.revisions, snapshot.text)
    BY <1>2 DEF CacheInv, CacheTypeOK
  <2>3. FloorPassed(user[p])
    BY WantsTyped DEF UserOK, cachedIncludes, Reached
  <2>4. \A r \in Repositories : user[p].floor[r] \in TreeVersions
            /\ (r \in DOMAIN snapshot.revisions => user[p].floor[r] <= snapshot.revisions[r])
    BY <1>2, <2>3 DEF FloorPassed, currentSnapshot
  <2>5. /\ snapshot.inputs \in SUBSET Repositories /\ snapshot.revisions \in CommitRecords
        /\ snapshot.text \in Looks
    BY <2>2 DEF SnapshotRows
  <2>6. Honest(g, user[p].floor) /\ g \in [inputs : SUBSET Repositories, text : Looks]
    BY <2>1, <2>2, <2>4, <2>5, BackedIsHonest
  <2>7. PICK u : u = [Resting EXCEPT !.floor = user[p].floor, !.got = g]
    OBVIOUS
  <2>8. u \in UserRecords /\ UserOK(p, u)'
    BY <2>6, <2>7, UserTakes
  <2>9. user' = [user EXCEPT ![p] = u]
    BY <1>2, <2>1, <2>7 DEF cachedIncludes
  <2> QED BY <1>1, <2>8, <2>9, UserAlone
<1>3. CASE ~(snapshot # None /\ currentSnapshot(snapshot))
  <2>1. user' = [user EXCEPT ![p] = Resting]
    BY <1>3 DEF cachedIncludes
  <2> QED BY <1>1, <2>1, RestingRecord, UserTurnsBack
<1> QED BY <1>2, <1>3

\* Where a parse looks before it enters any file.
LEMMA BaseStep ==
    ASSUME CacheInv, NEW p \in Processes, Base(p)
    PROVE  CacheInv'
<1>1. PICK looked : looked = [r \in Repositories |-> IF r = MainRepository \/ r \in Searched THEN headOf[r] ELSE None]
  OBVIOUS
<1>2. looked \in Looks
  BY <1>1 DEF Looks, CacheInv, CacheTypeOK
<1>3. PICK u : u = [Resting EXCEPT !.at = "parse", !.want = user[p].want, !.base = headOf[MainRepository],
                                   !.seen = looked]
  OBVIOUS
<1>4. user' = [user EXCEPT ![p] = u] /\ UNCHANGED <<people, rows, astFile, lock>>
  BY <1>1, <1>3 DEF Base, others, people, rows
<1>5. headOf[MainRepository] \in TreeVersions
  BY CacheAssumption DEF CacheInv, CacheTypeOK
<1>6. /\ u \in UserRecords /\ u.at = "parse" /\ u.got = None
      /\ u.seen = looked /\ u.text = Unread
  BY <1>2, <1>3, <1>5, RestingRecord, WantsTyped DEF UserRecords, UserSteps, Resting
<1>7. ReadAfterLook(u)'
  <2>1. ASSUME NEW r \in Repositories PROVE u.text[r] = None /\ (u.seen[r] # None => u.seen[r] <= tree'[r])
    BY <1>1, <1>4, <1>6 DEF Unread, people, CacheInv
  <2> QED BY <2>1 DEF ReadAfterLook
<1>8. UserOK(p, u)'
  BY <1>6, <1>7 DEF UserOK
<1> QED BY <1>4, <1>6, <1>8, UserAlone

\* What is read next is there, and was not read before.
LEMMA UnfinishedRepository ==
    ASSUME CacheInv, NEW u \in UserRecords, ReadAfterLook(u), NEW r \in Unfinished(u)
    PROVE  /\ r \in Repositories /\ u.text[r] = None
           /\ r = MainRepository \/ (/\ u.text[MainRepository] # None
                                     /\ r \in NamedBy[u.text[MainRepository]] \cup Searched)
<1>1. u.text \in Looks
  BY DEF UserRecords
<1>2. CASE u.text[MainRepository] = None
  BY <1>2, CacheAssumption DEF Unfinished
<1>3. CASE u.text[MainRepository] # None
  <2>1. u.text[MainRepository] \in TreeVersions
    BY <1>1, <1>3, CacheAssumption DEF Looks
  <2>2. NamedBy[u.text[MainRepository]] \subseteq Repositories
    BY <2>1, CacheAssumption
  <2> QED BY <1>3, <2>2, CacheAssumption DEF Unfinished
<1> QED BY <1>2, <1>3

LEMMA ReadStep ==
    ASSUME CacheInv, NEW p \in Processes, Read(p)
    PROVE  CacheInv'
<1>1. PICK r \in Unfinished(user[p]) :
        user' = IF user[p].seen[r] = None THEN [user EXCEPT ![p].seen[r] = headOf[r]]
                                          ELSE [user EXCEPT ![p].text[r] = tree[r]]
  BY DEF Read
<1>2. user[p].at = "parse" /\ user[p] \in UserRecords /\ ReadAfterLook(user[p]) /\ UserOK(p, user[p])
  BY WantsTyped DEF Read, Reached, UserOK
<1>3. /\ r \in Repositories /\ user[p].text[r] = None
      /\ r = MainRepository \/ (/\ user[p].text[MainRepository] # None
                                /\ r \in NamedBy[user[p].text[MainRepository]] \cup Searched)
  BY <1>1, <1>2, UnfinishedRepository
<1>4. UNCHANGED <<people, rows, astFile, lock>>
  BY DEF Read, others, people, rows
<1>5. /\ tree[r] \in TreeVersions /\ headOf[r] \in TreeVersions /\ headOf[r] <= tree[r]
      /\ user[p].seen \in Looks /\ user[p].text \in Looks
  BY <1>2, <1>3 DEF CacheInv, CacheTypeOK, UserRecords
<1>6. CASE user[p].seen[r] = None
  <2>1. PICK looked : looked = [user[p].seen EXCEPT ![r] = headOf[r]]
    OBVIOUS
  <2>2. PICK u : u = [user[p] EXCEPT !.seen = looked]
    OBVIOUS
  <2>3. user' = [user EXCEPT ![p] = u]
    BY <1>1, <1>6, <2>1, <2>2
  <2>4. looked \in Looks
    BY <1>5, <2>1 DEF Looks
  <2>5. /\ u \in UserRecords /\ u.at = "parse" /\ u.got = user[p].got /\ u.floor = user[p].floor
        /\ u.seen = looked /\ u.text = user[p].text
    BY <1>2, <2>2, <2>4 DEF UserRecords
  <2>6. ASSUME NEW x \in Repositories
        PROVE  /\ u.seen[x] # None => u.seen[x] <= tree'[x]
               /\ u.text[x] # None => /\ u.seen[x] # None /\ u.seen[x] <= u.text[x]
                                      /\ u.text[MainRepository] # None
                                      /\ x \in {MainRepository} \cup NamedBy[u.text[MainRepository]] \cup Searched
    BY <1>2, <1>3, <1>4, <1>5, <2>1, <2>5 DEF ReadAfterLook, Looks, people
  <2>7. UserOK(p, u)'
    BY <1>2, <2>5, <2>6 DEF UserOK, ReadAfterLook
  <2> QED BY <1>4, <2>3, <2>5, <2>7, UserAlone
<1>7. CASE user[p].seen[r] # None
  <2>1. PICK text : text = [user[p].text EXCEPT ![r] = tree[r]]
    OBVIOUS
  <2>2. PICK u : u = [user[p] EXCEPT !.text = text]
    OBVIOUS
  <2>3. user' = [user EXCEPT ![p] = u]
    BY <1>1, <1>7, <2>1, <2>2
  <2>4. text \in Looks
    BY <1>5, <2>1 DEF Looks
  <2>5. /\ u \in UserRecords /\ u.at = "parse" /\ u.got = user[p].got /\ u.floor = user[p].floor
        /\ u.seen = user[p].seen /\ u.text = text
    BY <1>2, <2>2, <2>4 DEF UserRecords
  <2>6. text[r] = tree[r] /\ \A x \in Repositories \ {r} : text[x] = user[p].text[x]
    BY <1>3, <1>5, <2>1 DEF Looks
  <2>7. text[MainRepository] # None /\ r \in {MainRepository} \cup NamedBy[text[MainRepository]] \cup Searched
    BY <1>3, <1>5, <2>6, CacheAssumption
  <2>8. \A x \in Repositories : user[p].text[x] # None => user[p].text[MainRepository] = text[MainRepository]
    BY <1>2, <1>3, <2>6, CacheAssumption DEF ReadAfterLook
  <2>9. user[p].seen[r] <= tree[r]
    BY <1>2, <1>3, <1>7 DEF ReadAfterLook
  <2>10. ASSUME NEW x \in Repositories
         PROVE  /\ u.seen[x] # None => u.seen[x] <= tree'[x]
                /\ u.text[x] # None => /\ u.seen[x] # None /\ u.seen[x] <= u.text[x]
                                       /\ u.text[MainRepository] # None
                                       /\ x \in {MainRepository} \cup NamedBy[u.text[MainRepository]] \cup Searched
    <3>1. CASE x = r
      BY <1>2, <1>4, <1>7, <2>5, <2>6, <2>7, <2>9, <3>1 DEF people
    <3>2. CASE x # r
      BY <1>2, <1>4, <2>5, <2>6, <2>7, <2>8, <3>2 DEF ReadAfterLook, people
    <3> QED BY <3>1, <3>2
  <2>11. UserOK(p, u)'
    BY <1>2, <2>5, <2>10 DEF UserOK, ReadAfterLook
  <2> QED BY <1>4, <2>3, <2>5, <2>11, UserAlone
<1> QED BY <1>6, <1>7

LEMMA CaptureTyped ==
    ASSUME CacheInv, NEW text \in Looks, text[MainRepository] # None
    PROVE  captureSnapshot(text) \in SnapshotRows /\ Captured(captureSnapshot(text), text)
<1>1. text[MainRepository] \in TreeVersions
  BY CacheAssumption DEF Looks
<1>2. InputRepositories(text) \subseteq Repositories
  BY <1>1, CacheAssumption DEF InputRepositories
<1>3. Recorded(text) \in SUBSET Repositories
  BY <1>2, CacheAssumption DEF Recorded
<1>4. [r \in Recorded(text) |-> headOf[r]] \in [Recorded(text) -> TreeVersions]
  BY <1>3 DEF CacheInv, CacheTypeOK
<1>5. [r \in Recorded(text) |-> headOf[r]] \in CommitRecords
  BY <1>3, <1>4 DEF CommitRecords
<1> QED BY <1>2, <1>5 DEF captureSnapshot, SnapshotRows, Captured

LEMMA EndParseStep ==
    ASSUME CacheInv, NEW p \in Processes, EndParse(p)
    PROVE  CacheInv'
<1>1. UNCHANGED <<people, rows, astFile, lock>>
  BY DEF EndParse, others, people, rows
<1>2. user[p].at = "parse" /\ user[p] \in UserRecords /\ ReadAfterLook(user[p]) /\ UserOK(p, user[p])
  BY WantsTyped DEF EndParse, Reached, UserOK
<1>3. \/ user' = [user EXCEPT ![p] = [Resting EXCEPT !.at = "base", !.want = "scan"]]
      \/ user' = [user EXCEPT ![p] = Resting]
      \/ user' = [user EXCEPT ![p].at = "check", ![p].held = captureSnapshot(user[p].text)]
  BY DEF EndParse
<1>4. CASE user' = [user EXCEPT ![p] = [Resting EXCEPT !.at = "base", !.want = "scan"]]
  <2>1. "scan" \in Wants
    BY DEF Wants
  <2> QED BY <1>1, <1>4, <2>1, MissedUser, UserTurnsBack
<1>5. CASE user' = [user EXCEPT ![p] = Resting]
  BY <1>1, <1>5, RestingRecord, UserTurnsBack
<1>6. CASE user' = [user EXCEPT ![p].at = "check", ![p].held = captureSnapshot(user[p].text)]
  <2>1. PICK captured : captured = captureSnapshot(user[p].text)
    OBVIOUS
  <2>2. PICK u : u = [user[p] EXCEPT !.at = "check", !.held = captured]
    OBVIOUS
  <2>3. user' = [user EXCEPT ![p] = u]
    BY <1>6, <2>1, <2>2
  <2>4. user[p].text \in Looks /\ user[p].text[MainRepository] # None
    <3>1. Unfinished(user[p]) = {}
      BY DEF EndParse
    <3> QED BY <1>2, <3>1 DEF Unfinished, UserRecords
  <2>5. captured \in SnapshotRows /\ Captured(captured, user[p].text)
    BY <2>1, <2>4, CaptureTyped
  <2>6. /\ u \in UserRecords /\ u.at = "check" /\ u.held = captured /\ u.got = user[p].got /\ u.floor = user[p].floor
        /\ u.seen = user[p].seen /\ u.text = user[p].text
    BY <1>2, <2>2, <2>5 DEF UserRecords, UserSteps
  <2>7. ReadAfterLook(u)'
    BY <1>1, <1>2, <2>6 DEF ReadAfterLook, people
  <2>8. Captured(u.held, u.text) /\ u.held \in SnapshotRows
    BY <2>5, <2>6
  <2>9. UserOK(p, u)'
    BY <1>2, <2>6, <2>7, <2>8 DEF UserOK
  <2> QED BY <1>1, <2>3, <2>6, <2>9, UserAlone
<1> QED BY <1>3, <1>4, <1>5, <1>6

\* Nothing has moved since the parse looked: the snapshot is backed.
LEMMA CheckedIsBacked ==
    ASSUME CacheInv, NEW u \in UserRecords, ReadAfterLook(u), u.held \in SnapshotRows, Captured(u.held, u.text),
           Observed(u), currentSnapshot(u.held)
    PROVE  Backed(u.held.inputs, u.held.revisions, u.held.text)
<1>1. u.held.text = u.text /\ u.held.inputs = InputRepositories(u.text) /\ DOMAIN u.held.revisions = Recorded(u.text)
  BY DEF Captured
<1>2. ASSUME NEW r \in Repositories, u.text[r] # None
      PROVE  /\ r \in DOMAIN u.held.revisions /\ u.held.revisions[r] \in TreeVersions
             /\ u.held.revisions[r] <= u.text[r]
  <2>1. u.seen[r] = headOf[r] /\ u.seen[r] <= u.text[r]
    BY <1>2 DEF ReadAfterLook, Observed
  <2>2. r \in Recorded(u.text)
    BY <1>2 DEF ReadAfterLook, Recorded, InputRepositories
  <2>3. u.held.revisions[r] = headOf[r]
    BY <1>1, <2>2 DEF currentSnapshot
  <2> QED BY <1>1, <2>1, <2>2, <2>3 DEF CacheInv, CacheTypeOK
<1> QED BY <1>1, <1>2 DEF Backed

LEMMA CheckStep ==
    ASSUME CacheInv, NEW p \in Processes, Check(p)
    PROVE  CacheInv'
<1>1. UNCHANGED <<people, rows, astFile, lock>>
  BY DEF Check, others, people, rows
<1>2. /\ user[p].at = "check" /\ user[p] \in UserRecords /\ ReadAfterLook(user[p])
      /\ user[p].held \in SnapshotRows /\ Captured(user[p].held, user[p].text)
  BY WantsTyped DEF Check, Reached, UserOK
<1>3. CASE user' = [user EXCEPT ![p] = Resting]
  BY <1>1, <1>3, RestingRecord, UserTurnsBack
<1>4. CASE user' # [user EXCEPT ![p] = Resting]
  <2>1. PICK step : step = IF user[p].want = "scan" THEN "rows" ELSE "store"
    OBVIOUS
  <2>2. PICK held : held = user[p].held
    OBVIOUS
  <2>3. PICK u : u = [Resting EXCEPT !.at = step, !.held = held]
    OBVIOUS
  <2>4. /\ user' = [user EXCEPT ![p] = u]
        /\ Observed(user[p]) /\ currentSnapshot(held)
    BY <1>4, <2>1, <2>2, <2>3 DEF Check
  <2>5. Backed(held.inputs, held.revisions, held.text)
    BY <1>2, <2>2, <2>4, CheckedIsBacked
  <2>6. step \in {"rows", "store"}
    BY <2>1
  <2>7. u \in UserRecords /\ u.at = step /\ u.held = held /\ u.got = None
    BY <1>2, <2>2, <2>3, <2>6, RestingRecord DEF UserRecords, UserSteps
  <2>8. Backed(u.held.inputs, u.held.revisions, u.held.text)' /\ u.held \in SnapshotRows
    BY <1>2, <2>2, <2>5, <2>7 DEF Backed, InputRepositories
  <2>9. UserOK(p, u)'
    BY <2>6, <2>7, <2>8 DEF UserOK
  <2> QED BY <1>1, <2>4, <2>7, <2>9, UserAlone
<1> QED BY <1>3, <1>4

\* The fields of a process that goes on with what it holds.
LEMMA GoingOn ==
    ASSUME CacheInv, NEW p \in Processes, NEW step \in UserSteps,
           NEW u, u = [user[p] EXCEPT !.at = step]
    PROVE  /\ u \in UserRecords /\ u.at = step /\ u.held = user[p].held
           /\ u.got = user[p].got /\ u.floor = user[p].floor
BY WantsTyped DEF UserRecords

\* A snapshot that waits to be stored: the lock and the file are as its step needs.
LEMMA Publishing ==
    ASSUME CacheInv, NEW p \in Processes, user[p].at \in {"store", "rename", "metadata", "rows"},
           NEW u, u = [user[p] EXCEPT !.at = u.at], u.at \in {"rename", "metadata", "rows"},
           u.at \in {"rename", "metadata"} => lock' = p,
           u.at = "metadata" => astFile' = user[p].held.text
    PROVE  u \in UserRecords /\ UserOK(p, u)'
<1>1. u.at \in UserSteps
  BY DEF UserSteps
<1>2. /\ u \in UserRecords /\ u.held = user[p].held
      /\ u.got = user[p].got /\ u.floor = user[p].floor
  BY <1>1, GoingOn
<1>3. /\ user[p].held \in SnapshotRows
      /\ Backed(user[p].held.inputs, user[p].held.revisions, user[p].held.text)
      /\ user[p].got # None => Honest(user[p].got, user[p].floor)
  BY WantsTyped DEF UserOK
<1> QED BY <1>2, <1>3 DEF UserOK, Backed, InputRepositories

LEMMA storeASTStep ==
    ASSUME CacheInv, NEW p \in Processes, storeAST(p)
    PROVE  CacheInv'
<1>1. UNCHANGED people /\ snapshot' = snapshot /\ artifact' = artifact /\ astFile' = astFile
  BY DEF storeAST, others, people, rows
<1>2. user[p].at = "store"
  BY DEF storeAST, Reached
<1>3. \A q \in Processes : lock = q => lock' = q
  BY CacheAssumption DEF storeAST
<1>4. lock' \in Processes \cup {None}
  BY DEF storeAST, CacheInv, CacheTypeOK
<1>5. PICK step \in {"rename", "rows"} :
        user' = [user EXCEPT ![p].at = step] /\ (step = "rename" => lock' = p)
  BY DEF storeAST, Go
<1>6. PICK u : u = [user[p] EXCEPT !.at = step]
  OBVIOUS
<1>7. u.at = step
  BY <1>5, <1>6, GoingOn DEF UserSteps
<1>8. u \in UserRecords /\ UserOK(p, u)'
  BY <1>2, <1>5, <1>6, <1>7, Publishing
<1>9. user' = [user EXCEPT ![p] = u]
  BY <1>5, <1>6
<1> QED BY <1>1, <1>3, <1>4, <1>8, <1>9, UserMoves DEF CacheInv, CacheTypeOK

LEMMA RenameStep ==
    ASSUME CacheInv, NEW p \in Processes, Rename(p)
    PROVE  CacheInv'
<1>1. UNCHANGED people /\ snapshot' = snapshot /\ artifact' = artifact
  BY DEF Rename, others, people, rows
<1>2. user[p].at = "rename" /\ lock = p /\ user[p].held \in SnapshotRows
  BY WantsTyped DEF Rename, Reached, UserOK
<1>3. \A q \in Processes \ {p} : lock # q
  BY <1>2
<1>4. lock' \in Processes \cup {None} /\ astFile' \in Looks \cup {None}
  BY <1>2 DEF Rename, CacheInv, CacheTypeOK, SnapshotRows
<1>5. PICK step \in {"metadata", "rows"} :
        /\ user' = [user EXCEPT ![p].at = step]
        /\ step = "metadata" => lock' = p /\ astFile' = user[p].held.text
  BY <1>2 DEF Rename, Go
<1>6. PICK u : u = [user[p] EXCEPT !.at = step]
  OBVIOUS
<1>7. u.at = step
  BY <1>5, <1>6, GoingOn DEF UserSteps
<1>8. u \in UserRecords /\ UserOK(p, u)'
  BY <1>2, <1>5, <1>6, <1>7, Publishing
<1>9. user' = [user EXCEPT ![p] = u]
  BY <1>5, <1>6
<1> QED BY <1>1, <1>3, <1>4, <1>8, <1>9, UserMoves DEF CacheInv, CacheTypeOK

\* What is stored is backed, and an artifact that stays was.
LEMMA StoredIsBacked ==
    ASSUME CacheInv, UNCHANGED <<tree, headOf>>,
           NEW s \in SnapshotRows, Backed(s.inputs, s.revisions, s.text),
           NEW a \in ArtifactRows \cup {None},
           a # None => Backed(a.generation[1], a.generation[2], a.digest),
           Stored(s, a)
    PROVE  /\ snapshot' \in SnapshotRows /\ Backed(snapshot'.inputs, snapshot'.revisions, snapshot'.text)
           /\ artifact' \in ArtifactRows \cup {None}
           /\ artifact' # None => Backed(artifact'.generation[1], artifact'.generation[2], artifact'.digest)
<1>1. snapshot' = s /\ artifact' \in {a, artifact, None}
  BY DEF Stored
<1>2. artifact # None => Backed(artifact.generation[1], artifact.generation[2], artifact.digest)
  BY DEF CacheInv
<1> QED BY <1>1, <1>2 DEF CacheInv, CacheTypeOK

LEMMA WriteMetadataStep ==
    ASSUME CacheInv, NEW p \in Processes, WriteMetadata(p)
    PROVE  CacheInv'
<1>1. UNCHANGED people /\ astFile' = astFile /\ lock' = None
  BY DEF WriteMetadata, others, people
<1>2. /\ user[p].at = "metadata" /\ lock = p /\ user[p].held \in SnapshotRows /\ astFile = user[p].held.text
      /\ Backed(user[p].held.inputs, user[p].held.revisions, user[p].held.text)
  BY WantsTyped DEF WriteMetadata, Reached, UserOK
<1>3. \A q \in Processes \ {p} : lock # q
  BY <1>2
<1>5. CASE Stored(user[p].held, [digest |-> astFile, generation |-> Generation(user[p].held)])
           /\ user' = [user EXCEPT ![p] = Resting]
  <2>1. PICK held : held = user[p].held
    OBVIOUS
  <2>2. PICK a : a = [digest |-> astFile, generation |-> <<held.inputs, held.revisions>>]
    OBVIOUS
  <2>3. held.inputs \in SUBSET Repositories /\ held.revisions \in CommitRecords /\ held.text \in Looks
    BY <1>2, <2>1 DEF SnapshotRows
  <2>4. a \in ArtifactRows
    BY <1>2, <2>1, <2>2, <2>3 DEF ArtifactRows
  <2>5. Backed(a.generation[1], a.generation[2], a.digest)
    BY <1>2, <2>1, <2>2
  <2>6. Stored(held, a)
    BY <1>5, <2>1, <2>2 DEF Generation
  <2>7. /\ snapshot' \in SnapshotRows /\ Backed(snapshot'.inputs, snapshot'.revisions, snapshot'.text)
        /\ artifact' \in ArtifactRows \cup {None}
        /\ artifact' # None => Backed(artifact'.generation[1], artifact'.generation[2], artifact'.digest)
    BY <1>1, <1>2, <2>1, <2>4, <2>5, <2>6, StoredIsBacked DEF people
  <2>8. UserOK(p, Resting)'
    BY RestingRecord, IdleUser
  <2> QED BY <1>1, <1>3, <1>5, <2>7, <2>8, RestingRecord, UserMoves DEF CacheInv, CacheTypeOK
<1>6. CASE user' = [user EXCEPT ![p].at = "rows"] /\ UNCHANGED rows
  <2>1. PICK u : u = [user[p] EXCEPT !.at = "rows"]
    OBVIOUS
  <2>2. u.at = "rows"
    BY <2>1, GoingOn DEF UserSteps
  <2>3. u \in UserRecords /\ UserOK(p, u)'
    BY <1>2, <2>1, <2>2, Publishing
  <2>4. user' = [user EXCEPT ![p] = u]
    BY <1>6, <2>1
  <2> QED BY <1>1, <1>3, <1>6, <2>3, <2>4, UserMoves DEF CacheInv, CacheTypeOK, rows
<1> QED BY <1>5, <1>6 DEF WriteMetadata, Go

LEMMA WriteRowsStep ==
    ASSUME CacheInv, NEW p \in Processes, WriteRows(p)
    PROVE  CacheInv'
<1>1. UNCHANGED people /\ astFile' = astFile /\ lock' = lock /\ user' = [user EXCEPT ![p] = Resting]
  BY DEF WriteRows, others, people
<1>2. /\ user[p].held \in SnapshotRows
      /\ Backed(user[p].held.inputs, user[p].held.revisions, user[p].held.text)
  BY WantsTyped DEF WriteRows, Reached, UserOK
<1>3. /\ snapshot' \in SnapshotRows /\ Backed(snapshot'.inputs, snapshot'.revisions, snapshot'.text)
      /\ artifact' \in ArtifactRows \cup {None}
      /\ artifact' # None => Backed(artifact'.generation[1], artifact'.generation[2], artifact'.digest)
  BY <1>1, <1>2, StoredIsBacked DEF WriteRows, people
<1>4. UserOK(p, Resting)'
  BY RestingRecord, IdleUser
<1> QED BY <1>1, <1>3, <1>4, RestingRecord, UserMoves DEF CacheInv, CacheTypeOK

LEMMA KillStep ==
    ASSUME CacheInv, NEW p \in Processes, Kill(p)
    PROVE  CacheInv'
<1>1. /\ UNCHANGED people /\ snapshot' = snapshot /\ artifact' = artifact /\ astFile' = astFile
      /\ lock' = (IF lock = p THEN None ELSE lock) /\ user' = [user EXCEPT ![p] = Resting]
  BY DEF Kill, others, people, rows
<1>2. \A q \in Processes \ {p} : lock = q => lock' = q
  BY <1>1
<1>3. lock' \in Processes \cup {None}
  BY <1>1 DEF CacheInv, CacheTypeOK
<1>4. UserOK(p, Resting)'
  BY RestingRecord, IdleUser
<1>5. /\ snapshot' \in SnapshotRows \cup {None} /\ artifact' \in ArtifactRows \cup {None}
      /\ astFile' \in Looks \cup {None}
      /\ snapshot' # None => Backed(snapshot'.inputs, snapshot'.revisions, snapshot'.text)
      /\ artifact' # None => Backed(artifact'.generation[1], artifact'.generation[2], artifact'.digest)
  BY <1>1 DEF CacheInv, CacheTypeOK
<1> QED BY <1>1, <1>2, <1>3, <1>4, <1>5, RestingRecord, UserMoves

\* People only go on: to a later version, and to a later commit of it.
LEMMA PeopleMove ==
    ASSUME CacheInv, UNCHANGED <<rows, astFile, lock, user>>,
           tree' \in [Repositories -> TreeVersions], headOf' \in [Repositories -> TreeVersions],
           \A r \in Repositories : tree[r] <= tree'[r] /\ headOf[r] <= headOf'[r] /\ headOf'[r] <= tree'[r]
    PROVE  CacheInv'
<1>1. CacheTypeOK'
  BY DEF CacheInv, CacheTypeOK, rows
<1>2. ASSUME NEW p \in Processes PROVE UserOK(p, user[p])'
  <2>1. PICK u : u = user[p] /\ u = user'[p]
    OBVIOUS
  <2>2. u \in UserRecords /\ UserOK(p, u)
    BY <2>1, WantsTyped
  <2>3. FloorPassed(u) => FloorPassed(u)'
    BY DEF FloorPassed, CacheInv, CacheTypeOK, TreeVersions
  <2>4. ReadAfterLook(u) => ReadAfterLook(u)'
    <3>1. SUFFICES ASSUME ReadAfterLook(u), NEW r \in Repositories, u.seen[r] # None
                   PROVE  u.seen[r] <= tree'[r]
      BY DEF ReadAfterLook
    <3>2. u.seen[r] \in TreeVersions /\ u.seen[r] <= tree[r]
      BY <2>2, <3>1 DEF ReadAfterLook, UserRecords, Looks
    <3> QED BY <3>2 DEF TreeVersions, CacheInv, CacheTypeOK
  <2>5. UserOK(p, u)'
    BY <2>2, <2>3, <2>4 DEF UserOK, HeldCurrent
  <2> QED BY <2>1, <2>5
<1> QED BY <1>1, <1>2 DEF CacheInv, rows, Backed, InputRepositories

LEMMA PeopleSteps ==
    ASSUME CacheInv, NEW r \in Repositories, EditTree(r) \/ Commit(r)
    PROVE  CacheInv'
<1>1. UNCHANGED <<rows, astFile, lock, user>>
  BY DEF EditTree, Commit
<1>2. /\ tree' \in [Repositories -> TreeVersions] /\ headOf' \in [Repositories -> TreeVersions]
      /\ \A x \in Repositories : tree[x] <= tree'[x] /\ headOf[x] <= headOf'[x] /\ headOf'[x] <= tree'[x]
  BY DEF EditTree, Commit, CacheInv, CacheTypeOK, TreeVersions
<1> QED BY <1>1, <1>2, PeopleMove

LEMMA clearSnapshotsStep ==
    ASSUME CacheInv, clearSnapshots
    PROVE  CacheInv'
<1>1. ASSUME NEW p \in Processes PROVE UserOK(p, user[p])'
  <2>1. PICK u : u = user[p] /\ u = user'[p]
    BY DEF clearSnapshots
  <2>2. UserOK(p, u)
    BY <2>1, WantsTyped
  <2>3. UserOK(p, u)'
    BY <2>2 DEF UserOK, FloorPassed, HeldCurrent, ReadAfterLook, clearSnapshots, others
  <2> QED BY <2>1, <2>3
<1>2. CacheTypeOK' /\ \A r \in Repositories : headOf'[r] <= tree'[r]
  BY DEF CacheInv, CacheTypeOK, clearSnapshots, others
<1> QED BY <1>1, <1>2 DEF CacheInv, clearSnapshots

LEMMA CacheInitOK ==
    ASSUME AstCacheInit
    PROVE  CacheInv
<1>1. CacheTypeOK /\ \A r \in Repositories : headOf[r] <= tree[r]
  BY RestingRecord DEF AstCacheInit, CacheTypeOK, TreeVersions
<1>2. \A p \in Processes : UserOK(p, user[p])
  BY RestingRecord, IdleUser DEF AstCacheInit
<1> QED BY <1>1, <1>2 DEF CacheInv, AstCacheInit

LEMMA CacheNextOK ==
    ASSUME CacheInv, [AstCacheNext]_cacheVars
    PROVE  CacheInv'
<1>1. CASE UNCHANGED cacheVars
  <2>1. UNCHANGED <<rows, astFile, lock, user>> /\ tree' = tree /\ headOf' = headOf
    BY <1>1 DEF cacheVars, rows
  <2> QED BY <2>1, PeopleMove DEF CacheInv, CacheTypeOK, TreeVersions
<1>2. ASSUME NEW p \in Processes,
             \/ Ask(p) \/ TryLoad(p) \/ Validate(p) \/ cachedIncludes(p) \/ Base(p) \/ Read(p) \/ EndParse(p)
             \/ Check(p) \/ storeAST(p) \/ Rename(p) \/ WriteMetadata(p) \/ WriteRows(p) \/ Kill(p)
      PROVE  CacheInv'
  BY <1>2, AskStep, TryLoadStep, ValidateStep, cachedIncludesStep, BaseStep, ReadStep, EndParseStep,
     CheckStep, storeASTStep, RenameStep, WriteMetadataStep, WriteRowsStep, KillStep
<1>3. CASE \E r \in Repositories : EditTree(r) \/ Commit(r)
  BY <1>3, PeopleSteps
<1>4. CASE clearSnapshots
  BY <1>4, clearSnapshotsStep
<1> QED BY <1>1, <1>2, <1>3, <1>4 DEF AstCacheNext

(* Whoever takes a unit or its dependencies from the cache sees at least    *)
(* every commit that was made before it asked, for any number of           *)
(* processes, repositories and edits, and whoever is killed on the way     *)
(* (astcache/Load, astcache/Store, astcache/Snapshot).                      *)
THEOREM CacheMissesNoCommit == CacheSpec => []NoCommitMissed
<1>1. AstCacheInit => CacheInv
  BY CacheInitOK
<1>2. CacheInv /\ [AstCacheNext]_cacheVars => CacheInv'
  BY CacheNextOK
<1>3. CacheInv => NoCommitMissed
  BY DEF CacheInv, UserOK, Honest, NoCommitMissed
<1> QED BY <1>1, <1>2, <1>3, PTL DEF CacheSpec

-----------------------------------------------------------------------------
(* Recovery: types *)

AttemptRecords ==
    [unit : Units, key : Digests \cup {None}, asked : SUBSET Functions,
     outcome : {"failed", "no_match", "succeeded"}]
InWork == {"process", "key", "probe", "extract"}
RunPhases == {"start", "select", "reload", "end"} \cup InWork

RecoveryRuns ==
    [phase : RunPhases, root : {"r"}, stored : [Functions -> CalledSets \cup {None}], evidence : SUBSET Functions,
     covered : BOOLEAN, reached : SUBSET Functions, preserved : SUBSET Functions,
     wanted : [Units -> SUBSET Functions] \cup {[u \in {} |-> {}]}, unit : Units \cup {None},
     scans : [Units -> ScanRecords \cup {None}], key : Digests \cup {None},
     attempts : SUBSET AttemptRecords, failed : SUBSET Units, error : BOOLEAN, cancelled : BOOLEAN,
     status : {None, "failed", "cancelled", "recovery-failed", "complete"}]

RecoveryTypeOK ==
    /\ source \in [Files -> [compiles : BOOLEAN, version : Nat]]
    /\ bodies \in [Functions -> CalledSets] /\ lately \in [Functions -> SUBSET CalledSets]
    /\ stored \in [Functions -> CalledSets \cup {None}] /\ entries \in SUBSET Functions
    /\ indexed \in [Files -> {None, 0, 1}]
    /\ rounds \in Nat /\ edits \in Nat

-----------------------------------------------------------------------------
(* Recovery: the invariant *)

\* What the facts say of them, the sources said while the run went on.
FreshBodies == {f \in Functions : stored[f] \in lately[f]}

\* Files have versions from 1; facts of version 1 are those of the first body.
WorldOK ==
    /\ \A x \in Files : source[x].version >= 1
    /\ \A f \in Functions : bodies[f] \in lately[f]
    /\ \A f \in Functions : indexed[HomeOf[f]] = 1 => f \in FreshBodies

ScansKnown(r) ==
    \A u \in Units : r.scans[u] \in ScanRecords =>
        /\ r.scans[u].unit = u /\ DOMAIN r.scans[u].bodies = DefinedBy(u)
        /\ \A f \in DefinedBy(u) : r.scans[u].bodies[f] \in lately[f]

\* What became of the functions that an attempt was made for.
AttemptsHonest(r) ==
    \A a \in r.attempts :
        /\ a.outcome = "failed" => r.failed # {}
        /\ a.outcome = "no_match" => a.asked \cap DefinedBy(a.unit) = {}
        /\ a.outcome = "succeeded" => a.asked \cap DefinedBy(a.unit) \subseteq FreshBodies

UnitAtWork(r) ==
    /\ r.phase \in InWork => r.wanted \in [Units -> SUBSET Functions]
    /\ r.phase \in {"key", "probe", "extract"} => r.unit \in Units /\ r.scans[r.unit] \in ScanRecords
    /\ r.phase = "extract" => (r.wanted[r.unit] \ r.preserved) \cap DefinedBy(r.unit) # {}

\* The run has what is stored, except between an extraction and the reload.
Loaded(r) ==
    /\ r.phase # "reload" /\ ~r.error => r.stored = stored
    /\ r.phase = "reload" => entries \subseteq FreshBodies
    /\ r.error => r.phase = "end"

\* In a round without failures all that is old is wanted from its units.
WantedAll(r) ==
    r.phase \in InWork /\ r.failed = {} =>
        \A u \in Units : \A f \in (r.reached \ FreshBodies) \cap DefinedBy(u) : f \in r.wanted[u]

Concluded(r) ==
    /\ r.phase = "end" /\ ~r.error /\ ~r.cancelled /\ r.failed = {} => r.reached \subseteq FreshBodies
    /\ r.status = "complete" => r.phase = "end" /\ ~r.error /\ ~r.cancelled /\ r.failed = {}

\* While nobody edits, scans stay current and each round preserves one more.
Counted(r) ==
    edits = 0 =>
        /\ rounds <= Cardinality(r.preserved)
        /\ \A u \in Units : r.scans[u] \in ScanRecords =>
             r.scans[u].digest = Inputs(u) \/ (r.phase = "key" /\ r.unit = u /\ r.scans[u].digest = None)

RunOK(r) ==
    /\ r \in RecoveryRuns
    /\ r.preserved \subseteq FreshBodies
    /\ ScansKnown(r) /\ AttemptsHonest(r) /\ UnitAtWork(r) /\ Loaded(r)
    /\ WantedAll(r) /\ Concluded(r) /\ Counted(r)

RecoveryInv == RecoveryTypeOK /\ WorldOK /\ RunOK(run)

-----------------------------------------------------------------------------
(* Recovery: one lemma for each action *)

LEMMA RecoveryTyped ==
    ASSUME RecoveryInv
    PROVE  /\ RecoveryTypeOK /\ WorldOK /\ RunOK(run) /\ run \in RecoveryRuns
           /\ run.preserved \subseteq FreshBodies
           /\ ScansKnown(run) /\ AttemptsHonest(run) /\ UnitAtWork(run) /\ Loaded(run)
           /\ WantedAll(run) /\ Concluded(run) /\ Counted(run)
BY DEF RecoveryInv, RunOK

\* Only the run moves.
LEMMA RunMoves ==
    ASSUME RecoveryInv, UNCHANGED <<world, factsVars, rounds>>, NEW r, run' = r, RunOK(r)
    PROVE  RecoveryInv'
<1>1. RecoveryTypeOK' /\ WorldOK'
  BY DEF RecoveryInv, RecoveryTypeOK, WorldOK, FreshBodies, world, factsVars
<1>2. RunOK(r)'
  BY DEF RunOK, ScansKnown, AttemptsHonest, UnitAtWork, Loaded, WantedAll, Concluded, Counted, FreshBodies, Inputs,
         world, factsVars
<1> QED BY <1>1, <1>2 DEF RecoveryInv

LEMMA HomesAreFiles == \A f \in Functions : HomeOf[f] \in Files
BY RecoveryAssumption DEF Functions, Files

\* What counts as complete is what the sources say.
LEMMA CompleteIsFresh ==
    ASSUME RecoveryTypeOK, WorldOK, NEW r, NEW f \in Functions, State(r, f) = "complete"
    PROVE  f \in FreshBodies
<1>1. indexed[HomeOf[f]] # None /\ indexed[HomeOf[f]] = source[HomeOf[f]].version
  BY DEF State
<1>2. HomeOf[f] \in Files
  BY HomesAreFiles
<1>3. source[HomeOf[f]].version \in Nat /\ source[HomeOf[f]].version >= 1 /\ indexed[HomeOf[f]] \in {0, 1}
  BY <1>1, <1>2 DEF RecoveryTypeOK, WorldOK
<1> QED BY <1>1, <1>3 DEF WorldOK

LEMMA Preserving ==
    ASSUME RecoveryTypeOK, WorldOK, NEW r \in RecoveryRuns, NEW fresh \in BOOLEAN,
           r.preserved \subseteq FreshBodies, fresh => r.evidence \subseteq FreshBodies,
           NEW t, t = Preserve(r, fresh)
    PROVE  \E S \in SUBSET Functions : /\ t = [r EXCEPT !.preserved = S]
                                       /\ r.preserved \subseteq S /\ S \subseteq FreshBodies
<1>1. PICK S : S = r.preserved \cup {f \in Traversed(r) : (fresh /\ f \in r.evidence) \/ State(r, f) = "complete"}
  OBVIOUS
<1>2. Traversed(r) \subseteq Functions
  BY DEF Traversed
<1>3. r.preserved \subseteq Functions
  BY DEF RecoveryRuns
<1>4. S \subseteq FreshBodies
  BY <1>1, <1>2, CompleteIsFresh
<1>5. t = [r EXCEPT !.preserved = S]
  BY <1>1 DEF Preserve
<1> QED BY <1>1, <1>2, <1>3, <1>4, <1>5

LEMMA Observing ==
    ASSUME NEW r \in RecoveryRuns, NEW t, t = Observe(r)
    PROVE  \E S \in SUBSET Functions : t = [r EXCEPT !.reached = S] /\ t \in RecoveryRuns
<1>1. CASE r.cancelled
  <2>1. r = [r EXCEPT !.reached = r.reached] /\ r.reached \in SUBSET Functions
    BY DEF RecoveryRuns
  <2> QED BY <1>1, <2>1 DEF Observe
<1>2. CASE ~r.cancelled
  <2>1. Traversed(r) \in SUBSET Functions
    BY DEF Traversed
  <2>2. t = [r EXCEPT !.reached = Traversed(r)]
    BY <1>2 DEF Observe
  <2>3. t \in RecoveryRuns
    BY <2>1, <2>2 DEF RecoveryRuns
  <2> QED BY <2>1, <2>2, <2>3
<1> QED BY <1>1, <1>2

LEMMA PreservedGrows ==
    ASSUME NEW S \in SUBSET Functions, NEW T \in SUBSET Functions, S \subseteq T
    PROVE  /\ Cardinality(S) \in Nat /\ Cardinality(T) \in Nat /\ Cardinality(S) <= Cardinality(T)
           /\ S # T => Cardinality(S) < Cardinality(T)
<1>1. IsFiniteSet(Functions)
  BY RecoveryAssumption DEF Functions
<1>2. IsFiniteSet(S) /\ IsFiniteSet(T)
  BY <1>1, FS_Subset
<1>3. Cardinality(S) \in Nat /\ Cardinality(T) \in Nat
  BY <1>2, FS_CardinalityType
<1>4. Cardinality(S) <= Cardinality(T) /\ (Cardinality(S) = Cardinality(T) => S = T)
  BY <1>2, FS_Subset
<1> QED BY <1>3, <1>4

\* A run that goes on with the scans and attempts that it has.
LEMMA RunGoesOn ==
    ASSUME RecoveryInv, NEW r \in RecoveryRuns,
           run.preserved \subseteq r.preserved, r.preserved \subseteq FreshBodies,
           r.scans = run.scans, run.phase = "key" => r.phase = "key" /\ r.unit = run.unit,
           AttemptsHonest(r), UnitAtWork(r), Loaded(r), WantedAll(r), Concluded(r)
    PROVE  RunOK(r)
<1>1. ScansKnown(r)
  BY RecoveryTyped DEF ScansKnown
<1>2. Cardinality(run.preserved) <= Cardinality(r.preserved)
      /\ Cardinality(run.preserved) \in Nat /\ Cardinality(r.preserved) \in Nat
  BY RecoveryTyped, PreservedGrows DEF RecoveryRuns
<1>3. Counted(r)
  BY <1>2, RecoveryTyped DEF Counted, RecoveryTypeOK
<1> QED BY <1>1, <1>3 DEF RunOK

LEMMA BeginRoundStep ==
    ASSUME RecoveryInv, BeginRound
    PROVE  RecoveryInv'
<1>1. PICK e \in BOOLEAN : run' = [Preserve(Observe(run), FALSE) EXCEPT !.error = e,
                                                                    !.phase = IF e THEN "end" ELSE "select"]
  BY DEF BeginRound
<1>2. PICK seen1 : seen1 = Observe(run)
  OBVIOUS
<1>3. PICK S1 \in SUBSET Functions : seen1 = [run EXCEPT !.reached = S1] /\ seen1 \in RecoveryRuns
  BY <1>2, RecoveryTyped, Observing
<1>4. seen1.preserved = run.preserved /\ run.phase = "start"
  BY <1>3, RecoveryTyped DEF RecoveryRuns, BeginRound, InPhase
<1>5. PICK seen2 : seen2 = Preserve(seen1, FALSE)
  OBVIOUS
<1>6. PICK S2 \in SUBSET Functions : seen2 = [seen1 EXCEPT !.preserved = S2]
                                     /\ run.preserved \subseteq S2 /\ S2 \subseteq FreshBodies
  BY <1>3, <1>4, <1>5, RecoveryTyped, Preserving
<1>7. PICK r : r = [seen2 EXCEPT !.error = e, !.phase = IF e THEN "end" ELSE "select"]
  OBVIOUS
<1>8. run' = r
  BY <1>1, <1>2, <1>5, <1>7
<1>9. /\ r \in RecoveryRuns /\ r.phase \in {"select", "end"} /\ r.preserved = S2 /\ r.error = e
      /\ r.phase = "end" <=> e
      /\ r.scans = run.scans /\ r.attempts = run.attempts /\ r.failed = run.failed /\ r.stored = run.stored
      /\ r.status = run.status
  BY <1>3, <1>6, <1>7, RecoveryTyped, ZenonT(60) DEF RecoveryRuns, RunPhases
<1>10. UnitAtWork(r) /\ WantedAll(r)
  BY <1>9 DEF UnitAtWork, WantedAll, InWork
<1>11. AttemptsHonest(r)
  BY <1>9, RecoveryTyped DEF AttemptsHonest
<1>12. Loaded(r)
  BY <1>4, <1>9, RecoveryTyped DEF Loaded
<1>13. Concluded(r)
  BY <1>4, <1>9, RecoveryTyped DEF Concluded
<1>14. RunOK(r)
  BY <1>4, <1>6, <1>9, <1>10, <1>11, <1>12, <1>13, RunGoesOn
<1> QED BY <1>8, <1>14, RunMoves DEF BeginRound

LEMMA SelectStep ==
    ASSUME RecoveryInv, Select
    PROVE  RecoveryInv'
<1>1. run.phase = "select" /\ UNCHANGED <<world, factsVars, rounds>>
  BY DEF Select, InPhase
<1>2. CASE run.cancelled
  <2>1. PICK r : r = [run EXCEPT !.phase = "end"]
    OBVIOUS
  <2>2. run' = r
    BY <1>2, <2>1 DEF Select
  <2>3. /\ r \in RecoveryRuns /\ r.phase = "end" /\ r.cancelled /\ r.preserved = run.preserved /\ r.error = run.error
        /\ r.scans = run.scans /\ r.attempts = run.attempts /\ r.failed = run.failed /\ r.stored = run.stored
        /\ r.status = run.status
    BY <1>2, <2>1, RecoveryTyped DEF RecoveryRuns, RunPhases
  <2>4. UnitAtWork(r) /\ WantedAll(r) /\ AttemptsHonest(r) /\ Loaded(r) /\ Concluded(r)
    BY <1>1, <2>3, RecoveryTyped DEF UnitAtWork, WantedAll, InWork, AttemptsHonest, Loaded, Concluded
  <2>5. RunOK(r)
    BY <1>1, <2>3, <2>4, RecoveryTyped, RunGoesOn
  <2> QED BY <1>1, <2>2, <2>5, RunMoves
<1>3. CASE ~run.cancelled
  <2>1. PICK wanted : wanted = [u \in Units |-> {f \in run.reached \ run.preserved : State(run, f) # "complete"}]
    OBVIOUS
  <2>2. PICK r : r = [run EXCEPT !.phase = "process", !.wanted = wanted]
    OBVIOUS
  <2>3. run' = r
    BY <1>3, <2>1, <2>2 DEF Select
  <2>4. wanted \in [Units -> SUBSET Functions]
    BY <2>1, RecoveryTyped DEF RecoveryRuns
  <2>5. /\ r \in RecoveryRuns /\ r.phase = "process" /\ r.wanted = wanted
        /\ r.preserved = run.preserved /\ r.error = run.error /\ r.reached = run.reached
        /\ r.scans = run.scans /\ r.attempts = run.attempts /\ r.failed = run.failed /\ r.stored = run.stored
        /\ r.status = run.status
    BY <2>2, <2>4, RecoveryTyped DEF RecoveryRuns, RunPhases, InWork
  <2>6. UnitAtWork(r) /\ AttemptsHonest(r) /\ Loaded(r) /\ Concluded(r)
    BY <1>1, <2>4, <2>5, RecoveryTyped DEF UnitAtWork, InWork, AttemptsHonest, Loaded, Concluded
  <2>7. WantedAll(r)
    <3>1. SUFFICES ASSUME NEW u \in Units, NEW f \in run.reached \ FreshBodies PROVE f \in wanted[u]
      BY <2>5 DEF WantedAll
    <3>2. f \in Functions /\ f \notin run.preserved
      BY <3>1, RecoveryTyped DEF RecoveryRuns
    <3>3. State(run, f) # "complete"
      BY <3>1, <3>2, RecoveryTyped, CompleteIsFresh
    <3> QED BY <2>1, <3>2, <3>3
  <2>8. RunOK(r)
    BY <1>1, <2>5, <2>6, <2>7, RecoveryTyped, RunGoesOn
  <2> QED BY <1>1, <2>3, <2>8, RunMoves
<1> QED BY <1>2, <1>3

\* Work begins on a unit: its scan is current, or one of the present bodies.
LEMMA ParseStep ==
    ASSUME RecoveryInv, Parse
    PROVE  RecoveryInv'
<1>1. run.phase = "process" /\ UNCHANGED <<world, factsVars, rounds>>
  BY DEF Parse, InPhase
<1>2. run.wanted \in [Units -> SUBSET Functions]
  BY <1>1, RecoveryTyped DEF UnitAtWork, InWork
<1>3. PICK u \in Units :
        run' = [run EXCEPT !.phase = "key", !.unit = u,
                    !.scans[u] = IF IsCurrent(@) THEN @
                                 ELSE [unit |-> u, ok |-> Compiles(u), digest |-> None,
                                       bodies |-> [f \in DefinedBy(u) |-> bodies[f]]]]
  BY <1>2 DEF Parse, Waiting
<1>4. PICK parsed : parsed = [unit |-> u, ok |-> Compiles(u), digest |-> None,
                              bodies |-> [f \in DefinedBy(u) |-> bodies[f]]]
  OBVIOUS
<1>5. PICK scan : scan = IF IsCurrent(run.scans[u]) THEN run.scans[u] ELSE parsed
  OBVIOUS
<1>6. PICK scans : scans = [run.scans EXCEPT ![u] = scan]
  OBVIOUS
<1>7. PICK r : r = [run EXCEPT !.phase = "key", !.unit = u, !.scans = scans]
  OBVIOUS
<1>8. run' = r
  BY <1>3, <1>4, <1>5, <1>6, <1>7
<1>9. parsed \in ScanRecords
  <2>1. [f \in DefinedBy(u) |-> bodies[f]] \in [DefinedBy(u) -> CalledSets] /\ DefinedBy(u) \in SUBSET Functions
    BY RecoveryTyped DEF RecoveryTypeOK, DefinedBy
  <2>2. Compiles(u) \in BOOLEAN
    BY DEF Compiles
  <2> QED BY <1>4, <2>1, <2>2 DEF ScanRecords
<1>10. run.scans \in [Units -> ScanRecords \cup {None}]
  BY RecoveryTyped DEF RecoveryRuns
<1>11. scan \in ScanRecords
  BY <1>5, <1>9, <1>10 DEF IsCurrent
<1>12. scans \in [Units -> ScanRecords \cup {None}] /\ scans[u] = scan
       /\ \A v \in Units \ {u} : scans[v] = run.scans[v]
  BY <1>6, <1>10, <1>11
<1>13. /\ r \in RecoveryRuns /\ r.phase = "key" /\ r.unit = u /\ r.scans = scans /\ r.wanted = run.wanted
       /\ r.preserved = run.preserved /\ r.error = run.error /\ r.reached = run.reached
       /\ r.attempts = run.attempts /\ r.failed = run.failed /\ r.stored = run.stored
       /\ r.status = run.status
  BY <1>7, <1>12, RecoveryTyped DEF RecoveryRuns, RunPhases, InWork
<1>14. ScansKnown(r)
  <2>1. scan.unit = u /\ DOMAIN scan.bodies = DefinedBy(u) /\ \A f \in DefinedBy(u) : scan.bodies[f] \in lately[f]
    <3>1. CASE IsCurrent(run.scans[u])
      BY <1>5, <1>11, <3>1, RecoveryTyped DEF ScansKnown
    <3>2. CASE ~IsCurrent(run.scans[u])
      BY <1>4, <1>5, <3>2, RecoveryTyped DEF WorldOK, DefinedBy
    <3> QED BY <3>1, <3>2
  <2> QED BY <1>12, <1>13, <2>1, RecoveryTyped DEF ScansKnown
<1>15. Counted(r)
  <2>1. scan.digest = Inputs(u) \/ scan.digest = None
    <3>1. IsCurrent(run.scans[u]) => run.scans[u].unit = u /\ run.scans[u].digest = Inputs(u)
      BY <1>10, RecoveryTyped DEF ScansKnown, IsCurrent
    <3> QED BY <1>4, <1>5, <3>1
  <2> QED BY <1>1, <1>12, <1>13, <2>1, RecoveryTyped DEF Counted
<1>16. UnitAtWork(r) /\ AttemptsHonest(r) /\ Loaded(r) /\ WantedAll(r) /\ Concluded(r)
  BY <1>1, <1>2, <1>11, <1>12, <1>13, RecoveryTyped
  DEF UnitAtWork, AttemptsHonest, Loaded, WantedAll, Concluded, InWork
<1>17. RunOK(r)
  BY <1>13, <1>14, <1>15, <1>16, RecoveryTyped DEF RunOK
<1> QED BY <1>1, <1>8, <1>17, RunMoves

\* What is old and defined in a unit is asked of it.
LEMMA OldIsRequested ==
    ASSUME RecoveryInv, run.phase \in InWork, run.failed = {}, NEW u \in Units,
           NEW f \in (run.reached \ FreshBodies) \cap DefinedBy(u)
    PROVE  f \in Requested(u)
BY RecoveryTyped DEF WantedAll, Requested

\* The work on a unit ends, and nothing old that it defines is left behind.
LEMMA UnitDone ==
    ASSUME RecoveryInv, run.phase \in {"key", "probe", "extract"},
           NEW s \in RecoveryRuns,
           s.wanted = run.wanted, s.stored = run.stored, s.error = run.error, s.status = run.status,
           s.reached = run.reached, run.preserved \subseteq s.preserved, s.preserved \subseteq FreshBodies,
           ScansKnown(s), AttemptsHonest(s), s.failed = {} => run.failed = {},
           edits = 0 => \A u \in Units : s.scans[u] \in ScanRecords => s.scans[u].digest = Inputs(u),
           s.failed = {} => (run.reached \ FreshBodies) \cap DefinedBy(run.unit) = {},
           NEW r, r = Done(s, run.unit)
    PROVE  RunOK(r)
<1>1. run.unit \in Units /\ run.wanted \in [Units -> SUBSET Functions]
  BY RecoveryTyped DEF UnitAtWork, InWork
<1>2. PICK wanted : wanted = [s.wanted EXCEPT ![run.unit] = {}]
  OBVIOUS
<1>3. r = [s EXCEPT !.phase = "process", !.unit = None, !.wanted = wanted]
  BY <1>2 DEF Done
<1>4. wanted \in [Units -> SUBSET Functions] /\ \A u \in Units \ {run.unit} : wanted[u] = run.wanted[u]
  BY <1>1, <1>2
<1>5. /\ r \in RecoveryRuns /\ r.phase = "process" /\ r.unit = None /\ r.wanted = wanted
      /\ r.preserved = s.preserved /\ r.error = s.error /\ r.reached = s.reached /\ r.scans = s.scans
      /\ r.attempts = s.attempts /\ r.failed = s.failed /\ r.stored = s.stored
      /\ r.status = s.status
  BY <1>3, <1>4 DEF RecoveryRuns, RunPhases, InWork
<1>6. UnitAtWork(r) /\ AttemptsHonest(r) /\ ScansKnown(r) /\ Loaded(r) /\ Concluded(r)
  BY <1>4, <1>5, RecoveryTyped DEF UnitAtWork, AttemptsHonest, ScansKnown, Loaded, Concluded
<1>7. WantedAll(r)
  BY <1>4, <1>5, RecoveryTyped DEF WantedAll, InWork
<1>8. Cardinality(run.preserved) <= Cardinality(r.preserved)
      /\ Cardinality(run.preserved) \in Nat /\ Cardinality(r.preserved) \in Nat
  BY <1>5, RecoveryTyped, PreservedGrows DEF RecoveryRuns
<1>9. Counted(r)
  BY <1>5, <1>8, RecoveryTyped DEF Counted, RecoveryTypeOK
<1> QED BY <1>5, <1>6, <1>7, <1>9 DEF RunOK

LEMMA InputsTyped ==
    ASSUME RecoveryTypeOK, NEW u \in Units
    PROVE  Inputs(u) \in Digests
<1>1. InputsOf[u] \in SUBSET Files
  BY DEF Files
<1>2. [x \in InputsOf[u] |-> source[x].version] \in [InputsOf[u] -> Nat]
  BY <1>1 DEF RecoveryTypeOK
<1> QED BY <1>1, <1>2 DEF Inputs, Digests

LEMMA IdentifyStep ==
    ASSUME RecoveryInv, Identify
    PROVE  RecoveryInv'
<1>1. run.phase = "key" /\ UNCHANGED <<world, factsVars, rounds>>
  BY DEF Identify, InPhase
<1>2. run.unit \in Units /\ run.scans[run.unit] \in ScanRecords /\ run.wanted \in [Units -> SUBSET Functions]
  BY <1>1, RecoveryTyped DEF UnitAtWork, InWork
<1>3. PICK u : u = run.unit
  OBVIOUS
<1>4. PICK digest : digest = IF run.scans[u].digest = None THEN Inputs(u) ELSE run.scans[u].digest
  OBVIOUS
<1>5. PICK scan : scan = [run.scans[u] EXCEPT !.digest = digest]
  OBVIOUS
<1>6. PICK scans : scans = [run.scans EXCEPT ![u] = scan]
  OBVIOUS
<1>7. PICK s : s = [run EXCEPT !.scans = scans]
  OBVIOUS
<1>8. run' = IF Suppressed(u, Inputs(u)) THEN Done(s, u) ELSE [s EXCEPT !.phase = "probe", !.key = Inputs(u)]
  BY <1>3, <1>4, <1>5, <1>6, <1>7 DEF Identify
<1>9. Inputs(u) \in Digests
  BY <1>2, <1>3, RecoveryTyped, InputsTyped
<1>10. digest \in Digests \cup {None}
  BY <1>2, <1>3, <1>4, <1>9 DEF ScanRecords
<1>11. scan \in ScanRecords /\ scan.unit = run.scans[u].unit /\ scan.bodies = run.scans[u].bodies /\ scan.digest = digest
  BY <1>2, <1>3, <1>5, <1>10 DEF ScanRecords
<1>12. run.scans \in [Units -> ScanRecords \cup {None}]
  BY RecoveryTyped DEF RecoveryRuns
<1>13. scans \in [Units -> ScanRecords \cup {None}] /\ scans[u] = scan
       /\ \A v \in Units \ {u} : scans[v] = run.scans[v]
  BY <1>2, <1>3, <1>6, <1>11, <1>12
<1>14. /\ s \in RecoveryRuns /\ s.phase = "key" /\ s.unit = u /\ s.scans = scans /\ s.wanted = run.wanted
       /\ s.preserved = run.preserved /\ s.error = run.error /\ s.reached = run.reached
       /\ s.attempts = run.attempts /\ s.failed = run.failed /\ s.stored = run.stored
       /\ s.status = run.status
  BY <1>1, <1>3, <1>7, <1>13, RecoveryTyped DEF RecoveryRuns
<1>15. ScansKnown(s)
  BY <1>2, <1>3, <1>11, <1>13, <1>14, RecoveryTyped DEF ScansKnown
<1>16. AttemptsHonest(s)
  BY <1>14, RecoveryTyped DEF AttemptsHonest
<1>17. edits = 0 => \A v \in Units : s.scans[v] \in ScanRecords => s.scans[v].digest = Inputs(v)
  BY <1>2, <1>3, <1>4, <1>11, <1>13, <1>14, RecoveryTyped DEF Counted
<1>18. CASE Suppressed(u, Inputs(u))
  <2>1. PICK r : r = Done(s, run.unit)
    OBVIOUS
  <2>2. s.failed = {} => (run.reached \ FreshBodies) \cap DefinedBy(run.unit) = {}
    <3>1. SUFFICES ASSUME run.failed = {}, NEW f \in (run.reached \ FreshBodies) \cap DefinedBy(u) PROVE FALSE
      BY <1>3, <1>14
    <3>2. f \in Requested(u)
      BY <1>1, <1>2, <1>3, <3>1, OldIsRequested DEF InWork
    <3>3. PICK a \in run.attempts : a.unit = u /\ Requested(u) \subseteq a.asked
      BY <1>18 DEF Suppressed
    <3>4. f \in a.asked \cap DefinedBy(a.unit)
      BY <3>1, <3>2, <3>3
    <3>5. a.outcome \in {"failed", "no_match", "succeeded"}
      BY <3>3, RecoveryTyped DEF RecoveryRuns, AttemptRecords
    <3> QED BY <3>1, <3>3, <3>4, <3>5, RecoveryTyped DEF AttemptsHonest
  <2>3. RunOK(r)
    BY <1>1, <1>14, <1>15, <1>16, <1>17, <2>1, <2>2, RecoveryTyped, UnitDone
  <2>4. run' = r
    BY <1>3, <1>8, <1>18, <2>1
  <2> QED BY <1>1, <2>3, <2>4, RunMoves
<1>19. CASE ~Suppressed(u, Inputs(u))
  <2>1. PICK r : r = [s EXCEPT !.phase = "probe", !.key = Inputs(u)]
    OBVIOUS
  <2>2. run' = r
    BY <1>8, <1>19, <2>1
  <2>3. /\ r \in RecoveryRuns /\ r.phase = "probe" /\ r.unit = u /\ r.scans = scans /\ r.wanted = run.wanted
        /\ r.preserved = run.preserved /\ r.error = run.error /\ r.reached = run.reached
        /\ r.attempts = run.attempts /\ r.failed = run.failed /\ r.stored = run.stored
        /\ r.status = run.status
    BY <1>9, <1>14, <2>1 DEF RecoveryRuns, RunPhases, InWork
  <2>4. ScansKnown(r) /\ Counted(r)
    BY <1>14, <1>15, <1>17, <2>3, RecoveryTyped DEF ScansKnown, Counted
  <2>5. UnitAtWork(r) /\ AttemptsHonest(r) /\ Loaded(r) /\ WantedAll(r) /\ Concluded(r)
    BY <1>1, <1>2, <1>3, <1>11, <1>13, <2>3, RecoveryTyped
    DEF UnitAtWork, AttemptsHonest, Loaded, WantedAll, Concluded, InWork
  <2>6. RunOK(r)
    BY <2>3, <2>4, <2>5, RecoveryTyped DEF RunOK
  <2> QED BY <1>1, <2>2, <2>6, RunMoves
<1> QED BY <1>18, <1>19

LEMMA AttemptTyped ==
    ASSUME RecoveryInv, run.phase \in InWork, run.unit \in Units, NEW outcome \in {"failed", "no_match", "succeeded"},
           NEW a, a = Attempt(outcome)
    PROVE  a \in AttemptRecords /\ a.unit = run.unit /\ a.asked = Requested(run.unit) /\ a.outcome = outcome
<1>1. Requested(run.unit) \in SUBSET Functions
  BY RecoveryTyped DEF Requested, UnitAtWork
<1> QED BY <1>1, RecoveryTyped DEF Attempt, AttemptRecords, RecoveryRuns

\* The attempts of a run with another one.
WithAttempt(F, a) == [run EXCEPT !.failed = F, !.attempts = run.attempts \cup {a}]
LEMMA AnotherAttempt ==
    ASSUME RecoveryInv, NEW a \in AttemptRecords, NEW F \in SUBSET Units,
           run.failed \subseteq F,
           a.outcome = "failed" => F # {},
           a.outcome = "no_match" => a.asked \cap DefinedBy(a.unit) = {},
           a.outcome = "succeeded" => a.asked \cap DefinedBy(a.unit) \subseteq FreshBodies,
           NEW s, s = WithAttempt(F, a)
    PROVE  /\ s \in RecoveryRuns /\ AttemptsHonest(s) /\ s.failed = F
           /\ s.phase = run.phase /\ s.unit = run.unit /\ s.scans = run.scans /\ s.wanted = run.wanted
           /\ s.preserved = run.preserved /\ s.error = run.error /\ s.reached = run.reached
           /\ s.stored = run.stored /\ s.status = run.status
<1>1. run.attempts \cup {a} \in SUBSET AttemptRecords
  BY RecoveryTyped DEF RecoveryRuns
<1>2. /\ s \in RecoveryRuns /\ s.failed = F /\ s.attempts = run.attempts \cup {a}
      /\ s.phase = run.phase /\ s.unit = run.unit /\ s.scans = run.scans /\ s.wanted = run.wanted
      /\ s.preserved = run.preserved /\ s.error = run.error /\ s.reached = run.reached
      /\ s.stored = run.stored /\ s.status = run.status
  BY <1>1, RecoveryTyped DEF RecoveryRuns, WithAttempt
<1>3. AttemptsHonest(s)
  BY <1>2, RecoveryTyped DEF AttemptsHonest
<1> QED BY <1>2, <1>3

\* A unit that fails is told at the end.
LEMMA FailingIsTold ==
    ASSUME RecoveryInv, run.phase \in {"probe", "extract"}, NEW r, r = Done(Fail(run), run.unit)
    PROVE  RunOK(r)
<1>1. run.unit \in Units /\ run.phase \in InWork
  BY RecoveryTyped DEF UnitAtWork, InWork
<1>2. PICK a : a = Attempt("failed")
  OBVIOUS
<1>3. a \in AttemptRecords /\ a.outcome = "failed"
  BY <1>1, <1>2, AttemptTyped
<1>4. PICK F \in SUBSET Units : F = run.failed \cup {run.unit}
  BY <1>1, RecoveryTyped DEF RecoveryRuns
<1>5. PICK s : s = WithAttempt(F, a)
  OBVIOUS
<1>6. /\ s \in RecoveryRuns /\ AttemptsHonest(s) /\ s.failed = F
      /\ s.phase = run.phase /\ s.unit = run.unit /\ s.scans = run.scans /\ s.wanted = run.wanted
      /\ s.preserved = run.preserved /\ s.error = run.error /\ s.reached = run.reached
      /\ s.stored = run.stored /\ s.status = run.status
  BY <1>3, <1>4, <1>5, AnotherAttempt
<1>7. ScansKnown(s) /\ (edits = 0 => \A u \in Units : s.scans[u] \in ScanRecords => s.scans[u].digest = Inputs(u))
  BY <1>6, RecoveryTyped DEF ScansKnown, Counted
<1>8. r = Done(s, run.unit)
  BY <1>2, <1>4, <1>5 DEF Fail, WithAttempt
<1> QED BY <1>4, <1>6, <1>7, <1>8, RecoveryTyped, UnitDone

LEMMA ProbeStep ==
    ASSUME RecoveryInv, Probe
    PROVE  RecoveryInv'
<1>1. run.phase = "probe" /\ UNCHANGED <<world, factsVars, rounds>>
  BY DEF Probe, InPhase
<1>2. /\ run.unit \in Units /\ run.scans[run.unit] \in ScanRecords /\ run.wanted \in [Units -> SUBSET Functions]
      /\ run.stored = stored
  BY <1>1, RecoveryTyped DEF UnitAtWork, InWork, Loaded
<1>3. PICK matched : matched = Requested(run.unit) \cap DefinedBy(run.unit)
  OBVIOUS
<1>4. matched \in SUBSET Functions
  BY <1>3 DEF DefinedBy
<1>5. edits = 0 => \A u \in Units : run.scans[u] \in ScanRecords => run.scans[u].digest = Inputs(u)
  BY <1>1, RecoveryTyped DEF Counted
<1>6. \/ run' = Done(Fail(run), run.unit)
      \/ matched = {} /\ run' = Done([run EXCEPT !.attempts = @ \cup {Attempt("no_match")}], run.unit)
      \/ /\ \A f \in matched : Agrees(run.scans[run.unit], f)
         /\ run' = Done([run EXCEPT !.preserved = @ \cup matched, !.evidence = @ \cup matched], run.unit)
      \/ matched # {} /\ run' = [run EXCEPT !.phase = "extract"]
  BY <1>2, <1>3 DEF Probe, ScanRecords
<1>7. CASE run' = Done(Fail(run), run.unit)
  BY <1>1, <1>7, FailingIsTold, RunMoves
<1>8. CASE matched = {} /\ run' = Done([run EXCEPT !.attempts = @ \cup {Attempt("no_match")}], run.unit)
  <2>1. PICK a : a = Attempt("no_match")
    OBVIOUS
  <2>2. a \in AttemptRecords /\ a.unit = run.unit /\ a.asked = Requested(run.unit) /\ a.outcome = "no_match"
    BY <1>1, <1>2, <2>1, AttemptTyped DEF InWork
  <2>3. PICK F \in SUBSET Units : F = run.failed
    BY RecoveryTyped DEF RecoveryRuns
  <2>4. PICK s : s = WithAttempt(F, a)
    OBVIOUS
  <2>5. /\ s \in RecoveryRuns /\ AttemptsHonest(s) /\ s.failed = run.failed
        /\ s.phase = run.phase /\ s.unit = run.unit /\ s.scans = run.scans /\ s.wanted = run.wanted
        /\ s.preserved = run.preserved /\ s.error = run.error /\ s.reached = run.reached
        /\ s.stored = run.stored /\ s.status = run.status
    BY <1>3, <1>8, <2>2, <2>3, <2>4, AnotherAttempt
  <2>6. s = [run EXCEPT !.attempts = run.attempts \cup {a}]
    BY <2>3, <2>4, RecoveryTyped DEF RecoveryRuns, WithAttempt
  <2>7. PICK r : r = Done(s, run.unit)
    OBVIOUS
  <2>8. run' = r
    BY <1>8, <2>1, <2>6, <2>7
  <2>9. s.failed = {} => (run.reached \ FreshBodies) \cap DefinedBy(run.unit) = {}
    BY <1>1, <1>2, <1>3, <1>8, <2>5, OldIsRequested DEF InWork
  <2>10. RunOK(r)
    BY <1>1, <1>5, <2>5, <2>7, <2>9, RecoveryTyped, UnitDone DEF ScansKnown
  <2> QED BY <1>1, <2>8, <2>10, RunMoves
<1>9. CASE /\ \A f \in matched : Agrees(run.scans[run.unit], f)
           /\ run' = Done([run EXCEPT !.preserved = @ \cup matched, !.evidence = @ \cup matched], run.unit)
  <2>1. matched \subseteq FreshBodies
    BY <1>2, <1>3, <1>4, <1>9, RecoveryTyped DEF Agrees, ScansKnown, FreshBodies
  <2>2. PICK s : s = [run EXCEPT !.preserved = run.preserved \cup matched, !.evidence = run.evidence \cup matched]
    OBVIOUS
  <2>3. PICK r : r = Done(s, run.unit)
    OBVIOUS
  <2>4. run' = r
    BY <1>9, <2>2, <2>3
  <2>5. /\ s \in RecoveryRuns /\ s.failed = run.failed /\ s.attempts = run.attempts
        /\ s.scans = run.scans /\ s.wanted = run.wanted
        /\ s.preserved = run.preserved \cup matched /\ s.error = run.error /\ s.reached = run.reached
        /\ s.stored = run.stored /\ s.status = run.status
    BY <1>4, <2>2, RecoveryTyped DEF RecoveryRuns
  <2>6. s.failed = {} => (run.reached \ FreshBodies) \cap DefinedBy(run.unit) = {}
    BY <1>1, <1>2, <1>3, <2>1, <2>5, OldIsRequested DEF InWork
  <2>7. ScansKnown(s) /\ AttemptsHonest(s)
    BY <2>5, RecoveryTyped DEF ScansKnown, AttemptsHonest
  <2>8. RunOK(r)
    BY <1>1, <1>5, <2>1, <2>3, <2>5, <2>6, <2>7, RecoveryTyped, UnitDone
  <2> QED BY <1>1, <2>4, <2>8, RunMoves
<1>10. CASE matched # {} /\ run' = [run EXCEPT !.phase = "extract"]
  <2>1. PICK r : r = [run EXCEPT !.phase = "extract"]
    OBVIOUS
  <2>2. /\ r \in RecoveryRuns /\ r.phase = "extract" /\ r.unit = run.unit /\ r.scans = run.scans
        /\ r.wanted = run.wanted /\ r.preserved = run.preserved /\ r.error = run.error /\ r.reached = run.reached
        /\ r.attempts = run.attempts /\ r.failed = run.failed /\ r.stored = run.stored
        /\ r.status = run.status
    BY <2>1, RecoveryTyped DEF RecoveryRuns, RunPhases, InWork
  <2>3. (r.wanted[r.unit] \ r.preserved) \cap DefinedBy(r.unit) # {}
    BY <1>3, <1>10, <2>2 DEF Requested
  <2>4. UnitAtWork(r) /\ AttemptsHonest(r) /\ Loaded(r) /\ WantedAll(r) /\ Concluded(r)
    BY <1>1, <1>2, <2>2, <2>3, RecoveryTyped
    DEF UnitAtWork, AttemptsHonest, Loaded, WantedAll, Concluded, InWork
  <2>5. RunOK(r)
    BY <1>1, <2>2, <2>4, RecoveryTyped, RunGoesOn
  <2> QED BY <1>1, <1>10, <2>1, <2>5, RunMoves
<1> QED BY <1>6, <1>7, <1>8, <1>9, <1>10

LEMMA ExtractStep ==
    ASSUME RecoveryInv, Extract
    PROVE  RecoveryInv'
<1>1. run.phase = "extract" /\ UNCHANGED <<world, indexed>> /\ rounds' = rounds + 1
  BY DEF Extract, InPhase
<1>2. /\ run.unit \in Units /\ run.scans[run.unit] \in ScanRecords /\ run.wanted \in [Units -> SUBSET Functions]
      /\ run.stored = stored
  BY <1>1, RecoveryTyped DEF UnitAtWork, InWork, Loaded
<1>3. PICK scan : scan = run.scans[run.unit]
  OBVIOUS
<1>4. PICK D \in SUBSET Functions : D = DefinedBy(run.unit)
  BY DEF DefinedBy
<1>5. PICK matched : matched = Requested(run.unit) \cap D
  OBVIOUS
<1>6. matched \in SUBSET Functions /\ matched # {} /\ matched \cap run.preserved = {}
  BY <1>1, <1>4, <1>5, RecoveryTyped DEF UnitAtWork, Requested
<1>7. PICK a : a = Attempt("succeeded")
  OBVIOUS
<1>8. a \in AttemptRecords /\ a.unit = run.unit /\ a.asked = Requested(run.unit) /\ a.outcome = "succeeded"
  BY <1>1, <1>2, <1>7, AttemptTyped DEF InWork
<1>9. PICK r : r = [run EXCEPT !.phase = "reload", !.attempts = run.attempts \cup {a},
                               !.preserved = run.preserved \cup matched]
  OBVIOUS
<1>10. /\ run' = r /\ entries' = D \cup (run.preserved \cap run.evidence)
       /\ stored' = [f \in Functions |-> IF f \in D THEN scan.bodies[f] ELSE stored[f]]
  BY <1>3, <1>4, <1>5, <1>7, <1>9 DEF Extract, RetainedFacts
<1>11. \A f \in D : scan.bodies[f] \in lately[f] /\ scan.bodies[f] \in CalledSets
  BY <1>2, <1>3, <1>4, RecoveryTyped DEF ScansKnown, RecoveryTypeOK
<1>12. RecoveryTypeOK'
  <2>1. stored' \in [Functions -> CalledSets \cup {None}]
    BY <1>10, <1>11, RecoveryTyped DEF RecoveryTypeOK
  <2>2. entries' \in SUBSET Functions
    BY <1>4, <1>10, RecoveryTyped DEF RecoveryRuns
  <2> QED BY <1>1, <2>1, <2>2, RecoveryTyped DEF RecoveryTypeOK, world
<1>13. lately' = lately
  BY <1>1 DEF world
<1>14. FreshBodies \subseteq FreshBodies' /\ D \subseteq FreshBodies'
  BY <1>4, <1>10, <1>11, <1>13 DEF FreshBodies
<1>15. WorldOK'
  BY <1>1, <1>14, RecoveryTyped DEF WorldOK, world
<1>16. /\ r \in RecoveryRuns /\ r.phase = "reload" /\ r.scans = run.scans
       /\ r.preserved = run.preserved \cup matched /\ r.error = run.error
       /\ r.attempts = run.attempts \cup {a} /\ r.failed = run.failed
       /\ r.status = run.status
  <2>1. run.attempts \cup {a} \in SUBSET AttemptRecords
    BY <1>8, RecoveryTyped DEF RecoveryRuns
  <2>2. run.preserved \cup matched \in SUBSET Functions
    BY <1>6, RecoveryTyped DEF RecoveryRuns
  <2> QED BY <1>9, <2>1, <2>2, RecoveryTyped DEF RecoveryRuns, RunPhases
<1>17. r.preserved \subseteq FreshBodies'
  BY <1>5, <1>14, <1>16, RecoveryTyped
<1>18. ScansKnown(r)'
  BY <1>13, <1>16, RecoveryTyped DEF ScansKnown
<1>19. AttemptsHonest(r)'
  <2>1. ASSUME NEW b \in r.attempts
        PROVE  /\ b.outcome = "failed" => r.failed # {}
               /\ b.outcome = "no_match" => b.asked \cap DefinedBy(b.unit) = {}
               /\ b.outcome = "succeeded" => b.asked \cap DefinedBy(b.unit) \subseteq FreshBodies'
    <3>1. CASE b = a
      BY <1>4, <1>8, <1>14, <3>1
    <3>2. CASE b \in run.attempts
      BY <1>14, <1>16, <3>2, RecoveryTyped DEF AttemptsHonest
    <3> QED BY <1>16, <2>1, <3>1, <3>2
  <2> QED BY <2>1 DEF AttemptsHonest
<1>20. Loaded(r)'
  BY <1>1, <1>10, <1>14, <1>16, RecoveryTyped DEF Loaded
<1>21. UnitAtWork(r)' /\ WantedAll(r)' /\ Concluded(r)'
  BY <1>1, <1>16, RecoveryTyped DEF UnitAtWork, WantedAll, Concluded, InWork
<1>22. Counted(r)'
  <2>1. PICK S \in SUBSET Functions, T \in SUBSET Functions : S = run.preserved /\ T = r.preserved
    BY <1>16, RecoveryTyped DEF RecoveryRuns
  <2>2. S \subseteq T /\ S # T
    BY <1>6, <1>16, <2>1
  <2>3. Cardinality(S) < Cardinality(T) /\ Cardinality(S) \in Nat /\ Cardinality(T) \in Nat
    BY <2>2, PreservedGrows
  <2>4. \A u \in Units : Inputs(u)' = Inputs(u)
    BY <1>1 DEF Inputs, world
  <2>5. edits' = edits
    BY <1>1 DEF world
  <2>6. edits = 0 => rounds <= Cardinality(S)
    BY <2>1, RecoveryTyped DEF Counted
  <2>7. edits = 0 => rounds' <= Cardinality(T)
    BY <1>1, <2>3, <2>6, RecoveryTyped DEF RecoveryTypeOK
  <2> QED BY <1>1, <1>16, <2>1, <2>4, <2>5, <2>7, RecoveryTyped DEF Counted
<1>23. RunOK(r)'
  BY <1>16, <1>17, <1>18, <1>19, <1>20, <1>21, <1>22 DEF RunOK
<1> QED BY <1>10, <1>12, <1>15, <1>23 DEF RecoveryInv

LEMMA ExtractFailsStep ==
    ASSUME RecoveryInv, ExtractFails
    PROVE  RecoveryInv'
BY FailingIsTold, RunMoves DEF ExtractFails, InPhase

LEMMA ReloadStep ==
    ASSUME RecoveryInv, Reload
    PROVE  RecoveryInv'
<1>1. run.phase = "reload" /\ UNCHANGED <<world, factsVars, rounds>>
  BY DEF Reload, InPhase
<1>2. PICK scans : scans = [u \in Units |-> IF IsCurrent(run.scans[u]) THEN run.scans[u] ELSE None]
  OBVIOUS
<1>3. PICK E : E = IF Unedited(run) THEN entries ELSE {}
  OBVIOUS
<1>4. PICK C : C = IF Unedited(run) THEN run.covered ELSE FALSE
  OBVIOUS
<1>5. PICK P : P = IF Unedited(run) THEN run.preserved ELSE {}
  OBVIOUS
<1>6. PICK k : k = [run EXCEPT !.stored = stored, !.scans = scans, !.unit = None, !.phase = "select",
                               !.evidence = E, !.covered = C, !.preserved = P]
  OBVIOUS
<1>7. run' = Observe(Preserve(k, TRUE))
  <2>1. PICK loaded : loaded = [run EXCEPT !.stored = stored, !.scans = scans, !.unit = None, !.phase = "select"]
    OBVIOUS
  <2>2. run' = Observe(Preserve(IF Unedited(run) THEN [loaded EXCEPT !.evidence = entries]
                       ELSE [loaded EXCEPT !.evidence = {}, !.covered = FALSE, !.preserved = {}], TRUE))
    BY <1>2, <2>1 DEF Reload
  <2>3. CASE Unedited(run)
    <3>1. k = [loaded EXCEPT !.evidence = entries]
      BY <1>3, <1>4, <1>5, <1>6, <2>1, <2>3, RecoveryTyped DEF RecoveryRuns
    <3> QED BY <2>2, <2>3, <3>1
  <2>4. CASE ~Unedited(run)
    <3>1. k = [loaded EXCEPT !.evidence = {}, !.covered = FALSE, !.preserved = {}]
      BY <1>3, <1>4, <1>5, <1>6, <2>1, <2>4, RecoveryTyped DEF RecoveryRuns
    <3> QED BY <2>2, <2>4, <3>1
  <2> QED BY <2>3, <2>4
<1>8. run.scans \in [Units -> ScanRecords \cup {None}]
  BY RecoveryTyped DEF RecoveryRuns
<1>9. scans \in [Units -> ScanRecords \cup {None}]
  BY <1>2, <1>8
<1>10. E \in SUBSET Functions /\ C \in BOOLEAN /\ P \in SUBSET Functions
  BY <1>3, <1>4, <1>5, RecoveryTyped DEF RecoveryTypeOK, RecoveryRuns
<1>11. /\ k \in RecoveryRuns /\ k.phase = "select" /\ k.scans = scans /\ k.stored = stored /\ k.evidence = E
       /\ k.preserved = P /\ k.error = run.error /\ k.attempts = run.attempts /\ k.failed = run.failed
       /\ k.status = run.status
  BY <1>6, <1>9, <1>10, RecoveryTyped DEF RecoveryRuns, RunPhases, RecoveryTypeOK
<1>12. E \subseteq FreshBodies /\ P \subseteq FreshBodies
  BY <1>1, <1>3, <1>5, RecoveryTyped DEF Loaded
<1>13. PICK t : t = Preserve(k, TRUE)
  OBVIOUS
<1>14. PICK S \in SUBSET Functions : t = [k EXCEPT !.preserved = S] /\ P \subseteq S /\ S \subseteq FreshBodies
  BY <1>11, <1>12, <1>13, RecoveryTyped, Preserving
<1>15. t \in RecoveryRuns
  BY <1>11, <1>14 DEF RecoveryRuns
<1>16. PICK r : r = Observe(t)
  OBVIOUS
<1>17. PICK R \in SUBSET Functions : r = [t EXCEPT !.reached = R] /\ r \in RecoveryRuns
  BY <1>15, <1>16, Observing
<1>18. run' = r
  BY <1>7, <1>13, <1>16
<1>19. /\ r \in RecoveryRuns /\ r.phase = "select" /\ r.scans = scans /\ r.stored = stored
       /\ r.preserved = S /\ r.error = run.error /\ r.attempts = run.attempts /\ r.failed = run.failed
       /\ r.status = run.status
  BY <1>11, <1>14, <1>15, <1>17 DEF RecoveryRuns
<1>20. ScansKnown(r)
  BY <1>2, <1>19, RecoveryAssumption, RecoveryTyped DEF ScansKnown
<1>21. Counted(r)
  <2>1. SUFFICES ASSUME edits = 0
                 PROVE  /\ rounds <= Cardinality(S)
                        /\ \A u \in Units : scans[u] \in ScanRecords => scans[u].digest = Inputs(u)
    BY <1>19 DEF Counted
  <2>2. ASSUME NEW u \in Units, run.scans[u] \in ScanRecords
        PROVE  run.scans[u].digest = Inputs(u) /\ run.scans[u].unit = u
    BY <1>1, <2>1, <2>2, RecoveryTyped DEF Counted, ScansKnown
  <2>3. Unedited(run)
    BY <1>8, <2>2 DEF Unedited, IsCurrent
  <2>4. run.preserved \subseteq S /\ run.preserved \in SUBSET Functions
    BY <1>5, <1>14, <2>3, RecoveryTyped DEF RecoveryRuns
  <2>5. Cardinality(run.preserved) <= Cardinality(S) /\ Cardinality(run.preserved) \in Nat /\ Cardinality(S) \in Nat
    BY <2>4, PreservedGrows
  <2>6. rounds <= Cardinality(S)
    BY <2>1, <2>5, RecoveryTyped DEF Counted, RecoveryTypeOK
  <2> QED BY <1>2, <2>2, <2>6, RecoveryAssumption
<1>22. AttemptsHonest(r)
  BY <1>19, RecoveryTyped DEF AttemptsHonest
<1>23. UnitAtWork(r) /\ Loaded(r) /\ WantedAll(r) /\ Concluded(r)
  BY <1>1, <1>19, RecoveryTyped DEF UnitAtWork, Loaded, WantedAll, Concluded, InWork
<1>24. RunOK(r)
  BY <1>14, <1>19, <1>20, <1>21, <1>22, <1>23 DEF RunOK
<1> QED BY <1>1, <1>18, <1>24, RunMoves

\* Only the phase, an error, a cancellation or the status is noted.
LEMMA RunEnds ==
    ASSUME RecoveryInv, UNCHANGED <<world, factsVars, rounds>>,
           NEW r \in RecoveryRuns, run' = r,
           r.preserved = run.preserved, r.scans = run.scans, r.attempts = run.attempts, r.failed = run.failed,
           r.stored = run.stored, r.wanted = run.wanted, r.reached = run.reached, r.unit = run.unit,
           r.phase \in {run.phase, "end"}, r.phase = "end" => run.phase # "key",
           r.error = run.error \/ (r.error /\ r.phase = "end"), ~r.error => r.phase = run.phase \/ run.phase # "reload",
           Concluded(r)
    PROVE  RecoveryInv'
<1>1. UnitAtWork(r) /\ AttemptsHonest(r) /\ Loaded(r) /\ WantedAll(r)
  BY RecoveryTyped DEF UnitAtWork, AttemptsHonest, Loaded, WantedAll, InWork
<1>2. RunOK(r)
  BY <1>1, RecoveryTyped, RunGoesOn
<1> QED BY <1>2, RunMoves

LEMMA ReloadFailsStep ==
    ASSUME RecoveryInv, ReloadFails
    PROVE  RecoveryInv'
<1>1. PICK r : r = [run EXCEPT !.phase = "end", !.error = TRUE]
  OBVIOUS
<1>2. run' = r /\ run.phase = "reload" /\ UNCHANGED <<world, factsVars, rounds>>
  BY <1>1 DEF ReloadFails, InPhase
<1>3. /\ r \in RecoveryRuns /\ r.phase = "end" /\ r.error
      /\ r.preserved = run.preserved /\ r.scans = run.scans /\ r.attempts = run.attempts /\ r.failed = run.failed
      /\ r.stored = run.stored /\ r.wanted = run.wanted /\ r.reached = run.reached /\ r.unit = run.unit
      /\ r.status = run.status
  BY <1>1, RecoveryTyped DEF RecoveryRuns, RunPhases
<1>4. Concluded(r)
  BY <1>2, <1>3, RecoveryTyped DEF Concluded
<1> QED BY <1>2, <1>3, <1>4, RunEnds

LEMMA RoundEndsStep ==
    ASSUME RecoveryInv, RoundEnds
    PROVE  RecoveryInv'
<1>1. PICK r : r = [run EXCEPT !.phase = "end"]
  OBVIOUS
<1>2. run' = r /\ run.phase = "process" /\ Waiting = {} /\ UNCHANGED <<world, factsVars, rounds>>
  BY <1>1 DEF RoundEnds, InPhase
<1>3. /\ r \in RecoveryRuns /\ r.phase = "end" /\ r.error = run.error /\ r.cancelled = run.cancelled
      /\ r.preserved = run.preserved /\ r.scans = run.scans /\ r.attempts = run.attempts /\ r.failed = run.failed
      /\ r.stored = run.stored /\ r.wanted = run.wanted /\ r.reached = run.reached /\ r.unit = run.unit
      /\ r.status = run.status
  BY <1>1, RecoveryTyped DEF RecoveryRuns, RunPhases
<1>4. r.failed = {} => r.reached \subseteq FreshBodies
  <2>1. SUFFICES ASSUME run.failed = {}, NEW f \in run.reached \ FreshBodies PROVE FALSE
    BY <1>3
  <2>2. f \in Functions
    BY RecoveryTyped DEF RecoveryRuns
  <2>3. PICK u \in Units : f \in DefinedBy(u)
    BY <2>2, RecoveryAssumption DEF Functions, DefinedBy
  <2>4. f \in Requested(u)
    BY <1>2, <2>1, <2>3, OldIsRequested DEF InWork
  <2>5. run.wanted \in [Units -> SUBSET Functions]
    BY <1>2, RecoveryTyped DEF UnitAtWork, InWork
  <2> QED BY <1>2, <2>4, <2>5 DEF Waiting
<1>5. Concluded(r)
  BY <1>2, <1>3, <1>4, RecoveryTyped DEF Concluded
<1> QED BY <1>2, <1>3, <1>5, RunEnds

LEMMA RecordStep ==
    ASSUME RecoveryInv, Record
    PROVE  RecoveryInv'
<1>1. PICK outcome \in {"failed", "cancelled", "recovery-failed", "complete"} :
        /\ run' = [run EXCEPT !.status = outcome]
        /\ outcome = "complete" => ~run.error /\ ~run.cancelled /\ run.failed = {}
  BY DEF Record
<1>2. PICK r : r = [run EXCEPT !.status = outcome]
  OBVIOUS
<1>3. run' = r /\ run.phase = "end" /\ UNCHANGED <<world, factsVars, rounds>>
  BY <1>1, <1>2 DEF Record, InPhase
<1>4. /\ r \in RecoveryRuns /\ r.phase = "end" /\ r.error = run.error /\ r.cancelled = run.cancelled
      /\ r.preserved = run.preserved /\ r.scans = run.scans /\ r.attempts = run.attempts /\ r.failed = run.failed
      /\ r.stored = run.stored /\ r.wanted = run.wanted /\ r.reached = run.reached /\ r.unit = run.unit
      /\ r.status = outcome
  BY <1>2, <1>3, RecoveryTyped DEF RecoveryRuns
<1>5. Concluded(r)
  BY <1>1, <1>3, <1>4, RecoveryTyped DEF Concluded
<1> QED BY <1>3, <1>4, <1>5, RunEnds

LEMMA CancelStep ==
    ASSUME RecoveryInv, Cancel
    PROVE  RecoveryInv'
<1>1. PICK r : r = [run EXCEPT !.cancelled = TRUE]
  OBVIOUS
<1>2. run' = r /\ run.status = None /\ UNCHANGED <<world, factsVars, rounds>>
  BY <1>1 DEF Cancel
<1>3. /\ r \in RecoveryRuns /\ r.phase = run.phase /\ r.error = run.error /\ r.cancelled
      /\ r.preserved = run.preserved /\ r.scans = run.scans /\ r.attempts = run.attempts /\ r.failed = run.failed
      /\ r.stored = run.stored /\ r.wanted = run.wanted /\ r.reached = run.reached /\ r.unit = run.unit
      /\ r.status = None
  BY <1>1, <1>2, RecoveryTyped DEF RecoveryRuns
<1>4. UnitAtWork(r) /\ AttemptsHonest(r) /\ Loaded(r) /\ WantedAll(r)
  BY <1>3, RecoveryTyped DEF UnitAtWork, AttemptsHonest, Loaded, WantedAll
<1>5. Concluded(r)
  BY <1>3, RecoveryAssumption DEF Concluded
<1>6. RunOK(r)
  BY <1>3, <1>4, <1>5, RecoveryTyped, RunGoesOn
<1> QED BY <1>2, <1>6, RunMoves

\* An edit gives sources that the run may follow; it makes no facts older.
LEMMA EditStep ==
    ASSUME RecoveryInv, Edit
    PROVE  RecoveryInv'
<1>1. UNCHANGED <<stored, entries, indexed, run, rounds>> /\ edits' = edits + 1
  BY DEF Edit, factsVars
<1>2. PICK x \in Files :
        \/ /\ source' = [source EXCEPT ![x] = [compiles |-> ~@.compiles, version |-> @.version + 1]]
           /\ UNCHANGED bodies
        \/ /\ \E f \in {g \in Functions : HomeOf[g] = x} : \E calls \in MayCall[f] :
                calls # bodies[f] /\ bodies' = [bodies EXCEPT ![f] = calls]
           /\ source' = [source EXCEPT ![x].version = @ + 1]
  BY DEF Edit
<1>3. bodies' \in [Functions -> CalledSets]
  BY <1>2, RecoveryTyped DEF RecoveryTypeOK, CalledSets
<1>4. source' \in [Files -> [compiles : BOOLEAN, version : Nat]]
      /\ \A y \in Files : source'[y].version >= 1
  <2>1. source[x].compiles \in BOOLEAN /\ source[x].version \in Nat /\ source[x].version >= 1
    BY RecoveryTyped DEF RecoveryTypeOK, WorldOK
  <2>2. ASSUME NEW file \in [compiles : BOOLEAN, version : Nat], file.version >= 1,
               source' = [source EXCEPT ![x] = file]
        PROVE  /\ source' \in [Files -> [compiles : BOOLEAN, version : Nat]]
               /\ \A y \in Files : source'[y].version >= 1
    BY <2>2, RecoveryTyped DEF RecoveryTypeOK, WorldOK
  <2>3. source[x] \in [compiles : BOOLEAN, version : Nat] /\ source[x].version + 1 \in Nat
        /\ source[x].version + 1 >= 1
    BY <2>1, RecoveryTyped DEF RecoveryTypeOK
  <2>4. CASE source' = [source EXCEPT ![x] = [compiles |-> ~@.compiles, version |-> @.version + 1]]
    <3>1. PICK file : file = [compiles |-> ~source[x].compiles, version |-> source[x].version + 1]
      OBVIOUS
    <3>2. file \in [compiles : BOOLEAN, version : Nat] /\ file.version = source[x].version + 1
      BY <2>3, <3>1
    <3>3. source' = [source EXCEPT ![x] = file]
      BY <2>4, <3>1
    <3> QED BY <2>2, <2>3, <3>2, <3>3
  <2>5. CASE source' = [source EXCEPT ![x].version = @ + 1]
    <3>1. PICK file : file = [source[x] EXCEPT !.version = source[x].version + 1]
      OBVIOUS
    <3>2. file \in [compiles : BOOLEAN, version : Nat] /\ file.version = source[x].version + 1
      BY <2>3, <3>1
    <3>3. source' = [source EXCEPT ![x] = file]
      BY <2>5, <3>1
    <3> QED BY <2>2, <2>3, <3>2, <3>3
  <2> QED BY <1>2, <2>4, <2>5
<1>5. lately' = [f \in Functions |-> lately[f] \cup {bodies'[f]}]
  BY DEF Edit
<1>6. RecoveryTypeOK'
  BY <1>1, <1>3, <1>4, <1>5, RecoveryTyped DEF RecoveryTypeOK
<1>7. \A f \in Functions : lately[f] \subseteq lately'[f] /\ bodies'[f] \in lately'[f]
  BY <1>5
<1>8. FreshBodies \subseteq FreshBodies'
  BY <1>1, <1>7 DEF FreshBodies
<1>9. WorldOK'
  BY <1>1, <1>4, <1>7, <1>8, RecoveryTyped DEF WorldOK
<1>10. PICK r : r = run /\ r = run'
  BY <1>1
<1>11. ScansKnown(r)'
  BY <1>7, <1>10, RecoveryTyped DEF ScansKnown, DefinedBy
<1>12. AttemptsHonest(r)' /\ UnitAtWork(r)' /\ Loaded(r)' /\ WantedAll(r)' /\ Concluded(r)'
  BY <1>1, <1>8, <1>10, RecoveryTyped DEF AttemptsHonest, UnitAtWork, Loaded, WantedAll, Concluded
<1>13. Counted(r)'
  BY <1>1, RecoveryTyped DEF Counted, RecoveryTypeOK
<1>14. RunOK(r)'
  BY <1>8, <1>10, <1>11, <1>12, <1>13, RecoveryTyped DEF RunOK
<1> QED BY <1>6, <1>9, <1>10, <1>14 DEF RecoveryInv

LEMMA RecoveryInitOK ==
    ASSUME RecoveryInit
    PROVE  RecoveryInv
<1>1. RecoveryTypeOK
  <2>1. stored \in [Functions -> CalledSets \cup {None}]
    BY DEF RecoveryInit, CalledSets
  <2>2. bodies \in [Functions -> CalledSets] /\ lately \in [Functions -> SUBSET CalledSets]
    BY DEF RecoveryInit, CalledSets
  <2>3. source \in [Files -> [compiles : BOOLEAN, version : Nat]]
    BY DEF RecoveryInit
  <2> QED BY <2>1, <2>2, <2>3 DEF RecoveryInit, RecoveryTypeOK
<1>2. WorldOK
  BY HomesAreFiles DEF RecoveryInit, WorldOK, FreshBodies
<1>3. PICK r : r = run /\ r = NewRun("r")
  BY DEF RecoveryInit
<1>4. /\ r \in RecoveryRuns /\ r.phase = "start" /\ r.preserved = {} /\ r.stored = stored
      /\ r.scans = [u \in Units |-> None] /\ r.attempts = {} /\ r.error = FALSE /\ r.status = None
  BY <1>1, <1>3 DEF NewRun, RecoveryRuns, RunPhases, RecoveryTypeOK
<1>5. ScansKnown(r) /\ AttemptsHonest(r) /\ UnitAtWork(r) /\ Loaded(r) /\ WantedAll(r) /\ Concluded(r)
  BY <1>4, RecoveryAssumption DEF ScansKnown, AttemptsHonest, UnitAtWork, Loaded, WantedAll, Concluded, InWork
<1>6. Counted(r)
  <2>1. Cardinality(r.preserved) = 0 /\ rounds = 0
    BY <1>4, FS_EmptySet DEF RecoveryInit
  <2>2. \A u \in Units : r.scans[u] = None
    BY <1>4
  <2>3. \A u \in Units : r.scans[u] \notin ScanRecords
    BY <2>2, RecoveryAssumption
  <2>4. rounds <= Cardinality(r.preserved)
    BY <2>1
  <2> QED BY <2>3, <2>4 DEF Counted
<1> QED BY <1>1, <1>2, <1>3, <1>4, <1>5, <1>6 DEF RecoveryInv, RunOK

LEMMA RecoveryNextOK ==
    ASSUME RecoveryInv, [RecoveryNext]_recoveryVars
    PROVE  RecoveryInv'
<1>1. CASE UNCHANGED recoveryVars
  <2>1. UNCHANGED <<world, factsVars, rounds>> /\ run' = run
    BY <1>1 DEF recoveryVars, world, factsVars
  <2>2. PICK r : r = run
    OBVIOUS
  <2> QED BY <2>1, <2>2, RecoveryTyped, RunMoves
<1>2. CASE RecoveryNext
  BY <1>2, BeginRoundStep, SelectStep, ParseStep, IdentifyStep, ProbeStep, ExtractStep, ExtractFailsStep,
     ReloadStep, ReloadFailsStep, RoundEndsStep, RecordStep, CancelStep, EditStep DEF RecoveryNext
<1> QED BY <1>1, <1>2

LEMMA RecoveryInvHonest ==
    ASSUME RecoveryInv
    PROVE  RecoveryHonest
<1>1. CompleteIsRecovered
  BY RecoveryTyped DEF CompleteIsRecovered, Concluded, Loaded, FreshBodies
<1>2. RoundsBounded
  <2>1. PICK S \in SUBSET Functions : S = run.preserved
    BY RecoveryTyped DEF RecoveryRuns
  <2>2. PICK T \in SUBSET Functions : T = Functions
    OBVIOUS
  <2>3. Cardinality(S) <= Cardinality(T) /\ Cardinality(S) \in Nat /\ Cardinality(T) \in Nat
    BY <2>2, PreservedGrows
  <2> QED BY <2>1, <2>2, <2>3, RecoveryTyped DEF RoundsBounded, Counted, RecoveryTypeOK
<1> QED BY <1>1, <1>2 DEF RecoveryHonest

(* A call graph that claims to be recovered completely follows only bodies  *)
(* that the sources had while it ran, and as long as nobody edits it        *)
(* extracts no more often than there are functions, for any number of       *)
(* units, functions and edits (callgraph/Recovery).                         *)
THEOREM RecoveryIsHonest == RecoverySpec => []RecoveryHonest
<1>1. RecoveryInit => RecoveryInv
  BY RecoveryInitOK
<1>2. RecoveryInv /\ [RecoveryNext]_recoveryVars => RecoveryInv'
  BY RecoveryNextOK
<1>3. RecoveryInv => RecoveryHonest
  BY RecoveryInvHonest
<1> QED BY <1>1, <1>2, <1>3, PTL DEF RecoverySpec

-----------------------------------------------------------------------------
(* Parts of sequences *)

\* A set of positions that is not empty has a least one.
LEMMA LeastPosition ==
    ASSUME NEW S \in SUBSET Nat, S # {}
    PROVE  \E i \in S : \A j \in S : i <= j
<1> DEFINE below == {0..i : i \in S}
<1>1. \A i \in Nat : IsFiniteSet(0..i) /\ 0..i \subseteq Nat
  BY FS_Interval
<1>2. below \subseteq FiniteSubsetsOf(Nat) /\ below # {}
  BY <1>1 DEF FiniteSubsetsOf
<1> HIDE DEF below
<1>3. PICK T \in below : \A U \in below : <<U, T>> \notin StrictSubsetOrdering(Nat)
  BY <1>2, FS_StrictSubsetOrderingWellFounded, WFMin
<1>4. PICK i \in S : T = 0..i
  BY DEF below
<1>5. ASSUME NEW j \in S, j < i PROVE FALSE
  <2>1. 0..j \in below /\ 0..j \subseteq Nat /\ 0..i \subseteq Nat
    BY <1>1 DEF below
  <2>2. 0..j \subseteq 0..i /\ 0..j # 0..i
    <3>1. i \in 0..i /\ i \notin 0..j
      BY <1>5
    <3>2. 0..j \subseteq 0..i
      BY <1>5
    <3> QED BY <3>1, <3>2
  <2> QED BY <1>3, <1>4, <2>1, <2>2 DEF StrictSubsetOrdering
<1> QED BY <1>5

Distinct(s) == \A i, j \in DOMAIN s : s[i] = s[j] => i = j

\* No member is in two parts, or twice in one.
PartsDistinct(parts) ==
    /\ \A i \in DOMAIN parts : Distinct(parts[i])
    /\ \A i, j \in DOMAIN parts : ToSet(parts[i]) \intersect ToSet(parts[j]) # {} => i = j

\* The parts up to one, joined.
JoinsTo(joined, parts, k) ==
    \A n \in 1..k : joined[n] = IF n = 1 THEN parts[n] ELSE joined[n - 1] \o parts[n]

LEMMA JoinedParts ==
    ASSUME NEW X, NEW parts \in Seq(Seq(X)), Len(parts) # 0
    PROVE  \E joined : JoinsTo(joined, parts, Len(parts)) /\ FlattenSeq(parts) = joined[Len(parts)]
  <1> DEFINE Joins(f, k) ==
               f = [i \in 1..k |-> IF i = 1 THEN parts[i] ELSE f[i - 1] \o parts[i]]
             bad == {k \in 1..Len(parts) : ~ \E f : Joins(f, k)}
  <1>0. Len(parts) \in Nat /\ Len(parts) >= 1
    OBVIOUS
  <1> HIDE DEF Joins
  <1>1. bad = {}
    <2>1. SUFFICES ASSUME bad # {} PROVE FALSE
      OBVIOUS
    <2>2. bad \subseteq Nat
      BY <1>0
    <2>3. PICK k \in bad : \A j \in bad : k <= j
      BY <2>1, <2>2, LeastPosition
    <2>4. k # 1
      <3> USE DEF Joins
      <3> DEFINE one == [i \in {1} |-> parts[1]]
      <3>1. one = [i \in {1} |-> IF i = 1 THEN parts[i] ELSE one[i - 1] \o parts[i]]
        OBVIOUS
      <3>2. 1..1 = {1}
        OBVIOUS
      <3>3. Joins(one, 1)
        BY <3>1, <3>2
      <3> QED BY <2>3, <3>3
    <2>5. k - 1 \in 1..Len(parts) /\ k - 1 \notin bad /\ k \in Nat
      <3>1. k \in 1..Len(parts)
        OBVIOUS
      <3>2. k - 1 \in 1..Len(parts) /\ ~(k <= k - 1) /\ k \in Nat
        BY <1>0, <2>4, <3>1
      <3> QED BY <2>3, <3>2
    <2>6. PICK f : Joins(f, k - 1)
      BY <2>5
    <2> USE DEF Joins
    <2> DEFINE more == [i \in 1..k |-> IF i = k THEN f[k - 1] \o parts[k] ELSE f[i]]
    <2>7. ASSUME NEW i \in 1..k
          PROVE  more[i] = IF i = 1 THEN parts[i] ELSE more[i - 1] \o parts[i]
      <3>1. CASE i = k
        <4>1. k - 1 \in 1..k /\ k - 1 # k
          BY <1>0, <2>5
        <4>2. more[k - 1] = f[k - 1]
          BY <4>1
        <4> QED BY <2>4, <3>1, <4>2
      <3>2. CASE i # k
        <4>1. i \in 1..(k - 1)
          BY <2>5, <3>2
        <4>2. f[i] = IF i = 1 THEN parts[i] ELSE f[i - 1] \o parts[i]
          BY <2>6, <4>1
        <4>3. more[i] = f[i] /\ (i # 1 => more[i - 1] = f[i - 1])
          BY <2>5, <3>2, <4>1
        <4> QED BY <4>2, <4>3
      <3> QED BY <3>1, <3>2
    <2>8. Joins(more, k)
      BY <2>7
    <2> HIDE DEF Joins, more
    <2> QED BY <2>3, <2>8
  <1>2. \E f : Joins(f, Len(parts))
    <2>1. Len(parts) \in 1..Len(parts)
      BY <1>0
    <2> QED BY <1>1, <2>1
  <1> USE DEF Joins
  <1> DEFINE joined == CHOOSE f : Joins(f, Len(parts))
  <1>3. Joins(joined, Len(parts))
    BY <1>2
  <1>4. FlattenSeq(parts) = joined[Len(parts)]
    BY Zenon DEF FlattenSeq
  <1> HIDE DEF joined
  <1>5. JoinsTo(joined, parts, Len(parts))
    BY <1>0, <1>3 DEF JoinsTo
  <1> QED BY <1>4, <1>5

\* One part more.
LEMMA JoinsOn ==
    ASSUME NEW X, NEW s \in Seq(X), NEW t \in Seq(X)
    PROVE  /\ s \o t \in Seq(X) /\ ToSet(s \o t) = ToSet(s) \union ToSet(t)
           /\ Distinct(s) /\ Distinct(t) /\ ToSet(s) \intersect ToSet(t) = {} => Distinct(s \o t)
  <1>1. /\ s \o t \in Seq(X) /\ DOMAIN (s \o t) = 1..(Len(s) + Len(t)) /\ Len(s) \in Nat /\ Len(t) \in Nat
        /\ DOMAIN s = 1..Len(s) /\ DOMAIN t = 1..Len(t)
    OBVIOUS
  <1>2. \A i \in 1..Len(s) : (s \o t)[i] = s[i]
    OBVIOUS
  <1>3. \A i \in 1..Len(t) : (s \o t)[Len(s) + i] = t[i]
    OBVIOUS
  <1>4. ASSUME NEW i \in DOMAIN (s \o t), i \notin DOMAIN s
        PROVE  i - Len(s) \in DOMAIN t /\ (s \o t)[i] = t[i - Len(s)]
    <2>1. i - Len(s) \in 1..Len(t) /\ Len(s) + (i - Len(s)) = i
      BY <1>1, <1>4
    <2> QED BY <1>1, <1>3, <2>1
  <1>5. ToSet(s) \union ToSet(t) \subseteq ToSet(s \o t)
    <2>1. \A i \in DOMAIN s : i \in DOMAIN (s \o t)
      BY <1>1
    <2>2. \A i \in DOMAIN t : Len(s) + i \in DOMAIN (s \o t)
      BY <1>1
    <2> QED BY <1>1, <1>2, <1>3, <2>1, <2>2 DEF ToSet
  <1>6. ToSet(s \o t) \subseteq ToSet(s) \union ToSet(t)
    BY <1>1, <1>2, <1>4 DEF ToSet
  <1>7. ASSUME Distinct(s), Distinct(t), ToSet(s) \intersect ToSet(t) = {},
               NEW i \in DOMAIN (s \o t), NEW j \in DOMAIN (s \o t), (s \o t)[i] = (s \o t)[j]
        PROVE  i = j
    <2>1. CASE i \in DOMAIN s /\ j \in DOMAIN s
      BY <1>1, <1>2, <1>7, <2>1 DEF Distinct
    <2>2. CASE i \in DOMAIN s /\ j \notin DOMAIN s
      <3>1. (s \o t)[i] = s[i] /\ (s \o t)[j] = t[j - Len(s)] /\ j - Len(s) \in DOMAIN t
        BY <1>1, <1>2, <1>4, <2>2
      <3> QED BY <1>7, <2>2, <3>1 DEF ToSet
    <2>3. CASE i \notin DOMAIN s /\ j \in DOMAIN s
      <3>1. (s \o t)[j] = s[j] /\ (s \o t)[i] = t[i - Len(s)] /\ i - Len(s) \in DOMAIN t
        BY <1>1, <1>2, <1>4, <2>3
      <3> QED BY <1>7, <2>3, <3>1 DEF ToSet
    <2>4. CASE i \notin DOMAIN s /\ j \notin DOMAIN s
      <3>1. (s \o t)[j] = t[j - Len(s)] /\ (s \o t)[i] = t[i - Len(s)] /\ i - Len(s) \in DOMAIN t /\ j - Len(s) \in DOMAIN t
        BY <1>4, <2>4
      <3>2. i - Len(s) = j - Len(s)
        BY <1>7, <3>1 DEF Distinct
      <3> QED BY <1>1, <3>2
    <2> QED BY <2>1, <2>2, <2>3, <2>4
  <1>8. Distinct(s) /\ Distinct(t) /\ ToSet(s) \intersect ToSet(t) = {} => Distinct(s \o t)
    BY <1>7 DEF Distinct
  <1> QED BY <1>1, <1>5, <1>6, <1>8

LEMMA Flattened ==
    ASSUME NEW X, NEW parts \in Seq(Seq(X))
    PROVE  /\ FlattenSeq(parts) \in Seq(X)
           /\ ToSet(FlattenSeq(parts)) = UNION {ToSet(parts[i]) : i \in DOMAIN parts}
           /\ PartsDistinct(parts) => Distinct(FlattenSeq(parts))
  <1> DEFINE Fine(s, k) ==
               /\ s \in Seq(X) /\ ToSet(s) = UNION {ToSet(parts[i]) : i \in 1..k}
               /\ PartsDistinct(parts) => Distinct(s)
  <1>0. Len(parts) \in Nat /\ DOMAIN parts = 1..Len(parts) /\ \A i \in 1..Len(parts) : parts[i] \in Seq(X)
    OBVIOUS
  <1>1. CASE Len(parts) = 0
    <2>1. parts = <<>> /\ FlattenSeq(parts) = <<>> /\ DOMAIN parts = {}
      BY <1>0, <1>1 DEF FlattenSeq
    <2>2. <<>> \in Seq(X) /\ DOMAIN <<>> = {}
      OBVIOUS
    <2> QED BY <2>1, <2>2 DEF ToSet, Distinct
  <1>2. CASE Len(parts) # 0
    <2>1. PICK joined : JoinsTo(joined, parts, Len(parts)) /\ FlattenSeq(parts) = joined[Len(parts)]
      BY <1>2, JoinedParts
    <2> DEFINE bad == {k \in 1..Len(parts) : ~Fine(joined[k], k)}
    <2>2. bad = {}
      <3>1. SUFFICES ASSUME bad # {} PROVE FALSE
        OBVIOUS
      <3>2. bad \subseteq Nat
        BY <1>0
      <3>3. PICK k \in bad : \A j \in bad : k <= j
        BY <3>1, <3>2, LeastPosition
      <3>4. k \in 1..Len(parts) /\ ~Fine(joined[k], k) /\ k \in Nat
        BY <1>0, <3>3
      <3>5. CASE k = 1
        <4>1. joined[1] = parts[1] /\ 1..1 = {1}
          BY <1>0, <2>1, <3>4, <3>5 DEF JoinsTo
        <4> QED BY <1>0, <3>4, <3>5, <4>1 DEF PartsDistinct
      <3>6. CASE k # 1
        <4>1. k - 1 \in 1..Len(parts) /\ ~(k <= k - 1)
          BY <1>0, <3>4, <3>6
        <4>2. Fine(joined[k - 1], k - 1)
          <5> HIDE DEF Fine
          <5> QED BY <3>3, <4>1
        <4>3. joined[k] = joined[k - 1] \o parts[k]
          BY <2>1, <3>4, <3>6 DEF JoinsTo
        <4>4. 1..k = (1..(k - 1)) \union {k}
          BY <3>4
        <4>5. PartsDistinct(parts) => ToSet(joined[k - 1]) \intersect ToSet(parts[k]) = {}
          <5> SUFFICES ASSUME PartsDistinct(parts), NEW x \in ToSet(joined[k - 1]), x \in ToSet(parts[k]) PROVE FALSE
            OBVIOUS
          <5>1. PICK i \in 1..(k - 1) : x \in ToSet(parts[i])
            BY <4>2
          <5>2. i \in DOMAIN parts /\ k \in DOMAIN parts /\ i # k
            BY <1>0, <3>4, <5>1
          <5> QED BY <5>1, <5>2 DEF PartsDistinct
        <4>6. /\ joined[k] \in Seq(X) /\ ToSet(joined[k]) = ToSet(joined[k - 1]) \union ToSet(parts[k])
              /\ PartsDistinct(parts) => Distinct(joined[k])
          <5>1. joined[k - 1] \in Seq(X) /\ parts[k] \in Seq(X) /\ k \in DOMAIN parts
            BY <1>0, <3>4, <4>2
          <5>2. PartsDistinct(parts) => Distinct(joined[k - 1]) /\ Distinct(parts[k])
            BY <4>2, <5>1 DEF PartsDistinct
          <5> HIDE DEF Fine
          <5> QED BY <4>3, <4>5, <5>1, <5>2, JoinsOn
        <4> QED BY <3>4, <4>2, <4>4, <4>6
      <3> QED BY <3>5, <3>6
    <2>3. Len(parts) \in 1..Len(parts)
      BY <1>0, <1>2
    <2>4. Fine(joined[Len(parts)], Len(parts))
      <3> HIDE DEF Fine
      <3> QED BY <2>2, <2>3
    <2> QED BY <1>0, <2>1, <2>4
  <1> QED BY <1>1, <1>2

LEMMA PickedMembers ==
    ASSUME NEW X, NEW s \in Seq(X), NEW positions
    PROVE  /\ Picked(s, positions) \in Seq(X)
           /\ ToSet(Picked(s, positions)) = {s[i] : i \in positions \intersect DOMAIN s}
           /\ (\A i, j \in positions \intersect DOMAIN s : s[i] = s[j] => i = j) => Distinct(Picked(s, positions))
  <1> DEFINE Part(i) == IF i \in positions THEN <<s[i]>> ELSE <<>>
             parts == [i \in DOMAIN s |-> Part(i)]
  <1>1. \A x \in X : <<x>> \in Seq(X) /\ ToSet(<<x>>) = {x} /\ Distinct(<<x>>)
    BY DEF ToSet, Distinct
  <1>2. <<>> \in Seq(X) /\ ToSet(<<>>) = {} /\ Distinct(<<>>)
    BY DEF ToSet, Distinct
  <1>3. \A i \in DOMAIN s : s[i] \in X
    OBVIOUS
  <1>4. \A i \in DOMAIN s : /\ Part(i) \in Seq(X) /\ Distinct(Part(i))
                           /\ ToSet(Part(i)) = IF i \in positions THEN {s[i]} ELSE {}
    BY <1>1, <1>2, <1>3
  <1> HIDE DEF Part
  <1>5. parts \in Seq(Seq(X)) /\ DOMAIN parts = DOMAIN s
    <2>1. DOMAIN s = 1..Len(s) /\ Len(s) \in Nat
      OBVIOUS
    <2> QED BY <1>4, <2>1
  <1>6. \A i \in DOMAIN s : parts[i] = Part(i)
    OBVIOUS
  <1>7. Picked(s, positions) = FlattenSeq(parts)
    BY DEF Picked, Part
  <1> HIDE DEF parts
  <1>8. /\ FlattenSeq(parts) \in Seq(X)
        /\ ToSet(FlattenSeq(parts)) = UNION {ToSet(parts[i]) : i \in DOMAIN parts}
        /\ PartsDistinct(parts) => Distinct(FlattenSeq(parts))
    BY <1>5, Flattened
  <1>9. UNION {ToSet(parts[i]) : i \in DOMAIN parts} = {s[i] : i \in positions \intersect DOMAIN s}
    BY <1>4, <1>5, <1>6
  <1>10. (\A i, j \in positions \intersect DOMAIN s : s[i] = s[j] => i = j) => PartsDistinct(parts)
    <2> SUFFICES ASSUME \A i, j \in positions \intersect DOMAIN s : s[i] = s[j] => i = j
                 PROVE  PartsDistinct(parts)
      OBVIOUS
    <2>1. \A i \in DOMAIN parts : Distinct(parts[i])
      BY <1>4, <1>5, <1>6
    <2>2. ASSUME NEW i \in DOMAIN parts, NEW j \in DOMAIN parts,
                 NEW x, x \in ToSet(parts[i]) \intersect ToSet(parts[j])
          PROVE  i = j
      <3>1. i \in DOMAIN s /\ j \in DOMAIN s /\ parts[i] = Part(i) /\ parts[j] = Part(j)
        BY <1>5, <1>6
      <3>2. i \in positions /\ j \in positions /\ x = s[i] /\ x = s[j]
        BY <1>4, <2>2, <3>1
      <3> QED BY <3>1, <3>2
    <2> QED BY <2>1, <2>2 DEF PartsDistinct
  <1> QED BY <1>7, <1>8, <1>9, <1>10

-----------------------------------------------------------------------------
(* Driver probing: the commands that are selected *)

PathsOfCommands == DOMAIN CommandsFor
AllCommands == UNION {ToSet(CommandsFor[p]) : p \in PathsOfCommands}

\* Every command of the sources is selected, and none twice.
LEMMA SelectedOnce ==
    ASSUME NEW sources \in Selections, selectedCommands(sources) # None
    PROVE  /\ selectedCommands(sources) \in Seq(ToSet(selectedCommands(sources)))
           /\ Distinct(selectedCommands(sources))
           /\ ToSet(selectedCommands(sources))
                = UNION {ToSet(CommandsFor[sources[i]]) : i \in DOMAIN sources}
           /\ \A i \in DOMAIN sources : ToSet(CommandsFor[sources[i]]) # {}
           /\ sources \in Seq(PathsOfCommands)
  <1> DEFINE parts == [i \in DOMAIN sources |-> CommandsFor[sources[i]]]
             all == FlattenSeq(parts)
             firsts == {i \in DOMAIN all : \A j \in 1..(i - 1) : all[j] # all[i]}
  <1>1. sources \in Seq(PathsOfCommands)
    BY CommandsAssumption DEF PathsOfCommands
  <1>2. \A i \in DOMAIN sources : sources[i] \in PathsOfCommands /\ CommandsFor[sources[i]] # <<>>
    BY <1>1 DEF selectedCommands
  <1>3. \A p \in PathsOfCommands : CommandsFor[p] \in Seq(AllCommands)
    <2> SUFFICES ASSUME NEW p \in PathsOfCommands PROVE CommandsFor[p] \in Seq(AllCommands)
      OBVIOUS
    <2>1. PICK X : CommandsFor[p] \in Seq(X)
      BY CommandsAssumption DEF PathsOfCommands
    <2>2. \A i \in DOMAIN CommandsFor[p] : CommandsFor[p][i] \in AllCommands
      BY DEF AllCommands, ToSet
    <2> QED BY <2>1, <2>2
  <1>4. parts \in Seq(Seq(AllCommands)) /\ DOMAIN parts = DOMAIN sources
    <2>1. DOMAIN sources = 1..Len(sources) /\ Len(sources) \in Nat
      BY <1>1
    <2> QED BY <1>2, <1>3, <2>1
  <1>5. all \in Seq(AllCommands) /\ ToSet(all) = UNION {ToSet(parts[i]) : i \in DOMAIN parts}
    <2> HIDE DEF parts
    <2> QED BY <1>4, Flattened
  <1>6. selectedCommands(sources) = Picked(all, firsts)
    BY <1>2 DEF selectedCommands
  <1>7. \A i \in DOMAIN parts : parts[i] = CommandsFor[sources[i]]
    OBVIOUS
  <1> HIDE DEF parts, all, firsts
  <1>8. /\ Picked(all, firsts) \in Seq(AllCommands)
        /\ ToSet(Picked(all, firsts)) = {all[i] : i \in firsts \intersect DOMAIN all}
        /\ Distinct(Picked(all, firsts))
    <2>1. ASSUME NEW i \in firsts, NEW j \in firsts, all[i] = all[j] PROVE i = j
      <3>1. i \in DOMAIN all /\ j \in DOMAIN all /\ DOMAIN all = 1..Len(all) /\ Len(all) \in Nat
        BY <1>5, <2>1 DEF firsts
      <3>2. ~(i \in 1..(j - 1)) /\ ~(j \in 1..(i - 1))
        BY <2>1 DEF firsts
      <3> QED BY <3>1, <3>2
    <2> QED BY <1>5, <2>1, PickedMembers
  <1>9. {all[i] : i \in firsts \intersect DOMAIN all} = ToSet(all)
    <2> SUFFICES ASSUME NEW k \in DOMAIN all PROVE \E i \in firsts \intersect DOMAIN all : all[i] = all[k]
      BY DEF ToSet
    <2> DEFINE same == {i \in DOMAIN all : all[i] = all[k]}
    <2>1. same \subseteq Nat /\ same # {} /\ DOMAIN all = 1..Len(all) /\ Len(all) \in Nat
      BY <1>5
    <2>2. PICK i \in same : \A j \in same : i <= j
      BY <2>1, LeastPosition
    <2>3. ASSUME NEW j \in 1..(i - 1) PROVE all[j] # all[i]
      <3>1. j \in DOMAIN all /\ ~(i <= j)
        BY <2>1, <2>2
      <3> QED BY <2>2, <3>1
    <2> QED BY <2>2, <2>3 DEF firsts
  <1>10. \A i \in DOMAIN sources : ToSet(CommandsFor[sources[i]]) # {}
    <2> SUFFICES ASSUME NEW i \in DOMAIN sources PROVE ToSet(CommandsFor[sources[i]]) # {}
      OBVIOUS
    <2>1. CommandsFor[sources[i]] \in Seq(AllCommands) /\ CommandsFor[sources[i]] # <<>>
      BY <1>2, <1>3
    <2>2. 1 \in DOMAIN CommandsFor[sources[i]]
      BY <2>1
    <2> QED BY <2>2 DEF ToSet
  <1>11. UNION {ToSet(parts[i]) : i \in DOMAIN parts} = UNION {ToSet(CommandsFor[sources[i]]) : i \in DOMAIN sources}
    BY <1>4, <1>7
  <1>12. Picked(all, firsts) \in Seq(ToSet(Picked(all, firsts)))
    <2>1. \A i \in DOMAIN Picked(all, firsts) : Picked(all, firsts)[i] \in ToSet(Picked(all, firsts))
      BY DEF ToSet
    <2> QED BY <1>8, <2>1
  <1> QED BY <1>1, <1>5, <1>6, <1>8, <1>9, <1>10, <1>11, <1>12

-----------------------------------------------------------------------------
(* Driver probing: the invariant *)

\* What the driver that a key names answers, as the key describes it.
AnswerOf(key) ==
    PrintedBy([file |-> key.canonical, build |-> key.stamp,
               options |-> executableProbeOptions(key.options),
               directory |-> key.directory, environment |-> key.environment])

HasFields(w) ==
    /\ w = [field \in DOMAIN w |-> w[field]]
    /\ DOMAIN w = {"at", "sources", "left", "done", "key", "found", "meant"}

\* What was meant for a command is nothing, or the answer of a driver.
IsAnswer(includes) == \E key : includes = AnswerOf(key) /\ includes # None

\* A configured command, with what its driver answered when it was identified.
Appended(d) ==
    /\ d.as = appendIncludes(CommandBefore(d.of), d.meant)
    /\ d.meant = <<>> \/ IsAnswer(d.meant)
AllAppended(done) == \E S : done \in Seq(S) /\ \A d \in S : Appended(d)

\* What was selected is what is done, and after it what is left.
Progress(w) ==
    LET all == selectedCommands(w.sources)
    IN /\ w.sources \in Selections /\ all # None /\ Len(all) \in Nat
       /\ w.left \in Seq(ToSet(all)) /\ Len(w.done) + Len(w.left) = Len(all)
       /\ \A i \in 1..Len(w.done) : w.done[i].of = all[i]
       /\ \A i \in 1..Len(w.left) : w.left[i] = all[Len(w.done) + i]
       /\ w.at = "configured" <=> w.left = <<>>

\* An identified driver is still the one of its key.
StillTheDriver(t, w) == w.key = driverProbeKey(t, CommandBefore(Head(w.left)))

Probing == {"reading", "asking", "publishing", "found"}
WorkOK(t, w) ==
    \/ w = NoWork \/ w = [at |-> "failed"]
    \/ /\ HasFields(w) /\ AllAppended(w.done) /\ Progress(w)
       /\ w.at \in {"next", "configured"} \cup Probing
       /\ w.at = "next" => w.meant = <<>>
       /\ w.at \in Probing => w.meant = AnswerOf(w.key)
       /\ w.at \in {"reading", "asking"} => StillTheDriver(t, w)
       /\ w.at \in {"publishing", "found"} => w.found = w.meant /\ w.found # None

MemoryOK ==
    \A t \in Tools : \A m \in DOMAIN memory[t] : memory[t][m] = AnswerOf(m[2]) /\ memory[t][m] # None
ProbesOK == \A key \in DOMAIN probes : probes[key].digest = AnswerOf(key)

ProbeInv ==
    /\ configuring = [t \in Tools |-> configuring[t]] /\ memory = [t \in Tools |-> memory[t]]
    /\ MemoryOK /\ ProbesOK
    /\ \A t \in Tools : WorkOK(t, configuring[t])

-----------------------------------------------------------------------------
(* Driver probing: one lemma for each action *)

\* The answer now is that of the key of now.
LEMMA KeyTellsAll ==
    ASSUME NEW t, NEW command
    PROVE  AnswerNow(t, command) = AnswerOf(driverProbeKey(t, command))
BY DEF AnswerNow, AnswerOf, driverProbeKey, DriverCall

LEMMA ToolMoves ==
    ASSUME ProbeInv, NEW t \in Tools, NEW w, WorkOK(t, w), configuring' = [configuring EXCEPT ![t] = w],
           UNCHANGED <<driverFile, build>>, memory' = [s \in Tools |-> memory'[s]], MemoryOK', ProbesOK'
    PROVE  ProbeInv'
<1>1. \A s \in Tools : configuring'[s] = IF s = t THEN w ELSE configuring[s]
  BY DEF ProbeInv
<1>2. ASSUME NEW s \in Tools PROVE WorkOK(s, configuring[s])'
  <2>1. PICK v : v = configuring'[s]
    OBVIOUS
  <2>2. WorkOK(s, v)
    BY <1>1, <2>1 DEF ProbeInv
  <2>3. WorkOK(s, v)'
    BY <2>2 DEF WorkOK, HasFields, StillTheDriver, driverProbeKey
  <2> QED BY <2>1, <2>3
<1> QED BY <1>1, <1>2 DEF ProbeInv

LEMMA ToolAlone ==
    ASSUME ProbeInv, NEW t \in Tools, NEW w, WorkOK(t, w), configuring' = [configuring EXCEPT ![t] = w],
           UNCHANGED <<driverFile, build, memory, probes>>
    PROVE  ProbeInv'
BY ToolMoves DEF ProbeInv, MemoryOK, ProbesOK

LEMMA AnotherAppended ==
    ASSUME NEW done, AllAppended(done), NEW d, Appended(d)
    PROVE  AllAppended(Append(done, d))
<1>1. PICK S : done \in Seq(S) /\ \A e \in S : Appended(e)
  BY DEF AllAppended
<1>2. done \in Seq(S \cup {d})
  BY <1>1, SeqDef
<1>3. Append(done, d) \in Seq(S \cup {d})
  BY <1>2
<1> QED BY <1>1, <1>3 DEF AllAppended

LEMMA TailOf ==
    ASSUME NEW X, NEW s \in Seq(X), s # <<>>
    PROVE  /\ Tail(s) \in Seq(X) /\ Len(Tail(s)) = Len(s) - 1 /\ Head(s) = s[1]
           /\ \A i \in 1..(Len(s) - 1) : Tail(s)[i] = s[i + 1]
           /\ Tail(s) = <<>> <=> Len(s) = 1
<1>1. Tail(s) \in Seq(X) /\ Len(Tail(s)) = Len(s) - 1 /\ Head(s) = s[1] /\ Len(s) \in Nat
  OBVIOUS
<1>2. \A i \in 1..(Len(s) - 1) : Tail(s)[i] = s[i + 1]
  OBVIOUS
<1>3. Tail(s) = <<>> <=> Len(Tail(s)) = 0
  <2>1. PICK u \in Seq(X) : u = Tail(s)
    BY <1>1
  <2>2. u = <<>> <=> Len(u) = 0
    OBVIOUS
  <2> QED BY <2>1, <2>2
<1> QED BY <1>1, <1>2, <1>3

LEMMA OneFurther ==
    ASSUME NEW m \in Nat, NEW n \in Nat
    PROVE  /\ (n + 1) + (m - 1) = n + m
           /\ \A i \in 1..(m - 1) : i + 1 \in 1..m /\ n + (i + 1) = (n + 1) + i
OBVIOUS

\* One command more is configured.
OneMore(w, v, d) ==
    /\ AllAppended(w.done) /\ Progress(w) /\ w.at # "configured"
    /\ v.done = Append(w.done, d) /\ v.left = Tail(w.left) /\ v.sources = w.sources
    /\ v.at = IF Len(w.left) = 1 THEN "configured" ELSE "next"
    /\ d.of = Head(w.left)

LEMMA OneDone ==
    ASSUME NEW w, NEW v, NEW d, OneMore(w, v, d)
    PROVE  Progress(v)
<1> USE DEF OneMore
<1> DEFINE all == selectedCommands(w.sources)
<1>1. PICK S : w.done \in Seq(S)
  BY DEF AllAppended
<1>2. /\ w.left \in Seq(ToSet(all)) /\ Len(w.done) + Len(w.left) = Len(all) /\ w.left # <<>>
      /\ \A i \in 1..Len(w.done) : w.done[i].of = all[i]
      /\ \A i \in 1..Len(w.left) : w.left[i] = all[Len(w.done) + i]
      /\ Len(all) \in Nat /\ all # None /\ w.sources \in Selections
  BY DEF Progress
<1> HIDE DEF all
<1>3. /\ Len(w.done) \in Nat /\ Len(w.left) \in Nat /\ Len(w.left) > 0
      /\ w.left = <<>> <=> Len(w.left) = 0
  BY <1>1, <1>2
<1>4. /\ Len(v.done) = Len(w.done) + 1 /\ v.done[Len(w.done) + 1] = d
      /\ \A i \in 1..Len(w.done) : v.done[i] = w.done[i]
  <2>1. w.done \in Seq(S \union {d}) /\ d \in S \union {d}
    BY <1>1, SeqDef
  <2> QED BY <2>1
<1>5. /\ v.left \in Seq(ToSet(all)) /\ Len(v.left) = Len(w.left) - 1
      /\ \A i \in 1..(Len(w.left) - 1) : v.left[i] = w.left[i + 1]
      /\ Head(w.left) = w.left[1] /\ (v.left = <<>> <=> Len(w.left) = 1)
  BY <1>2, TailOf
<1>6. \A i \in 1..Len(v.done) : v.done[i].of = all[i]
  <2> SUFFICES ASSUME NEW i \in 1..Len(v.done) PROVE v.done[i].of = all[i]
    OBVIOUS
  <2>1. CASE i \in 1..Len(w.done)
    BY <1>2, <1>4, <2>1
  <2>2. CASE i = Len(w.done) + 1
    <3>1. 1 \in 1..Len(w.left)
      BY <1>3
    <3>2. w.left[1] = all[Len(w.done) + 1]
      BY <1>2, <3>1
    <3> QED BY <1>4, <1>5, <2>2, <3>2
  <2> QED BY <1>3, <1>4, <2>1, <2>2
<1> HIDE DEF OneMore
<1> PICK m, n, k : m = Len(w.left) /\ n = Len(w.done) /\ k = Len(all)
  OBVIOUS
<1>10. m \in Nat /\ n \in Nat /\ m > 0 /\ n + m = k
  BY <1>2, <1>3
<1>11. Len(v.left) = m - 1 /\ Len(v.done) = n + 1
  BY <1>4, <1>5
<1>7. \A i \in 1..Len(v.left) : v.left[i] = all[Len(v.done) + i]
  <2>1. \A i \in 1..(m - 1) : v.left[i] = w.left[i + 1]
    BY <1>5
  <2>2. \A i \in 1..m : w.left[i] = all[n + i]
    BY <1>2
  <2>3. ASSUME NEW i \in 1..(m - 1) PROVE v.left[i] = all[(n + 1) + i]
    <3>1. i + 1 \in 1..m /\ n + (i + 1) = (n + 1) + i
      BY <1>10, OneFurther
    <3> QED BY <2>1, <2>2, <3>1
  <2> QED BY <1>11, <2>3
<1>8. v.at = "configured" <=> v.left = <<>>
  BY <1>5 DEF OneMore
<1>9. Len(v.done) + Len(v.left) = Len(all)
  <2>1. (n + 1) + (m - 1) = k
    BY <1>10, OneFurther
  <2> QED BY <1>11, <2>1
<1> QED BY <1>2, <1>5, <1>6, <1>7, <1>8, <1>9 DEF Progress, OneMore, all

LEMMA Finishing ==
    ASSUME ProbeInv, NEW t \in Tools, HasFields(configuring[t]), AllAppended(configuring[t].done),
           Progress(configuring[t]), configuring[t].at # "configured",
           configuring[t].meant = <<>> \/ IsAnswer(configuring[t].meant),
           FinishCommand(t, NextCommand(t), configuring[t].meant),
           UNCHANGED <<driverFile, build, memory, probes>>
    PROVE  ProbeInv'
<1> DEFINE w == configuring[t]
<1> DEFINE d == [of |-> Head(w.left), as |-> appendIncludes(NextCommand(t), w.meant), meant |-> w.meant]
<1> DEFINE v == [w EXCEPT !.done = Append(@, d), !.left = Tail(@), !.key = None, !.found = None, !.meant = <<>>,
                          !.at = IF Len(w.left) = 1 THEN "configured" ELSE "next"]
<1>1. configuring' = [configuring EXCEPT ![t] = v]
  BY DEF FinishCommand
<1>2. AllAppended(v.done)
  BY AnotherAppended DEF Appended, NextCommand
<1>3. Progress(v)
  <2>1. v.done = Append(w.done, d) /\ v.left = Tail(w.left) /\ v.sources = w.sources
        /\ v.at = IF Len(w.left) = 1 THEN "configured" ELSE "next"
    BY DEF HasFields
  <2>2. d.of = Head(w.left)
    OBVIOUS
  <2> HIDE DEF v, d
  <2>3. AllAppended(w.done) /\ Progress(w) /\ w.at # "configured"
    OBVIOUS
  <2> HIDE DEF w
  <2>4. OneMore(w, v, d)
    BY <2>1, <2>2, <2>3 DEF OneMore
  <2> QED BY <2>4, OneDone
<1>4. HasFields(v) /\ v.at \in {"next", "configured"} /\ v.meant = <<>>
  BY DEF HasFields
<1>5. WorkOK(t, v)
  <2> HIDE DEF v
  <2> QED BY <1>2, <1>3, <1>4 DEF WorkOK, Probing
<1> HIDE DEF v
<1> QED BY <1>1, <1>5, ToolAlone

LEMMA FailToolStep ==
    ASSUME ProbeInv, NEW t \in Tools, FailTool(t), UNCHANGED <<driverFile, build, memory, probes>>
    PROVE  ProbeInv'
BY ToolAlone DEF FailTool, WorkOK

LEMMA SelectSourcesStep ==
    ASSUME ProbeInv, NEW t \in Tools, NEW sources \in Selections, SelectSources(t, sources) PROVE ProbeInv'
<1> DEFINE w == [at |-> IF selectedCommands(sources) = <<>> THEN "configured" ELSE "next",
                 sources |-> sources, left |-> selectedCommands(sources), done |-> <<>>,
                 key |-> None, found |-> None, meant |-> <<>>]
<1>1. CASE FailTool(t)
  BY <1>1, FailToolStep DEF SelectSources
<1>2. CASE configuring' = [configuring EXCEPT ![t] = w] /\ selectedCommands(sources) # None
  <2>1. AllAppended(<<>>)
    <3>1. PICK S : S = {}
      OBVIOUS
    <3>2. << >> \in Seq(S) /\ \A d \in S : Appended(d)
      BY <3>1
    <3> QED BY <3>2 DEF AllAppended
  <2>2. Progress(w)
    <3>1. selectedCommands(sources) \in Seq(ToSet(selectedCommands(sources)))
      BY <1>2, SelectedOnce
    <3>2. Len(<<>>) = 0
      OBVIOUS
    <3> QED BY <1>2, <3>1, <3>2 DEF Progress
  <2>3. WorkOK(t, w)
    BY <2>1, <2>2 DEF WorkOK, HasFields, Probing, Progress
  <2> QED BY <1>2, <2>3, ToolAlone DEF SelectSources
<1> QED BY <1>1, <1>2 DEF SelectSources

\* What is known of a process that is configuring commands.
LEMMA AtWork ==
    ASSUME ProbeInv, NEW t \in Tools, configuring[t].at \in {"next"} \cup Probing
    PROVE  /\ HasFields(configuring[t]) /\ AllAppended(configuring[t].done) /\ Progress(configuring[t])
           /\ configuring[t].at # "configured"
           /\ configuring[t].at = "next" => configuring[t].meant = <<>>
           /\ configuring[t].at \in Probing => configuring[t].meant = AnswerOf(configuring[t].key)
           /\ configuring[t].at \in {"reading", "asking"} => StillTheDriver(t, configuring[t])
           /\ configuring[t].at \in {"publishing", "found"} =>
                 configuring[t].found = configuring[t].meant /\ configuring[t].found # None
BY DEF ProbeInv, WorkOK, NoWork, Probing

LEMMA ConfigureClangStep ==
    ASSUME ProbeInv, NEW t \in Tools, ConfigureClang(t) PROVE ProbeInv'
BY AtWork, Finishing DEF ConfigureClang

LEMMA AppendProbedStep ==
    ASSUME ProbeInv, NEW t \in Tools, AppendProbed(t) PROVE ProbeInv'
BY AtWork, Finishing DEF AppendProbed, Probing, IsAnswer

LEMMA IdentifyDriverStep ==
    ASSUME ProbeInv, NEW t \in Tools, IdentifyDriver(t) PROVE ProbeInv'
<1> DEFINE w == configuring[t]
<1> DEFINE key == driverProbeKey(t, NextCommand(t))
<1> DEFINE meant == AnswerNow(t, NextCommand(t))
<1>1. w.at = "next" /\ HasFields(w) /\ AllAppended(w.done) /\ Progress(w)
  BY AtWork DEF IdentifyDriver, resolveDriver
<1>2. meant = AnswerOf(key)
  BY KeyTellsAll
<1>3. CASE FailTool(t)
  BY <1>3, FailToolStep DEF IdentifyDriver, resolveDriver
<1>4. CASE memoryKey(t, key) \in DOMAIN memory[t]
           /\ configuring' = [configuring EXCEPT ![t].at = "found", ![t].key = key, ![t].meant = meant,
                                                 ![t].found = memory[t][memoryKey(t, key)]]
  <2> DEFINE v == [w EXCEPT !.at = "found", !.key = key, !.meant = meant,
                            !.found = memory[t][memoryKey(t, key)]]
  <2>1. configuring' = [configuring EXCEPT ![t] = v]
    BY <1>4 DEF ProbeInv
  <2>2. memory[t][memoryKey(t, key)] = AnswerOf(key)
    BY <1>4 DEF ProbeInv, MemoryOK, memoryKey
  <2>3. memory[t][memoryKey(t, key)] # None
    BY <1>4 DEF ProbeInv, MemoryOK
  <2>4. v.at = "found" /\ v.sources = w.sources /\ v.left = w.left /\ v.done = w.done /\ HasFields(v)
        /\ v.found = memory[t][memoryKey(t, key)] /\ v.key = key /\ v.meant = meant
    BY <1>1 DEF HasFields
  <2> HIDE DEF v, w, key, meant
  <2>5. Progress(v)
    BY <1>1, <2>4 DEF Progress
  <2>6. WorkOK(t, v)
    BY <1>1, <1>2, <2>2, <2>3, <2>4, <2>5 DEF WorkOK, Probing
  <2> QED BY <2>1, <2>6, ToolAlone DEF IdentifyDriver, resolveDriver, w
<1>5. CASE configuring' = [configuring EXCEPT ![t].at = IF CacheEnabled[t] THEN "reading" ELSE "asking",
                                              ![t].key = key, ![t].meant = meant]
  <2> DEFINE v == [w EXCEPT !.at = IF CacheEnabled[t] THEN "reading" ELSE "asking", !.key = key, !.meant = meant]
  <2>1. configuring' = [configuring EXCEPT ![t] = v]
    BY <1>5 DEF ProbeInv
  <2>2. StillTheDriver(t, v)
    BY DEF StillTheDriver, NextCommand
  <2>3. WorkOK(t, v)
    BY <1>1, <1>2, <2>2 DEF WorkOK, HasFields, Probing, Progress
  <2> QED BY <2>1, <2>3, ToolAlone DEF IdentifyDriver, resolveDriver
<1> QED BY <1>3, <1>4, <1>5 DEF IdentifyDriver, resolveDriver

\* A full memory may lose any entry; what it keeps, it keeps as it was.
LEMMA RememberedAnswer ==
    ASSUME ProbeInv, NEW t \in Tools, NEW key, AnswerOf(key) # None,
           NEW held \in Remembered(memory[t], memoryKey(t, key), AnswerOf(key))
    PROVE  /\ held[memoryKey(t, key)] = AnswerOf(key)
           /\ \A k \in DOMAIN held : held[k] = AnswerOf(k[2]) /\ held[k] # None
<1> DEFINE m == memoryKey(t, key)
<1>1. m[2] = key
  BY DEF memoryKey
<1>2. PICK kept : kept \subseteq DOMAIN memory[t]
        /\ held = [k \in kept \cup {m} |-> IF k \in DOMAIN memory[t] THEN memory[t][k] ELSE AnswerOf(key)]
  BY DEF Remembered
<1>3. \A k \in DOMAIN memory[t] : memory[t][k] = AnswerOf(k[2]) /\ memory[t][k] # None
  BY DEF ProbeInv, MemoryOK
<1> QED BY <1>1, <1>2, <1>3

LEMMA Remembering ==
    ASSUME ProbeInv, NEW t \in Tools, NEW key, NEW includes, includes = AnswerOf(key), includes # None,
           NEW held \in Remembered(memory[t], memoryKey(t, key), includes),
           memory' = [memory EXCEPT ![t] = held]
    PROVE  memory' = [s \in Tools |-> memory'[s]] /\ MemoryOK'
<1>1. \A k \in DOMAIN held : held[k] = AnswerOf(k[2]) /\ held[k] # None
  BY RememberedAnswer
<1>2. \A s \in Tools : memory'[s] = IF s = t THEN held ELSE memory[s]
  BY DEF ProbeInv
<1> QED BY <1>1, <1>2 DEF ProbeInv, MemoryOK

LEMMA LoadedIsDigest ==
    ASSUME NEW key, load(key) # None PROVE key \in DOMAIN probes /\ load(key) = probes[key].digest
BY DEF load

LEMMA ReadProbeStep ==
    ASSUME ProbeInv, NEW t \in Tools, ReadProbe(t) PROVE ProbeInv'
<1> DEFINE w == configuring[t]
<1>1. w.at = "reading" /\ HasFields(w) /\ AllAppended(w.done) /\ Progress(w) /\ w.meant = AnswerOf(w.key) /\ StillTheDriver(t, w)
  BY AtWork DEF ReadProbe, Probing
<1>2. ASSUME load(w.key) # None, NEW held \in Remembered(memory[t], memoryKey(t, w.key), load(w.key)),
             memory' = [memory EXCEPT ![t] = held],
             configuring' = [configuring EXCEPT ![t].at = "found", ![t].found = load(w.key)]
      PROVE  ProbeInv'
  <2>1. load(w.key) = AnswerOf(w.key)
    BY <1>2, LoadedIsDigest DEF ProbeInv, ProbesOK
  <2>2. memory' = [s \in Tools |-> memory'[s]] /\ MemoryOK'
    BY <1>2, <2>1, Remembering
  <2> DEFINE v == [w EXCEPT !.at = "found", !.found = load(w.key)]
  <2>3. configuring' = [configuring EXCEPT ![t] = v]
    BY <1>2 DEF ProbeInv
  <2>4. v.at = "found" /\ v.sources = w.sources /\ v.left = w.left /\ v.done = w.done /\ HasFields(v)
        /\ v.found = load(w.key) /\ v.key = w.key /\ v.meant = w.meant
    BY <1>1 DEF HasFields
  <2>5. ProbesOK'
    BY DEF ReadProbe, ProbeInv, ProbesOK
  <2>6. WorkOK(t, v)
    <3> HIDE DEF v, w
    <3>1. Progress(v)
      BY <1>1, <2>4 DEF Progress
    <3> QED BY <1>1, <1>2, <2>1, <2>4, <3>1 DEF WorkOK, Probing
  <2> HIDE DEF v
  <2> QED BY <2>2, <2>3, <2>5, <2>6, ToolMoves DEF ReadProbe
<1>3. CASE configuring' = [configuring EXCEPT ![t].at = "asking"] /\ UNCHANGED memory
  <2> DEFINE v == [w EXCEPT !.at = "asking"]
  <2>1. configuring' = [configuring EXCEPT ![t] = v]
    BY <1>3 DEF ProbeInv
  <2>2. WorkOK(t, v)
    BY <1>1 DEF WorkOK, HasFields, Probing, Progress, StillTheDriver
  <2> QED BY <1>3, <2>1, <2>2, ToolAlone DEF ReadProbe
<1> QED BY <1>2, <1>3 DEF ReadProbe

LEMMA AskDriverStep ==
    ASSUME ProbeInv, NEW t \in Tools, AskDriver(t) PROVE ProbeInv'
<1> DEFINE w == configuring[t]
<1> DEFINE answer == AnswerNow(t, NextCommand(t))
<1>1. w.at = "asking" /\ HasFields(w) /\ AllAppended(w.done) /\ Progress(w) /\ w.meant = AnswerOf(w.key) /\ StillTheDriver(t, w)
  BY AtWork DEF AskDriver, Probing
<1>2. answer = w.meant
  BY <1>1, KeyTellsAll DEF StillTheDriver, NextCommand
<1>3. CASE FailTool(t)
  BY <1>3, FailToolStep DEF AskDriver
<1>4. CASE answer # None /\ configuring' = [configuring EXCEPT ![t].at = "publishing", ![t].found = answer]
  <2> DEFINE v == [w EXCEPT !.at = "publishing", !.found = answer]
  <2>1. configuring' = [configuring EXCEPT ![t] = v]
    BY <1>4 DEF ProbeInv
  <2>2. v.at = "publishing" /\ v.sources = w.sources /\ v.left = w.left /\ v.done = w.done /\ HasFields(v)
        /\ v.found = answer /\ v.key = w.key /\ v.meant = w.meant
    BY <1>1 DEF HasFields
  <2>3. WorkOK(t, v)
    <3> HIDE DEF v, w, answer
    <3>1. Progress(v)
      BY <1>1, <2>2 DEF Progress
    <3> QED BY <1>1, <1>2, <1>4, <2>2, <3>1 DEF WorkOK, Probing
  <2> QED BY <2>1, <2>3, ToolAlone DEF AskDriver
<1> QED BY <1>3, <1>4 DEF AskDriver

LEMMA PublishProbeStep ==
    ASSUME ProbeInv, NEW t \in Tools, PublishProbe(t) PROVE ProbeInv'
<1> DEFINE w == configuring[t]
<1>1. w.at = "publishing" /\ HasFields(w) /\ AllAppended(w.done) /\ Progress(w) /\ w.found = AnswerOf(w.key)
      /\ w.meant = w.found /\ w.found # None
  BY AtWork DEF PublishProbe, Probing
<1>2. ProbesOK'
  BY <1>1 DEF PublishProbe, ProbeInv, ProbesOK, ProbesWith
<1>3. PICK held \in Remembered(memory[t], memoryKey(t, w.key), w.found) :
        /\ memory' = [memory EXCEPT ![t] = held]
        /\ configuring' = [configuring EXCEPT ![t].at = "found", ![t].found = held[memoryKey(t, w.key)]]
  BY DEF PublishProbe
<1>4. memory' = [s \in Tools |-> memory'[s]] /\ MemoryOK'
  BY <1>1, <1>3, Remembering
<1>5. held[memoryKey(t, w.key)] = w.found
  BY <1>1, <1>3, RememberedAnswer
<1> DEFINE v == [w EXCEPT !.at = "found", !.found = w.found]
<1>6. configuring' = [configuring EXCEPT ![t] = v]
  BY <1>3, <1>5 DEF ProbeInv
<1>7. v.at = "found" /\ v.sources = w.sources /\ v.left = w.left /\ v.done = w.done /\ HasFields(v)
      /\ v.found = w.found /\ v.key = w.key /\ v.meant = w.meant
  BY <1>1 DEF HasFields
<1>8. WorkOK(t, v)
  <2> HIDE DEF v, w
  <2>1. Progress(v)
    BY <1>1, <1>7 DEF Progress
  <2> QED BY <1>1, <1>7, <2>1 DEF WorkOK, Probing
<1> HIDE DEF v
<1> QED BY <1>2, <1>4, <1>6, <1>8, ToolMoves DEF PublishProbe

LEMMA EndToolStep ==
    ASSUME ProbeInv, NEW t \in Tools, EndTool(t) PROVE ProbeInv'
<1>1. WorkOK(t, NoWork)
  BY DEF WorkOK
<1>2. \A s \in Tools : memory'[s] = IF s = t THEN <<>> ELSE memory[s]
  BY DEF EndTool, ProbeInv
<1>3. MemoryOK' /\ memory' = [s \in Tools |-> memory'[s]]
  BY <1>2 DEF EndTool, ProbeInv, MemoryOK
<1> QED BY <1>1, <1>3, ToolMoves DEF EndTool, ProbeInv, ProbesOK

\* A driver is replaced while nobody has identified it.
LEMMA ReplaceDriverStep ==
    ASSUME ProbeInv, ~SwitchedWhileProbing, ReplaceDriver PROVE ProbeInv'
<1>1. UNCHANGED <<memory, probes, configuring>> /\ \A t \in Tools : ~Identified(t)
  BY DEF ReplaceDriver, Quiet
<1>2. ASSUME NEW t \in Tools PROVE WorkOK(t, configuring[t])'
  BY <1>1 DEF ProbeInv, WorkOK, HasFields, Identified
<1> QED BY <1>1, <1>2 DEF ProbeInv, MemoryOK, ProbesOK

LEMMA DamageRowsStep ==
    ASSUME ProbeInv, NEW key \in DOMAIN probes, DamageRows(key) PROVE ProbeInv'
<1>1. ProbesOK'
  BY DEF DamageRows, ProbeInv, ProbesOK
<1>2. ASSUME NEW t \in Tools PROVE WorkOK(t, configuring[t])'
  BY DEF DamageRows, ProbeInv, WorkOK, HasFields, StillTheDriver, driverProbeKey
<1> QED BY <1>1, <1>2 DEF DamageRows, ProbeInv, MemoryOK

LEMMA ProbeInitOK == DriverProbeInit => ProbeInv
BY DEF DriverProbeInit, ProbeInv, MemoryOK, ProbesOK, WorkOK

LEMMA ProbeNextOK ==
    ASSUME ProbeInv, ~SwitchedWhileProbing, [DriverProbeNext]_probeVars PROVE ProbeInv'
<1>1. ASSUME NEW t \in Tools, NEW sources \in Selections, SelectSources(t, sources) PROVE ProbeInv'
  BY <1>1, SelectSourcesStep
<1>2. ASSUME NEW t \in Tools, ConfigureClang(t) \/ IdentifyDriver(t) \/ ReadProbe(t)
             \/ AskDriver(t) \/ PublishProbe(t) \/ AppendProbed(t) \/ EndTool(t)
      PROVE  ProbeInv'
  BY <1>2, ConfigureClangStep, IdentifyDriverStep, ReadProbeStep, AskDriverStep, PublishProbeStep,
     AppendProbedStep, EndToolStep
<1>3. CASE ReplaceDriver
  BY <1>3, ReplaceDriverStep
<1>4. CASE \E key \in DOMAIN probes : DamageRows(key)
  BY <1>4, DamageRowsStep
<1>5. CASE UNCHANGED probeVars
  BY <1>5 DEF probeVars, ProbeInv, MemoryOK, ProbesOK, WorkOK, HasFields, StillTheDriver, driverProbeKey
<1> QED BY <1>1, <1>2, <1>3, <1>4, <1>5 DEF DriverProbeNext

(* Each command that was configured is the selected one with what its      *)
(* driver answered when it was identified, although the answer may come    *)
(* from the memory or from the project database.  (appendDriverIncludes)   *)
AnswersAreMeant ==
    \A t \in Tools : configuring[t].at \in {"next", "configured"} =>
        \A i \in DOMAIN configuring[t].done : Appended(configuring[t].done[i])

LEMMA AnswersFollow == ASSUME ProbeInv PROVE AnswersAreMeant
<1> SUFFICES ASSUME NEW t \in Tools, configuring[t].at \in {"next", "configured"},
                    NEW i \in DOMAIN configuring[t].done
             PROVE  Appended(configuring[t].done[i])
  BY DEF AnswersAreMeant
<1>1. AllAppended(configuring[t].done)
  BY DEF ProbeInv, WorkOK, NoWork
<1>2. PICK S : configuring[t].done \in Seq(S) /\ \A d \in S : Appended(d)
  BY <1>1 DEF AllAppended
<1> QED BY <1>2

(* Whatever a process remembers or the project database holds, through     *)
(* replaced builds, kills, evictions and damaged rows, each command that   *)
(* was configured has the directories that its driver answered when it was *)
(* identified, unless a driver is replaced while it is being asked.        *)
THEOREM DriversAnswerAsMeant ==
    ASSUME ~SwitchedWhileProbing
    PROVE  DriverProbeSpec => []AnswersAreMeant
<1>1. ProbeInv /\ [DriverProbeNext]_probeVars => ProbeInv'
  BY ProbeNextOK
<1>2. ProbeInv => AnswersAreMeant
  BY AnswersFollow
<1> QED BY <1>1, <1>2, ProbeInitOK, PTL DEF DriverProbeSpec

-----------------------------------------------------------------------------
(* Driver probing: the options of a configured command *)

HasOptions(c) == c = [field \in DOMAIN c |-> c[field]] /\ "options" \in DOMAIN c /\ \E X : c.options \in Seq(X)

LEMMA AppendedMembers ==
    ASSUME NEW X, NEW s \in Seq(X), NEW e
    PROVE  Append(s, e) \in Seq(X \union {e}) /\ ToSet(Append(s, e)) = ToSet(s) \union {e}
<1>1. s \in Seq(X \union {e})
  <2>1. X \subseteq X \union {e}
    OBVIOUS
  <2> QED BY <2>1, SeqDef
<1>2. /\ Append(s, e) \in Seq(X \union {e}) /\ DOMAIN Append(s, e) = 1..(Len(s) + 1) /\ Append(s, e)[Len(s) + 1] = e
      /\ \A i \in 1..Len(s) : Append(s, e)[i] = s[i]
      /\ DOMAIN s = 1..Len(s) /\ Len(s) \in Nat /\ 1..(Len(s) + 1) = (1..Len(s)) \union {Len(s) + 1}
  BY <1>1
<1> QED BY <1>2 DEF ToSet

ResourceOption == [flag |-> "-resource-dir", at |-> "/", name |-> Resources]
SdkOption == [flag |-> "-isysroot", at |-> "/", name |-> SdkRoot]

\* The directories of a command are not those of the resources or the SDK.
LEMMA SameExplicitPaths ==
    ASSUME NEW s, NEW o, ToSet(o) \subseteq ToSet(s) \union {ResourceOption, SdkOption},
           \A p \in ToSet(s) : p.flag # "-resource-dir" => p \in ToSet(o)
    PROVE  explicitIncludePaths(o) = explicitIncludePaths(s)
<1>1. ResourceOption.flag = "-resource-dir" /\ SdkOption.flag = "-isysroot"
  BY DEF ResourceOption, SdkOption
<1>2. {p \in ToSet(o) : p.flag \in {"-I", "-isystem"}} = {p \in ToSet(s) : p.flag \in {"-I", "-isystem"}}
  BY <1>1
<1> QED BY <1>2 DEF explicitIncludePaths

LEMMA BeforeOptions ==
    ASSUME NEW c, HasOptions(c)
    PROVE  /\ HasOptions(CommandBefore(c))
           /\ explicitIncludePaths(CommandBefore(c).options) = explicitIncludePaths(c.options)
<1>1. PICK X : c.options \in Seq(X)
  BY DEF HasOptions
<1> DEFINE removed == removeResourceDirectory(c.options)
           kept == Append(removed, ResourceOption)
           options == IF SdkRoot = None \/ hasSysroot(kept) THEN kept ELSE Append(kept, SdkOption)
<1>2. CommandBefore(c) = [c EXCEPT !.options = options]
  BY DEF CommandBefore, ResourceOption, SdkOption
<1>3. removed \in Seq(X) /\ ToSet(removed) = {c.options[i] : i \in {j \in DOMAIN c.options : c.options[j].flag # "-resource-dir"} \intersect DOMAIN c.options}
  BY <1>1, PickedMembers DEF removeResourceDirectory
<1>4. ToSet(removed) = {p \in ToSet(c.options) : p.flag # "-resource-dir"}
  BY <1>3 DEF ToSet
<1> HIDE DEF removed
<1>5. kept \in Seq(X \union {ResourceOption}) /\ ToSet(kept) = ToSet(removed) \union {ResourceOption}
  BY <1>3, AppendedMembers
<1> HIDE DEF kept
<1>6. /\ Append(kept, SdkOption) \in Seq((X \union {ResourceOption}) \union {SdkOption})
      /\ ToSet(Append(kept, SdkOption)) = ToSet(kept) \union {SdkOption}
  BY <1>5, AppendedMembers
<1>7. /\ \E Y : options \in Seq(Y)
      /\ ToSet(kept) \subseteq ToSet(options) /\ ToSet(options) \subseteq ToSet(kept) \union {SdkOption}
  <2>1. CASE SdkRoot = None \/ hasSysroot(kept)
    BY <1>5, <2>1
  <2>2. CASE ~(SdkRoot = None \/ hasSysroot(kept))
    BY <1>6, <2>2
  <2> QED BY <2>1, <2>2
<1> HIDE DEF options
<1>8. explicitIncludePaths(options) = explicitIncludePaths(c.options)
  BY <1>4, <1>5, <1>7, SameExplicitPaths
<1>9. HasOptions(CommandBefore(c)) /\ CommandBefore(c).options = options
  BY <1>2, <1>7 DEF HasOptions
<1> QED BY <1>8, <1>9

\* Directories, as a driver prints them.
AreDirectories(includes) == \E R : includes \in Seq(R) /\ \A r \in R : r = [at |-> r.at, name |-> r.name]

LEMMA DirectoriesAppended ==
    ASSUME NEW c, HasOptions(c), NEW includes, AreDirectories(includes)
    PROVE  ToSet(DirectoriesOf(appendIncludes(c, includes).options, c))
              = ToSet(includes) \ explicitIncludePaths(c.options)
<1>1. PICK X : c.options \in Seq(X)
  BY DEF HasOptions
<1>2. PICK R : includes \in Seq(R) /\ \A r \in R : r = [at |-> r.at, name |-> r.name]
  BY DEF AreDirectories
<1> DEFINE explicit == explicitIncludePaths(c.options)
           news == {i \in DOMAIN includes : includes[i] \notin explicit /\ \A j \in 1..(i - 1) : includes[j] # includes[i]}
           added == Picked(includes, news)
           more == [i \in DOMAIN added |-> [flag |-> "-isystem", at |-> added[i].at, name |-> added[i].name]]
<1>3. appendIncludes(c, includes) = [c EXCEPT !.options = @ \o more]
  BY DEF appendIncludes
<1>4. appendIncludes(c, includes).options = c.options \o more
  <2> HIDE DEF more
  <2> QED BY <1>3 DEF HasOptions
<1>5. added \in Seq(R) /\ ToSet(added) = {includes[i] : i \in news \intersect DOMAIN includes}
  <2> HIDE DEF news
  <2> QED BY <1>2, PickedMembers
<1>6. {includes[i] : i \in news \intersect DOMAIN includes} = ToSet(includes) \ explicit
  <2>1. ASSUME NEW x \in ToSet(includes) \ explicit PROVE \E i \in news \intersect DOMAIN includes : includes[i] = x
    <3> DEFINE same == {i \in DOMAIN includes : includes[i] = x}
    <3>1. same \subseteq Nat /\ same # {} /\ DOMAIN includes = 1..Len(includes) /\ Len(includes) \in Nat
      BY <1>2 DEF ToSet
    <3>2. PICK i \in same : \A j \in same : i <= j
      BY <3>1, LeastPosition
    <3>3. ASSUME NEW j \in 1..(i - 1) PROVE includes[j] # includes[i]
      <4>1. j \in DOMAIN includes /\ ~(i <= j)
        BY <3>1, <3>2
      <4> QED BY <3>2, <4>1
    <3> QED BY <3>2, <3>3
  <2> QED BY <2>1 DEF ToSet
<1> HIDE DEF added, news, explicit
<1>7. Len(added) \in Nat /\ DOMAIN added = 1..Len(added) /\ \A i \in 1..Len(added) : added[i] \in R
  BY <1>5
<1>8. more \in Seq({more[i] : i \in 1..Len(added)}) /\ Len(more) = Len(added)
  BY <1>7
<1>9. /\ Len(c.options \o more) = Len(c.options) + Len(added) /\ Len(c.options) \in Nat
      /\ \A i \in 1..Len(added) : (c.options \o more)[Len(c.options) + i] = more[i]
  <2> DEFINE Z == X \union {more[i] : i \in 1..Len(added)}
  <2>1. c.options \in Seq(Z) /\ more \in Seq(Z)
    BY <1>1, <1>8, SeqDef
  <2> HIDE DEF Z, more
  <2> QED BY <1>8, <2>1
<1>10. \A i \in 1..Len(added) : [at |-> more[i].at, name |-> more[i].name] = added[i]
  BY <1>2, <1>7
<1> HIDE DEF more
<1>11. (Len(c.options) + Len(added)) - Len(c.options) = Len(added)
  BY <1>7, <1>9
<1>12. DirectoriesOf(c.options \o more, c) = [i \in 1..Len(added) |-> added[i]]
  BY <1>9, <1>10, <1>11 DEF DirectoriesOf
<1>13. [i \in 1..Len(added) |-> added[i]] = added
  BY <1>5
<1> QED BY <1>4, <1>5, <1>6, <1>12, <1>13 DEF explicit

\* What a driver prints is directories.
LEMMA AnswersAreDirectories ==
    ASSUME NEW includes, includes = <<>> \/ IsAnswer(includes)
    PROVE  AreDirectories(includes)
<1>1. CASE includes = <<>>
  <2>1. includes \in Seq({}) /\ \A r \in {} : r = [at |-> r.at, name |-> r.name]
    BY <1>1
  <2> QED BY <2>1 DEF AreDirectories
<1>2. CASE IsAnswer(includes)
  <2>1. PICK call : includes = PrintedBy(call) /\ includes # None
    BY <1>2 DEF IsAnswer, AnswerOf
  <2> DEFINE list == SearchList(call)
             R == {[at |-> call, name |-> n] : n \in {"c++", "c", "c++/target"}}
  <2>2. list \in Seq(R)
    BY DEF SearchList
  <2>3. PICK positions : includes = Picked(list, positions)
    BY <2>1 DEF PrintedBy
  <2>4. \A r \in R : r = [at |-> r.at, name |-> r.name]
    OBVIOUS
  <2> HIDE DEF R, list
  <2>5. includes \in Seq(R)
    BY <2>2, <2>3, PickedMembers
  <2> QED BY <2>4, <2>5 DEF AreDirectories
<1> QED BY <1>1, <1>2

LEMMA AppendedAsMeant ==
    ASSUME NEW d, HasOptions(d.of), Appended(d)
    PROVE  ToSet(DirectoriesOf(d.as.options, CommandBefore(d.of)))
              = ToSet(d.meant) \ explicitIncludePaths(d.of.options)
<1>1. AreDirectories(d.meant) /\ d.as = appendIncludes(CommandBefore(d.of), d.meant)
  BY AnswersAreDirectories DEF Appended
<1>2. PICK before : before = CommandBefore(d.of)
  OBVIOUS
<1>3. HasOptions(before) /\ explicitIncludePaths(before.options) = explicitIncludePaths(d.of.options)
  BY <1>2, BeforeOptions
<1> QED BY <1>1, <1>2, <1>3, DirectoriesAppended

-----------------------------------------------------------------------------
(* Driver probing: who is configured *)

LEMMA CommandsHaveOptions ==
    ASSUME NEW c \in AllCommands PROVE HasOptions(c)
<1>1. PICK p \in PathsOfCommands : c \in ToSet(CommandsFor[p])
  BY DEF AllCommands
<1>2. PICK i \in DOMAIN CommandsFor[p] : c = CommandsFor[p][i]
  BY <1>1 DEF ToSet
<1> DEFINE O == [flag : STRING, at : STRING, name : STRING]
           C == [driver : STRING, directory : STRING, file : [at : STRING, name : STRING], options : Seq(O)]
<1>3. CommandsFor[p] \in Seq(C)
  BY CommandsAssumption DEF PathsOfCommands
<1>4. c \in C
  <2> HIDE DEF C
  <2> QED BY <1>2, <1>3
<1>5. c = [field \in DOMAIN c |-> c[field]] /\ "options" \in DOMAIN c /\ c.options \in Seq(O)
  <2> HIDE DEF O
  <2> QED BY <1>4
<1> QED BY <1>5 DEF HasOptions

\* What a path has is what the selected commands have for it.
LEMMA PathsAnswer ==
    ASSUME NEW path \in PathsOfCommands, ToSet(CommandsFor[path]) # {},
           NEW C \in SUBSET AllCommands, ToSet(CommandsFor[path]) \subseteq C
    PROVE  LET here == commandPath(InvocationDirectory, path)
               logical == {c \in C : SourceOf(c) = here}
               physical == {c \in C : PhysicalOf[SourceOf(c)] = PhysicalOf[here]}
           IN ToSet(CommandsFor[path]) = IF logical # {} THEN logical ELSE physical
<1> DEFINE here == commandPath(InvocationDirectory, path)
           Same(c) == SourceOf(c) = here
           SameFile(c) == PhysicalOf[SourceOf(c)] = PhysicalOf[here]
<1>1. ToSet(CommandsFor[path]) \in {{}, IF {c \in AllCommands : Same(c)} # {} THEN {c \in AllCommands : Same(c)}
                                       ELSE {c \in AllCommands : SameFile(c)}}
  BY CommandsAssumption DEF AllCommands, PathsOfCommands
<1> HIDE DEF Same, SameFile
<1>2. ToSet(CommandsFor[path]) = IF {c \in C : Same(c)} # {} THEN {c \in C : Same(c)} ELSE {c \in C : SameFile(c)}
  BY <1>1
<1> QED BY <1>2 DEF Same, SameFile

LEMMA ConfiguredAll ==
    ASSUME NEW w, AllAppended(w.done), Progress(w), w.at = "configured", NEW n \in DOMAIN w.sources
    PROVE  LET found == Configured(w.done, w.sources[n])
           IN /\ {d.of : d \in ToSet(found)} = ToSet(CommandsFor[w.sources[n]])
              /\ \A j, k \in DOMAIN found : found[j].of = found[k].of => j = k
              /\ ToSet(found) \subseteq ToSet(w.done)
<1> DEFINE all == selectedCommands(w.sources)
           path == w.sources[n]
           here == commandPath(InvocationDirectory, path)
           done == w.done
<1>1. PICK S : done \in Seq(S)
  BY DEF AllAppended
<1>2. w.sources \in Selections /\ all # None /\ w.left = <<>>
  BY DEF Progress
<1>3. /\ all \in Seq(ToSet(all)) /\ Distinct(all)
      /\ ToSet(all) = UNION {ToSet(CommandsFor[w.sources[i]]) : i \in DOMAIN w.sources}
      /\ \A i \in DOMAIN w.sources : ToSet(CommandsFor[w.sources[i]]) # {}
      /\ w.sources \in Seq(PathsOfCommands)
  BY <1>2, SelectedOnce
<1>4. Len(done) = Len(all) /\ \A i \in 1..Len(done) : done[i].of = all[i]
  <2>1. Len(w.left) = 0 /\ Len(w.done) \in Nat /\ Len(w.done) + Len(w.left) = Len(all)
    BY <1>1, <1>2 DEF Progress
  <2>2. Len(w.done) = Len(all)
    BY <2>1
  <2> QED BY <2>2 DEF Progress
<1>5. path \in PathsOfCommands /\ ToSet(CommandsFor[path]) # {} /\ ToSet(CommandsFor[path]) \subseteq ToSet(all)
  BY <1>3
<1>6. ToSet(all) \subseteq AllCommands
  BY <1>3 DEF AllCommands
<1>7. DOMAIN done = DOMAIN all /\ \A i \in DOMAIN done : done[i].of = all[i]
  <2>1. DOMAIN done = 1..Len(done) /\ DOMAIN all = 1..Len(all)
    BY <1>1, <1>3
  <2> QED BY <1>4, <2>1
<1> DEFINE Same(c) == SourceOf(c) = here
           SameFile(c) == PhysicalOf[SourceOf(c)] = PhysicalOf[here]
           logicals == {i \in DOMAIN done : Same(done[i].of)}
           physicals == {i \in DOMAIN done : SameFile(done[i].of)}
           found == Configured(done, path)
<1>8. found = IF Picked(done, logicals) # <<>> THEN Picked(done, logicals) ELSE Picked(done, physicals)
  BY DEF Configured
<1>9. ToSet(CommandsFor[path]) = IF {c \in ToSet(all) : Same(c)} # {} THEN {c \in ToSet(all) : Same(c)}
                                ELSE {c \in ToSet(all) : SameFile(c)}
  <2> HIDE DEF all, path
  <2> QED BY <1>5, <1>6, PathsAnswer
<1> HIDE DEF Same, SameFile, found, all, path, done
<1>10. \A i, j \in DOMAIN done : done[i].of = done[j].of => i = j
  BY <1>3, <1>7 DEF Distinct
<1>11. ASSUME NEW P \in SUBSET DOMAIN done
       PROVE  /\ Picked(done, P) \in Seq(S) /\ ToSet(Picked(done, P)) = {done[i] : i \in P}
              /\ Distinct(Picked(done, P))
              /\ {d.of : d \in ToSet(Picked(done, P))} = {all[i] : i \in P}
              /\ Picked(done, P) = <<>> => P = {}
  <2>1. /\ Picked(done, P) \in Seq(S) /\ ToSet(Picked(done, P)) = {done[i] : i \in P \intersect DOMAIN done}
        /\ Distinct(Picked(done, P))
    BY <1>1, <1>10, PickedMembers
  <2>2. P \intersect DOMAIN done = P
    OBVIOUS
  <2>3. ToSet(<<>>) = {}
    BY DEF ToSet
  <2>4. {d.of : d \in {done[i] : i \in P}} = {all[i] : i \in P}
    BY <1>7
  <2>5. ToSet(Picked(done, P)) = {done[i] : i \in P}
    BY <2>1, <2>2
  <2>6. Picked(done, P) = <<>> => P = {}
    BY <2>3, <2>5
  <2> QED BY <2>1, <2>4, <2>5, <2>6
<1>12. /\ {all[i] : i \in logicals} = {c \in ToSet(all) : Same(c)}
       /\ {all[i] : i \in physicals} = {c \in ToSet(all) : SameFile(c)}
  BY <1>7 DEF ToSet
<1>13. PICK P \in SUBSET DOMAIN done : found = Picked(done, P) /\ {all[i] : i \in P} = ToSet(CommandsFor[path])
  <2>1. logicals \in SUBSET DOMAIN done /\ physicals \in SUBSET DOMAIN done
    OBVIOUS
  <2> HIDE DEF logicals, physicals
  <2>2. CASE logicals = {}
    <3>1. Picked(done, logicals) = <<>>
      <4>1. ToSet(Picked(done, logicals)) = {} /\ Picked(done, logicals) \in Seq(S)
        BY <1>11, <2>1, <2>2
      <4> QED BY <4>1 DEF ToSet
    <3> QED BY <1>8, <1>9, <1>12, <2>1, <2>2, <3>1
  <2>3. CASE logicals # {}
    <3>1. Picked(done, logicals) # <<>>
      BY <1>11, <2>1, <2>3
    <3>2. {c \in ToSet(all) : Same(c)} # {}
      BY <1>12, <2>3
    <3> QED BY <1>8, <1>9, <1>12, <2>1, <3>1, <3>2
  <2> QED BY <2>2, <2>3
<1>14. /\ found \in Seq(S) /\ ToSet(found) = {done[i] : i \in P} /\ Distinct(found)
       /\ {d.of : d \in ToSet(found)} = ToSet(CommandsFor[path])
  BY <1>11, <1>13
<1>15. ASSUME NEW j \in DOMAIN found, NEW k \in DOMAIN found, found[j].of = found[k].of PROVE j = k
  <2>0. found[j] \in {done[i] : i \in P} /\ found[k] \in {done[i] : i \in P}
    <3>1. found[j] \in ToSet(found) /\ found[k] \in ToSet(found)
      BY DEF ToSet
    <3> QED BY <1>14, <3>1
  <2>1. PICK a \in P, b \in P : found[j] = done[a] /\ found[k] = done[b]
    BY <2>0
  <2>2. a = b
    BY <1>10, <1>15, <2>1
  <2> QED BY <1>14, <2>1, <2>2 DEF Distinct
<1>16. ToSet(found) \subseteq ToSet(done)
  BY <1>14 DEF ToSet
<1> QED BY <1>14, <1>15, <1>16 DEF found, path, done

LEMMA ProbedFollows == ASSUME ProbeInv PROVE ProbedAsAnswered
<1> SUFFICES ASSUME NEW t \in Tools, configuring[t].at = "configured", NEW n \in DOMAIN configuring[t].sources
             PROVE  LET found == Configured(configuring[t].done, configuring[t].sources[n])
                    IN /\ {d.of : d \in ToSet(found)} = ToSet(CommandsFor[configuring[t].sources[n]])
                       /\ \A j, k \in DOMAIN found : found[j].of = found[k].of => j = k
                       /\ \A d \in ToSet(found) :
                             ToSet(DirectoriesOf(d.as.options, CommandBefore(d.of)))
                                = ToSet(d.meant) \ explicitIncludePaths(d.of.options)
  BY DEF ProbedAsAnswered
<1> PICK w : w = configuring[t]
  OBVIOUS
<1>1. AllAppended(w.done) /\ Progress(w) /\ w.at = "configured" /\ n \in DOMAIN w.sources
  BY DEF ProbeInv, WorkOK, NoWork
<1> PICK found : found = Configured(w.done, w.sources[n])
  OBVIOUS
<1>2. /\ {d.of : d \in ToSet(found)} = ToSet(CommandsFor[w.sources[n]])
      /\ \A j, k \in DOMAIN found : found[j].of = found[k].of => j = k
      /\ ToSet(found) \subseteq ToSet(w.done)
  BY <1>1, ConfiguredAll, ZenonT(60)
<1>3. ToSet(CommandsFor[w.sources[n]]) \subseteq AllCommands
  <2>1. w.sources \in Seq(PathsOfCommands)
    BY <1>1, SelectedOnce DEF Progress
  <2>2. w.sources[n] \in PathsOfCommands
    BY <1>1, <2>1
  <2> QED BY <2>2 DEF AllCommands
<1>4. ASSUME NEW d \in ToSet(found)
      PROVE  ToSet(DirectoriesOf(d.as.options, CommandBefore(d.of))) = ToSet(d.meant) \ explicitIncludePaths(d.of.options)
  <2>1. HasOptions(d.of)
    BY <1>2, <1>3, CommandsHaveOptions
  <2>2. PICK S : w.done \in Seq(S) /\ \A e \in S : Appended(e)
    BY <1>1 DEF AllAppended
  <2>3. d \in S
    BY <1>2, <2>2 DEF ToSet
  <2> QED BY <2>1, <2>2, <2>3, AppendedAsMeant
<1> QED BY <1>2, <1>4

(* Whoever is configured has for each source the commands that were        *)
(* selected for it, each once, and each with the directories that its      *)
(* driver answered when it was identified and that it does not name        *)
(* itself: whatever is remembered, stored, evicted, replaced, damaged or   *)
(* killed, unless a driver is replaced while it is being asked.            *)
(* (configurePlatformCompilationDatabase, PlatformCompilationDatabase)     *)
THEOREM DriversConfigured ==
    ASSUME ~SwitchedWhileProbing
    PROVE  DriverProbeSpec => []ProbedAsAnswered
<1>1. ProbeInv /\ [DriverProbeNext]_probeVars => ProbeInv'
  BY ProbeNextOK
<1>2. ProbeInv => ProbedAsAnswered
  BY ProbedFollows
<1> QED BY <1>1, <1>2, ProbeInitOK, PTL DEF DriverProbeSpec

-----------------------------------------------------------------------------
(* Call graph search: what it finds *)

\* A search for callees or callers of some roots in a graph, and nothing else.
SearchSpec(g, q) == Begin(g, q) /\ [][SearchNext]_searchVars

GraphOK(g) == \E S : g.edges \in Seq(S)
QueryOK(q) ==
    /\ q.mode \in {"callees", "callers"}
    /\ q.roots \in Seq(Range(q.roots)) /\ q.target = None /\ None \notin Range(q.roots)

\* All that is reached from the roots is in it.
Closed(cs) == Starts \subseteq cs /\ NextContexts(cs) \subseteq cs
Least(cs) == \A ds : Closed(ds) => cs \subseteq ds

(* A search of callees or callers that reports "complete" has found the    *)
(* least set of contexts that is closed under calls from the roots, all    *)
(* their functions and all the calls from those that can be expanded, and  *)
(* nothing else.  (TraversalEngine, SearchBudget)                          *)
CompleteIsLeast ==
    status = "complete" =>
        \E cs : /\ Closed(cs) /\ Least(cs)
                /\ result.nodes = NodesOf(cs)
                /\ result.edges = UNION {Onward(c) : c \in {x \in cs : Expands(x)}}

\* The frontier says that the depth limit cut the search at the function of a context.
IsCut(c, r) == <<c.node, "max_depth">> \in r.frontier

(* What only the depth limit kept from the result lies behind a function   *)
(* that the frontier names: whatever is closed under calls from those cuts *)
(* completes what was found.  (TraversalEngine::walk)                      *)
RestIsBehindCuts ==
    status = "truncated" /\ result.reason = "max_depth" =>
        \E cs : /\ Least(cs) /\ NodesOf(cs) \subseteq result.nodes
                /\ \A ds : NextContexts(ds) \subseteq ds /\ {c \in cs : IsCut(c, result)} \subseteq ds
                             => Closed(cs \cup ds)

(* A search leaves nothing out without saying so, and finds nothing that   *)
(* is not there: sharing of contexts, cycles, scopes, budgets and          *)
(* interruptions hide nothing behind a status.  (call graph traversal)     *)
FindsAll == CompleteIsLeast /\ RestIsBehindCuts

-----------------------------------------------------------------------------
(* Call graph search: the invariant *)

Frames(ex) ==
    [ctx : ex, depth : Nat, path : {<<>>} \cup {<<c.node>> : c \in ex}, on : SUBSET ex,
     rest : SUBSET DOMAIN graph.edges]

IsResult(r) ==
    /\ r = [field \in DOMAIN r |-> r[field]]
    /\ DOMAIN r = {"nodes", "keys", "edges", "paths", "frontier", "reason", "excluded"}
    /\ r.reason = None <=> r.frontier = {}
    /\ r.paths = {}

Formed(td, st, ex, r) ==
    /\ td \in Seq(Range(query.roots)) /\ IsResult(r)
    /\ st \in Seq(Frames(ex))
    /\ \A k \in DOMAIN st : st[k].rest \subseteq Leaving(st[k].ctx)

\* Nothing was found that is not to be found.
Sound(ex, r) ==
    /\ Least(ex) /\ \A c \in ex : Expands(c) /\ c.node \in r.nodes
    /\ \A n \in r.nodes : n \in NodesOf(ex \cup NextContexts(ex))
    /\ \A e \in r.edges : \E c \in ex : e \in Onward(c)

\* An edge was followed, or a frame will follow it.
Settled(c, i, ex, r) ==
    LET e == graph.edges[i]
    IN /\ e \in r.edges /\ Far(e) \in r.nodes
       /\ \/ Entered(e, c) \in ex \/ Boundary(Far(e)) \/ IsCut(Entered(e, c), r)
ToFollow(c, i, st) == \E k \in DOMAIN st : st[k].ctx = c /\ i \in st[k].rest
Whole(td, st, ex, r) ==
    ~Spent(r) =>
      /\ \A c \in Starts : c \in ex \/ c.node \in Range(td)
      /\ \A c \in ex : \A i \in Leaving(c) :
            InScope(Far(graph.edges[i])) => Settled(c, i, ex, r) \/ ToFollow(c, i, st)

Ended(td, st, r, s) ==
    /\ s # None => td = <<>> /\ st = <<>>
    /\ s = "complete" => r.frontier = {}

SearchOK(td, st, ex, r, s, stop) ==
    /\ Formed(td, st, ex, r) /\ Sound(ex, r) /\ Whole(td, st, ex, r) /\ Ended(td, st, r, s)
    /\ stop \in {None, "cancelled", "time_limit"}

SearchInv ==
    /\ GraphOK(graph) /\ QueryOK(query) /\ queue = <<>>
    /\ SearchOK(todo, stack, expanded, result, status, interrupt)

-----------------------------------------------------------------------------
(* Call graph search: one lemma for each action *)

LEMMA SearchGoesOn ==
    ASSUME SearchInv, UNCHANGED <<graph, query, queue>>,
           SearchOK(todo', stack', expanded', result', status', interrupt')
    PROVE  SearchInv'
<1>1. PICK td, st, ex, r, s, stop : /\ td = todo' /\ st = stack' /\ ex = expanded'
                                    /\ r = result' /\ s = status' /\ stop = interrupt'
  OBVIOUS
<1>2. SearchOK(td, st, ex, r, s, stop)
  BY <1>1
<1>3. Formed(td, st, ex, r)'
  BY <1>2 DEF SearchOK, Formed, Frames, Leaving, Matches, Backwards, IsResult
<1>4. \A c : Onward(c)' = Onward(c) /\ (Expands(c) <=> Expands(c)')
  BY DEF Onward, EdgesOf, Leaving, Matches, Backwards, InScope, Far, Expands, Starts, Boundary
<1>5. \A cs : NextContexts(cs)' = NextContexts(cs)
  <2>1. \A c, e : Entered(e, c)' = Entered(e, c)
    BY DEF Entered, Backwards
  <2>2. ASSUME NEW cs PROVE NextContexts(cs)' = NextContexts(cs)
    <3>1. {x \in cs : Expands(x)}' = {x \in cs : Expands(x)}
      BY <1>4
    <3>2. \A c : {Entered(e, c) : e \in Onward(c)}' = {Entered(e, c) : e \in Onward(c)}
      BY <1>4, <2>1
    <3> QED BY <3>1, <3>2 DEF NextContexts
  <2> QED BY <2>2
<1>6. Least(ex)'
  BY <1>2, <1>5 DEF SearchOK, Sound, Least, Closed, Starts, InScope
<1>7. Sound(ex, r)'
  BY <1>2, <1>4, <1>5, <1>6 DEF SearchOK, Sound, NodesOf
<1>8. Whole(td, st, ex, r)'
  BY <1>2 DEF SearchOK, Whole, Settled, ToFollow, Starts, InScope, Leaving, Matches, Backwards, Far, Entered, Boundary
<1>9. SearchOK(td, st, ex, r, s, stop)'
  BY <1>2, <1>3, <1>7, <1>8 DEF SearchOK, Ended
<1> QED BY <1>1, <1>9 DEF SearchInv, GraphOK, QueryOK

LEMMA Truncating ==
    ASSUME NEW r, IsResult(r), NEW n, NEW why, why # None
    PROVE  LET t == Truncate(r, n, why)
           IN /\ IsResult(t) /\ t.nodes = r.nodes /\ t.edges = r.edges /\ t.keys = r.keys
              /\ t.frontier = r.frontier \cup {<<n, why>>}
              /\ why # "max_depth" => Spent(t)
              /\ Spent(r) => Spent(t)
BY SearchAssumption DEF Truncate, IsResult, Spent

LEMMA Admitting ==
    ASSUME NEW r, IsResult(r), NEW n, NEW keys
    PROVE  LET t == Admit(r, n, keys)
           IN IsResult(t) /\ t.nodes = r.nodes \cup {n} /\ t.edges = r.edges
              /\ t.frontier = r.frontier /\ t.reason = r.reason
BY DEF Admit, IsResult

LEMMA Excluding ==
    ASSUME NEW r, IsResult(r), NEW n
    PROVE  LET t == [r EXCEPT !.excluded = @ \cup {n}]
           IN IsResult(t) /\ t.nodes = r.nodes /\ t.edges = r.edges /\ t.frontier = r.frontier /\ t.reason = r.reason
BY DEF IsResult

\* Whoever stops says why.
LEMMA Stopping ==
    ASSUME SearchInv, Stops, NEW n
    PROVE  /\ LET t == Truncate(result, n, StopReason)
              IN IsResult(t) /\ t.nodes = result.nodes /\ t.edges = result.edges /\ Spent(t)
           /\ LET t == StopAt(n)
              IN IsResult(t) /\ t.nodes = result.nodes /\ t.edges = result.edges /\ Spent(t)
<1>1. IsResult(result) /\ interrupt \in {None, "cancelled", "time_limit"}
  BY DEF SearchInv, SearchOK, Formed
<1>2. StopReason \notin {None, "max_depth"}
  BY <1>1, SearchAssumption DEF Stops, StopReason, Spent
<1> DEFINE t == Truncate(result, n, StopReason)
<1>3. IsResult(t) /\ t.nodes = result.nodes /\ t.edges = result.edges /\ Spent(t)
  BY <1>1, <1>2, Truncating
<1>4. (StopAt(n) = result /\ Spent(result)) \/ StopAt(n) = t
  BY DEF StopAt
<1> QED BY <1>1, <1>3, <1>4

LEMMA Refusing ==
    ASSUME SearchInv, NEW n, NEW m, NEW keys, Refusal(m, keys) # None
    PROVE  LET t == Truncate(result, n, Refusal(m, keys))
           IN IsResult(t) /\ t.nodes = result.nodes /\ t.edges = result.edges /\ Spent(t)
<1>1. IsResult(result)
  BY DEF SearchInv, SearchOK, Formed
<1>2. Refusal(m, keys) \in {"max_nodes", "max_edges"}
  BY DEF Refusal
<1> QED BY <1>1, <1>2, Truncating, SearchAssumption

LEMMA SoundStays ==
    ASSUME NEW ex, NEW r, NEW t, Sound(ex, r), t.nodes = r.nodes, t.edges = r.edges
    PROVE  Sound(ex, t)
BY DEF Sound

\* A step that stops a branch of the search ends its claim to be whole.
LEMMA CutShort ==
    ASSUME SearchInv, status = None, UNCHANGED <<graph, query, interrupt, queue, expanded, status>>,
           NEW t, result' = t, IsResult(t), t.nodes = result.nodes, t.edges = result.edges, Spent(t),
           todo' \in Seq(Range(query.roots)),
           stack' \in Seq(Frames(expanded)), \A k \in DOMAIN stack' : stack'[k].rest \subseteq Leaving(stack'[k].ctx)
    PROVE  SearchInv'
<1>1. PICK td, st : td = todo' /\ st = stack'
  OBVIOUS
<1>2. Formed(td, st, expanded, t)
  BY <1>1 DEF Formed
<1>3. Sound(expanded, t)
  BY SoundStays DEF SearchInv, SearchOK
<1>4. Whole(td, st, expanded, t) /\ Ended(td, st, t, status)
  BY SearchAssumption DEF Whole, Ended
<1>5. SearchOK(td, st, expanded, t, status, interrupt)
  BY <1>2, <1>3, <1>4 DEF SearchInv, SearchOK
<1> QED BY <1>1, <1>5, SearchGoesOn

LEMMA TailOfRoots ==
    ASSUME SearchInv, todo # <<>>
    PROVE  /\ Tail(todo) \in Seq(Range(query.roots)) /\ Head(todo) \in Range(query.roots)
           /\ Range(todo) \subseteq {Head(todo)} \cup Range(Tail(todo))
<1>1. todo \in Seq(Range(query.roots))
  BY DEF SearchInv, SearchOK, Formed
<1>2. Tail(todo) \in Seq(Range(query.roots)) /\ Head(todo) \in Range(query.roots)
  BY <1>1
<1>3. ASSUME NEW k \in DOMAIN todo PROVE todo[k] \in {Head(todo)} \cup Range(Tail(todo))
  <2>1. CASE k = 1
    BY <2>1
  <2>2. CASE k # 1
    <3>1. k - 1 \in DOMAIN Tail(todo) /\ Tail(todo)[k - 1] = todo[k]
      BY <1>1, <2>2
    <3> QED BY <3>1 DEF Range
  <2> QED BY <2>1, <2>2
<1> QED BY <1>2, <1>3 DEF Range

\* What is known of a frame at the top.
LEMMA TopFrame ==
    ASSUME SearchInv, stack # <<>>
    PROVE  /\ status = None
           /\ Top \in Frames(expanded) /\ Top.rest \subseteq Leaving(Top.ctx)
           /\ Below \in Seq(Frames(expanded)) /\ \A k \in DOMAIN Below : Below[k].rest \subseteq Leaving(Below[k].ctx)
           /\ \A c, i : ToFollow(c, i, stack) => ToFollow(c, i, Below) \/ (c = Top.ctx /\ i \in Top.rest)
<1>1. stack \in Seq(Frames(expanded)) /\ \A k \in DOMAIN stack : stack[k].rest \subseteq Leaving(stack[k].ctx)
  BY DEF SearchInv, SearchOK, Formed
<1>2. Len(stack) \in Nat /\ Len(stack) > 0 /\ Top = stack[1] /\ 1 \in DOMAIN stack
  BY <1>1 DEF Top
<1>3. /\ Below \in Seq(Frames(expanded)) /\ DOMAIN Below = 1..(Len(stack) - 1)
      /\ \A k \in DOMAIN Below : k + 1 \in DOMAIN stack /\ Below[k] = stack[k + 1]
  BY <1>1 DEF Below
<1>4. ASSUME NEW c, NEW i, ToFollow(c, i, stack)
      PROVE  ToFollow(c, i, Below) \/ (c = Top.ctx /\ i \in Top.rest)
  <2>1. PICK k \in DOMAIN stack : stack[k].ctx = c /\ i \in stack[k].rest
    BY <1>4 DEF ToFollow
  <2>2. CASE k = 1
    BY <1>2, <2>1, <2>2
  <2>3. CASE k # 1
    <3>1. k - 1 \in DOMAIN Below /\ (k - 1) + 1 = k
      BY <1>1, <1>2, <1>3, <2>3
    <3>2. Below[k - 1] = stack[k]
      BY <1>3, <3>1
    <3> QED BY <2>1, <3>1, <3>2 DEF ToFollow
  <2> QED BY <2>2, <2>3
<1>5. status = None
  BY DEF SearchInv, SearchOK, Ended
<1>6. Top \in Frames(expanded) /\ Top.rest \subseteq Leaving(Top.ctx)
  BY <1>1, <1>2
<1>7. \A k \in DOMAIN Below : Below[k].rest \subseteq Leaving(Below[k].ctx)
  BY <1>1, <1>3
<1> HIDE DEF Top, Below
<1> QED BY <1>3, <1>4, <1>5, <1>6, <1>7

\* A frame on a stack.
LEMMA Pushing ==
    ASSUME NEW ex, NEW f \in Frames(ex), f.rest \subseteq Leaving(f.ctx), NEW st \in Seq(Frames(ex)),
           \A k \in DOMAIN st : st[k].rest \subseteq Leaving(st[k].ctx), NEW pushed, pushed = <<f>> \o st
    PROVE  /\ pushed \in Seq(Frames(ex)) /\ \A k \in DOMAIN pushed : pushed[k].rest \subseteq Leaving(pushed[k].ctx)
           /\ \A c, i : ToFollow(c, i, pushed) <=> (c = f.ctx /\ i \in f.rest) \/ ToFollow(c, i, st)
<1>1. /\ pushed \in Seq(Frames(ex)) /\ DOMAIN pushed = 1..(Len(st) + 1) /\ DOMAIN st = 1..Len(st)
      /\ pushed[1] = f /\ \A k \in 1..Len(st) : pushed[k + 1] = st[k]
  OBVIOUS
<1>2. \A k \in DOMAIN pushed : k = 1 \/ (k - 1 \in DOMAIN st /\ pushed[k] = st[k - 1])
  <2>1. Len(st) \in Nat
    OBVIOUS
  <2> QED BY <1>1, <2>1
<1>3. \A k \in DOMAIN st : k + 1 \in DOMAIN pushed /\ pushed[k + 1] = st[k]
  <2>1. Len(st) \in Nat
    OBVIOUS
  <2> QED BY <1>1, <2>1
<1>4. \A k \in DOMAIN pushed : pushed[k].rest \subseteq Leaving(pushed[k].ctx)
  BY <1>1, <1>2
<1>5. ASSUME NEW c, NEW i, ToFollow(c, i, pushed) PROVE (c = f.ctx /\ i \in f.rest) \/ ToFollow(c, i, st)
  BY <1>1, <1>2, <1>5 DEF ToFollow
<1>6. ASSUME NEW c, NEW i, (c = f.ctx /\ i \in f.rest) \/ ToFollow(c, i, st) PROVE ToFollow(c, i, pushed)
  <2>1. CASE c = f.ctx /\ i \in f.rest
    <3>1. 1 \in DOMAIN pushed
      BY <1>1
    <3> QED BY <1>1, <2>1, <3>1 DEF ToFollow
  <2>2. CASE ToFollow(c, i, st)
    BY <1>3, <2>2 DEF ToFollow
  <2> QED BY <1>6, <2>1, <2>2
<1> QED BY <1>1, <1>4, <1>5, <1>6

LEMMA StoppedStep == ASSUME SearchInv, Walking, Stopped PROVE SearchInv'
<1>1. stack # <<>>
  BY DEF Stopped, Looking
<1>2. todo \in Seq(Range(query.roots))
  BY DEF SearchInv, SearchOK, Formed
<1> DEFINE t == StopAt(Top.ctx.node)
<1>3. IsResult(t) /\ t.nodes = result.nodes /\ t.edges = result.edges /\ Spent(t)
  BY Stopping DEF Stopped
<1> HIDE DEF t
<1> QED BY <1>1, <1>2, <1>3, TopFrame, CutShort DEF Stopped, t

LEMMA RefuseStep == ASSUME SearchInv, Walking, Refuse PROVE SearchInv'
<1>1. stack # <<>>
  BY DEF Refuse, Looking
<1>2. todo \in Seq(Range(query.roots))
  BY DEF SearchInv, SearchOK, Formed
<1> DEFINE t == Truncate(result, Far(Edge), Refusal(Far(Edge), {Key(Edge)}))
<1>3. IsResult(t) /\ t.nodes = result.nodes /\ t.edges = result.edges /\ Spent(t)
  BY Refusing DEF Refuse
<1> HIDE DEF t
<1> QED BY <1>1, <1>2, <1>3, TopFrame, CutShort DEF Refuse, t

\* The next edge is the first one that is left.
LEMMA NextEdge ==
    ASSUME SearchInv, Looking
    PROVE  /\ NextPosition \in Top.rest /\ NextPosition \in Leaving(Top.ctx)
           /\ Later \in Seq(Frames(expanded)) /\ \A k \in DOMAIN Later : Later[k].rest \subseteq Leaving(Later[k].ctx)
           /\ \A c, i : ToFollow(c, i, stack) => ToFollow(c, i, Later) \/ (c = Top.ctx /\ i = NextPosition)
<1>1. stack # <<>> /\ Top.rest # {}
  BY DEF Looking
<1>2. Top \in Frames(expanded) /\ Top.rest \subseteq Leaving(Top.ctx)
  BY <1>1, TopFrame
<1>3. NextPosition \in Top.rest
  <2>1. DOMAIN graph.edges \subseteq Nat
    BY DEF SearchInv, GraphOK
  <2>2. Top.rest \subseteq Nat
    BY <1>2, <2>1 DEF Frames
  <2>3. \E i \in Top.rest : \A j \in Top.rest : i <= j
    BY <1>1, <2>2, LeastPosition
  <2> QED BY <2>3 DEF NextPosition
<1> DEFINE f == [Top EXCEPT !.rest = @ \ {NextPosition}]
<1>4. f \in Frames(expanded) /\ f.ctx = Top.ctx /\ f.rest = Top.rest \ {NextPosition}
  BY <1>2 DEF Frames
<1>5. Below \in Seq(Frames(expanded)) /\ \A k \in DOMAIN Below : Below[k].rest \subseteq Leaving(Below[k].ctx)
  BY <1>1, TopFrame
<1>6. Later = <<f>> \o Below
  BY DEF Later
<1> HIDE DEF f, Below, Later
<1>7. /\ Later \in Seq(Frames(expanded)) /\ \A k \in DOMAIN Later : Later[k].rest \subseteq Leaving(Later[k].ctx)
      /\ \A c, i : ToFollow(c, i, Later) <=> (c = f.ctx /\ i \in f.rest) \/ ToFollow(c, i, Below)
  BY <1>2, <1>4, <1>5, <1>6, Pushing
<1> QED BY <1>1, <1>2, <1>3, <1>4, <1>7, TopFrame

LEMMA ExcludeStep == ASSUME SearchInv, Walking, Exclude PROVE SearchInv'
<1>1. Looking /\ ~InScope(Far(Edge)) /\ status = None
  BY TopFrame DEF Exclude, Looking
<1> DEFINE t == [result EXCEPT !.excluded = @ \cup {Far(Edge)}]
<1>2. IsResult(t) /\ t.nodes = result.nodes /\ t.edges = result.edges /\ t.frontier = result.frontier
      /\ t.reason = result.reason
  BY Excluding DEF SearchInv, SearchOK, Formed
<1>3. result' = t /\ stack' = Later /\ UNCHANGED <<graph, query, interrupt, todo, queue, expanded, status>>
  BY DEF Exclude
<1> HIDE DEF t
<1>4. PICK st : st = Later
  OBVIOUS
<1>5. Formed(todo, st, expanded, t)
  BY <1>1, <1>2, <1>4, NextEdge DEF SearchInv, SearchOK, Formed
<1>6. Sound(expanded, t)
  BY <1>2, SoundStays DEF SearchInv, SearchOK
<1>7. Whole(todo, st, expanded, t)
  <2>1. SUFFICES ASSUME ~Spent(t), NEW c \in expanded, NEW i \in Leaving(c), InScope(Far(graph.edges[i]))
                 PROVE  Settled(c, i, expanded, t) \/ ToFollow(c, i, st)
    BY <1>2 DEF Whole, SearchInv, SearchOK, Spent
  <2>2. Settled(c, i, expanded, result) \/ ToFollow(c, i, stack)
    BY <1>2, <2>1 DEF Whole, SearchInv, SearchOK, Spent
  <2>3. Settled(c, i, expanded, result) => Settled(c, i, expanded, t)
    BY <1>2 DEF Settled, IsCut
  <2>4. i # NextPosition
    BY <1>1, <2>1 DEF Edge
  <2> QED BY <1>1, <1>4, <2>2, <2>3, <2>4, NextEdge
<1>8. Ended(todo, st, t, status)
  BY <1>1, SearchAssumption DEF Ended
<1>9. SearchOK(todo, st, expanded, t, status, interrupt)
  BY <1>5, <1>6, <1>7, <1>8 DEF SearchInv, SearchOK
<1> QED BY <1>3, <1>4, <1>9, SearchGoesOn

LEMMA ReturnStep == ASSUME SearchInv, Walking, Return PROVE SearchInv'
<1>1. stack # <<>> /\ Top.rest = {}
  BY DEF Return
<1>2. todo \in Seq(Range(query.roots))
  BY DEF SearchInv, SearchOK, Formed
<1>3. CASE result' = result
  <2>1. PICK st : st = Below
    OBVIOUS
  <2>2. st \in Seq(Frames(expanded)) /\ (\A k \in DOMAIN st : st[k].rest \subseteq Leaving(st[k].ctx))
        /\ (\A c, i : ToFollow(c, i, stack) => ToFollow(c, i, st)) /\ status = None
    BY <1>1, <2>1, TopFrame
  <2>3. SearchOK(todo, st, expanded, result, status, interrupt)
    BY <2>2, SearchAssumption DEF SearchInv, SearchOK, Formed, Whole, Ended
  <2> QED BY <1>3, <2>1, <2>3, SearchGoesOn DEF Return
<1>4. CASE Stops /\ result' = StopAt(Top.ctx.node)
  <2> DEFINE t == StopAt(Top.ctx.node)
  <2>1. IsResult(t) /\ t.nodes = result.nodes /\ t.edges = result.edges /\ Spent(t)
    BY <1>4, Stopping
  <2> HIDE DEF t
  <2> QED BY <1>1, <1>2, <1>4, <2>1, TopFrame, CutShort DEF Return, t
<1> QED BY <1>3, <1>4 DEF Return

LEMMA FinishStep == ASSUME SearchInv, Walking, Finish PROVE SearchInv'
<1>1. result' = result
  BY DEF Finish, Retained, SearchInv, SearchOK, Formed, IsResult
<1>2. PICK s : s = status'
  OBVIOUS
<1>3. Ended(todo, stack, result, s)
  BY <1>2, SearchAssumption DEF Finish, Idle, Ended
<1> QED BY <1>1, <1>2, <1>3, SearchGoesOn DEF Finish, SearchInv, SearchOK

LEMMA InterruptStep == ASSUME SearchInv, Interrupt PROVE SearchInv'
<1>1. PICK stop : stop = interrupt'
  OBVIOUS
<1> QED BY <1>1, SearchGoesOn DEF Interrupt, SearchInv, SearchOK

LEMMA SeqWidens ==
    ASSUME NEW S, NEW T, S \subseteq T, NEW s \in Seq(S) PROVE s \in Seq(T)
OBVIOUS

LEMMA StartRootStep == ASSUME SearchInv, Walking, StartRoot PROVE SearchInv'
<1> DEFINE n == Head(todo)
<1> DEFINE x == Anywhere(n)
<1>1. /\ todo # <<>> /\ todo' = Tail(todo) /\ stack = <<>> /\ status = None
      /\ UNCHANGED <<graph, query, interrupt, queue, status>>
  BY DEF StartRoot, Idle
<1>2. /\ Tail(todo) \in Seq(Range(query.roots)) /\ n \in Range(query.roots)
      /\ Range(todo) \subseteq {n} \cup Range(Tail(todo))
  BY <1>1, TailOfRoots
<1>3. IsResult(result) /\ <<>> \in Seq(Frames(expanded))
  BY <1>1 DEF SearchInv, SearchOK, Formed
<1>4. CASE ~InScope(n) /\ result' = [result EXCEPT !.excluded = @ \cup {n}] /\ UNCHANGED <<stack, expanded>>
  <2> DEFINE t == [result EXCEPT !.excluded = @ \cup {n}]
  <2>1. IsResult(t) /\ t.nodes = result.nodes /\ t.edges = result.edges /\ t.frontier = result.frontier
        /\ t.reason = result.reason
    BY <1>3, Excluding
  <2> HIDE DEF t
  <2>2. PICK td : td = Tail(todo)
    OBVIOUS
  <2>3. Sound(expanded, t)
    BY <2>1, SoundStays DEF SearchInv, SearchOK
  <2>4. \A c \in Starts : c.node \in Range(todo) => c.node \in Range(td)
    BY <1>2, <1>4, <2>2 DEF Starts, Anywhere, Context
  <2>5. Whole(td, stack, expanded, t)
    BY <2>1, <2>4 DEF SearchInv, SearchOK, Whole, Settled, IsCut, Spent
  <2>6. Formed(td, stack, expanded, t) /\ Ended(td, stack, t, status)
    BY <1>1, <1>2, <2>1, <2>2, SearchAssumption DEF SearchInv, SearchOK, Formed, Ended
  <2>7. SearchOK(td, stack, expanded, t, status, interrupt)
    BY <2>3, <2>5, <2>6 DEF SearchInv, SearchOK
  <2> QED BY <1>1, <1>4, <2>2, <2>7, SearchGoesOn DEF t
<1>5. CASE InScope(n) /\ Stops /\ result' = Truncate(result, n, StopReason) /\ UNCHANGED <<stack, expanded>>
  <2> DEFINE t == Truncate(result, n, StopReason)
  <2>1. IsResult(t) /\ t.nodes = result.nodes /\ t.edges = result.edges /\ Spent(t)
    BY <1>5, Stopping
  <2> HIDE DEF t
  <2> QED BY <1>1, <1>2, <1>3, <1>5, <2>1, CutShort DEF t
<1>6. CASE Refusal(n, {}) # None /\ result' = Truncate(result, n, Refusal(n, {})) /\ UNCHANGED <<stack, expanded>>
  <2> DEFINE t == Truncate(result, n, Refusal(n, {}))
  <2>1. IsResult(t) /\ t.nodes = result.nodes /\ t.edges = result.edges /\ Spent(t)
    BY <1>6, Refusing
  <2> HIDE DEF t
  <2> QED BY <1>1, <1>2, <1>3, <1>6, <2>1, CutShort DEF t
<1>7. n # query.target
  BY <1>2 DEF SearchInv, QueryOK
<1>8. CASE InScope(n) /\ result' = Admit(result, n, {}) /\ stack' = <<FirstFrame(n)>> /\ expanded' = expanded \cup {x}
  <2> DEFINE t == Admit(result, n, {})
  <2>1. IsResult(t) /\ t.nodes = result.nodes \cup {n} /\ t.edges = result.edges /\ t.frontier = result.frontier
        /\ t.reason = result.reason
    BY <1>3, Admitting
  <2>2. x \in Starts /\ x.node = n
    BY <1>2, <1>8 DEF Starts, Anywhere, Context
  <2> DEFINE f == FirstFrame(n)
  <2>3. f \in Frames(expanded \cup {x}) /\ f.ctx = x /\ f.rest = Leaving(x)
    BY <2>2 DEF FirstFrame, Frames, Leaving
  <2> HIDE DEF t, f, x
  <2>4. PICK td, st, ex : td = Tail(todo) /\ st = <<f>> /\ ex = expanded \cup {x}
    OBVIOUS
  <2>5. Formed(td, st, ex, t)
    BY <1>2, <2>1, <2>3, <2>4 DEF Formed
  <2>6. Sound(ex, t)
    <3>1. Least(ex)
      BY <2>2, <2>4 DEF SearchInv, SearchOK, Sound, Least, Closed
    <3>2. \A c \in ex : Expands(c) /\ c.node \in t.nodes
      BY <2>1, <2>2, <2>4 DEF SearchInv, SearchOK, Sound, Expands
    <3>3. NextContexts(expanded) \subseteq NextContexts(ex)
      BY <2>4 DEF NextContexts
    <3>4. \A m \in t.nodes : m \in NodesOf(ex \cup NextContexts(ex))
      BY <2>1, <2>2, <2>4, <3>3 DEF SearchInv, SearchOK, Sound, NodesOf
    <3>5. \A e \in t.edges : \E c \in ex : e \in Onward(c)
      BY <2>1, <2>4 DEF SearchInv, SearchOK, Sound
    <3> QED BY <3>1, <3>2, <3>4, <3>5 DEF Sound
  <2>7. Whole(td, st, ex, t)
    <3>1. SUFFICES ASSUME ~Spent(t)
                   PROVE  /\ \A c \in Starts : c \in ex \/ c.node \in Range(td)
                          /\ \A c \in ex : \A i \in Leaving(c) :
                                InScope(Far(graph.edges[i])) => Settled(c, i, ex, t) \/ ToFollow(c, i, st)
      BY DEF Whole
    <3>2. ~Spent(result)
      BY <2>1, <3>1 DEF Spent
    <3>3. ASSUME NEW c \in Starts PROVE c \in ex \/ c.node \in Range(td)
      <4>1. c = Anywhere(c.node)
        BY DEF Starts, Anywhere, Context
      <4>2. c \in expanded \/ c.node \in Range(todo)
        BY <3>2 DEF SearchInv, SearchOK, Whole
      <4> QED BY <1>2, <2>4, <4>1, <4>2 DEF x
    <3>4. ASSUME NEW c \in ex, NEW i \in Leaving(c), InScope(Far(graph.edges[i]))
          PROVE  Settled(c, i, ex, t) \/ ToFollow(c, i, st)
      <4>1. CASE c = x
        <5>1. 1 \in DOMAIN st /\ st[1] = f
          BY <2>4
        <5> QED BY <2>3, <3>4, <4>1, <5>1 DEF ToFollow
      <4>2. CASE c \in expanded
        <5>1. Settled(c, i, expanded, result) \/ ToFollow(c, i, stack)
          BY <3>2, <3>4, <4>2 DEF SearchInv, SearchOK, Whole
        <5>2. ~ToFollow(c, i, stack)
          BY <1>1 DEF ToFollow
        <5>3. Settled(c, i, ex, t)
          BY <2>1, <2>4, <5>1, <5>2 DEF Settled, IsCut
        <5> QED BY <5>3
      <4> QED BY <2>4, <4>1, <4>2
    <3> QED BY <3>3, <3>4
  <2>8. SearchOK(td, st, ex, t, status, interrupt)
    BY <1>1, <2>5, <2>6, <2>7, SearchAssumption DEF SearchInv, SearchOK, Ended
  <2>9. td = todo' /\ st = stack' /\ ex = expanded' /\ t = result'
    BY <1>1, <1>8, <2>4 DEF t, f
  <2> QED BY <1>1, <2>8, <2>9, SearchGoesOn
<1> QED BY <1>4, <1>5, <1>6, <1>7, <1>8 DEF StartRoot

LEMMA FoundEdge ==
    ASSUME SearchInv
    PROVE  /\ IsResult(Found) /\ Found.nodes = result.nodes \cup {Far(Edge)} /\ Found.edges = result.edges \cup {Edge}
           /\ Found.frontier = result.frontier /\ Found.reason = result.reason
<1> DEFINE a == Admit(result, Far(Edge), {Key(Edge)})
<1>1. IsResult(a) /\ a.nodes = result.nodes \cup {Far(Edge)} /\ a.edges = result.edges
      /\ a.frontier = result.frontier /\ a.reason = result.reason
  BY Admitting DEF SearchInv, SearchOK, Formed
<1>2. Found = [a EXCEPT !.edges = @ \cup {Edge}]
  BY DEF Found
<1> HIDE DEF a
<1> QED BY <1>1, <1>2 DEF IsResult

\* The context that an edge leads to.
LEMMA EdgeLeadsOn ==
    ASSUME SearchInv, Admissible
    PROVE  LET c == Entered(Edge, Top.ctx)
           IN /\ Top.ctx \in expanded /\ Edge \in Onward(Top.ctx) /\ c.node = Far(Edge)
              /\ c \in NextContexts(expanded) /\ \A ds : Closed(ds) => c \in ds
<1> DEFINE c == Entered(Edge, Top.ctx)
<1>1. Looking /\ InScope(Far(Edge)) /\ stack # <<>>
  BY DEF Admissible, Looking
<1>2. Top.ctx \in expanded /\ NextPosition \in Leaving(Top.ctx)
  BY <1>1, TopFrame, NextEdge DEF Frames
<1>3. Edge \in Onward(Top.ctx)
  BY <1>1, <1>2 DEF Edge, Onward, EdgesOf
<1>4. c.node = Far(Edge)
  BY DEF Entered, Far, Anywhere, Context, Descend
<1>5. Least(expanded) /\ Expands(Top.ctx)
  BY <1>2 DEF SearchInv, SearchOK, Sound
<1>6. \A cs : Top.ctx \in cs => c \in NextContexts(cs)
  BY <1>3, <1>5 DEF NextContexts
<1> HIDE DEF c
<1>7. \A ds : Closed(ds) => c \in ds
  BY <1>2, <1>5, <1>6 DEF Least, Closed
<1> QED BY <1>2, <1>3, <1>4, <1>6, <1>7 DEF c

\* What was found by following the edge belongs to the result.
LEMMA FollowedIsSound ==
    ASSUME SearchInv, Admissible, NEW t, t.nodes = Found.nodes, t.edges = Found.edges,
           NEW ex, expanded \subseteq ex, ex \subseteq expanded \cup {Entered(Edge, Top.ctx)},
           ex # expanded => ~Boundary(Entered(Edge, Top.ctx).node)
    PROVE  Sound(ex, t)
<1>1. PICK c : c = Entered(Edge, Top.ctx)
  OBVIOUS
<1>2. /\ Top.ctx \in expanded /\ Edge \in Onward(Top.ctx) /\ c.node = Far(Edge)
      /\ c \in NextContexts(expanded) /\ \A ds : Closed(ds) => c \in ds
  BY <1>1, EdgeLeadsOn
<1>3. t.nodes = result.nodes \cup {c.node} /\ t.edges = result.edges \cup {Edge}
  BY <1>2, FoundEdge
<1>4. Sound(expanded, result)
  BY DEF SearchInv, SearchOK
<1>5. Least(ex)
  BY <1>1, <1>2, <1>4 DEF Sound, Least
<1>6. \A d \in ex : Expands(d) /\ d.node \in t.nodes
  <2>1. ASSUME NEW d \in ex, d \notin expanded PROVE Expands(d) /\ d.node \in t.nodes
    BY <1>1, <1>3, <2>1 DEF Expands
  <2> QED BY <1>3, <1>4, <2>1 DEF Sound
<1>7. NextContexts(expanded) \subseteq NextContexts(ex)
  BY DEF NextContexts
<1>8. \A m \in t.nodes : m \in NodesOf(ex \cup NextContexts(ex))
  <2>1. c.node \in NodesOf(ex \cup NextContexts(ex))
    BY <1>2, <1>7 DEF NodesOf
  <2> QED BY <1>3, <1>4, <1>7, <2>1 DEF Sound, NodesOf
<1>9. \A e \in t.edges : \E d \in ex : e \in Onward(d)
  BY <1>2, <1>3, <1>4 DEF Sound
<1> QED BY <1>5, <1>6, <1>8, <1>9 DEF Sound

\* The edge was followed; its context is known, has no body, is cut or is entered.
LEMMA FollowedIsWhole ==
    ASSUME SearchInv, Admissible, NEW t, t.nodes = Found.nodes, t.edges = Found.edges,
           result.frontier \subseteq t.frontier, NEW ex, expanded \subseteq ex, NEW st,
           Spent(result) => Spent(t),
           \/ Entered(Edge, Top.ctx) \in ex \/ Boundary(Entered(Edge, Top.ctx).node)
           \/ IsCut(Entered(Edge, Top.ctx), t),
           \A c, i : ToFollow(c, i, Later) => ToFollow(c, i, st),
           \A c \in ex \ expanded : \A i \in Leaving(c) : ToFollow(c, i, st)
    PROVE  Whole(todo, st, ex, t)
<1>1. Looking
  BY DEF Admissible
<1>2. Top.ctx \in expanded /\ Entered(Edge, Top.ctx).node = Far(Edge)
  BY EdgeLeadsOn
<1>3. t.nodes = result.nodes \cup {Far(Edge)} /\ t.edges = result.edges \cup {Edge}
  BY FoundEdge
<1>4. SUFFICES ASSUME ~Spent(t)
               PROVE  /\ \A c \in Starts : c \in ex \/ c.node \in Range(todo)
                      /\ \A c \in ex : \A i \in Leaving(c) :
                            InScope(Far(graph.edges[i])) => Settled(c, i, ex, t) \/ ToFollow(c, i, st)
  BY DEF Whole
<1>5. /\ \A c \in Starts : c \in expanded \/ c.node \in Range(todo)
      /\ \A c \in expanded : \A i \in Leaving(c) :
            InScope(Far(graph.edges[i])) => Settled(c, i, expanded, result) \/ ToFollow(c, i, stack)
  BY <1>4 DEF SearchInv, SearchOK, Whole
<1>6. ASSUME NEW c \in ex, NEW i \in Leaving(c), InScope(Far(graph.edges[i]))
      PROVE  Settled(c, i, ex, t) \/ ToFollow(c, i, st)
  <2>1. CASE c \notin expanded
    BY <1>6, <2>1
  <2>2. CASE c \in expanded /\ Settled(c, i, expanded, result)
    BY <1>3, <2>2 DEF Settled, IsCut
  <2>3. CASE c \in expanded /\ ToFollow(c, i, stack)
    <3>1. ToFollow(c, i, Later) \/ (c = Top.ctx /\ i = NextPosition)
      BY <1>1, <2>3, NextEdge
    <3>2. CASE c = Top.ctx /\ i = NextPosition
      BY <1>2, <1>3, <3>2 DEF Settled, Edge
    <3> QED BY <3>1, <3>2
  <2> QED BY <1>5, <1>6, <2>1, <2>2, <2>3
<1> QED BY <1>5, <1>6

LEMMA FollowStep == ASSUME SearchInv, Walking, Follow PROVE SearchInv'
<1> DEFINE c == Entered(Edge, Top.ctx)
<1>1. PICK capped, enters \in BOOLEAN :
        /\ enters <=> c \notin Top.on /\ ~Known(c) /\ ~Boundary(c.node) /\ ~capped
        /\ result' = IF capped THEN Truncate(Found, c.node, "max_depth") ELSE Found
        /\ stack' = IF ~enters THEN Later
                      ELSE <<[ctx |-> c, depth |-> Top.depth + 1, path |-> <<>>,
                              on |-> Top.on \cup {c}, rest |-> Leaving(c)]>> \o Later
        /\ expanded' = IF enters THEN expanded \cup {c} ELSE expanded
  BY Zenon DEF Follow
<1>2. /\ Admissible /\ Looking /\ UNCHANGED <<graph, query, interrupt, todo, queue, status>>
      /\ stack # <<>> /\ status = None
  BY TopFrame DEF Follow, Admissible, Looking
<1>3. PICK t : t = result'
  OBVIOUS
<1>4. /\ IsResult(t) /\ t.nodes = Found.nodes /\ t.edges = Found.edges /\ result.frontier \subseteq t.frontier
      /\ (Spent(result) => Spent(t)) /\ (capped => IsCut(c, t))
  <2>1. CASE ~capped
    BY <1>1, <1>3, <2>1, FoundEdge DEF Spent
  <2>2. CASE capped
    <3>1. t = Truncate(Found, c.node, "max_depth")
      BY <1>1, <1>3, <2>2
    <3>2. "max_depth" # None
      BY SearchAssumption
    <3>3. Spent(result) => Spent(Found)
      BY FoundEdge DEF Spent
    <3> HIDE DEF c
    <3> QED BY <3>1, <3>2, <3>3, FoundEdge, Truncating DEF IsCut
  <2> QED BY <2>1, <2>2
<1>5. /\ Top \in Frames(expanded) /\ Later \in Seq(Frames(expanded))
      /\ \A k \in DOMAIN Later : Later[k].rest \subseteq Leaving(Later[k].ctx)
  BY <1>2, TopFrame, NextEdge
<1>6. /\ todo \in Seq(Range(query.roots)) /\ interrupt \in {None, "cancelled", "time_limit"}
  BY DEF SearchInv, SearchOK, Formed
<1>7. CASE ~enters
  <2>1. PICK st : st = Later
    OBVIOUS
  <2>2. c \in expanded \/ Boundary(c.node) \/ IsCut(c, t)
    BY <1>1, <1>4, <1>5, <1>7 DEF Known, Frames
  <2>3. Formed(todo, st, expanded, t)
    BY <1>4, <1>5, <1>6, <2>1 DEF Formed
  <2>4. Sound(expanded, t)
    BY <1>2, <1>4, FollowedIsSound
  <2>5. Whole(todo, st, expanded, t)
    BY <1>2, <1>4, <2>1, <2>2, FollowedIsWhole
  <2>6. SearchOK(todo, st, expanded, t, status, interrupt)
    BY <1>2, <1>6, <2>3, <2>4, <2>5, SearchAssumption DEF SearchOK, Ended
  <2> QED BY <1>1, <1>2, <1>3, <1>7, <2>1, <2>6, SearchGoesOn
<1>8. CASE enters
  <2> DEFINE f == [ctx |-> c, depth |-> Top.depth + 1, path |-> <<>>, on |-> Top.on \cup {c}, rest |-> Leaving(c)]
  <2>1. PICK ex, st : ex = expanded \cup {c} /\ st = <<f>> \o Later
    OBVIOUS
  <2>2. f \in Frames(ex) /\ f.ctx = c /\ f.rest = Leaving(c)
    BY <1>5, <2>1 DEF Frames, Leaving
  <2>3. Frames(expanded) \subseteq Frames(ex)
    BY <2>1 DEF Frames
  <2>4. Later \in Seq(Frames(ex))
    BY <1>5, <2>3, SeqWidens
  <2> HIDE DEF f, c
  <2>5. /\ st \in Seq(Frames(ex)) /\ \A k \in DOMAIN st : st[k].rest \subseteq Leaving(st[k].ctx)
        /\ \A d, i : ToFollow(d, i, st) <=> (d = f.ctx /\ i \in f.rest) \/ ToFollow(d, i, Later)
    <3>1. PICK lt : lt = Later
      OBVIOUS
    <3>2. lt \in Seq(Frames(ex)) /\ \A k \in DOMAIN lt : lt[k].rest \subseteq Leaving(lt[k].ctx)
      BY <1>5, <2>4, <3>1
    <3>3. f.rest \subseteq Leaving(f.ctx)
      BY <2>2
    <3>4. st = <<f>> \o lt
      BY <2>1, <3>1
    <3>5. f \in Frames(ex)
      BY <2>2
    <3>6. /\ st \in Seq(Frames(ex)) /\ \A k \in DOMAIN st : st[k].rest \subseteq Leaving(st[k].ctx)
          /\ \A d, i : ToFollow(d, i, st) <=> (d = f.ctx /\ i \in f.rest) \/ ToFollow(d, i, lt)
      BY <3>2, <3>3, <3>4, <3>5, Pushing
    <3> QED BY <3>1, <3>6
  <2>6. Formed(todo, st, ex, t)
    BY <1>4, <1>6, <2>5 DEF Formed
  <2>7. ~Boundary(c.node)
    BY <1>1, <1>8
  <2>8. Sound(ex, t)
    BY <1>2, <1>4, <2>1, <2>7, FollowedIsSound DEF c
  <2>9. Whole(todo, st, ex, t)
    <3>1. \A d \in ex \ expanded : \A i \in Leaving(d) : ToFollow(d, i, st)
      BY <2>1, <2>2, <2>5
    <3>2. \A d, i : ToFollow(d, i, Later) => ToFollow(d, i, st)
      BY <2>5
    <3> QED BY <1>2, <1>4, <2>1, <3>1, <3>2, FollowedIsWhole DEF c
  <2>10. SearchOK(todo, st, ex, t, status, interrupt)
    BY <1>2, <1>6, <2>6, <2>8, <2>9, SearchAssumption DEF SearchOK, Ended
  <2>11. ex = expanded' /\ st = stack'
    BY <1>1, <1>8, <2>1 DEF f, c
  <2> QED BY <1>2, <1>3, <2>10, <2>11, SearchGoesOn
<1> QED BY <1>7, <1>8

-----------------------------------------------------------------------------
(* Call graph search: the theorem *)

LEMMA SearchStarts ==
    ASSUME NEW g, NEW q, GraphOK(g), QueryOK(q), Begin(g, q) PROVE SearchInv /\ Walking
<1>1. IsResult(NoResult) /\ ~Spent(NoResult)
  BY DEF IsResult, NoResult, Spent
<1>2. Sound({}, NoResult)
  BY DEF Sound, NoResult, Least
<1>3. <<>> \in Seq(Frames({}))
  OBVIOUS
<1>4. Formed(q.roots, <<>>, {}, NoResult)
  BY <1>1, <1>3 DEF Formed, Begin, QueryOK
<1>5. Whole(q.roots, <<>>, {}, NoResult)
  BY DEF Whole, Starts, Anywhere, Context, Begin
<1>6. SearchOK(todo, stack, expanded, result, status, interrupt)
  BY <1>2, <1>4, <1>5, SearchAssumption DEF SearchOK, Ended, Begin
<1> QED BY <1>6 DEF SearchInv, Begin, Walking, QueryOK

LEMMA SearchNextOK ==
    ASSUME SearchInv, Walking, [SearchNext]_searchVars PROVE SearchInv' /\ Walking'
<1>1. Walking' /\ ~(EnterPath \/ ExtendPath \/ NextPath)
  <2>1. query' = query
    BY DEF SearchNext, searchVars, StartRoot, EnterPath, Stopped, Exclude, Refuse, Follow, ExtendPath, Return,
       NextPath, Finish, Interrupt
  <2>2. ~NextPath
    BY DEF NextPath, SearchInv
  <2> QED BY <2>1, <2>2 DEF Walking, EnterPath, ExtendPath
<1>2. CASE UNCHANGED searchVars
  <2>1. UNCHANGED <<graph, query, queue>>
    BY <1>2 DEF searchVars
  <2>2. SearchOK(todo', stack', expanded', result', status', interrupt')
    <3>1. /\ todo' = todo /\ stack' = stack /\ expanded' = expanded
          /\ result' = result /\ status' = status /\ interrupt' = interrupt
      BY <1>2 DEF searchVars
    <3>2. SearchOK(todo, stack, expanded, result, status, interrupt)
      BY DEF SearchInv
    <3> QED BY <3>1, <3>2
  <2>3. SearchInv'
    BY <2>1, <2>2, SearchGoesOn
  <2> QED BY <1>1, <2>3
<1>3. CASE StartRoot \/ Stopped \/ Exclude \/ Refuse
  <2>1. SearchInv'
    BY <1>3, StartRootStep, StoppedStep, ExcludeStep, RefuseStep
  <2> QED BY <1>1, <2>1
<1>4. CASE Follow \/ Return \/ Finish \/ Interrupt
  <2>1. SearchInv'
    BY <1>4, FollowStep, ReturnStep, FinishStep, InterruptStep
  <2> QED BY <1>1, <2>1
<1> QED
  <2>1. SearchNext \/ UNCHANGED searchVars
    OBVIOUS
  <2> QED BY <1>1, <1>2, <1>3, <1>4, <2>1 DEF SearchNext

\* At the end every edge of what was entered is settled.
LEMMA EndIsSettled ==
    ASSUME SearchInv, status # None, ~Spent(result)
    PROVE  /\ Starts \subseteq expanded
           /\ \A c \in expanded : \A e \in Onward(c) :
                 /\ e \in result.edges /\ Far(e) \in result.nodes
                 /\ Entered(e, c) \in expanded \/ Boundary(Far(e)) \/ IsCut(Entered(e, c), result)
<1>1. todo = <<>> /\ stack = <<>>
  BY DEF SearchInv, SearchOK, Ended
<1>2. Range(todo) = {} /\ \A c, i : ~ToFollow(c, i, stack)
  BY <1>1 DEF Range, ToFollow
<1> QED BY <1>2 DEF SearchInv, SearchOK, Whole, Settled, Onward, EdgesOf

LEMMA InvFindsAll ==
    ASSUME SearchInv PROVE FindsAll
<1> DEFINE met == expanded \cup NextContexts(expanded)
<1>1. Sound(expanded, result) /\ IsResult(result)
  BY DEF SearchInv, SearchOK, Formed
<1>2. \A cs, ds : cs \subseteq ds => NextContexts(cs) \subseteq NextContexts(ds)
  BY DEF NextContexts
<1>3. Least(met)
  BY <1>1, <1>2 DEF Sound, Least, Closed
<1>4. \A c, e : Entered(e, c).node = Far(e)
  BY DEF Entered, Far, Anywhere, Context, Descend
<1>5. ASSUME NEW d \in NextContexts(expanded) PROVE \E c \in expanded : \E e \in Onward(c) : d = Entered(e, c)
  BY <1>5 DEF NextContexts
<1>6. ASSUME status # None, ~Spent(result)
      PROVE  /\ Starts \subseteq expanded /\ NodesOf(met) = result.nodes
             /\ \A d \in met : Expands(d) => d \in expanded \/ IsCut(d, result)
             /\ \A c \in expanded : Onward(c) \subseteq result.edges
  <2>1. /\ Starts \subseteq expanded
        /\ \A c \in expanded : \A e \in Onward(c) :
              /\ e \in result.edges /\ Far(e) \in result.nodes
              /\ Entered(e, c) \in expanded \/ Boundary(Far(e)) \/ IsCut(Entered(e, c), result)
    BY <1>6, EndIsSettled
  <2>2. NodesOf(met) \subseteq result.nodes
    BY <1>1, <1>4, <1>5, <2>1 DEF NodesOf, Sound
  <2>3. result.nodes \subseteq NodesOf(met)
    BY <1>1 DEF Sound
  <2>4. ASSUME NEW d \in met, Expands(d) PROVE d \in expanded \/ IsCut(d, result)
    BY <1>4, <1>5, <2>1, <2>4 DEF Expands
  <2> QED BY <2>1, <2>2, <2>3, <2>4
<1>7. CompleteIsLeast
  <2> SUFFICES ASSUME status = "complete"
               PROVE  \E cs : /\ Closed(cs) /\ Least(cs) /\ result.nodes = NodesOf(cs)
                              /\ result.edges = UNION {Onward(c) : c \in {x \in cs : Expands(x)}}
    BY DEF CompleteIsLeast
  <2>1. status # None /\ result.frontier = {} /\ ~Spent(result)
    BY <1>1, SearchAssumption DEF SearchInv, SearchOK, Ended, IsResult, Spent
  <2>2. \A d \in met : Expands(d) <=> d \in expanded
    BY <1>1, <1>6, <2>1 DEF IsCut, Sound
  <2>3. Closed(met)
    BY <1>6, <2>1, <2>2 DEF Closed, NextContexts
  <2>4. {x \in met : Expands(x)} = expanded
    BY <2>2
  <2>5. result.edges = UNION {Onward(c) : c \in expanded}
    BY <1>1, <1>6, <2>1 DEF Sound
  <2> HIDE DEF met
  <2> QED BY <1>3, <1>6, <2>1, <2>3, <2>4, <2>5
<1>8. RestIsBehindCuts
  <2> SUFFICES ASSUME status = "truncated", result.reason = "max_depth"
               PROVE  \E cs : /\ Least(cs) /\ NodesOf(cs) \subseteq result.nodes
                              /\ \A ds : NextContexts(ds) \subseteq ds /\ {c \in cs : IsCut(c, result)} \subseteq ds
                                           => Closed(cs \cup ds)
    BY DEF RestIsBehindCuts
  <2>1. status # None /\ ~Spent(result)
    BY SearchAssumption DEF Spent
  <2>2. ASSUME NEW ds, NextContexts(ds) \subseteq ds, {c \in met : IsCut(c, result)} \subseteq ds
        PROVE  Closed(met \cup ds)
    <3>1. \A d \in met \cup ds : Expands(d) => d \in expanded \/ d \in ds
      BY <1>6, <2>1, <2>2
    <3>2. NextContexts(met \cup ds) \subseteq NextContexts(expanded) \cup NextContexts(ds)
      BY <3>1 DEF NextContexts
    <3> QED BY <1>6, <2>1, <2>2, <3>2 DEF Closed
  <2> HIDE DEF met
  <2> QED BY <1>3, <1>6, <2>1, <2>2
<1> QED BY <1>7, <1>8 DEF FindsAll

(* For every finite or infinite set of functions, every list of edges,     *)
(* roots and budgets, a search of callees or of callers by the engine      *)
(* finds all that is to be found, or its status and its frontier say where *)
(* the rest is.  (TraversalEngine::run, CallerSearch)                      *)
THEOREM SearchFindsAll ==
    ASSUME NEW g, NEW q, GraphOK(g), QueryOK(q)
    PROVE  SearchSpec(g, q) => []FindsAll
<1>1. Begin(g, q) => SearchInv /\ Walking
  BY SearchStarts
<1>2. (SearchInv /\ Walking) /\ [SearchNext]_searchVars => (SearchInv /\ Walking)'
  BY SearchNextOK
<1>3. SearchInv /\ Walking => FindsAll
  BY InvFindsAll
<1> QED BY <1>1, <1>2, <1>3, PTL DEF SearchSpec

-----------------------------------------------------------------------------
(* Call graph search: the contexts within a number of calls *)

RingTo(f, cs, n) ==
    f = [i \in 0..n |-> IF i = 0 THEN cs ELSE LET nearer == f[i - 1] IN nearer \cup NextContexts(nearer)]

LEMMA RingExists ==
    ASSUME NEW cs, NEW n \in Nat PROVE \E f : RingTo(f, cs, n)
<1> DEFINE bad == {k \in Nat : ~ \E f : RingTo(f, cs, k)}
<1>1. SUFFICES ASSUME bad # {} PROVE FALSE
  OBVIOUS
<1>2. PICK k \in bad : \A j \in bad : k <= j
  <2>1. bad \subseteq Nat
    OBVIOUS
  <2> HIDE DEF bad
  <2> QED BY <1>1, <2>1, LeastPosition
<1>3. k # 0
  <2> DEFINE one == [i \in {0} |-> cs]
  <2>1. one = [i \in {0} |-> IF i = 0 THEN cs ELSE LET nearer == one[i - 1] IN nearer \cup NextContexts(nearer)]
    OBVIOUS
  <2>2. 0..0 = {0}
    OBVIOUS
  <2>3. RingTo(one, cs, 0)
    BY <2>1, <2>2 DEF RingTo
  <2> QED BY <1>2, <2>3
<1>4. k \in Nat /\ k - 1 \in Nat /\ k - 1 \notin bad
  <2>1. k \in Nat
    BY <1>2
  <2>2. k - 1 \in Nat /\ ~(k <= k - 1)
    BY <1>3, <2>1
  <2> QED BY <1>2, <2>1, <2>2
<1>5. PICK f : RingTo(f, cs, k - 1)
  BY <1>4
<1> DEFINE more == [i \in 0..k |-> IF i = k THEN f[k - 1] \cup NextContexts(f[k - 1]) ELSE f[i]]
<1>6. ASSUME NEW i \in 0..k
      PROVE  more[i] = IF i = 0 THEN cs ELSE LET nearer == more[i - 1] IN nearer \cup NextContexts(nearer)
  <2>1. CASE i = k
    <3>1. k - 1 \in 0..k /\ k - 1 # k
      BY <1>4
    <3>2. more[k - 1] = f[k - 1]
      BY <3>1
    <3> QED BY <1>3, <2>1, <3>2
  <2>2. CASE i # k
    <3>1. i \in 0..(k - 1)
      BY <1>4, <2>2
    <3>2. f[i] = IF i = 0 THEN cs ELSE LET nearer == f[i - 1] IN nearer \cup NextContexts(nearer)
      BY <1>5, <3>1 DEF RingTo
    <3>3. more[i] = f[i] /\ (i # 0 => more[i - 1] = f[i - 1])
      BY <1>4, <2>2, <3>1
    <3> QED BY <3>2, <3>3
  <2> QED BY <2>1, <2>2
<1>7. RingTo(more, cs, k)
  BY <1>6 DEF RingTo
<1> HIDE DEF more
<1> QED BY <1>2, <1>7

LEMMA EdgeCount ==
    ASSUME GraphOK(graph)
    PROVE  /\ Len(graph.edges) \in Nat /\ DOMAIN graph.edges = 1..Len(graph.edges)
           /\ MaxContexts \in Nat
<1>1. Len(graph.edges) \in Nat /\ DOMAIN graph.edges = 1..Len(graph.edges)
  BY DEF GraphOK
<1>2. \A n \in Nat : n * (n + 1) \in Nat
  OBVIOUS
<1> QED BY <1>1, <1>2 DEF MaxContexts

\* The rings around some contexts, one call after the other.
IsRing(ring, cs) ==
    /\ ring[0] = cs
    /\ \A i \in 1..MaxContexts : ring[i] = ring[i - 1] \cup NextContexts(ring[i - 1])

LEMMA Rings ==
    ASSUME GraphOK(graph), NEW cs
    PROVE  \E ring : IsRing(ring, cs) /\ ContextsFrom(cs) = ring[MaxContexts]
<1> DEFINE K == MaxContexts
           ring == CHOOSE f : RingTo(f, cs, MaxContexts)
<1>1. K \in Nat
  BY EdgeCount
<1>2. RingTo(ring, cs, K)
  BY <1>1, RingExists
<1>3. Within(cs) = ring
  BY Zenon DEF Within, RingTo
<1> HIDE DEF ring
<1>4. ring[0] = cs
  <2>1. 0 \in 0..K
    BY <1>1
  <2> QED BY <1>2, <2>1 DEF RingTo
<1>5. ASSUME NEW i \in 1..K PROVE ring[i] = ring[i - 1] \cup NextContexts(ring[i - 1])
  <2>1. i \in 0..K /\ i # 0
    BY <1>1
  <2> QED BY <1>2, <2>1 DEF RingTo
<1> QED BY <1>3, <1>4, <1>5 DEF ContextsFrom, IsRing

\* Whatever holds the contexts and what they lead to holds all that is reached.
LEMMA ReachedIsLeast ==
    ASSUME GraphOK(graph), NEW cs, NEW ds, cs \subseteq ds, NextContexts(ds) \subseteq ds
    PROVE  cs \subseteq ContextsFrom(cs) /\ ContextsFrom(cs) \subseteq ds
<1> DEFINE K == MaxContexts
<1>1. PICK ring : IsRing(ring, cs) /\ ContextsFrom(cs) = ring[K]
  BY Rings
<1>2. K \in Nat
  BY EdgeCount
<1> DEFINE bad == {i \in 0..K : ~(cs \subseteq ring[i] /\ ring[i] \subseteq ds)}
<1> HIDE DEF K
<1>3. bad = {}
  <2>1. SUFFICES ASSUME bad # {} PROVE FALSE
    OBVIOUS
  <2>2. PICK i \in bad : \A j \in bad : i <= j
    <3>1. bad \subseteq Nat
      BY <1>2
    <3> HIDE DEF bad
    <3> QED BY <2>1, <3>1, LeastPosition
  <2>3. i # 0
    BY <1>1, <2>2 DEF IsRing
  <2>4. i \in 1..K /\ i - 1 \in 0..K /\ i - 1 \notin bad
    <3>1. i \in 0..K
      BY <2>2
    <3>2. i \in 1..K /\ i - 1 \in 0..K /\ ~(i <= i - 1)
      BY <1>2, <2>3, <3>1
    <3> QED BY <2>2, <3>2
  <2>5. cs \subseteq ring[i - 1] /\ ring[i - 1] \subseteq ds
    BY <2>4
  <2>6. NextContexts(ring[i - 1]) \subseteq NextContexts(ds)
    BY <2>5 DEF NextContexts
  <2>7. ring[i] = ring[i - 1] \cup NextContexts(ring[i - 1])
    BY <1>1, <2>4 DEF IsRing, K
  <2> QED BY <2>2, <2>5, <2>6, <2>7
<1>4. K \in 0..K
  BY <1>2
<1> QED BY <1>1, <1>3, <1>4

\* Every context that a search can meet.
AllContexts ==
    {Context(Far(graph.edges[i]), IF j = 0 THEN None ELSE graph.edges[j].recv,
                                  IF j = 0 THEN None ELSE graph.edges[j].cert) :
        i \in DOMAIN graph.edges, j \in {0} \cup DOMAIN graph.edges}

LEMMA ContextsCounted ==
    ASSUME GraphOK(graph) PROVE IsFiniteSet(AllContexts) /\ Cardinality(AllContexts) <= MaxContexts
<1> DEFINE L == Len(graph.edges)
           pairs == (1..L) \X (0..L)
           f == [p \in pairs |-> Context(Far(graph.edges[p[1]]), IF p[2] = 0 THEN None ELSE graph.edges[p[2]].recv,
                                         IF p[2] = 0 THEN None ELSE graph.edges[p[2]].cert)]
<1>1. L \in Nat /\ DOMAIN graph.edges = 1..L
  BY EdgeCount
<1>2. /\ IsFiniteSet(1..L) /\ Cardinality(1..L) = L
      /\ IsFiniteSet(0..L) /\ Cardinality(0..L) = L + 1
  <2>1. 1 \in Int /\ 0 \in Int /\ L \in Int
    BY <1>1
  <2> QED BY <1>1, <2>1, FS_Interval
<1> HIDE DEF L
<1>3. IsFiniteSet(pairs) /\ Cardinality(pairs) = L * (L + 1)
  <2>1. IsFiniteSet(pairs) /\ Cardinality(pairs) = Cardinality(1..L) * Cardinality(0..L)
    BY <1>2, Zenon, FS_Product
  <2> QED BY <1>2, <2>1
<1>4. {0} \cup 1..L = 0..L
  BY <1>1
<1>5. f \in Surjection(pairs, AllContexts)
  <2>1. \A p \in pairs : f[p] \in AllContexts
    BY <1>1, <1>4 DEF AllContexts
  <2>2. \A c \in AllContexts : \E p \in pairs : f[p] = c
    <3>1. TAKE c \in AllContexts
    <3>2. PICK i \in 1..L, j \in 0..L :
            c = Context(Far(graph.edges[i]), IF j = 0 THEN None ELSE graph.edges[j].recv,
                                             IF j = 0 THEN None ELSE graph.edges[j].cert)
      BY <1>1, <1>4, <3>1 DEF AllContexts
    <3>3. <<i, j>> \in pairs /\ f[<<i, j>>] = c
      BY <3>2
    <3> QED BY <3>3
  <2> HIDE DEF f, pairs
  <2>3. f \in [pairs -> AllContexts]
    BY <2>1 DEF f
  <2> QED BY <2>2, <2>3 DEF Surjection
<1> HIDE DEF pairs, f
<1> QED BY <1>3, <1>5, FS_Surjection DEF MaxContexts, L

LEMMA ContextsAreAll ==
    ASSUME GraphOK(graph), NEW cs, cs \subseteq Starts \cup AllContexts
    PROVE  NextContexts(cs) \subseteq AllContexts
<1>1. SUFFICES ASSUME NEW c \in cs, NEW i \in Leaving(c) PROVE Entered(graph.edges[i], c) \in AllContexts
  BY DEF NextContexts, Onward, EdgesOf
<1> DEFINE e == graph.edges[i]
<1>2. i \in DOMAIN graph.edges
  BY DEF Leaving
<1>3. CASE Backwards
  <2>1. Entered(e, c) = Context(Far(e), None, None)
    BY <1>3 DEF Entered, Anywhere, Far
  <2> QED BY <1>2, <2>1 DEF AllContexts
<1>4. CASE ~Backwards /\ e.cert # None
  <2>1. Entered(e, c) = Context(Far(e), graph.edges[i].recv, graph.edges[i].cert)
    BY <1>4 DEF Entered, Descend, Far
  <2>2. i # 0
    BY <1>2, EdgeCount
  <2> QED BY <1>2, <2>1, <2>2 DEF AllContexts
<1>5. CASE ~Backwards /\ e.cert = None
  <2>1. Entered(e, c) = Context(Far(e), c.recv, c.cert)
    BY <1>5 DEF Entered, Descend, Far
  <2>2. CASE c \in Starts
    <3>1. c.recv = None /\ c.cert = None
      BY <2>2 DEF Starts, Anywhere, Context
    <3> QED BY <1>2, <2>1, <3>1 DEF AllContexts
  <2>3. CASE c \in AllContexts
    <3>1. PICK k \in DOMAIN graph.edges, j \in {0} \cup DOMAIN graph.edges :
            c = Context(Far(graph.edges[k]), IF j = 0 THEN None ELSE graph.edges[j].recv,
                                             IF j = 0 THEN None ELSE graph.edges[j].cert)
      BY <2>3 DEF AllContexts
    <3>2. /\ c.recv = IF j = 0 THEN None ELSE graph.edges[j].recv
          /\ c.cert = IF j = 0 THEN None ELSE graph.edges[j].cert
      BY <3>1 DEF Context
    <3> HIDE DEF e
    <3> QED BY <1>2, <2>1, <3>2 DEF AllContexts, e
  <2> QED BY <2>2, <2>3
<1> QED BY <1>3, <1>4, <1>5

\* So many calls are enough.
LEMMA ReachedIsClosed ==
    ASSUME GraphOK(graph), NEW cs, cs \subseteq Starts \cup AllContexts
    PROVE  /\ cs \subseteq ContextsFrom(cs) /\ ContextsFrom(cs) \subseteq Starts \cup AllContexts
           /\ NextContexts(ContextsFrom(cs)) \subseteq ContextsFrom(cs)
<1> DEFINE K == MaxContexts
           fits(c) == NextContexts(c) \subseteq c
<1>1. PICK ring : IsRing(ring, cs) /\ ContextsFrom(cs) = ring[K]
  BY Rings
<1>2. K \in Nat
  BY EdgeCount
<1>3. NextContexts(Starts \cup AllContexts) \subseteq Starts \cup AllContexts
  BY ContextsAreAll
<1>4. cs \subseteq ContextsFrom(cs) /\ ContextsFrom(cs) \subseteq Starts \cup AllContexts
  BY <1>3, ReachedIsLeast
<1> DEFINE fine(i) == /\ ring[i] \subseteq Starts \cup AllContexts
                      /\ \/ NextContexts(ring[i]) \subseteq ring[i]
                         \/ Cardinality(ring[i] \cap AllContexts) >= i
           bad == {i \in 0..K : ~fine(i)}
<1>5. \A ds : IsFiniteSet(ds \cap AllContexts) /\ Cardinality(ds \cap AllContexts) \in Nat
  BY ContextsCounted, FS_Intersection, FS_CardinalityType
<1>6. bad = {}
  <2>1. SUFFICES ASSUME bad # {} PROVE FALSE
    OBVIOUS
  <2>2. PICK i \in bad : \A j \in bad : i <= j
    <3>1. bad \subseteq Nat
      BY <1>2
    <3> HIDE DEF bad
    <3> QED BY <2>1, <3>1, LeastPosition
  <2>3. i # 0
    <3>1. ring[0] = cs
      BY <1>1 DEF IsRing
    <3>2. fine(0)
      BY <1>5, <3>1
    <3> QED BY <2>2, <3>2
  <2>4. i \in 1..K /\ i - 1 \in 0..K /\ i - 1 \notin bad
    <3>1. i \in 0..K
      BY <2>2
    <3>2. i \in 1..K /\ i - 1 \in 0..K /\ ~(i <= i - 1)
      BY <1>2, <2>3, <3>1
    <3> HIDE DEF fine
    <3> QED BY <2>2, <3>2
  <2>5. fine(i - 1)
    BY <2>4
  <2>6. ring[i] = ring[i - 1] \cup NextContexts(ring[i - 1])
    BY <1>1, <2>4 DEF IsRing
  <2>7. NextContexts(ring[i - 1]) \subseteq AllContexts
    BY <2>5, ContextsAreAll
  <2>8. CASE NextContexts(ring[i - 1]) \subseteq ring[i - 1]
    <3>1. ring[i] = ring[i - 1]
      BY <2>6, <2>8
    <3>2. fine(i)
      BY <2>5, <2>8, <3>1
    <3> QED BY <2>2, <3>2
  <2>9. CASE ~(NextContexts(ring[i - 1]) \subseteq ring[i - 1])
    <3>1. PICK c \in NextContexts(ring[i - 1]) : c \notin ring[i - 1]
      BY <2>9
    <3> DEFINE old == ring[i - 1] \cap AllContexts
               now == ring[i] \cap AllContexts
    <3>2. old \cup {c} \in SUBSET now /\ c \notin old
      BY <2>6, <2>7, <3>1
    <3>3. IsFiniteSet(old) /\ IsFiniteSet(now) /\ Cardinality(old) \in Nat /\ Cardinality(now) \in Nat
      BY <1>5
    <3>4. Cardinality(old) >= i - 1
      BY <2>5, <2>9
    <3> HIDE DEF old, now
    <3>5. IsFiniteSet(old \cup {c}) /\ Cardinality(old \cup {c}) = Cardinality(old) + 1
      BY <3>2, <3>3, FS_AddElement
    <3>6. Cardinality(old \cup {c}) <= Cardinality(now)
      BY <3>2, <3>3, <3>5, FS_Subset
    <3>7. Cardinality(now) >= i
      <4>1. i \in Nat
        BY <1>2, <2>4
      <4> QED BY <3>3, <3>4, <3>5, <3>6, <4>1
    <3>8. fine(i)
      BY <2>5, <2>6, <2>7, <3>7 DEF now
    <3> QED BY <2>2, <3>8
  <2> QED BY <2>8, <2>9
<1>7. fine(K)
  <2>1. K \in 0..K
    BY <1>2
  <2> QED BY <1>6, <2>1
<1>8. CASE Cardinality(ring[K] \cap AllContexts) >= K
  <2> DEFINE now == ring[K] \cap AllContexts
  <2>1. now \in SUBSET AllContexts /\ Cardinality(now) \in Nat /\ Cardinality(AllContexts) \in Nat
    BY <1>5, ContextsCounted, FS_CardinalityType
  <2>2. Cardinality(now) <= Cardinality(AllContexts)
    BY <2>1, ContextsCounted, FS_Subset
  <2>3. Cardinality(now) = Cardinality(AllContexts)
    BY <1>2, <1>8, <2>1, <2>2, ContextsCounted
  <2>4. now = AllContexts
    BY <2>1, <2>3, ContextsCounted, FS_Subset
  <2> QED BY <1>1, <1>4, <1>7, <2>4, ContextsAreAll
<1> QED BY <1>1, <1>4, <1>7, <1>8

(* What a search of callees or callers promises, computed call by call.    *)
LEMMA FindingAllIsHonest ==
    ASSUME GraphOK(graph), Walking, FindsAll PROVE SearchHonest
<1> DEFINE closure == ContextsFrom(Starts)
<1>1. /\ Starts \subseteq closure /\ closure \subseteq Starts \cup AllContexts
      /\ NextContexts(closure) \subseteq closure
  BY ReachedIsClosed
<1>2. \A ds : Closed(ds) => closure \subseteq ds
  BY ReachedIsLeast DEF Closed
<1>3. CompleteIsExact
  <2>1. SUFFICES ASSUME status = "complete"
                 PROVE  /\ result.nodes = NodesOf(closure)
                        /\ result.edges = UNION {Onward(c) : c \in {x \in closure : Expands(x)}}
    BY DEF CompleteIsExact, Walking
  <2>2. PICK cs : /\ Closed(cs) /\ Least(cs)
                  /\ result.nodes = NodesOf(cs)
                  /\ result.edges = UNION {Onward(c) : c \in {x \in cs : Expands(x)}}
    BY <2>1 DEF FindsAll, CompleteIsLeast
  <2>3. cs = closure
    BY <1>1, <1>2, <2>2 DEF Closed, Least
  <2> HIDE DEF closure
  <2> QED BY <2>2, <2>3
<1>4. CutsAreTold
  <2> DEFINE cuts == {c \in closure : <<c.node, "max_depth">> \in result.frontier}
  <2>1. SUFFICES ASSUME status = "truncated", result.reason = "max_depth"
                 PROVE  NodesOf(closure) \subseteq result.nodes \cup NodesOf(ContextsFrom(cuts))
    BY DEF CutsAreTold
  <2>2. PICK cs : /\ Least(cs) /\ NodesOf(cs) \subseteq result.nodes
                  /\ \A ds : NextContexts(ds) \subseteq ds /\ {c \in cs : IsCut(c, result)} \subseteq ds
                               => Closed(cs \cup ds)
    BY <2>1 DEF FindsAll, RestIsBehindCuts
  <2>3. cs \subseteq closure
    BY <1>1, <2>2 DEF Closed, Least
  <2>4. cuts \subseteq ContextsFrom(cuts) /\ NextContexts(ContextsFrom(cuts)) \subseteq ContextsFrom(cuts)
    <3>1. cuts \subseteq Starts \cup AllContexts
      BY <1>1
    <3> QED BY <3>1, ReachedIsClosed
  <2>5. {c \in cs : IsCut(c, result)} \subseteq cuts
    BY <2>3 DEF IsCut
  <2> HIDE DEF cuts, closure
  <2>6. Closed(cs \cup ContextsFrom(cuts))
    BY <2>2, <2>4, <2>5
  <2>7. closure \subseteq cs \cup ContextsFrom(cuts)
    BY <1>2, <2>6
  <2> QED BY <2>2, <2>7 DEF NodesOf
<1> QED BY <1>3, <1>4 DEF SearchHonest

-----------------------------------------------------------------------------
(* Call graph search: the simple paths of a graph *)

FirstRoutes == {<<<<c.node>>, c>> : c \in Starts}
AllRoutes == Routes[Len(graph.edges)]

RoutesTo(f, n) ==
    f = [i \in 0..n |-> IF i = 0 THEN {<<<<c.node>>, c>> : c \in Starts}
                        ELSE LET shorter == f[i - 1] IN shorter \cup UNION {Extensions(pc) : pc \in shorter}]

LEMMA RoutesExist ==
    ASSUME NEW n \in Nat PROVE \E f : RoutesTo(f, n)
<1> DEFINE bad == {k \in Nat : ~ \E f : RoutesTo(f, k)}
<1>1. SUFFICES ASSUME bad # {} PROVE FALSE
  OBVIOUS
<1>2. PICK k \in bad : \A j \in bad : k <= j
  <2>1. bad \subseteq Nat
    OBVIOUS
  <2> HIDE DEF bad
  <2> QED BY <1>1, <2>1, LeastPosition
<1>3. k # 0
  <2> DEFINE first == {<<<<c.node>>, c>> : c \in Starts}
  <2> DEFINE one == [i \in {0} |-> first]
  <2>1. one = [i \in {0} |-> IF i = 0 THEN first
                             ELSE LET shorter == one[i - 1] IN shorter \cup UNION {Extensions(pc) : pc \in shorter}]
    OBVIOUS
  <2>2. 0..0 = {0}
    OBVIOUS
  <2>3. RoutesTo(one, 0)
    BY <2>1, <2>2 DEF RoutesTo
  <2> QED BY <1>2, <2>3
<1>4. k \in Nat /\ k - 1 \in Nat /\ k - 1 \notin bad
  <2>1. k \in Nat
    BY <1>2
  <2>2. k - 1 \in Nat /\ ~(k <= k - 1)
    BY <1>3, <2>1
  <2> QED BY <1>2, <2>1, <2>2
<1>5. PICK f : RoutesTo(f, k - 1)
  BY <1>4
<1> DEFINE more == [i \in 0..k |-> IF i = k THEN f[k - 1] \cup UNION {Extensions(pc) : pc \in f[k - 1]} ELSE f[i]]
<1>6. ASSUME NEW i \in 0..k
      PROVE  more[i] = IF i = 0 THEN {<<<<c.node>>, c>> : c \in Starts}
                       ELSE LET shorter == more[i - 1] IN shorter \cup UNION {Extensions(pc) : pc \in shorter}
  <2>1. CASE i = k
    <3>1. k - 1 \in 0..k /\ k - 1 # k
      BY <1>4
    <3>2. more[k - 1] = f[k - 1]
      BY <3>1
    <3> QED BY <1>3, <2>1, <3>2
  <2>2. CASE i # k
    <3>1. i \in 0..(k - 1)
      BY <1>4, <2>2
    <3>2. f[i] = IF i = 0 THEN {<<<<c.node>>, c>> : c \in Starts}
                 ELSE LET shorter == f[i - 1] IN shorter \cup UNION {Extensions(pc) : pc \in shorter}
      BY <1>5, <3>1 DEF RoutesTo
    <3>3. more[i] = f[i] /\ (i # 0 => more[i - 1] = f[i - 1])
      BY <1>4, <2>2, <3>1
    <3> QED BY <3>2, <3>3
  <2> QED BY <2>1, <2>2
<1>7. RoutesTo(more, k)
  BY <1>6 DEF RoutesTo
<1> HIDE DEF more
<1> QED BY <1>2, <1>7

\* The routes grow by one call after the other.
IsGrowth(grow) ==
    /\ grow[0] = FirstRoutes
    /\ \A i \in 1..Len(graph.edges) : grow[i] = grow[i - 1] \cup UNION {Extensions(pc) : pc \in grow[i - 1]}

LEMMA RoutesGrow == ASSUME GraphOK(graph) PROVE IsGrowth(Routes)
<1> DEFINE L == Len(graph.edges)
           grow == CHOOSE f : RoutesTo(f, L)
<1>1. L \in Nat
  BY EdgeCount
<1>2. RoutesTo(grow, L)
  BY <1>1, RoutesExist
<1>3. Routes = grow
  BY Zenon DEF Routes, RoutesTo
<1> HIDE DEF grow
<1>4. grow[0] = FirstRoutes
  <2>1. 0 \in 0..L
    BY <1>1
  <2> QED BY <1>2, <2>1 DEF RoutesTo, FirstRoutes
<1>5. ASSUME NEW i \in 1..L PROVE grow[i] = grow[i - 1] \cup UNION {Extensions(pc) : pc \in grow[i - 1]}
  <2>1. i \in 0..L /\ i # 0
    BY <1>1
  <2> QED BY <1>2, <2>1 DEF RoutesTo
<1> QED BY <1>3, <1>4, <1>5 DEF IsGrowth

Callees == {graph.edges[i].dst : i \in DOMAIN graph.edges}
PathNodes == Range(query.roots) \cup Callees

\* A path that starts at a root and meets no function twice.
IsRoute(x) ==
    /\ x = <<x[1], x[2]>>
    /\ x[1] \in Seq(PathNodes) /\ Len(x[1]) >= 1 /\ Distinct(x[1])
    /\ x[1][1] \in Range(query.roots) /\ \A k \in 2..Len(x[1]) : x[1][k] \in Callees
    /\ x[2].node = x[1][Len(x[1])]

\* By one call.
Extension(pc, e) == <<Append(pc[1], e.dst), Descend(e, pc[2])>>

LEMMA ExtensionCall ==
    ASSUME ~Backwards, NEW pc, NEW y
    PROVE  y \in Extensions(pc) <=>
             /\ pc[2].node # query.target /\ Expands(pc[2])
             /\ \E i \in Leaving(pc[2]) : /\ InScope(graph.edges[i].dst) /\ ~Contains(pc[1], graph.edges[i].dst)
                                          /\ y = Extension(pc, graph.edges[i])
BY DEF Extensions, Extension, Onward, EdgesOf, Far

LEMMA AppendOne ==
    ASSUME NEW S, NEW p \in Seq(S), NEW n \in S, ~Contains(p, n), Distinct(p)
    PROVE  LET q == Append(p, n)
           IN /\ q \in Seq(S) /\ Len(q) = Len(p) + 1 /\ q[Len(q)] = n /\ Distinct(q)
              /\ \A k \in 1..Len(p) : q[k] = p[k]
<1> DEFINE q == Append(p, n)
<1>1. /\ q \in Seq(S) /\ Len(q) = Len(p) + 1 /\ q[Len(q)] = n /\ Len(p) \in Nat
      /\ DOMAIN q = 1..(Len(p) + 1) /\ \A k \in 1..Len(p) : q[k] = p[k]
  OBVIOUS
<1> HIDE DEF q
<1>2. \A k \in 1..Len(p) : p[k] # n
  BY DEF Contains
<1>3. ASSUME NEW i \in DOMAIN q, NEW j \in DOMAIN q, q[i] = q[j] PROVE i = j
  <2>1. (i \in 1..Len(p) \/ i = Len(q)) /\ (j \in 1..Len(p) \/ j = Len(q))
    BY <1>1
  <2>2. CASE i \in 1..Len(p) /\ j \in 1..Len(p)
    BY <1>1, <1>3, <2>2 DEF Distinct
  <2>3. CASE i = Len(q) \/ j = Len(q)
    BY <1>1, <1>2, <1>3, <2>1, <2>3
  <2> QED BY <2>1, <2>2, <2>3
<1> QED BY <1>1, <1>3 DEF q, Distinct

LEMMA ExtensionIsRoute ==
    ASSUME ~Backwards, NEW pc, IsRoute(pc), NEW y \in Extensions(pc)
    PROVE  /\ IsRoute(y) /\ Len(y[1]) = Len(pc[1]) + 1
           /\ \A k \in 1..Len(pc[1]) : y[1][k] = pc[1][k]
<1>1. PICK i \in Leaving(pc[2]) : /\ ~Contains(pc[1], graph.edges[i].dst)
                                  /\ y = Extension(pc, graph.edges[i])
  BY ExtensionCall
<1> DEFINE n == graph.edges[i].dst
<1>2. i \in DOMAIN graph.edges
  BY DEF Leaving
<1>3. n \in Callees /\ n \in PathNodes
  BY <1>2 DEF Callees, PathNodes
<1>4. y[1] = Append(pc[1], n) /\ y[2].node = n /\ y = <<y[1], y[2]>>
  BY <1>1 DEF Extension, Descend, Context
<1>5. pc[1] \in Seq(PathNodes) /\ Distinct(pc[1]) /\ ~Contains(pc[1], n)
  BY <1>1 DEF IsRoute
<1> HIDE DEF n
<1>6. PICK p : p = pc[1]
  OBVIOUS
<1>7. /\ y[1] \in Seq(PathNodes) /\ Len(y[1]) = Len(p) + 1 /\ y[1][Len(y[1])] = n /\ Distinct(y[1])
      /\ \A k \in 1..Len(p) : y[1][k] = p[k]
  BY <1>3, <1>4, <1>5, <1>6, AppendOne
<1>8. Len(p) \in Nat /\ Len(p) >= 1
  BY <1>5, <1>6 DEF IsRoute
<1>9. y[1][1] \in Range(query.roots)
  BY <1>6, <1>7, <1>8 DEF IsRoute
<1>10. ASSUME NEW k \in 2..Len(y[1]) PROVE y[1][k] \in Callees
  <2>1. k \in 2..Len(p) \/ k = Len(y[1])
    BY <1>7, <1>8
  <2> QED BY <1>3, <1>6, <1>7, <1>8, <2>1 DEF IsRoute
<1> QED BY <1>4, <1>6, <1>7, <1>8, <1>9, <1>10 DEF IsRoute

LEMMA FirstIsRoute ==
    ASSUME NEW x \in FirstRoutes PROVE IsRoute(x) /\ Len(x[1]) = 1 /\ x[2] \in Starts /\ x[2] = Anywhere(x[1][1])
<1>1. PICK n \in Range(query.roots) : x = <<<<n>>, Anywhere(n)>> /\ InScope(n)
  BY DEF FirstRoutes, Starts, Anywhere, Context
<1>2. x[1] = <<n>> /\ x[2].node = n /\ Len(x[1]) = 1 /\ x[1][1] = n /\ n \in PathNodes /\ DOMAIN x[1] = {1}
  BY <1>1 DEF Anywhere, Context, PathNodes
<1>3. x[1] \in Seq(PathNodes)
  BY <1>2
<1>4. 2..Len(x[1]) = {}
  BY <1>2
<1> QED BY <1>1, <1>2, <1>3, <1>4 DEF IsRoute, Distinct, Starts

\* A simple path is no longer than there are calls.
LEMMA RouteLength ==
    ASSUME GraphOK(graph), NEW x, IsRoute(x) PROVE Len(x[1]) <= Len(graph.edges) + 1
<1> DEFINE L == Len(graph.edges)
           p == x[1]
           f == [k \in 2..Len(p) |-> p[k]]
           g == [i \in 1..L |-> graph.edges[i].dst]
<1>1. L \in Nat /\ DOMAIN graph.edges = 1..L
  BY EdgeCount
<1>2. p \in Seq(PathNodes) /\ Len(p) \in Nat /\ Len(p) >= 1 /\ Distinct(p) /\ DOMAIN p = 1..Len(p)
  BY DEF IsRoute
<1>3. g \in Surjection(1..L, Callees)
  BY <1>1 DEF Surjection, Callees
<1>4. f \in Injection(2..Len(p), Callees)
  <2>1. f \in [2..Len(p) -> Callees]
    BY DEF IsRoute
  <2>2. \A a, b \in 2..Len(p) : f[a] = f[b] => a = b
    BY <1>2 DEF Distinct
  <2> HIDE DEF f
  <2> QED BY <2>1, <2>2 DEF Injection, IsInjective
<1>5. IsFiniteSet(1..L) /\ Cardinality(1..L) = L /\ Cardinality(2..Len(p)) = Len(p) - 1
  <2>1. 1 \in Int /\ 2 \in Int /\ L \in Int /\ Len(p) \in Int
    BY <1>1, <1>2
  <2> HIDE DEF L, p
  <2>2. IsFiniteSet(1..L) /\ Cardinality(1..L) = IF 1 > L THEN 0 ELSE L - 1 + 1
    BY <2>1, FS_Interval
  <2>3. Cardinality(2..Len(p)) = IF 2 > Len(p) THEN 0 ELSE Len(p) - 2 + 1
    BY <2>1, FS_Interval
  <2> QED BY <1>1, <1>2, <2>2, <2>3
<1> HIDE DEF f, g, L, p
<1>6. IsFiniteSet(Callees) /\ Cardinality(Callees) <= L
  BY <1>3, <1>5, FS_Surjection
<1>7. Cardinality(2..Len(p)) <= Cardinality(Callees)
  BY <1>4, <1>6, FS_Injection
<1>8. Cardinality(Callees) \in Nat
  BY <1>6, FS_CardinalityType
<1>9. Len(p) <= L + 1
  BY <1>1, <1>2, <1>5, <1>6, <1>7, <1>8
<1> QED BY <1>9 DEF L, p

LEMMA RoutesWiden ==
    ASSUME GraphOK(graph), NEW a \in 0..Len(graph.edges)
    PROVE  \A i \in a..Len(graph.edges) : Routes[a] \subseteq Routes[i]
<1> DEFINE L == Len(graph.edges)
           bad == {i \in a..L : ~(Routes[a] \subseteq Routes[i])}
<1>1. L \in Nat /\ a \in 0..L
  BY EdgeCount
<1>2. SUFFICES ASSUME bad # {} PROVE FALSE
  OBVIOUS
<1> HIDE DEF L
<1>3. PICK i \in bad : \A j \in bad : i <= j
  <2>1. bad \subseteq Nat
    BY <1>1
  <2> HIDE DEF bad
  <2> QED BY <1>2, <2>1, LeastPosition
<1>4. i # a /\ i \in a..L
  BY <1>3
<1>5. i - 1 \in a..L /\ i \in 1..L /\ ~(i <= i - 1)
  BY <1>1, <1>4
<1>6. Routes[a] \subseteq Routes[i - 1]
  BY <1>3, <1>5
<1>7. Routes[i - 1] \subseteq Routes[i]
  BY <1>5, RoutesGrow DEF IsGrowth, L
<1> QED BY <1>3, <1>6, <1>7

\* A route was met when it was as long as it is.
MetInTime(x, i) == IsRoute(x) /\ Len(x[1]) <= i + 1 /\ x \in Routes[Len(x[1]) - 1]

LEMMA RoutesInTime ==
    ASSUME GraphOK(graph), ~Backwards
    PROVE  \A i \in 0..Len(graph.edges) : \A x \in Routes[i] : MetInTime(x, i)
<1> DEFINE L == Len(graph.edges)
           bad == {i \in 0..L : ~ \A x \in Routes[i] : MetInTime(x, i)}
<1>1. L \in Nat
  BY EdgeCount
<1>2. SUFFICES ASSUME bad # {} PROVE FALSE
  OBVIOUS
<1> HIDE DEF L
<1>3. PICK i \in bad : \A j \in bad : i <= j
  <2>1. bad \subseteq Nat
    BY <1>1
  <2> HIDE DEF bad
  <2> QED BY <1>2, <2>1, LeastPosition
<1>4. PICK x \in Routes[i] : ~MetInTime(x, i)
  BY <1>3
<1>5. Routes[0] = FirstRoutes
  BY RoutesGrow DEF IsGrowth
<1>6. i # 0
  <2>1. SUFFICES ASSUME i = 0 PROVE FALSE
    OBVIOUS
  <2>2. x \in FirstRoutes /\ x \in Routes[0]
    BY <1>4, <1>5, <2>1
  <2>3. IsRoute(x) /\ Len(x[1]) = 1
    BY <2>2, FirstIsRoute
  <2>4. 1 - 1 = 0 /\ 1 <= 0 + 1
    OBVIOUS
  <2>5. MetInTime(x, 0)
    BY <2>2, <2>3, <2>4 DEF MetInTime
  <2> QED BY <1>4, <2>1, <2>5
<1>7. i \in 1..L /\ i - 1 \in 0..L /\ i - 1 \notin bad
  <2>1. i \in 0..L
    BY <1>3
  <2>2. i \in 1..L /\ i - 1 \in 0..L /\ ~(i <= i - 1)
    BY <1>1, <1>6, <2>1
  <2> QED BY <1>3, <2>2
<1>8. \A y \in Routes[i - 1] : MetInTime(y, i - 1)
  BY <1>7
<1>9. x \in Routes[i - 1] \/ \E y \in Routes[i - 1] : x \in Extensions(y)
  BY <1>4, <1>7, RoutesGrow DEF IsGrowth, L
<1>10. CASE x \in Routes[i - 1]
  <2>1. MetInTime(x, i - 1) /\ i \in Nat
    BY <1>1, <1>7, <1>8, <1>10
  <2>2. Len(x[1]) \in Nat
    BY <2>1 DEF MetInTime, IsRoute
  <2> QED BY <1>4, <2>1, <2>2 DEF MetInTime
<1>11. ASSUME NEW y \in Routes[i - 1], x \in Extensions(y) PROVE FALSE
  <2>1. IsRoute(y) /\ Len(y[1]) <= i - 1 + 1 /\ y \in Routes[Len(y[1]) - 1]
    BY <1>8 DEF MetInTime
  <2>2. IsRoute(x) /\ Len(x[1]) = Len(y[1]) + 1
    BY <1>11, <2>1, ExtensionIsRoute
  <2>3. Len(y[1]) \in Nat /\ Len(y[1]) >= 1
    BY <2>1 DEF IsRoute
  <2> DEFINE l == Len(y[1])
  <2> HIDE DEF l
  <2>4. l \in 1..L /\ l - 1 + 1 = l /\ l + 1 - 1 = l /\ l + 1 <= i + 1
    BY <1>1, <1>7, <2>1, <2>3 DEF l
  <2>5. x \in Routes[l]
    <3>1. Routes[l] = Routes[l - 1] \cup UNION {Extensions(pc) : pc \in Routes[l - 1]}
      BY <2>4, RoutesGrow DEF IsGrowth, L
    <3> QED BY <1>11, <2>1, <3>1 DEF l
  <2>6. Len(x[1]) = l + 1
    BY <2>2 DEF l
  <2> QED BY <1>4, <2>2, <2>4, <2>5, <2>6 DEF MetInTime
<1> QED BY <1>9, <1>10, <1>11

\* Nothing is left that would extend a route.
LEMMA RoutesClosed ==
    ASSUME GraphOK(graph), ~Backwards
    PROVE  /\ FirstRoutes \subseteq AllRoutes
           /\ \A x \in AllRoutes : IsRoute(x) /\ Extensions(x) \subseteq AllRoutes
<1> DEFINE L == Len(graph.edges)
<1>1. L \in Nat /\ 0 \in 0..L /\ L \in 0..L
  BY EdgeCount
<1>2. FirstRoutes \subseteq AllRoutes
  BY <1>1, RoutesWiden, RoutesGrow DEF IsGrowth, AllRoutes
<1>3. ASSUME NEW x \in AllRoutes, NEW y \in Extensions(x) PROVE y \in AllRoutes
  <2>1. IsRoute(x) /\ x \in Routes[Len(x[1]) - 1]
    BY <1>1, RoutesInTime DEF MetInTime, AllRoutes
  <2>2. IsRoute(y) /\ Len(y[1]) = Len(x[1]) + 1
    BY <2>1, ExtensionIsRoute
  <2>3. Len(y[1]) <= L + 1
    BY <2>2, RouteLength
  <2> DEFINE l == Len(x[1])
  <2>4. l \in Nat /\ l >= 1
    BY <2>1 DEF IsRoute
  <2>5. l \in 1..L /\ l \in 0..L /\ L \in l..L
    BY <1>1, <2>2, <2>3, <2>4
  <2>6. y \in Routes[l]
    BY <2>1, <2>5, RoutesGrow DEF IsGrowth
  <2> QED BY <2>5, <2>6, RoutesWiden DEF AllRoutes
<1>4. \A x \in AllRoutes : IsRoute(x)
  BY <1>1, RoutesInTime DEF MetInTime, AllRoutes
<1> QED BY <1>2, <1>3, <1>4

\* What holds the first routes, and the extensions of those routes that it holds, holds all.
LEMMA RoutesAreLeast ==
    ASSUME GraphOK(graph), NEW D, FirstRoutes \subseteq D,
           \A y \in D \cap AllRoutes : Extensions(y) \subseteq D
    PROVE  AllRoutes \subseteq D
<1> DEFINE L == Len(graph.edges)
           bad == {i \in 0..L : ~(Routes[i] \subseteq D)}
<1>1. L \in Nat /\ L \in 0..L
  BY EdgeCount
<1>2. SUFFICES ASSUME bad # {} PROVE FALSE
  BY <1>1 DEF AllRoutes
<1> HIDE DEF L
<1>3. PICK i \in bad : \A j \in bad : i <= j
  <2>1. bad \subseteq Nat
    BY <1>1
  <2> HIDE DEF bad
  <2> QED BY <1>2, <2>1, LeastPosition
<1>4. i # 0
  BY <1>3, RoutesGrow DEF IsGrowth
<1>5. i \in 1..L /\ i - 1 \in 0..L /\ i - 1 \notin bad /\ L \in (i - 1)..L
  <2>1. i \in 0..L
    BY <1>3
  <2>2. i \in 1..L /\ i - 1 \in 0..L /\ ~(i <= i - 1) /\ L \in (i - 1)..L
    BY <1>1, <1>4, <2>1
  <2> QED BY <1>3, <2>2
<1>6. Routes[i - 1] \subseteq D
  BY <1>5
<1>7. Routes[i - 1] \subseteq AllRoutes
  BY <1>5, RoutesWiden DEF AllRoutes, L
<1>8. Routes[i] = Routes[i - 1] \cup UNION {Extensions(pc) : pc \in Routes[i - 1]}
  BY <1>5, RoutesGrow DEF IsGrowth, L
<1> QED BY <1>3, <1>6, <1>7, <1>8

\* A route is a first one or extends one that is shorter by a call.
LEMMA RoutesComeFrom ==
    ASSUME GraphOK(graph), ~Backwards, NEW x \in AllRoutes
    PROVE  x \in FirstRoutes \/ \E y \in AllRoutes : x \in Extensions(y) /\ Len(x[1]) = Len(y[1]) + 1
<1> DEFINE D == FirstRoutes \cup UNION {Extensions(y) : y \in AllRoutes}
<1>1. AllRoutes \subseteq D
  <2>1. \A y \in D \cap AllRoutes : Extensions(y) \subseteq D
    OBVIOUS
  <2>2. FirstRoutes \subseteq D
    OBVIOUS
  <2> HIDE DEF D
  <2> QED BY <2>1, <2>2, RoutesAreLeast
<1>2. CASE x \in FirstRoutes
  BY <1>2
<1>3. CASE \E y \in AllRoutes : x \in Extensions(y)
  BY <1>3, RoutesClosed, ExtensionIsRoute
<1> QED BY <1>1, <1>2, <1>3

(* What extends a route, call by call, to another.                         *)
Leads(x, z) ==
    z \in AllRoutes /\ \A D \in SUBSET AllRoutes : x \in D /\ (\A y \in D : Extensions(y) \subseteq D) => z \in D

LEMMA RouteLeadsOn ==
    ASSUME GraphOK(graph), ~Backwards, NEW x \in AllRoutes, NEW z, Leads(x, z)
    PROVE  z = x \/ \E y \in Extensions(x) : Leads(y, z)
<1> DEFINE D == {w \in AllRoutes : w = x \/ \E y \in Extensions(x) : Leads(y, w)}
<1>1. ASSUME NEW w \in D, NEW v \in Extensions(w) PROVE v \in D
  <2>1. w \in AllRoutes /\ v \in AllRoutes
    BY RoutesClosed
  <2>2. CASE w = x
    <3>1. Leads(v, v)
      BY <2>1 DEF Leads
    <3> QED BY <1>1, <2>1, <2>2, <3>1
  <2>3. ASSUME NEW y \in Extensions(x), Leads(y, w) PROVE v \in D
    <3>1. Leads(y, v)
      BY <1>1, <2>1, <2>3 DEF Leads
    <3> QED BY <2>1, <3>1
  <2> QED BY <1>1, <2>2, <2>3
<1>2. D \in SUBSET AllRoutes /\ x \in D
  OBVIOUS
<1> HIDE DEF D
<1>3. z \in D
  BY <1>1, <1>2 DEF Leads
<1> QED BY <1>3 DEF D

LEMMA AllAreLed ==
    ASSUME GraphOK(graph), ~Backwards, NEW z \in AllRoutes
    PROVE  \E x \in FirstRoutes : Leads(x, z)
<1> DEFINE D == {w \in AllRoutes : \E x \in FirstRoutes : Leads(x, w)}
<1>1. FirstRoutes \subseteq D
  BY RoutesClosed DEF Leads
<1>2. ASSUME NEW w \in D, NEW v \in Extensions(w) PROVE v \in D
  <2>1. w \in AllRoutes /\ v \in AllRoutes
    BY RoutesClosed
  <2>2. PICK x \in FirstRoutes : Leads(x, w)
    OBVIOUS
  <2>3. Leads(x, v)
    BY <1>2, <2>1, <2>2 DEF Leads
  <2> QED BY <2>1, <2>3
<1> HIDE DEF D
<1>3. AllRoutes \subseteq D
  BY <1>1, <1>2, RoutesAreLeast
<1> QED BY <1>3 DEF D

-----------------------------------------------------------------------------
(* Call graph search: the invariant of a search for paths *)

\* One function at the start; shortest paths in a graph without receivers.
PathQueryOK(g, q) ==
    /\ q.mode \in {"simple", "shortest"}
    /\ q.roots \in Seq(Range(q.roots)) /\ Len(q.roots) = 1
    /\ q.mode = "shortest" => \A i \in DOMAIN g.edges : g.edges[i].cert = None

Route(f) == <<f.path, f.ctx>>
Following(f) ==
    {i \in Leaving(f.ctx) : InScope(graph.edges[i].dst) /\ ~Contains(f.path, graph.edges[i].dst)}
PathFrames ==
    {f \in [ctx : {x[2] : x \in AllRoutes}, depth : {0}, path : {x[1] : x \in AllRoutes},
            on : SUBSET {x[2] : x \in AllRoutes}, rest : {None} \cup SUBSET DOMAIN graph.edges] :
        /\ Route(f) \in AllRoutes /\ f.ctx.node # query.target /\ Expands(f.ctx)
        /\ f.rest = None \/ f.rest \subseteq Following(f)}

Shaped(r) ==
    /\ r = [field \in DOMAIN r |-> r[field]]
    /\ DOMAIN r = {"nodes", "keys", "edges", "paths", "frontier", "reason", "excluded"}
    /\ r.reason = None <=> r.frontier = {}

Wanted(z) == z \in AllRoutes /\ z[2].node = query.target

PathFormed(td, st, qu, ex, r) ==
    /\ td \in {<<>>, query.roots} /\ Shaped(r)
    /\ st \in Seq(PathFrames) /\ qu \in Seq(PathFrames)
    /\ \A k \in DOMAIN qu : qu[k].rest = None
    /\ td # <<>> => st = <<>> /\ qu = <<>> /\ ex = {} /\ r.paths = {}
    /\ query.mode = "simple" => qu = <<>>
    /\ query.mode = "shortest" => Len(st) <= 1

\* Every path that was found is one.
PathsSound(r) == \A p \in r.paths : \E z : Wanted(z) /\ z[1] = p

PathEnded(td, st, qu, r, s) ==
    /\ s # None => td = <<>> /\ st = <<>> /\ qu = <<>>
    /\ s = "complete" => r.frontier = {}

\* A frame will find a path.
Awaits(f, z) ==
    IF f.rest = None THEN Leads(Route(f), z)
    ELSE \E i \in f.rest : Leads(Extension(Route(f), graph.edges[i]), z)

SimpleWhole(td, st, r) ==
    td = <<>> /\ r.frontier = {} =>
      \A z : Wanted(z) => z[1] \in r.paths \/ \E k \in DOMAIN st : Awaits(st[k], z)

\* A function that the search goes on from, or where it ends without the target.
Met(n, ex) == n # query.target /\ (Boundary(n) \/ Anywhere(n) \in ex)
CallsMet(c, ex) == \A i \in Leaving(c) : InScope(graph.edges[i].dst) => Met(graph.edges[i].dst, ex)
Handles(f, c, ex) ==
    /\ f.ctx = c
    /\ f.rest # None => \A i \in Leaving(c) \ f.rest : InScope(graph.edges[i].dst) => Met(graph.edges[i].dst, ex)

\* The frames that wait to be looked at.
Waits(f, st, qu) == (\E k \in DOMAIN st : f = st[k]) \/ (\E k \in DOMAIN qu : f = qu[k])

\* Paths of a length are looked at after all that are shorter.
Level(l, st, qu, ex) ==
    /\ \A c \in Starts : c \in ex /\ c.node # query.target
    /\ \A k \in DOMAIN st : Len(st[k].path) = l
    /\ \A k \in DOMAIN qu : Len(qu[k].path) \in {l, l + 1}
    /\ \A j, k \in DOMAIN qu : j <= k => Len(qu[j].path) <= Len(qu[k].path)
    /\ \A x \in AllRoutes : Len(x[1]) < l /\ x[2].node # query.target /\ Expands(x[2]) => CallsMet(x[2], ex)
    /\ \A c \in ex : CallsMet(c, ex) \/ \E f : Waits(f, st, qu) /\ Handles(f, c, ex)
    /\ \A f : Waits(f, st, qu) =>
          /\ \A x \in AllRoutes : x[2] = f.ctx => Len(f.path) <= Len(x[1])
          /\ \A k \in DOMAIN f.path : Anywhere(f.path[k]) \in ex /\ f.path[k] # query.target

ShortWhole(td, st, qu, ex, r) ==
    td = <<>> /\ r.frontier = {} =>
      IF r.paths = {} THEN \E l \in Nat : Level(l, st, qu, ex)
      ELSE /\ st = <<>> /\ qu = <<>>
           /\ \A p \in r.paths : \A z : Wanted(z) => Len(p) <= Len(z[1])

PathOK(td, st, qu, ex, r, s, stop) ==
    /\ PathFormed(td, st, qu, ex, r) /\ PathsSound(r) /\ PathEnded(td, st, qu, r, s)
    /\ query.mode = "simple" => SimpleWhole(td, st, r)
    /\ query.mode = "shortest" => ShortWhole(td, st, qu, ex, r)
    /\ stop \in {None, "cancelled", "time_limit"}

PathInv ==
    /\ GraphOK(graph) /\ PathQueryOK(graph, query)
    /\ PathOK(todo, stack, queue, expanded, result, status, interrupt)

-----------------------------------------------------------------------------
(* Call graph search: a step leaves the graph and its paths alone *)

RoutesLeast ==
    /\ FirstRoutes \subseteq AllRoutes
    /\ \A x \in AllRoutes : Extensions(x) \subseteq AllRoutes
    /\ \A D : FirstRoutes \subseteq D /\ (\A y \in D \cap AllRoutes : Extensions(y) \subseteq D) => AllRoutes \subseteq D

LEMMA RoutesLeastNow == GraphOK(graph) /\ ~Backwards => RoutesLeast
BY RoutesClosed, RoutesAreLeast DEF RoutesLeast

LEMMA RoutesLeastNext == (GraphOK(graph) /\ ~Backwards => RoutesLeast)'
BY RoutesLeastNow, PTL

LEMMA SameRoutes ==
    ASSUME GraphOK(graph), ~Backwards, UNCHANGED <<graph, query>>
    PROVE  /\ AllRoutes' = AllRoutes /\ \A x : Extensions(x)' = Extensions(x)
<1>1. ASSUME NEW x PROVE Extensions(x)' = Extensions(x)
  <2>1. \A c : Onward(c)' = Onward(c) /\ (Expands(c) <=> Expands(c)')
    BY DEF Onward, EdgesOf, Leaving, Matches, Backwards, InScope, Far, Expands, Starts, Boundary
  <2>2. \A e, c : Descend(e, c)' = Descend(e, c)
    BY DEF Descend
  <2> QED BY <2>1, <2>2 DEF Extensions
<1>2. FirstRoutes' = FirstRoutes
  BY DEF FirstRoutes, Starts, InScope
<1>3. RoutesLeast /\ RoutesLeast'
  BY RoutesLeastNow, RoutesLeastNext DEF GraphOK, Backwards
<1>4. PICK now, after, first : now = AllRoutes /\ after = AllRoutes' /\ first = FirstRoutes
  OBVIOUS
<1>5. /\ first \subseteq after /\ \A x \in after : Extensions(x) \subseteq after
      /\ first \subseteq now /\ \A x \in now : Extensions(x) \subseteq now
  BY <1>1, <1>2, <1>3, <1>4 DEF RoutesLeast
<1>6. now \subseteq after
  BY <1>3, <1>4, <1>5 DEF RoutesLeast
<1>7. \A D : first \subseteq D /\ (\A y \in D \cap after : Extensions(y) \subseteq D) => after \subseteq D
  BY <1>1, <1>2, <1>3, <1>4 DEF RoutesLeast
<1>8. after \subseteq now
  BY <1>5, <1>7
<1> QED BY <1>1, <1>4, <1>6, <1>8

LEMMA PathGoesOn ==
    ASSUME PathInv, UNCHANGED <<graph, query>>,
           PathOK(todo', stack', queue', expanded', result', status', interrupt')
    PROVE  PathInv'
<1>1. PICK td, st, qu, ex, r, s, stop : /\ td = todo' /\ st = stack' /\ qu = queue' /\ ex = expanded'
                                        /\ r = result' /\ s = status' /\ stop = interrupt'
  OBVIOUS
<1>2. PathOK(td, st, qu, ex, r, s, stop)
  BY <1>1
<1>3. AllRoutes' = AllRoutes /\ \A x : Extensions(x)' = Extensions(x)
  BY SameRoutes DEF PathInv, PathQueryOK, Backwards
<1>4. PathFrames' = PathFrames
  <2>1. \A f : Following(f)' = Following(f) /\ (Expands(f.ctx) <=> Expands(f.ctx)')
    BY DEF Following, Leaving, Matches, Backwards, InScope, Expands, Starts, Boundary
  <2> QED BY <1>3, <2>1 DEF PathFrames, Route
<1>5. \A z : Wanted(z)' <=> Wanted(z)
  BY <1>3 DEF Wanted
<1>6. \A x, z : Leads(x, z)' <=> Leads(x, z)
  BY <1>3 DEF Leads
<1>7. \A f, z : Awaits(f, z)' <=> Awaits(f, z)
  BY <1>6 DEF Awaits, Extension, Route, Descend
<1>8. /\ PathFormed(td, st, qu, ex, r)' <=> PathFormed(td, st, qu, ex, r)
      /\ PathsSound(r)' <=> PathsSound(r)
      /\ PathEnded(td, st, qu, r, s)' <=> PathEnded(td, st, qu, r, s)
      /\ SimpleWhole(td, st, r)' <=> SimpleWhole(td, st, r)
  BY <1>4, <1>5, <1>7 DEF PathFormed, Shaped, PathsSound, PathEnded, SimpleWhole
<1>9. ShortWhole(td, st, qu, ex, r)' <=> ShortWhole(td, st, qu, ex, r)
  <2>1. \A c, f : /\ (CallsMet(c, ex) <=> CallsMet(c, ex)') /\ (Expands(c) <=> Expands(c)')
                  /\ (Handles(f, c, ex) <=> Handles(f, c, ex)')
    BY DEF CallsMet, Handles, Met, Leaving, Matches, Backwards, InScope, Expands, Starts, Boundary
  <2>2. Starts' = Starts
    BY DEF Starts, InScope
  <2>3. \A l : Level(l, st, qu, ex)' <=> Level(l, st, qu, ex)
    BY <1>3, <2>1, <2>2 DEF Level, Waits
  <2> QED BY <1>5, <2>3 DEF ShortWhole
<1>10. PathOK(td, st, qu, ex, r, s, stop)'
  BY <1>2, <1>8, <1>9 DEF PathOK
<1> QED BY <1>1, <1>10 DEF PathInv, GraphOK, PathQueryOK

-----------------------------------------------------------------------------
(* Call graph search for paths: what the steps have in common *)

LEMMA PathMode ==
    ASSUME PathInv
    PROVE  /\ ~Backwards /\ ~Walking /\ query.mode # "callees" /\ (query.mode = "simple" \/ query.mode = "shortest")
           /\ GraphOK(graph) /\ Shaped(result)
           /\ \E n : query.roots = <<n>>
BY DEF PathInv, PathQueryOK, Backwards, Walking, PathOK, PathFormed

LEMMA PathTruncating ==
    ASSUME NEW r, Shaped(r), NEW n, NEW why, why # None
    PROVE  LET t == Truncate(r, n, why) IN Shaped(t) /\ t.paths = r.paths /\ t.frontier # {}
BY DEF Truncate, Shaped

LEMMA PathStopping ==
    ASSUME PathInv, Stops, NEW n
    PROVE  /\ LET t == Truncate(result, n, StopReason) IN Shaped(t) /\ t.paths = result.paths /\ t.frontier # {}
           /\ LET t == StopAt(n) IN Shaped(t) /\ t.paths = result.paths /\ t.frontier # {}
<1>1. Shaped(result) /\ interrupt \in {None, "cancelled", "time_limit"}
  BY DEF PathInv, PathOK, PathFormed
<1>2. StopReason # None
  BY <1>1, SearchAssumption DEF Stops, StopReason, Spent
<1>3. StopAt(n) = Truncate(result, n, StopReason)
  BY PathMode DEF StopAt
<1> QED BY <1>1, <1>2, <1>3, PathTruncating

LEMMA PathRefusing ==
    ASSUME PathInv, NEW n, NEW m, NEW keys, Refusal(m, keys) # None
    PROVE  LET t == Truncate(result, n, Refusal(m, keys)) IN Shaped(t) /\ t.paths = result.paths /\ t.frontier # {}
BY PathMode, PathTruncating

LEMMA PathAdmitting ==
    ASSUME NEW r, Shaped(r), NEW n, NEW keys
    PROVE  LET t == Admit(r, n, keys) IN Shaped(t) /\ t.paths = r.paths /\ t.frontier = r.frontier
BY DEF Admit, Shaped

LEMMA PathExcluding ==
    ASSUME NEW r, Shaped(r), NEW ns
    PROVE  LET t == [r EXCEPT !.excluded = @ \cup ns] IN Shaped(t) /\ t.paths = r.paths /\ t.frontier = r.frontier
BY DEF Shaped

\* A step that leaves a path out says so.
LEMMA PathCutShort ==
    ASSUME PathInv, status = None, UNCHANGED <<graph, query, interrupt, status>>,
           NEW t, result' = t, t.paths = result.paths, t.frontier # {},
           PathFormed(todo', stack', queue', expanded', t)
    PROVE  PathInv'
<1>1. PICK td, st, qu, ex : td = todo' /\ st = stack' /\ qu = queue' /\ ex = expanded'
  OBVIOUS
<1>2. PathFormed(td, st, qu, ex, t)
  BY <1>1
<1>3. PathsSound(t) /\ interrupt \in {None, "cancelled", "time_limit"}
  BY DEF PathsSound, PathInv, PathOK
<1>4. PathEnded(td, st, qu, t, status) /\ SimpleWhole(td, st, t) /\ ShortWhole(td, st, qu, ex, t)
  BY SearchAssumption DEF PathEnded, SimpleWhole, ShortWhole
<1>5. PathOK(td, st, qu, ex, t, status, interrupt)
  BY <1>2, <1>3, <1>4 DEF PathOK
<1> QED BY <1>1, <1>5, PathGoesOn

\* The innermost frame and the others.
LEMMA PathTop ==
    ASSUME PathInv, stack # <<>>
    PROVE  /\ status = None /\ todo = <<>>
           /\ stack \in Seq(PathFrames) /\ queue \in Seq(PathFrames) /\ \A k \in DOMAIN queue : queue[k].rest = None
           /\ Top \in PathFrames /\ Top = stack[1] /\ 1 \in DOMAIN stack
           /\ Below \in Seq(PathFrames)
           /\ query.mode = "shortest" => Below = <<>>
           /\ \A k \in DOMAIN stack : k = 1 \/ (k - 1 \in DOMAIN Below /\ Below[k - 1] = stack[k])
<1>1. stack \in Seq(PathFrames) /\ queue \in Seq(PathFrames) /\ \A k \in DOMAIN queue : queue[k].rest = None
  BY DEF PathInv, PathOK, PathFormed
<1>2. status = None /\ todo = <<>>
  BY DEF PathInv, PathOK, PathFormed, PathEnded
<1>3. Len(stack) \in Nat /\ Len(stack) > 0 /\ Top = stack[1] /\ 1 \in DOMAIN stack
  BY <1>1 DEF Top
<1>4. /\ Below \in Seq(PathFrames) /\ DOMAIN Below = 1..(Len(stack) - 1) /\ Len(Below) = Len(stack) - 1
      /\ \A k \in DOMAIN Below : k + 1 \in DOMAIN stack /\ Below[k] = stack[k + 1]
  BY <1>1 DEF Below
<1>5. ASSUME NEW k \in DOMAIN stack, k # 1 PROVE k - 1 \in DOMAIN Below /\ Below[k - 1] = stack[k]
  <2>1. k - 1 \in DOMAIN Below /\ (k - 1) + 1 = k
    BY <1>1, <1>3, <1>4, <1>5
  <2> QED BY <1>4, <2>1
<1>6. Top \in PathFrames
  BY <1>1, <1>3
<1>7. query.mode = "shortest" => Below = <<>>
  <2>1. query.mode = "shortest" => Len(stack) <= 1
    BY DEF PathInv, PathOK, PathFormed
  <2>2. Len(Below) = 0 => Below = <<>>
    BY <1>4
  <2> QED BY <1>3, <1>4, <2>1, <2>2
<1> HIDE DEF Top, Below
<1> QED BY <1>1, <1>2, <1>3, <1>4, <1>5, <1>6, <1>7

\* A frame on others.
LEMMA PathPush ==
    ASSUME NEW f \in PathFrames, NEW st \in Seq(PathFrames), NEW pushed, pushed = <<f>> \o st
    PROVE  /\ pushed \in Seq(PathFrames) /\ 1 \in DOMAIN pushed /\ pushed[1] = f
           /\ Len(pushed) = Len(st) + 1
           /\ \A k \in DOMAIN st : k + 1 \in DOMAIN pushed /\ pushed[k + 1] = st[k]
           /\ \A k \in DOMAIN pushed : pushed[k] = f \/ \E j \in DOMAIN st : pushed[k] = st[j]
<1>1. /\ pushed \in Seq(PathFrames) /\ DOMAIN pushed = 1..(Len(st) + 1) /\ DOMAIN st = 1..Len(st)
      /\ pushed[1] = f /\ \A k \in 1..Len(st) : pushed[k + 1] = st[k]
      /\ Len(st) \in Nat /\ Len(pushed) = Len(st) + 1
  OBVIOUS
<1>2. \A k \in DOMAIN pushed : k = 1 \/ (k - 1 \in DOMAIN st /\ pushed[k] = st[k - 1])
  BY <1>1
<1>3. \A k \in DOMAIN st : k + 1 \in DOMAIN pushed /\ pushed[k + 1] = st[k]
  BY <1>1
<1> QED BY <1>1, <1>2, <1>3

LEMMA PathTopFormed ==
    ASSUME PathInv, stack # <<>>, NEW t, Shaped(t)
    PROVE  PathFormed(todo, Below, queue, expanded, t)
<1>1. query.mode = "shortest" => Len(Below) <= 1
  <2>1. Len(<<>>) = 0
    OBVIOUS
  <2> QED BY <2>1, PathTop
<1> QED BY <1>1, PathTop DEF PathInv, PathOK, PathFormed

LEMMA PathStoppedStep == ASSUME PathInv, Stopped PROVE PathInv'
<1>1. stack # <<>>
  BY DEF Stopped, Looking
<1> DEFINE t == StopAt(Top.ctx.node)
<1>2. Shaped(t) /\ t.paths = result.paths /\ t.frontier # {}
  BY PathStopping DEF Stopped
<1> HIDE DEF t
<1>3. PathFormed(todo, Below, queue, expanded, t)
  BY <1>1, <1>2, PathTopFormed
<1> QED BY <1>1, <1>2, <1>3, PathTop, PathCutShort DEF Stopped, t

LEMMA PathRefuseStep == ASSUME PathInv, Refuse PROVE PathInv'
<1>1. stack # <<>>
  BY DEF Refuse, Looking
<1> DEFINE t == Truncate(result, Far(Edge), Refusal(Far(Edge), {Key(Edge)}))
<1>2. Shaped(t) /\ t.paths = result.paths /\ t.frontier # {}
  BY PathRefusing DEF Refuse
<1> HIDE DEF t
<1>3. PathFormed(todo, Below, queue, expanded, t)
  BY <1>1, <1>2, PathTopFormed
<1> QED BY <1>1, <1>2, <1>3, PathTop, PathCutShort DEF Refuse, t

LEMMA PathInterruptStep == ASSUME PathInv, Interrupt PROVE PathInv'
<1>1. PICK stop : stop = interrupt'
  OBVIOUS
<1>2. PathOK(todo, stack, queue, expanded, result, status, stop)
  BY <1>1 DEF Interrupt, PathInv, PathOK
<1> QED BY <1>1, <1>2, PathGoesOn DEF Interrupt

LEMMA PathFinishStep == ASSUME PathInv, Finish PROVE PathInv'
<1>1. /\ todo = <<>> /\ stack = <<>> /\ queue = <<>>
      /\ result' = Retained /\ UNCHANGED <<graph, query, interrupt, todo, stack, queue, expanded>>
      /\ status' = "complete" => result.frontier = {}
  BY DEF Finish, Idle
<1>2. PICK t, s : t = result' /\ s = status'
  OBVIOUS
<1>3. Shaped(t) /\ t.paths = result.paths /\ t.frontier = result.frontier
  BY <1>1, <1>2, PathMode DEF Retained, Shaped
<1>4. PathFormed(todo, stack, queue, expanded, t) /\ PathsSound(t) /\ PathEnded(todo, stack, queue, t, s)
  BY <1>1, <1>2, <1>3 DEF PathInv, PathOK, PathFormed, PathsSound, PathEnded
<1>5. /\ query.mode = "simple" => SimpleWhole(todo, stack, t)
      /\ query.mode = "shortest" => ShortWhole(todo, stack, queue, expanded, t)
  BY <1>3 DEF PathInv, PathOK, SimpleWhole, ShortWhole
<1>6. PathOK(todo, stack, queue, expanded, t, s, interrupt)
  BY <1>4, <1>5 DEF PathInv, PathOK
<1> QED BY <1>1, <1>2, <1>6, PathGoesOn

-----------------------------------------------------------------------------
(* Call graph search for paths: the start *)

LEMMA OneRoot ==
    ASSUME PathInv, NEW n, query.roots = <<n>>
    PROVE  /\ InScope(n) => Starts = {Anywhere(n)} /\ FirstRoutes = {<<<<n>>, Anywhere(n)>>}
           /\ ~InScope(n) => Starts = {} /\ AllRoutes = {}
<1>1. Range(query.roots) = {n}
  BY DEF Range
<1>2. Anywhere(n).node = n
  BY DEF Anywhere, Context
<1>3. InScope(n) => Starts = {Anywhere(n)}
  BY <1>1 DEF Starts
<1>4. ~InScope(n) => Starts = {}
  BY <1>1 DEF Starts
<1>5. ASSUME ~InScope(n) PROVE AllRoutes \subseteq {}
  <2>1. FirstRoutes \subseteq {}
    BY <1>4, <1>5 DEF FirstRoutes
  <2> QED BY <2>1, RoutesAreLeast, PathMode
<1> QED BY <1>2, <1>3, <1>4, <1>5 DEF FirstRoutes

\* In a graph without receivers there is one context for each function.
LEMMA PlainContexts ==
    ASSUME PathInv, query.mode = "shortest"
    PROVE  /\ \A x \in AllRoutes : x[2] = Anywhere(x[2].node)
           /\ \A i \in DOMAIN graph.edges : \A m : Descend(graph.edges[i], Anywhere(m)) = Anywhere(graph.edges[i].dst)
<1>1. \A i \in DOMAIN graph.edges : graph.edges[i].cert = None
  BY DEF PathInv, PathQueryOK
<1>2. \A i \in DOMAIN graph.edges : \A m : Descend(graph.edges[i], Anywhere(m)) = Anywhere(graph.edges[i].dst)
  BY <1>1 DEF Descend, Anywhere, Context
<1> DEFINE D == {x \in AllRoutes : x[2] = Anywhere(x[2].node)}
<1>3. FirstRoutes \subseteq D
  <2>1. \A x \in FirstRoutes : x[2] = Anywhere(x[2].node)
    BY DEF FirstRoutes, Starts, Anywhere, Context
  <2> QED BY <2>1, RoutesClosed, PathMode
<1>4. ASSUME NEW y \in D, NEW x \in Extensions(y) PROVE x \in D
  <2>1. PICK i \in Leaving(y[2]) : x = Extension(y, graph.edges[i])
    BY ExtensionCall, PathMode
  <2>2. x[2] = Descend(graph.edges[i], Anywhere(y[2].node)) /\ i \in DOMAIN graph.edges
    BY <2>1 DEF Extension, Leaving
  <2>3. x[2] = Anywhere(graph.edges[i].dst)
    BY <1>2, <2>2
  <2>4. x[2] = Anywhere(x[2].node)
    BY <2>3 DEF Anywhere, Context
  <2> QED BY <2>4, RoutesClosed, PathMode
<1> HIDE DEF D
<1>5. AllRoutes \subseteq D
  BY <1>3, <1>4, RoutesAreLeast, PathMode
<1> QED BY <1>2, <1>5 DEF D

LEMMA FreshState ==
    ASSUME PathInv, todo # <<>>
    PROVE  /\ todo = query.roots /\ Tail(todo) = <<>> /\ query.roots = <<Head(todo)>>
           /\ stack = <<>> /\ queue = <<>> /\ expanded = {} /\ result.paths = {}
<1>1. PICK n : query.roots = <<n>>
  BY PathMode
<1>2. todo = <<n>> /\ stack = <<>> /\ queue = <<>> /\ expanded = {} /\ result.paths = {}
  BY <1>1 DEF PathInv, PathOK, PathFormed
<1> QED BY <1>1, <1>2

LEMMA FirstFrameOK ==
    ASSUME PathInv, NEW n, query.roots = <<n>>, InScope(n), n # query.target
    PROVE  LET f == FirstFrame(n)
           IN f \in PathFrames /\ f.rest = None /\ Route(f) = <<<<n>>, Anywhere(n)>> /\ f.ctx = Anywhere(n)
              /\ f.path = <<n>>
<1> DEFINE f == FirstFrame(n)
           x == <<<<n>>, Anywhere(n)>>
<1>1. x \in AllRoutes
  BY OneRoot, RoutesClosed, PathMode
<1>2. f = [ctx |-> x[2], depth |-> 0, path |-> x[1], on |-> {x[2]}, rest |-> None]
  BY PathMode DEF FirstFrame
<1>3. Expands(x[2]) /\ x[2].node = n
  BY OneRoot DEF Expands, Anywhere, Context
<1> HIDE DEF f, x
<1>4. f \in [ctx : {y[2] : y \in AllRoutes}, depth : {0}, path : {y[1] : y \in AllRoutes},
             on : SUBSET {y[2] : y \in AllRoutes}, rest : {None} \cup SUBSET DOMAIN graph.edges]
  BY <1>1, <1>2
<1>5. Route(f) = x
  BY <1>2 DEF Route, x
<1>6. f \in PathFrames
  BY <1>1, <1>2, <1>3, <1>4, <1>5 DEF PathFrames
<1> QED BY <1>2, <1>5, <1>6 DEF f, x

LEMMA PathStartRootStep == ASSUME PathInv, StartRoot PROVE PathInv'
<1> DEFINE n == Head(todo)
           first == <<<<n>>, Anywhere(n)>>
<1>1. /\ todo # <<>> /\ todo' = Tail(todo) /\ status = None
      /\ UNCHANGED <<graph, query, interrupt, queue, status>>
  BY DEF StartRoot, Idle
<1>2. /\ query.roots = <<n>> /\ Tail(todo) = <<>> /\ stack = <<>> /\ queue = <<>> /\ expanded = {}
      /\ result.paths = {}
  BY <1>1, FreshState
<1>3. Shaped(result) /\ <<>> \in Seq(PathFrames) /\ interrupt \in {None, "cancelled", "time_limit"}
      /\ <<>> \in {<<>>, query.roots} /\ Len(<<>>) <= 1 /\ DOMAIN <<>> = {}
  BY DEF PathInv, PathOK, PathFormed
<1>4. \A t : Shaped(t) => PathFormed(<<>>, <<>>, <<>>, {}, t)
  BY <1>3 DEF PathFormed
<1>5. CASE ~InScope(n) /\ result' = [result EXCEPT !.excluded = @ \cup {n}] /\ UNCHANGED <<stack, expanded>>
  <2> DEFINE t == [result EXCEPT !.excluded = @ \cup {n}]
  <2>1. Shaped(t) /\ t.paths = {}
    BY <1>2, <1>3, PathExcluding
  <2>2. Starts = {} /\ AllRoutes = {}
    BY <1>2, <1>5, OneRoot
  <2> HIDE DEF t
  <2>3. Level(0, <<>>, <<>>, {})
    BY <2>2 DEF Level, Waits
  <2>4. SimpleWhole(<<>>, <<>>, t) /\ ShortWhole(<<>>, <<>>, <<>>, {}, t)
    BY <2>1, <2>2, <2>3 DEF SimpleWhole, ShortWhole, Wanted
  <2>5. PathOK(<<>>, <<>>, <<>>, {}, t, status, interrupt)
    BY <1>1, <1>3, <1>4, <2>1, <2>4, SearchAssumption DEF PathOK, PathsSound, PathEnded
  <2> QED BY <1>1, <1>2, <1>5, <2>5, PathGoesOn DEF t
<1>6. CASE Stops /\ result' = Truncate(result, n, StopReason) /\ UNCHANGED <<stack, expanded>>
  <2> DEFINE t == Truncate(result, n, StopReason)
  <2>1. Shaped(t) /\ t.paths = result.paths /\ t.frontier # {}
    BY <1>6, PathStopping
  <2> HIDE DEF t
  <2> QED BY <1>1, <1>2, <1>4, <1>6, <2>1, PathCutShort DEF t
<1>7. CASE Refusal(n, {}) # None /\ result' = Truncate(result, n, Refusal(n, {})) /\ UNCHANGED <<stack, expanded>>
  <2> DEFINE t == Truncate(result, n, Refusal(n, {}))
  <2>1. Shaped(t) /\ t.paths = result.paths /\ t.frontier # {}
    BY <1>7, PathRefusing
  <2> HIDE DEF t
  <2> QED BY <1>1, <1>2, <1>4, <1>7, <2>1, PathCutShort DEF t
<1>8. CASE /\ InScope(n) /\ n = query.target /\ result' = [Admit(result, n, {}) EXCEPT !.paths = {<<n>>}]
           /\ UNCHANGED <<stack, expanded>>
  <2> DEFINE t == [Admit(result, n, {}) EXCEPT !.paths = {<<n>>}]
  <2>1. Shaped(t) /\ t.paths = {<<n>>}
    BY <1>3, PathAdmitting DEF Shaped
  <2>2. FirstRoutes = {first}
    BY <1>2, <1>8, OneRoot
  <2>3. first[2].node = n
    BY DEF Anywhere, Context
  <2>4. Extensions(first) = {}
    BY <1>8, <2>3 DEF Extensions
  <2>5. AllRoutes = {first}
    <3>1. AllRoutes \subseteq {first}
      BY <2>2, <2>4, RoutesAreLeast, PathMode
    <3> QED BY <2>2, <3>1, RoutesClosed, PathMode
  <2>6. Wanted(first) /\ first[1] = <<n>> /\ \A z : Wanted(z) => z[1] = <<n>>
    BY <1>8, <2>3, <2>5 DEF Wanted
  <2> HIDE DEF t, first
  <2>7. PathsSound(t)
    BY <2>1, <2>6 DEF PathsSound
  <2>8. Len(<<n>>) <= Len(<<n>>)
    OBVIOUS
  <2>9. SimpleWhole(<<>>, <<>>, t) /\ ShortWhole(<<>>, <<>>, <<>>, {}, t)
    BY <2>1, <2>6, <2>8 DEF SimpleWhole, ShortWhole
  <2>10. PathOK(<<>>, <<>>, <<>>, {}, t, status, interrupt)
    BY <1>1, <1>3, <1>4, <2>1, <2>7, <2>9, SearchAssumption DEF PathOK, PathEnded
  <2> QED BY <1>1, <1>2, <1>8, <2>10, PathGoesOn DEF t
<1>9. CASE /\ InScope(n) /\ n # query.target /\ result' = Admit(result, n, {})
           /\ stack' = <<FirstFrame(n)>> /\ expanded' = expanded \cup {Anywhere(n)}
  <2> DEFINE t == Admit(result, n, {})
             f == FirstFrame(n)
  <2>1. Shaped(t) /\ t.paths = {}
    BY <1>2, <1>3, PathAdmitting
  <2>2. /\ f \in PathFrames /\ f.rest = None /\ Route(f) = first /\ f.ctx = Anywhere(n) /\ f.path = <<n>>
    BY <1>2, <1>9, FirstFrameOK
  <2>3. FirstRoutes = {first} /\ Starts = {Anywhere(n)}
    BY <1>2, <1>9, OneRoot
  <2> HIDE DEF t, f
  <2>4. PICK st, ex : st = <<f>> /\ ex = {Anywhere(n)}
    OBVIOUS
  <2>5. st \in Seq(PathFrames) /\ Len(st) = 1 /\ DOMAIN st = {1} /\ st[1] = f
    BY <2>2, <2>4
  <2>6. PathFormed(<<>>, st, <<>>, ex, t)
    BY <1>3, <2>1, <2>5 DEF PathFormed
  <2>7. SimpleWhole(<<>>, st, t)
    <3>1. SUFFICES ASSUME NEW z, Wanted(z) PROVE Awaits(f, z)
      BY <2>5 DEF SimpleWhole
    <3>2. \E x \in FirstRoutes : Leads(x, z)
      BY <3>1, AllAreLed, PathMode DEF Wanted
    <3> QED BY <2>2, <2>3, <3>2 DEF Awaits
  <2>8. Level(1, st, <<>>, ex)
    <3>1. Anywhere(n).node = n /\ Len(<<n>>) = 1 /\ DOMAIN <<n>> = {1} /\ <<n>>[1] = n
      BY DEF Anywhere, Context
    <3>2. \A x \in AllRoutes : Len(x[1]) \in Nat /\ Len(x[1]) >= 1
      BY RoutesClosed, PathMode DEF IsRoute
    <3>3. \A g : Waits(g, st, <<>>) <=> g = f
      BY <2>5 DEF Waits
    <3>4. Handles(f, Anywhere(n), ex)
      BY <2>2 DEF Handles
    <3>5. \A c \in Starts : c \in ex /\ c.node # query.target
      BY <1>9, <2>3, <2>4, <3>1
    <3>6. \A x \in AllRoutes : ~(Len(x[1]) < 1)
      BY <3>2
    <3>7. \A x \in AllRoutes : 1 <= Len(x[1])
      BY <3>2
    <3> HIDE DEF n
    <3> QED BY <1>9, <2>2, <2>4, <2>5, <3>1, <3>3, <3>4, <3>5, <3>6, <3>7 DEF Level
  <2>9. ShortWhole(<<>>, st, <<>>, ex, t)
    BY <2>1, <2>8 DEF ShortWhole
  <2>10. PathOK(<<>>, st, <<>>, ex, t, status, interrupt)
    BY <1>1, <1>3, <2>1, <2>6, <2>7, <2>9, SearchAssumption DEF PathOK, PathEnded, PathsSound
  <2>11. todo' = <<>> /\ stack' = st /\ expanded' = ex /\ result' = t /\ queue' = <<>>
    BY <1>1, <1>2, <1>9, <2>4 DEF t, f
  <2> QED BY <1>1, <2>10, <2>11, PathGoesOn
<1> QED BY <1>5, <1>6, <1>7, <1>8, <1>9 DEF StartRoot

-----------------------------------------------------------------------------
(* Call graph search for paths: frames and what they wait for *)

LEMMA FrameFacts ==
    ASSUME PathInv, NEW f \in PathFrames
    PROVE  /\ Route(f) \in AllRoutes /\ IsRoute(Route(f)) /\ f.ctx.node # query.target /\ Expands(f.ctx)
           /\ f.path \in Seq(PathNodes) /\ Len(f.path) \in Nat /\ Len(f.path) >= 1
           /\ Route(f)[1] = f.path /\ Route(f)[2] = f.ctx
           /\ f.rest = None \/ f.rest \subseteq Following(f)
<1>1. Route(f) \in AllRoutes /\ IsRoute(Route(f)) /\ f.ctx.node # query.target /\ Expands(f.ctx)
      /\ (f.rest = None \/ f.rest \subseteq Following(f))
  BY RoutesClosed, PathMode DEF PathFrames
<1>2. Route(f)[1] = f.path /\ Route(f)[2] = f.ctx
  BY DEF Route
<1>3. f.path \in Seq(PathNodes) /\ Len(f.path) \in Nat /\ Len(f.path) >= 1
  BY <1>1, <1>2 DEF IsRoute
<1> QED BY <1>1, <1>2, <1>3

\* What a frame can follow are the extensions of its route.
LEMMA FrameExtends ==
    ASSUME PathInv, NEW f \in PathFrames
    PROVE  /\ \A i \in Following(f) : Extension(Route(f), graph.edges[i]) \in Extensions(Route(f))
           /\ \A y \in Extensions(Route(f)) : \E i \in Following(f) : y = Extension(Route(f), graph.edges[i])
BY ExtensionCall, PathMode, FrameFacts DEF Following

LEMMA LeadsThrough ==
    ASSUME NEW x, NEW y \in Extensions(x), NEW z, Leads(y, z) PROVE Leads(x, z)
BY DEF Leads

\* A frame that looks at some of the calls waits for what is behind them.
LEMMA AwaitsBehind ==
    ASSUME PathInv, NEW f \in PathFrames, NEW rest \in SUBSET Following(f), NEW g, g = [f EXCEPT !.rest = rest]
    PROVE  /\ g \in PathFrames /\ g.path = f.path /\ g.ctx = f.ctx /\ g.rest = rest /\ Route(g) = Route(f)
           /\ Following(g) = Following(f)
           /\ \A i \in rest : \A z : Leads(Extension(Route(f), graph.edges[i]), z) => Awaits(g, z)
<1>1. rest \subseteq DOMAIN graph.edges
  BY DEF Following, Leaving
<1>2. f \in [ctx : {x[2] : x \in AllRoutes}, depth : {0}, path : {x[1] : x \in AllRoutes},
             on : SUBSET {x[2] : x \in AllRoutes}, rest : {None} \cup SUBSET DOMAIN graph.edges]
  BY DEF PathFrames
<1>3. g \in [ctx : {x[2] : x \in AllRoutes}, depth : {0}, path : {x[1] : x \in AllRoutes},
             on : SUBSET {x[2] : x \in AllRoutes}, rest : {None} \cup SUBSET DOMAIN graph.edges]
      /\ g.path = f.path /\ g.ctx = f.ctx /\ g.rest = rest
  BY <1>1, <1>2
<1>4. Route(g) = Route(f) /\ Following(g) = Following(f)
  BY <1>3 DEF Route, Following
<1>5. g \in PathFrames
  BY <1>3, <1>4, FrameFacts DEF PathFrames
<1>6. ASSUME NEW i \in rest, NEW z, Leads(Extension(Route(f), graph.edges[i]), z) PROVE Awaits(g, z)
  <2>1. Extension(Route(f), graph.edges[i]) \in Extensions(Route(f))
    BY FrameExtends
  <2>2. Leads(Route(f), z)
    BY <1>6, <2>1, LeadsThrough
  <2> QED BY <1>3, <1>4, <1>6, <2>2 DEF Awaits
<1> QED BY <1>3, <1>4, <1>5, <1>6

\* Where no call leads on, nothing else is found.
LEMMA LeadsNowhere ==
    ASSUME PathInv, NEW x \in AllRoutes, Extensions(x) = {}, NEW z, Leads(x, z) PROVE z = x
BY RouteLeadsOn, PathMode

\* One frame is replaced by others.
LEMMA StillAwaited ==
    ASSUME PathInv, stack # <<>>, query.mode = "simple",
           NEW st, NEW t, result.paths \subseteq t.paths, t.frontier = {} => result.frontier = {},
           \A k \in DOMAIN Below : \E j \in DOMAIN st : st[j] = Below[k],
           \A z : Wanted(z) /\ Awaits(Top, z) => z[1] \in t.paths \/ \E j \in DOMAIN st : Awaits(st[j], z)
    PROVE  SimpleWhole(todo, st, t)
<1>1. SUFFICES ASSUME t.frontier = {}, NEW z, Wanted(z)
               PROVE  z[1] \in t.paths \/ \E j \in DOMAIN st : Awaits(st[j], z)
  BY DEF SimpleWhole
<1>2. SimpleWhole(todo, stack, result) /\ todo = <<>>
  BY PathTop DEF PathInv, PathOK
<1>3. z[1] \in result.paths \/ \E k \in DOMAIN stack : Awaits(stack[k], z)
  BY <1>1, <1>2 DEF SimpleWhole
<1>4. ASSUME NEW k \in DOMAIN stack, Awaits(stack[k], z)
      PROVE  z[1] \in t.paths \/ \E j \in DOMAIN st : Awaits(st[j], z)
  <2>1. Top = stack[1] /\ (k = 1 \/ (k - 1 \in DOMAIN Below /\ Below[k - 1] = stack[k]))
    BY PathTop
  <2>2. CASE k = 1
    BY <1>1, <1>4, <2>1, <2>2
  <2>3. CASE k - 1 \in DOMAIN Below /\ Below[k - 1] = stack[k]
    BY <1>4, <2>3
  <2> QED BY <2>1, <2>2, <2>3
<1> QED BY <1>3, <1>4

-----------------------------------------------------------------------------
(* Call graph search for shortest paths: levels *)

LEMMA DoneStays ==
    ASSUME NEW ex, NEW wider, ex \subseteq wider
    PROVE  /\ \A n : Met(n, ex) => Met(n, wider)
           /\ \A c : CallsMet(c, ex) => CallsMet(c, wider)
           /\ \A f, c : Handles(f, c, ex) => Handles(f, c, wider)
<1>1. \A n : Met(n, ex) => Met(n, wider)
  BY DEF Met
<1> QED BY <1>1 DEF CallsMet, Handles

\* Whatever is no farther than the level is known, and it is not the target.
LEMMA LevelKnows ==
    ASSUME PathInv, query.mode = "shortest", NEW l \in Nat, NEW st, NEW qu, NEW ex, Level(l, st, qu, ex),
           NEW x \in AllRoutes, Len(x[1]) <= l
    PROVE  /\ x[2].node # query.target
           /\ Expands(x[2]) => x[2] \in ex
<1>1. CASE x \in FirstRoutes
  <2>1. x[2] \in Starts
    BY <1>1 DEF FirstRoutes
  <2> QED BY <2>1 DEF Level
<1>2. ASSUME NEW y \in AllRoutes, x \in Extensions(y), Len(x[1]) = Len(y[1]) + 1
      PROVE  x[2].node # query.target /\ (Expands(x[2]) => x[2] \in ex)
  <2>1. Len(y[1]) < l
    <3>1. Len(y[1]) \in Nat
      BY RoutesClosed, PathMode DEF IsRoute
    <3> QED BY <1>2, <3>1
  <2>2. PICK i \in Leaving(y[2]) : /\ y[2].node # query.target /\ Expands(y[2])
                                   /\ InScope(graph.edges[i].dst) /\ x = Extension(y, graph.edges[i])
    BY <1>2, ExtensionCall, PathMode
  <2>3. CallsMet(y[2], ex)
    BY <2>1, <2>2 DEF Level
  <2>4. Met(graph.edges[i].dst, ex)
    BY <2>2, <2>3 DEF CallsMet
  <2>5. x[2].node = graph.edges[i].dst
    BY <2>2 DEF Extension, Descend, Context
  <2>6. x[2] = Anywhere(x[2].node)
    BY PlainContexts
  <2>7. Boundary(x[2].node) /\ Expands(x[2]) => x[2] \in ex
    BY DEF Expands, Level
  <2> QED BY <2>4, <2>5, <2>6, <2>7 DEF Met
<1> QED BY <1>1, <1>2, RoutesComeFrom, PathMode

LEMMA OneFrame ==
    ASSUME PathInv, query.mode = "shortest", stack # <<>>
    PROVE  DOMAIN stack = {1} /\ stack[1] = Top
<1>1. Len(stack) <= 1
  BY DEF PathInv, PathOK, PathFormed
<1>2. stack \in Seq(PathFrames) /\ 1 \in DOMAIN stack /\ Top = stack[1]
  BY PathTop
<1>3. Len(stack) \in Nat /\ DOMAIN stack = 1..Len(stack)
  BY <1>2
<1>4. Len(stack) = 1
  BY <1>1, <1>2, <1>3
<1>5. 1..1 = {1}
  OBVIOUS
<1> QED BY <1>2, <1>3, <1>4, <1>5

\* The frame at the top is looked at differently.
LEMMA LevelTop ==
    ASSUME PathInv, query.mode = "shortest", stack # <<>>, NEW l \in Nat, NEW qu, NEW ex,
           Level(l, stack, qu, ex),
           NEW g, g.path = Top.path, g.ctx = Top.ctx,
           \A c : Handles(Top, c, ex) => CallsMet(c, ex) \/ Handles(g, c, ex)
    PROVE  Level(l, <<g>>, qu, ex)
<1>1. DOMAIN stack = {1} /\ stack[1] = Top
  BY OneFrame
<1>2. PICK st : st = <<g>>
  OBVIOUS
<1>3. DOMAIN st = {1} /\ st[1] = g
  BY <1>2
<1>4. \A f : Waits(f, stack, qu) <=> f = Top \/ \E k \in DOMAIN qu : f = qu[k]
  BY <1>1 DEF Waits
<1>5. \A f : Waits(f, st, qu) <=> f = g \/ \E k \in DOMAIN qu : f = qu[k]
  BY <1>3 DEF Waits
<1>6. ASSUME NEW c \in ex
      PROVE  CallsMet(c, ex) \/ \E f : Waits(f, st, qu) /\ Handles(f, c, ex)
  <2>1. CallsMet(c, ex) \/ \E f : Waits(f, stack, qu) /\ Handles(f, c, ex)
    BY DEF Level
  <2> QED BY <1>4, <1>5, <2>1
<1>7. ASSUME NEW f, Waits(f, st, qu)
      PROVE  /\ \A x \in AllRoutes : x[2] = f.ctx => Len(f.path) <= Len(x[1])
             /\ \A k \in DOMAIN f.path : Anywhere(f.path[k]) \in ex /\ f.path[k] # query.target
  <2>1. \A h : Waits(h, stack, qu) =>
          /\ \A x \in AllRoutes : x[2] = h.ctx => Len(h.path) <= Len(x[1])
          /\ \A k \in DOMAIN h.path : Anywhere(h.path[k]) \in ex /\ h.path[k] # query.target
    BY DEF Level
  <2>2. CASE f = g
    BY <1>4, <2>1, <2>2
  <2>3. CASE \E k \in DOMAIN qu : f = qu[k]
    BY <1>4, <2>1, <2>3
  <2> QED BY <1>5, <1>7, <2>2, <2>3
<1>8. \A k \in DOMAIN st : Len(st[k].path) = l
  <2>1. Len(Top.path) = l
    BY <1>1 DEF Level
  <2> QED BY <1>3, <2>1
<1>9. /\ \A c \in Starts : c \in ex /\ c.node # query.target
      /\ \A k \in DOMAIN qu : Len(qu[k].path) \in {l, l + 1}
      /\ \A j, k \in DOMAIN qu : j <= k => Len(qu[j].path) <= Len(qu[k].path)
      /\ \A x \in AllRoutes : Len(x[1]) < l /\ x[2].node # query.target /\ Expands(x[2]) => CallsMet(x[2], ex)
  BY DEF Level
<1> QED BY <1>2, <1>6, <1>7, <1>8, <1>9 DEF Level

\* The frame at the top has no call left.
LEMMA LevelPop ==
    ASSUME PathInv, query.mode = "shortest", stack # <<>>, NEW l \in Nat, Level(l, stack, queue, expanded),
           \A c : Handles(Top, c, expanded) => CallsMet(c, expanded)
    PROVE  Level(l, <<>>, queue, expanded)
<1>1. DOMAIN stack = {1} /\ stack[1] = Top
  BY OneFrame
<1>2. \A f : Waits(f, stack, queue) <=> f = Top \/ \E k \in DOMAIN queue : f = queue[k]
  BY <1>1 DEF Waits
<1>3. PICK st : st = <<>>
  OBVIOUS
<1>4. DOMAIN st = {}
  BY <1>3
<1>5. \A f : Waits(f, st, queue) <=> \E k \in DOMAIN queue : f = queue[k]
  BY <1>4 DEF Waits
<1>6. ASSUME NEW c \in expanded
      PROVE  CallsMet(c, expanded) \/ \E f : Waits(f, st, queue) /\ Handles(f, c, expanded)
  <2>1. CallsMet(c, expanded) \/ \E f : Waits(f, stack, queue) /\ Handles(f, c, expanded)
    BY DEF Level
  <2> QED BY <1>2, <1>5, <2>1
<1>7. ASSUME NEW f, Waits(f, st, queue)
      PROVE  /\ \A x \in AllRoutes : x[2] = f.ctx => Len(f.path) <= Len(x[1])
             /\ \A k \in DOMAIN f.path : Anywhere(f.path[k]) \in expanded /\ f.path[k] # query.target
  <2>1. Waits(f, stack, queue)
    BY <1>2, <1>5, <1>7
  <2> QED BY <2>1 DEF Level
<1>8. /\ \A c \in Starts : c \in expanded /\ c.node # query.target
      /\ \A k \in DOMAIN queue : Len(queue[k].path) \in {l, l + 1}
      /\ \A j, k \in DOMAIN queue : j <= k => Len(queue[j].path) <= Len(queue[k].path)
      /\ \A x \in AllRoutes : Len(x[1]) < l /\ x[2].node # query.target /\ Expands(x[2]) => CallsMet(x[2], expanded)
  BY DEF Level
<1> QED BY <1>3, <1>4, <1>6, <1>7, <1>8 DEF Level

-----------------------------------------------------------------------------
(* Call graph search for paths: one lemma for each action *)

\* The call that is looked at, and what the frame has left after it.
Left == [Top EXCEPT !.rest = @ \ {NextPosition}]

LEMMA PathLooking ==
    ASSUME PathInv, Looking
    PROVE  /\ stack # <<>> /\ Top \in PathFrames /\ Top.rest # None /\ Top.rest \subseteq Following(Top)
           /\ NextPosition \in Top.rest /\ NextPosition \in Following(Top)
           /\ InScope(Edge.dst) /\ Far(Edge) = Edge.dst /\ ~Contains(Top.path, Edge.dst)
           /\ Left \in PathFrames /\ Left.path = Top.path /\ Left.ctx = Top.ctx
           /\ Left.rest = Top.rest \ {NextPosition}
           /\ Later = <<Left>> \o Below
           /\ \A i \in Top.rest \ {NextPosition} : \A z : Leads(Extension(Route(Top), graph.edges[i]), z) => Awaits(Left, z)
<1>1. stack # <<>> /\ Top.rest # {} /\ Top.rest # None
  BY DEF Looking
<1>2. Top \in PathFrames
  BY <1>1, PathTop
<1>3. Top.rest \subseteq Following(Top)
  BY <1>1, <1>2, FrameFacts
<1>4. NextPosition \in Top.rest
  <2>1. DOMAIN graph.edges \subseteq Nat
    BY PathMode DEF GraphOK
  <2>2. Top.rest \subseteq Nat
    BY <1>3, <2>1 DEF Following, Leaving
  <2>3. \E i \in Top.rest : \A j \in Top.rest : i <= j
    BY <1>1, <2>2, LeastPosition
  <2> QED BY <2>3 DEF NextPosition
<1>5. InScope(Edge.dst) /\ ~Contains(Top.path, Edge.dst)
  BY <1>3, <1>4 DEF Following, Edge
<1>6. Far(Edge) = Edge.dst
  BY PathMode DEF Far
<1>7. PICK f, rest, g : f = Top /\ rest = Top.rest \ {NextPosition} /\ g = [f EXCEPT !.rest = rest]
  OBVIOUS
<1>8. Left = g
  BY <1>7 DEF Left
<1>9. f \in PathFrames /\ rest \in SUBSET Following(f)
  BY <1>2, <1>3, <1>7
<1>10. /\ g \in PathFrames /\ g.path = f.path /\ g.ctx = f.ctx /\ g.rest = rest
       /\ \A i \in rest : \A z : Leads(Extension(Route(f), graph.edges[i]), z) => Awaits(g, z)
  BY <1>7, <1>9, AwaitsBehind
<1>11. Later = <<Left>> \o Below
  BY DEF Later, Left
<1> HIDE DEF Top, Below
<1> QED BY <1>1, <1>2, <1>3, <1>4, <1>5, <1>6, <1>7, <1>8, <1>10, <1>11

LEMMA PathExcludeNever == ASSUME PathInv PROVE ~Exclude
BY PathLooking DEF Exclude

\* A frame whose calls lead nowhere is left.
LEMMA PathLeave ==
    ASSUME PathInv, stack # <<>>, UNCHANGED <<graph, query, interrupt, todo, queue, expanded, status>>,
           stack' = Below,
           NEW t, result' = t, Shaped(t), t.paths = result.paths, t.frontier = result.frontier,
           \A z : Wanted(z) => ~Awaits(Top, z),
           query.mode = "shortest" =>
               \A l \in Nat : \A c : Level(l, stack, queue, expanded) /\ Handles(Top, c, expanded) => CallsMet(c, expanded)
    PROVE  PathInv'
<1>1. PICK st : st = Below
  OBVIOUS
<1>2. PathFormed(todo, st, queue, expanded, t) /\ status = None /\ todo = <<>>
  BY <1>1, PathTop, PathTopFormed
<1>3. ASSUME query.mode = "simple" PROVE SimpleWhole(todo, st, t)
  BY <1>1, <1>3, StillAwaited
<1>4. ASSUME query.mode = "shortest" PROVE ShortWhole(todo, st, queue, expanded, t)
  <2>1. st = <<>>
    BY <1>1, <1>4, PathTop
  <2>2. ShortWhole(todo, stack, queue, expanded, result)
    BY <1>4 DEF PathInv, PathOK
  <2>3. \A l \in Nat : Level(l, stack, queue, expanded) => Level(l, <<>>, queue, expanded)
    BY <1>4, LevelPop
  <2> QED BY <2>1, <2>2, <2>3 DEF ShortWhole
<1>5. PathsSound(t) /\ PathEnded(todo, st, queue, t, status) /\ interrupt \in {None, "cancelled", "time_limit"}
  BY <1>2, SearchAssumption DEF PathInv, PathOK, PathsSound, PathEnded
<1>6. PathOK(todo, st, queue, expanded, t, status, interrupt)
  BY <1>2, <1>3, <1>4, <1>5 DEF PathOK
<1> QED BY <1>1, <1>6, PathGoesOn

LEMMA PathReturnStep == ASSUME PathInv, Return PROVE PathInv'
<1>1. /\ stack # <<>> /\ Top.rest = {} /\ stack' = Below /\ result' = result
      /\ UNCHANGED <<graph, query, interrupt, todo, queue, expanded, status>>
  BY PathMode DEF Return
<1>2. None # {}
  BY SearchAssumption
<1>3. \A z : ~Awaits(Top, z)
  BY <1>1, <1>2 DEF Awaits
<1>4. \A c : Handles(Top, c, expanded) => CallsMet(c, expanded)
  BY <1>1, <1>2 DEF Handles, CallsMet
<1>5. PICK t : t = result
  OBVIOUS
<1>6. Shaped(t)
  BY <1>5, PathMode
<1> QED BY <1>1, <1>3, <1>4, <1>5, <1>6, PathLeave

\* What is not to be followed was met before.
LEMMA RestIsMet ==
    ASSUME PathInv, query.mode = "shortest", stack # <<>>, NEW l \in Nat, Level(l, stack, queue, expanded),
           NEW i \in Leaving(Top.ctx), InScope(graph.edges[i].dst), i \notin Following(Top)
    PROVE  Met(graph.edges[i].dst, expanded)
<1>1. Contains(Top.path, graph.edges[i].dst)
  BY DEF Following
<1>2. PICK k \in 1..Len(Top.path) : Top.path[k] = graph.edges[i].dst
  BY <1>1 DEF Contains
<1>3. k \in DOMAIN Top.path
  BY FrameFacts, PathTop
<1>4. Waits(Top, stack, queue)
  BY PathTop DEF Waits
<1>5. Anywhere(Top.path[k]) \in expanded /\ Top.path[k] # query.target
  BY <1>3, <1>4 DEF Level
<1> QED BY <1>2, <1>5 DEF Met

LEMMA PathEnterStep == ASSUME PathInv, EnterPath PROVE PathInv'
<1> DEFINE inside == {i \in Eligible : InScope(graph.edges[i].dst)}
           seen == [result EXCEPT !.excluded = @ \cup {graph.edges[i].dst : i \in Eligible \ inside}]
<1>1. /\ stack # <<>> /\ Top.rest = None
      /\ UNCHANGED <<graph, query, interrupt, todo, queue, expanded, status>>
      /\ \/ Stops /\ result' = StopAt(Top.ctx.node) /\ stack' = Below
         \/ /\ PathAtLimit /\ stack' = Below
            /\ result' = IF inside = {} THEN seen ELSE Truncate(seen, Top.ctx.node, "max_depth")
         \/ result' = seen /\ stack' = <<[Top EXCEPT !.rest = inside]>> \o Below
  BY DEF EnterPath
<1>2. inside = Following(Top)
  BY DEF Eligible, Following
<1>3. Shaped(seen) /\ seen.paths = result.paths /\ seen.frontier = result.frontier
  BY PathMode, PathExcluding
<1>4. /\ Top \in PathFrames /\ Below \in Seq(PathFrames) /\ status = None /\ todo = <<>>
      /\ stack \in Seq(PathFrames) /\ queue \in Seq(PathFrames)
      /\ query.mode = "shortest" => Below = <<>>
  BY <1>1, PathTop
<1>5. /\ Route(Top) \in AllRoutes /\ Top.ctx.node # query.target /\ Route(Top)[2] = Top.ctx
  BY <1>4, FrameFacts
<1>6. \A z : Wanted(z) => z # Route(Top)
  BY <1>5 DEF Wanted
<1> HIDE DEF inside, seen
<1>7. CASE Stops /\ result' = StopAt(Top.ctx.node) /\ stack' = Below
  <2> DEFINE t == StopAt(Top.ctx.node)
  <2>1. Shaped(t) /\ t.paths = result.paths /\ t.frontier # {}
    BY <1>7, PathStopping
  <2> HIDE DEF t
  <2>2. PathFormed(todo, Below, queue, expanded, t)
    BY <1>1, <2>1, PathTopFormed
  <2> QED BY <1>1, <1>4, <1>7, <2>1, <2>2, PathCutShort DEF t
<1>8. CASE stack' = Below /\ inside # {} /\ result' = Truncate(seen, Top.ctx.node, "max_depth")
  <2> DEFINE t == Truncate(seen, Top.ctx.node, "max_depth")
  <2>1. Shaped(t) /\ t.paths = result.paths /\ t.frontier # {}
    BY <1>3, SearchAssumption, PathTruncating
  <2> HIDE DEF t
  <2>2. PathFormed(todo, Below, queue, expanded, t)
    BY <1>1, <2>1, PathTopFormed
  <2> QED BY <1>1, <1>4, <1>8, <2>1, <2>2, PathCutShort DEF t
<1>9. CASE stack' = Below /\ inside = {} /\ result' = seen
  <2>1. Extensions(Route(Top)) = {}
    BY <1>2, <1>4, <1>9, FrameExtends
  <2>2. \A z : Wanted(z) => ~Awaits(Top, z)
    BY <1>1, <1>5, <1>6, <2>1, LeadsNowhere DEF Awaits
  <2>3. ASSUME query.mode = "shortest", NEW l \in Nat, NEW c, Level(l, stack, queue, expanded),
               Handles(Top, c, expanded)
        PROVE  CallsMet(c, expanded)
    BY <1>1, <1>2, <1>9, <2>3, RestIsMet DEF Handles, CallsMet
  <2> QED BY <1>1, <1>3, <1>9, <2>2, <2>3, PathLeave
<1>10. CASE result' = seen /\ stack' = <<[Top EXCEPT !.rest = inside]>> \o Below
  <2>1. PICK f, g, st, bl : f = Top /\ g = [f EXCEPT !.rest = inside] /\ st = <<g>> \o bl /\ bl = Below
    OBVIOUS
  <2>2. /\ g \in PathFrames /\ g.path = f.path /\ g.ctx = f.ctx /\ g.rest = inside
        /\ \A i \in inside : \A z : Leads(Extension(Route(f), graph.edges[i]), z) => Awaits(g, z)
    <3>1. f \in PathFrames /\ inside \in SUBSET Following(f)
      BY <1>2, <1>4, <2>1
    <3>2. g = [f EXCEPT !.rest = inside]
      BY <2>1
    <3> QED BY <3>1, <3>2, AwaitsBehind
  <2>3. /\ st \in Seq(PathFrames) /\ 1 \in DOMAIN st /\ st[1] = g /\ Len(st) = Len(bl) + 1
        /\ \A k \in DOMAIN bl : k + 1 \in DOMAIN st /\ st[k + 1] = bl[k]
    BY <1>4, <2>1, <2>2, PathPush
  <2>4. query.mode = "shortest" => Len(st) <= 1
    <3>1. Len(<<>>) = 0
      OBVIOUS
    <3> QED BY <1>4, <2>1, <2>3, <3>1
  <2>5. PathFormed(todo, st, queue, expanded, seen)
    BY <1>3, <1>4, <2>3, <2>4 DEF PathInv, PathOK, PathFormed
  <2>6. ASSUME query.mode = "simple" PROVE SimpleWhole(todo, st, seen)
    <3>1. ASSUME NEW z, Wanted(z), Awaits(Top, z) PROVE Awaits(st[1], z)
      <4>1. Leads(Route(Top), z)
        BY <1>1, <3>1 DEF Awaits
      <4>2. PICK y \in Extensions(Route(Top)) : Leads(y, z)
        BY <1>5, <1>6, <3>1, <4>1, RouteLeadsOn, PathMode
      <4>3. PICK i \in inside : y = Extension(Route(Top), graph.edges[i])
        BY <1>2, <1>4, FrameExtends
      <4>4. Leads(Extension(Route(f), graph.edges[i]), z)
        BY <2>1, <4>2, <4>3
      <4> QED BY <2>2, <2>3, <4>4
    <3>2. \A k \in DOMAIN Below : \E j \in DOMAIN st : st[j] = Below[k]
      BY <2>1, <2>3
    <3> QED BY <1>1, <1>3, <2>3, <2>6, <3>1, <3>2, StillAwaited
  <2>7. ASSUME query.mode = "shortest" PROVE ShortWhole(todo, st, queue, expanded, seen)
    <3>1. st = <<g>>
      <4>1. bl = <<>>
        BY <1>4, <2>1, <2>7
      <4> QED BY <2>1, <4>1
    <3>2. ShortWhole(todo, stack, queue, expanded, result)
      BY <2>7 DEF PathInv, PathOK
    <3>3. ASSUME NEW l \in Nat, Level(l, stack, queue, expanded) PROVE Level(l, <<g>>, queue, expanded)
      <4>1. \A c : Handles(Top, c, expanded) => Handles(g, c, expanded)
        BY <1>1, <1>2, <2>1, <2>2, <2>7, <3>3, RestIsMet DEF Handles
      <4> QED BY <1>1, <2>1, <2>2, <2>7, <3>3, <4>1, LevelTop
    <3> QED BY <1>1, <1>3, <3>1, <3>2, <3>3 DEF ShortWhole
  <2>8. PathsSound(seen) /\ PathEnded(todo, st, queue, seen, status)
        /\ interrupt \in {None, "cancelled", "time_limit"}
    BY <1>3, <1>4, SearchAssumption DEF PathInv, PathOK, PathsSound, PathEnded
  <2>9. PathOK(todo, st, queue, expanded, seen, status, interrupt)
    BY <2>5, <2>6, <2>7, <2>8 DEF PathOK
  <2> QED BY <1>1, <1>10, <2>1, <2>9, PathGoesOn
<1> QED BY <1>1, <1>7, <1>8, <1>9, <1>10

\* The path that a call makes of the one at the top, and its frame.
Longer == Append(Top.path, Edge.dst)
NextRoute == Extension(Route(Top), Edge)
NextFrame == [ctx |-> Descend(Edge, Top.ctx), depth |-> 0, path |-> Longer, on |-> {}, rest |-> None]

LEMMA PathLonger ==
    ASSUME PathInv, Admissible
    PROVE  /\ Shaped(Found) /\ Found.paths = result.paths /\ Found.frontier = result.frontier
           /\ NextRoute \in AllRoutes /\ NextRoute \in Extensions(Route(Top)) /\ IsRoute(NextRoute)
           /\ NextRoute = <<Longer, Descend(Edge, Top.ctx)>> /\ NextRoute[1] = Longer
           /\ NextRoute[2] = Descend(Edge, Top.ctx) /\ NextRoute[2].node = Edge.dst
           /\ Len(Longer) = Len(Top.path) + 1
           /\ \A k \in DOMAIN Longer : Longer[k] = Edge.dst \/ \E j \in DOMAIN Top.path : Longer[k] = Top.path[j]
           /\ Boundary(Edge.dst) => ~Expands(NextRoute[2])
           /\ Edge.dst # query.target /\ ~Boundary(Edge.dst) => NextFrame \in PathFrames
<1>1. Looking
  BY DEF Admissible
<1>2. /\ Top \in PathFrames /\ NextPosition \in Following(Top) /\ stack # <<>> /\ ~Contains(Top.path, Edge.dst)
  BY <1>1, PathLooking
<1>3. /\ Route(Top) \in AllRoutes /\ IsRoute(Route(Top)) /\ Route(Top)[1] = Top.path /\ Route(Top)[2] = Top.ctx
      /\ Top.path \in Seq(PathNodes) /\ Len(Top.path) \in Nat /\ Len(Top.path) >= 1
  BY <1>2, FrameFacts
<1>4. NextRoute \in Extensions(Route(Top))
  BY <1>2, FrameExtends DEF NextRoute, Edge
<1>5. NextRoute \in AllRoutes /\ IsRoute(NextRoute)
  BY <1>3, <1>4, RoutesClosed, PathMode
<1>6. /\ NextRoute = <<Longer, Descend(Edge, Top.ctx)>> /\ NextRoute[1] = Longer
      /\ NextRoute[2] = Descend(Edge, Top.ctx) /\ NextRoute[2].node = Edge.dst
  BY DEF NextRoute, Extension, Route, Longer, Descend, Context
<1>7. /\ Len(Longer) = Len(Top.path) + 1
      /\ \A k \in 1..Len(Top.path) : Longer[k] = Top.path[k]
  <2>1. Len(NextRoute[1]) = Len(Route(Top)[1]) + 1 /\ \A k \in 1..Len(Route(Top)[1]) : NextRoute[1][k] = Route(Top)[1][k]
    BY <1>3, <1>4, ExtensionIsRoute, PathMode
  <2> QED BY <1>3, <1>6, <2>1
<1>8. ASSUME NEW k \in DOMAIN Longer PROVE Longer[k] = Edge.dst \/ \E j \in DOMAIN Top.path : Longer[k] = Top.path[j]
  <2>1. Longer \in Seq(PathNodes) /\ Longer[Len(Longer)] = Edge.dst
    BY <1>5, <1>6 DEF IsRoute
  <2>2. k \in 1..Len(Longer) /\ DOMAIN Top.path = 1..Len(Top.path)
    BY <1>3, <2>1
  <2>3. k \in 1..Len(Top.path) \/ k = Len(Longer)
    BY <1>3, <1>7, <2>2
  <2> QED BY <1>7, <2>1, <2>2, <2>3
<1>9. ASSUME Boundary(Edge.dst), Expands(NextRoute[2]) PROVE FALSE
  <2>1. NextRoute[2] \in Starts
    <3>1. Boundary(NextRoute[2].node)
      BY <1>6, <1>9
    <3> QED BY <1>9, <3>1 DEF Expands
  <2>2. Edge.dst \in Range(query.roots)
    <3>1. \A c \in Starts : c.node \in Range(query.roots)
      BY DEF Starts, Anywhere, Context
    <3> QED BY <1>6, <2>1, <3>1
  <2>3. \A m \in Range(query.roots) : m = Top.path[1]
    <3>1. PICK n : query.roots = <<n>>
      BY PathMode
    <3>2. Range(query.roots) = {n}
      BY <3>1 DEF Range
    <3>3. Top.path[1] \in Range(query.roots)
      BY <1>3 DEF IsRoute
    <3> QED BY <3>2, <3>3
  <2>4. 1 \in 1..Len(Top.path)
    BY <1>3
  <2> QED BY <1>2, <2>2, <2>3, <2>4 DEF Contains
<1>10. ASSUME Edge.dst # query.target, ~Boundary(Edge.dst) PROVE NextFrame \in PathFrames
  <2>1. PICK x, f : x = NextRoute /\ f = NextFrame
    OBVIOUS
  <2>2. f = [ctx |-> x[2], depth |-> 0, path |-> x[1], on |-> {}, rest |-> None] /\ x \in AllRoutes /\ x = <<x[1], x[2]>>
    BY <1>5, <1>6, <2>1 DEF NextFrame
  <2>3. f \in [ctx : {z[2] : z \in AllRoutes}, depth : {0}, path : {z[1] : z \in AllRoutes},
               on : SUBSET {z[2] : z \in AllRoutes}, rest : {None} \cup SUBSET DOMAIN graph.edges]
    BY <2>2
  <2>4. Route(f) = x /\ f.ctx = x[2] /\ f.rest = None
    BY <2>2 DEF Route
  <2>5. x[2].node # query.target /\ Expands(x[2])
    BY <1>6, <1>10, <2>1 DEF Expands
  <2>6. f \in PathFrames
    BY <2>2, <2>3, <2>4, <2>5 DEF PathFrames
  <2> QED BY <2>1, <2>6
<1>11. Shaped(Found) /\ Found.paths = result.paths /\ Found.frontier = result.frontier
  <2> DEFINE t == Admit(result, Far(Edge), {Key(Edge)})
  <2>1. Shaped(t) /\ t.paths = result.paths /\ t.frontier = result.frontier
    BY PathMode, PathAdmitting
  <2>2. Found = [t EXCEPT !.edges = @ \cup {Edge}]
    BY DEF Found
  <2> HIDE DEF t
  <2> QED BY <2>1, <2>2 DEF Shaped
<1> QED BY <1>4, <1>5, <1>6, <1>7, <1>8, <1>9, <1>10, <1>11

\* What the call leads to, and what the frame has left, is what the frame waited for.
LEMMA AwaitedByCall ==
    ASSUME PathInv, Admissible, NEW z, Awaits(Top, z)
    PROVE  Awaits(Left, z) \/ Leads(NextRoute, z)
<1>1. Top.rest # None /\ \A i \in Top.rest \ {NextPosition} :
        Leads(Extension(Route(Top), graph.edges[i]), z) => Awaits(Left, z)
  BY PathLooking DEF Admissible
<1>2. PICK i \in Top.rest : Leads(Extension(Route(Top), graph.edges[i]), z)
  BY <1>1 DEF Awaits
<1>3. CASE i = NextPosition
  BY <1>2, <1>3 DEF NextRoute, Edge
<1> QED BY <1>1, <1>2, <1>3

\* At its end a path leads nowhere.
LEMMA EndOfPath ==
    ASSUME PathInv, Admissible, Edge.dst = query.target \/ Boundary(Edge.dst), NEW z, Leads(NextRoute, z)
    PROVE  z = NextRoute
<1>1. Extensions(NextRoute) = {}
  BY PathLonger DEF Extensions
<1> QED BY <1>1, PathLonger, LeadsNowhere

LEMMA SimpleExtendStep == ASSUME PathInv, ExtendPath, query.mode = "simple" PROVE PathInv'
<1> DEFINE found == Edge.dst = query.target
           extends == Edge.dst # query.target /\ ~Boundary(Edge.dst)
<1>1. /\ Admissible /\ Looking /\ UNCHANGED <<graph, query, interrupt, todo, status, queue, expanded>>
      /\ result' = IF found THEN [Found EXCEPT !.paths = @ \cup {Longer}] ELSE Found
      /\ stack' = IF extends THEN <<NextFrame>> \o Later ELSE Later
  BY DEF ExtendPath, Longer, NextFrame, Admissible
<1>2. /\ stack # <<>> /\ Left \in PathFrames /\ Later = <<Left>> \o Below
  BY <1>1, PathLooking
<1>3. Below \in Seq(PathFrames) /\ status = None /\ todo = <<>> /\ queue = <<>> /\ interrupt \in {None, "cancelled", "time_limit"}
  BY <1>2, PathTop DEF PathInv, PathOK, PathFormed
<1>4. PICK lf, bl, lt : lf = Left /\ bl = Below /\ lt = Later
  OBVIOUS
<1>5. /\ lt \in Seq(PathFrames) /\ 1 \in DOMAIN lt /\ lt[1] = lf
      /\ \A k \in DOMAIN bl : k + 1 \in DOMAIN lt /\ lt[k + 1] = bl[k]
  <2>1. lf \in PathFrames /\ bl \in Seq(PathFrames) /\ lt = <<lf>> \o bl
    BY <1>2, <1>3, <1>4
  <2> QED BY <2>1, PathPush
<1>6. PICK st, t : st = stack' /\ t = result'
  OBVIOUS
<1>7. Shaped(t) /\ t.frontier = result.frontier /\ t.paths = IF found THEN result.paths \cup {Longer} ELSE result.paths
  BY <1>1, <1>6, PathLonger DEF Shaped
<1>8. /\ st \in Seq(PathFrames) /\ \E j \in DOMAIN st : st[j] = lf
      /\ \A k \in DOMAIN bl : \E j \in DOMAIN st : st[j] = bl[k]
      /\ extends => \E j \in DOMAIN st : st[j] = NextFrame
  <2>1. CASE extends
    <3>1. PICK nf : nf = NextFrame
      OBVIOUS
    <3>2. nf \in PathFrames /\ st = <<nf>> \o lt
      BY <1>1, <1>4, <1>6, <2>1, <3>1, PathLonger
    <3>3. /\ st \in Seq(PathFrames) /\ 1 \in DOMAIN st /\ st[1] = nf
          /\ \A k \in DOMAIN lt : k + 1 \in DOMAIN st /\ st[k + 1] = lt[k]
      BY <1>5, <3>2, PathPush
    <3> QED BY <1>5, <3>1, <3>3
  <2>2. CASE ~extends
    BY <1>1, <1>4, <1>5, <1>6, <2>2
  <2> QED BY <2>1, <2>2
<1>9. PathFormed(todo, st, queue, expanded, t)
  BY <1>3, <1>7, <1>8 DEF PathInv, PathOK, PathFormed
<1>10. PathsSound(t)
  <2>1. found => Wanted(NextRoute) /\ NextRoute[1] = Longer
    BY <1>1, PathLonger DEF Wanted
  <2> QED BY <1>7, <2>1 DEF PathInv, PathOK, PathsSound
<1>11. SimpleWhole(todo, st, t)
  <2>1. ASSUME NEW z, Wanted(z), Awaits(Top, z) PROVE z[1] \in t.paths \/ \E j \in DOMAIN st : Awaits(st[j], z)
    <3>1. CASE Awaits(Left, z)
      BY <1>4, <1>8, <3>1
    <3>2. CASE Leads(NextRoute, z) /\ extends
      <4>1. Route(NextFrame) = NextRoute /\ NextFrame.rest = None
        BY <1>1, PathLonger DEF NextFrame, Route
      <4>2. Awaits(NextFrame, z)
        BY <3>2, <4>1 DEF Awaits
      <4> QED BY <1>8, <3>2, <4>2
    <3>3. CASE Leads(NextRoute, z) /\ ~extends
      <4>1. z = NextRoute
        BY <1>1, <3>3, EndOfPath
      <4>2. z[2].node = Edge.dst /\ z[1] = Longer
        BY <1>1, <4>1, PathLonger
      <4>3. found
        BY <2>1, <4>2 DEF Wanted
      <4> QED BY <1>7, <4>2, <4>3
    <3> QED BY <1>1, <2>1, <3>1, <3>2, <3>3, AwaitedByCall
  <2>2. \A k \in DOMAIN Below : \E j \in DOMAIN st : st[j] = Below[k]
    BY <1>4, <1>8
  <2>3. result.paths \subseteq t.paths /\ (t.frontier = {} => result.frontier = {})
    BY <1>7
  <2> HIDE DEF found, extends
  <2> QED BY <1>2, <2>1, <2>2, <2>3, StillAwaited
<1>12. PathEnded(todo, st, queue, t, status)
  BY <1>3, SearchAssumption DEF PathEnded
<1>13. PathOK(todo, st, queue, expanded, t, status, interrupt)
  BY <1>3, <1>9, <1>10, <1>11, <1>12 DEF PathOK
<1> QED BY <1>1, <1>6, <1>13, PathGoesOn

\* A search for a shortest path holds no path as long as it goes on.
LEMMA ShortGoesOn ==
    ASSUME PathInv, query.mode = "shortest", todo = <<>>, stack # <<>> \/ queue # <<>>, result.frontier = {}
    PROVE  result.paths = {} /\ \E l \in Nat : Level(l, stack, queue, expanded)
BY DEF PathInv, PathOK, ShortWhole

\* A new function at the end of the queue.
LEMMA LevelQueue ==
    ASSUME PathInv, query.mode = "shortest", stack # <<>>, NEW l \in Nat, Level(l, stack, queue, expanded),
           NEW n, n # query.target, ~Boundary(n), Anywhere(n) \notin expanded,
           NEW f, f.rest = None, f.ctx = Anywhere(n), Len(f.path) = l + 1,
           \A k \in DOMAIN f.path : f.path[k] = n \/ \E j \in DOMAIN Top.path : f.path[k] = Top.path[j],
           NEW qu, qu = Append(queue, f), NEW ex, ex = expanded \cup {Anywhere(n)}
    PROVE  Level(l, stack, qu, ex)
<1>1. queue \in Seq(PathFrames) /\ Waits(Top, stack, queue)
  BY PathTop DEF Waits
<1>2. /\ DOMAIN queue = 1..Len(queue) /\ Len(queue) \in Nat
      /\ DOMAIN qu = 1..(Len(queue) + 1) /\ qu[Len(queue) + 1] = f /\ \A k \in 1..Len(queue) : qu[k] = queue[k]
  BY <1>1
<1>3. \A k \in DOMAIN qu : (k \in DOMAIN queue /\ qu[k] = queue[k]) \/ (k = Len(queue) + 1 /\ qu[k] = f)
  BY <1>2
<1>4. \A g : Waits(g, stack, qu) => Waits(g, stack, queue) \/ g = f
  BY <1>3 DEF Waits
<1>5. (\A g : Waits(g, stack, queue) => Waits(g, stack, qu)) /\ Waits(f, stack, qu)
  <2>1. \A k \in DOMAIN queue : k \in DOMAIN qu /\ qu[k] = queue[k]
    BY <1>2
  <2>2. Len(queue) + 1 \in DOMAIN qu
    BY <1>2
  <2> QED BY <1>2, <2>1, <2>2 DEF Waits
<1>6. /\ \A m : Met(m, expanded) => Met(m, ex)
      /\ \A c : CallsMet(c, expanded) => CallsMet(c, ex)
      /\ \A g, c : Handles(g, c, expanded) => Handles(g, c, ex)
  BY DoneStays
<1>7. /\ \A c \in Starts : c \in expanded /\ c.node # query.target
      /\ \A k \in DOMAIN stack : Len(stack[k].path) = l
      /\ \A k \in DOMAIN queue : Len(queue[k].path) \in {l, l + 1}
      /\ \A j, k \in DOMAIN queue : j <= k => Len(queue[j].path) <= Len(queue[k].path)
      /\ \A x \in AllRoutes : Len(x[1]) < l /\ x[2].node # query.target /\ Expands(x[2]) => CallsMet(x[2], expanded)
      /\ \A c \in expanded : CallsMet(c, expanded) \/ \E g : Waits(g, stack, queue) /\ Handles(g, c, expanded)
      /\ \A g : Waits(g, stack, queue) =>
            /\ \A x \in AllRoutes : x[2] = g.ctx => Len(g.path) <= Len(x[1])
            /\ \A k \in DOMAIN g.path : Anywhere(g.path[k]) \in expanded /\ g.path[k] # query.target
  BY DEF Level
<1>8. \A k \in DOMAIN qu : Len(qu[k].path) \in {l, l + 1}
  BY <1>3, <1>7
<1>9. ASSUME NEW j \in DOMAIN qu, NEW k \in DOMAIN qu, j <= k PROVE Len(qu[j].path) <= Len(qu[k].path)
  <2>1. CASE k = Len(queue) + 1
    <3>1. Len(qu[k].path) = l + 1 /\ Len(qu[j].path) \in {l, l + 1}
      BY <1>2, <1>8, <2>1
    <3> QED BY <3>1
  <2>2. CASE k # Len(queue) + 1
    <3>1. k \in DOMAIN queue /\ qu[k] = queue[k]
      BY <1>3, <2>2
    <3>2. j \in DOMAIN queue
      BY <1>2, <1>9, <3>1
    <3>3. qu[j] = queue[j]
      BY <1>2, <3>2
    <3> QED BY <1>7, <1>9, <3>1, <3>2, <3>3
  <2> QED BY <2>1, <2>2
<1>10. ASSUME NEW c \in ex PROVE CallsMet(c, ex) \/ \E g : Waits(g, stack, qu) /\ Handles(g, c, ex)
  <2>1. CASE c \in expanded
    BY <1>5, <1>6, <1>7, <2>1
  <2>2. CASE c = Anywhere(n)
    <3>1. Handles(f, c, ex)
      BY <2>2 DEF Handles
    <3> QED BY <1>5, <3>1
  <2> QED BY <2>1, <2>2
<1>11. ASSUME NEW x \in AllRoutes, x[2] = f.ctx PROVE Len(f.path) <= Len(x[1])
  <2>1. x[2] = Anywhere(n) /\ x[2].node = n
    BY <1>11 DEF Anywhere, Context
  <2>2. Expands(x[2])
    BY <2>1 DEF Expands
  <2>3. ~(Len(x[1]) <= l)
    BY <2>1, <2>2, LevelKnows
  <2>4. Len(x[1]) \in Nat
    BY RoutesClosed, PathMode DEF IsRoute
  <2> QED BY <2>3, <2>4
<1>12. ASSUME NEW k \in DOMAIN f.path PROVE Anywhere(f.path[k]) \in ex /\ f.path[k] # query.target
  <2>1. \A j \in DOMAIN Top.path : Anywhere(Top.path[j]) \in expanded /\ Top.path[j] # query.target
    BY <1>1, <1>7
  <2> QED BY <2>1
<1>13. ASSUME NEW g, Waits(g, stack, qu)
       PROVE  /\ \A x \in AllRoutes : x[2] = g.ctx => Len(g.path) <= Len(x[1])
              /\ \A k \in DOMAIN g.path : Anywhere(g.path[k]) \in ex /\ g.path[k] # query.target
  <2>1. CASE Waits(g, stack, queue)
    BY <1>7, <2>1
  <2>2. CASE g = f
    BY <1>11, <1>12, <2>2
  <2> QED BY <1>4, <1>13, <2>1, <2>2
<1> QED BY <1>6, <1>7, <1>8, <1>9, <1>10, <1>13 DEF Level

LEMMA ShortFoundStep ==
    ASSUME PathInv, ExtendPath, query.mode = "shortest", Edge.dst = query.target PROVE PathInv'
<1>1. /\ Admissible /\ Looking /\ UNCHANGED <<graph, query, interrupt, todo, status, expanded>>
      /\ result' = [Found EXCEPT !.paths = @ \cup {Longer}] /\ stack' = Below /\ queue' = <<>>
  BY DEF ExtendPath, Longer, Admissible
<1>2. /\ stack # <<>> /\ Below = <<>> /\ status = None /\ todo = <<>>
      /\ interrupt \in {None, "cancelled", "time_limit"}
  BY <1>1, PathTop DEF Looking, PathInv, PathOK
<1>3. PICK t : t = result'
  OBVIOUS
<1>4. Shaped(t) /\ t.frontier = result.frontier /\ t.paths = result.paths \cup {Longer}
  BY <1>1, <1>3, PathLonger DEF Shaped
<1>5. <<>> \in Seq(PathFrames) /\ Len(<<>>) <= 1 /\ DOMAIN <<>> = {}
  OBVIOUS
<1>6. PathFormed(todo, <<>>, <<>>, expanded, t)
  BY <1>2, <1>4, <1>5 DEF PathFormed
<1>7. PathsSound(t)
  <2>1. Wanted(NextRoute) /\ NextRoute[1] = Longer
    BY <1>1, PathLonger DEF Wanted
  <2> QED BY <1>4, <2>1 DEF PathInv, PathOK, PathsSound
<1>8. ShortWhole(todo, <<>>, <<>>, expanded, t)
  <2>1. SUFFICES ASSUME t.frontier = {}
                 PROVE  t.paths # {} /\ \A p \in t.paths : \A z : Wanted(z) => Len(p) <= Len(z[1])
    BY DEF ShortWhole
  <2>2. PICK l \in Nat : result.paths = {} /\ Level(l, stack, queue, expanded)
    BY <1>2, <1>4, <2>1, ShortGoesOn
  <2>3. Len(Longer) = l + 1
    <3>1. Len(Top.path) = l
      BY <1>2, <2>2, OneFrame DEF Level
    <3> QED BY <1>1, <3>1, PathLonger
  <2>4. ASSUME NEW z, Wanted(z) PROVE l + 1 <= Len(z[1])
    <3>1. z \in AllRoutes /\ z[2].node = query.target
      BY <2>4 DEF Wanted
    <3>2. ~(Len(z[1]) <= l)
      BY <2>2, <3>1, LevelKnows
    <3>3. Len(z[1]) \in Nat
      BY <3>1, RoutesClosed, PathMode DEF IsRoute
    <3> QED BY <3>2, <3>3
  <2> QED BY <1>4, <2>2, <2>3, <2>4
<1>9. PathEnded(todo, <<>>, <<>>, t, status)
  BY <1>2, SearchAssumption DEF PathEnded
<1>10. PathOK(todo, <<>>, <<>>, expanded, t, status, interrupt)
  BY <1>2, <1>6, <1>7, <1>8, <1>9 DEF PathOK
<1> QED BY <1>1, <1>2, <1>3, <1>10, PathGoesOn

LEMMA ShortOnStep ==
    ASSUME PathInv, ExtendPath, query.mode = "shortest", Edge.dst # query.target PROVE PathInv'
<1> DEFINE c == Descend(Edge, Top.ctx)
<1>1. PICK fresh \in BOOLEAN :
        /\ Admissible /\ Looking /\ UNCHANGED <<graph, query, interrupt, todo, status>>
        /\ result' = Found /\ stack' = Later
        /\ fresh <=> ~Boundary(Edge.dst) /\ c \notin expanded
        /\ queue' = IF fresh THEN Append(queue, NextFrame) ELSE queue
        /\ expanded' = IF fresh THEN expanded \cup {c} ELSE expanded
  <2>1. /\ Admissible /\ Looking /\ UNCHANGED <<graph, query, interrupt, todo, status>>
        /\ result' = Found /\ stack' = Later
        /\ queue' = IF ~Boundary(Edge.dst) /\ c \notin expanded THEN Append(queue, NextFrame) ELSE queue
        /\ expanded' = IF ~Boundary(Edge.dst) THEN expanded \cup {c} ELSE expanded
    BY DEF ExtendPath, Longer, NextFrame, Admissible, Known
  <2>2. expanded' = IF ~Boundary(Edge.dst) /\ c \notin expanded THEN expanded \cup {c} ELSE expanded
    BY <2>1
  <2> HIDE DEF c
  <2> QED BY <2>1, <2>2
<1>2. /\ stack # <<>> /\ Left \in PathFrames /\ Later = <<Left>> \o Below /\ Top \in PathFrames
      /\ Left.path = Top.path /\ Left.ctx = Top.ctx /\ Left.rest = Top.rest \ {NextPosition} /\ Top.rest # None
      /\ NextPosition \in Following(Top)
  BY <1>1, PathLooking
<1>3. /\ Below = <<>> /\ status = None /\ todo = <<>> /\ queue \in Seq(PathFrames)
      /\ \A k \in DOMAIN queue : queue[k].rest = None
      /\ interrupt \in {None, "cancelled", "time_limit"}
  BY <1>2, PathTop DEF PathInv, PathOK
<1>4. PICK lf, nf : lf = Left /\ nf = NextFrame
  OBVIOUS
<1>5. PICK st, qu, ex, t : st = stack' /\ qu = queue' /\ ex = expanded' /\ t = result'
  OBVIOUS
<1>6. /\ Shaped(t) /\ t.frontier = result.frontier /\ t.paths = result.paths
      /\ Len(Longer) = Len(Top.path) + 1
      /\ \A k \in DOMAIN Longer : Longer[k] = Edge.dst \/ \E j \in DOMAIN Top.path : Longer[k] = Top.path[j]
  BY <1>1, <1>5, PathLonger
<1>7. st = <<lf>> /\ lf \in PathFrames /\ st \in Seq(PathFrames) /\ Len(st) <= 1
  <2>1. st = <<lf>> /\ lf \in PathFrames
    BY <1>1, <1>2, <1>3, <1>4, <1>5
  <2> QED BY <2>1
<1>8. qu \in Seq(PathFrames) /\ \A k \in DOMAIN qu : qu[k].rest = None
  <2>1. CASE fresh
    <3>1. nf \in PathFrames /\ nf.rest = None
      BY <1>1, <1>4, <2>1, PathLonger DEF NextFrame
    <3>2. qu = Append(queue, nf)
      BY <1>1, <1>4, <1>5, <2>1
    <3>3. /\ qu \in Seq(PathFrames) /\ \A k \in DOMAIN qu : qu[k] = nf \/ (k \in DOMAIN queue /\ qu[k] = queue[k])
      BY <1>3, <3>1, <3>2
    <3> QED BY <1>3, <3>1, <3>3
  <2>2. CASE ~fresh
    BY <1>1, <1>3, <1>5, <2>2
  <2> QED BY <2>1, <2>2
<1>9. PathFormed(todo, st, qu, ex, t)
  BY <1>3, <1>6, <1>7, <1>8 DEF PathFormed
<1>10. c = Anywhere(Edge.dst)
  <2>1. NextPosition \in DOMAIN graph.edges
    BY <1>2 DEF Following, Leaving
  <2>2. Top.ctx = Anywhere(Top.ctx.node)
    BY <1>2, PlainContexts, FrameFacts
  <2> QED BY <2>1, <2>2, PlainContexts DEF Edge
<1>11. ShortWhole(todo, st, qu, ex, t)
  <2>1. SUFFICES ASSUME t.frontier = {} PROVE t.paths = {} /\ \E l \in Nat : Level(l, st, qu, ex)
    BY DEF ShortWhole
  <2>2. PICK l \in Nat : result.paths = {} /\ Level(l, stack, queue, expanded)
    BY <1>2, <1>3, <1>6, <2>1, ShortGoesOn
  <2>3. Level(l, stack, qu, ex) /\ Met(Edge.dst, ex)
    <3>1. CASE fresh
      <4>1. /\ ~Boundary(Edge.dst) /\ Anywhere(Edge.dst) \notin expanded
            /\ qu = Append(queue, nf) /\ ex = expanded \cup {Anywhere(Edge.dst)}
        BY <1>1, <1>4, <1>5, <1>10, <3>1
      <4>2. nf.rest = None /\ nf.ctx = Anywhere(Edge.dst) /\ nf.path = Longer
        BY <1>4, <1>10 DEF NextFrame
      <4>3. Len(Top.path) = l
        BY <1>2, <2>2, OneFrame DEF Level
      <4>4. Len(nf.path) = l + 1
        BY <1>6, <4>2, <4>3
      <4>5. Level(l, stack, qu, ex)
        BY <1>2, <1>6, <2>2, <4>1, <4>2, <4>4, LevelQueue
      <4> QED BY <4>1, <4>5 DEF Met
    <3>2. CASE ~fresh
      <4>1. qu = queue /\ ex = expanded /\ (Boundary(Edge.dst) \/ Anywhere(Edge.dst) \in expanded)
        BY <1>1, <1>5, <1>10, <3>2
      <4> QED BY <2>2, <4>1 DEF Met
    <3> QED BY <3>1, <3>2
  <2>4. \A d : Handles(Top, d, ex) => Handles(lf, d, ex)
    <3>1. lf.ctx = Top.ctx /\ lf.rest = Top.rest \ {NextPosition}
      BY <1>2, <1>4
    <3> QED BY <1>2, <2>3, <3>1 DEF Handles, Edge
  <2>5. lf.path = Top.path /\ lf.ctx = Top.ctx
    BY <1>2, <1>4
  <2>6. Level(l, <<lf>>, qu, ex)
    BY <1>2, <2>3, <2>4, <2>5, LevelTop
  <2> QED BY <1>6, <1>7, <2>2, <2>6
<1>12. PathsSound(t) /\ PathEnded(todo, st, qu, t, status)
  BY <1>3, <1>6, SearchAssumption DEF PathInv, PathOK, PathsSound, PathEnded
<1>13. PathOK(todo, st, qu, ex, t, status, interrupt)
  BY <1>3, <1>9, <1>11, <1>12 DEF PathOK
<1> QED BY <1>1, <1>5, <1>13, PathGoesOn

LEMMA FirstOfQueue ==
    ASSUME PathInv, queue # <<>>
    PROVE  /\ Head(queue) \in PathFrames /\ Head(queue) = queue[1] /\ 1 \in DOMAIN queue
           /\ <<Head(queue)>> \in Seq(PathFrames) /\ Len(<<Head(queue)>>) <= 1 /\ Tail(queue) \in Seq(PathFrames)
           /\ DOMAIN <<Head(queue)>> = {1} /\ <<Head(queue)>>[1] = Head(queue)
           /\ \A k \in DOMAIN Tail(queue) : k + 1 \in DOMAIN queue /\ Tail(queue)[k] = queue[k + 1] /\ 1 <= k /\ k \in Nat
           /\ \A k \in DOMAIN queue : k = 1 \/ (k - 1 \in DOMAIN Tail(queue) /\ Tail(queue)[k - 1] = queue[k])
<1>1. queue \in Seq(PathFrames)
  BY DEF PathInv, PathOK, PathFormed
<1>2. /\ Len(queue) \in Nat /\ Len(queue) >= 1 /\ DOMAIN queue = 1..Len(queue) /\ Head(queue) = queue[1]
      /\ Tail(queue) \in Seq(PathFrames) /\ Len(Tail(queue)) = Len(queue) - 1
      /\ DOMAIN Tail(queue) = 1..(Len(queue) - 1)
      /\ \A k \in 1..(Len(queue) - 1) : Tail(queue)[k] = queue[k + 1]
  BY <1>1
<1>3. Head(queue) \in PathFrames
  BY <1>1, <1>2
<1> QED BY <1>2, <1>3

\* The next path of the queue becomes the one to look at, on its level.
LEMMA LevelNext ==
    ASSUME PathInv, query.mode = "shortest", queue # <<>>, NEW l \in Nat, Level(l, <<>>, queue, expanded),
           NEW st, st = <<Head(queue)>>, NEW qu, qu = Tail(queue)
    PROVE  \E m \in Nat : Level(m, st, qu, expanded)
<1>1. PICK h : h = Head(queue)
  OBVIOUS
<1>2. /\ h \in PathFrames /\ h = queue[1] /\ 1 \in DOMAIN queue /\ st = <<h>> /\ DOMAIN st = {1} /\ st[1] = h
      /\ qu \in Seq(PathFrames)
      /\ \A k \in DOMAIN qu : k + 1 \in DOMAIN queue /\ qu[k] = queue[k + 1] /\ 1 <= k /\ k \in Nat
      /\ \A k \in DOMAIN queue : k = 1 \/ (k - 1 \in DOMAIN qu /\ qu[k - 1] = queue[k])
  BY <1>1, FirstOfQueue
<1>3. /\ \A c \in Starts : c \in expanded /\ c.node # query.target
      /\ \A k \in DOMAIN queue : Len(queue[k].path) \in {l, l + 1}
      /\ \A j, k \in DOMAIN queue : j <= k => Len(queue[j].path) <= Len(queue[k].path)
      /\ \A x \in AllRoutes : Len(x[1]) < l /\ x[2].node # query.target /\ Expands(x[2]) => CallsMet(x[2], expanded)
      /\ \A c \in expanded : CallsMet(c, expanded) \/ \E g : Waits(g, <<>>, queue) /\ Handles(g, c, expanded)
      /\ \A g : Waits(g, <<>>, queue) =>
            /\ \A x \in AllRoutes : x[2] = g.ctx => Len(g.path) <= Len(x[1])
            /\ \A k \in DOMAIN g.path : Anywhere(g.path[k]) \in expanded /\ g.path[k] # query.target
  BY DEF Level
<1>4. ASSUME NEW g PROVE Waits(g, <<>>, queue) <=> Waits(g, st, qu)
  <2>1. \A k : k \notin DOMAIN <<>>
    OBVIOUS
  <2>2. ASSUME Waits(g, <<>>, queue) PROVE Waits(g, st, qu)
    <3>1. PICK k \in DOMAIN queue : g = queue[k]
      BY <2>1, <2>2 DEF Waits
    <3>2. (k = 1 /\ g = h) \/ (k - 1 \in DOMAIN qu /\ g = qu[k - 1])
      BY <1>2, <3>1
    <3>3. CASE g = h
      BY <1>2, <3>3 DEF Waits
    <3>4. CASE k - 1 \in DOMAIN qu /\ g = qu[k - 1]
      BY <3>4 DEF Waits
    <3> QED BY <3>2, <3>3, <3>4
  <2>3. ASSUME Waits(g, st, qu) PROVE Waits(g, <<>>, queue)
    <3>1. g = h \/ \E k \in DOMAIN qu : g = qu[k]
      BY <1>2, <2>3 DEF Waits
    <3>2. \E k \in DOMAIN queue : g = queue[k]
      BY <1>2, <3>1
    <3> QED BY <3>2 DEF Waits
  <2> QED BY <2>2, <2>3
<1>5. \A j, k \in DOMAIN qu : j <= k => Len(qu[j].path) <= Len(qu[k].path)
  <2>1. SUFFICES ASSUME NEW j \in DOMAIN qu, NEW k \in DOMAIN qu, j <= k PROVE Len(qu[j].path) <= Len(qu[k].path)
    OBVIOUS
  <2>2. j + 1 <= k + 1 /\ j + 1 \in DOMAIN queue /\ k + 1 \in DOMAIN queue
    BY <1>2, <2>1
  <2> QED BY <1>2, <1>3, <2>2
<1>6. ASSUME NEW k \in DOMAIN qu PROVE Len(qu[k].path) \in {l, l + 1} /\ Len(h.path) <= Len(qu[k].path)
  <2>1. k + 1 \in DOMAIN queue /\ qu[k] = queue[k + 1] /\ 1 <= k + 1
    BY <1>2
  <2> QED BY <1>2, <1>3, <2>1
<1>7. Len(h.path) \in {l, l + 1}
  BY <1>2, <1>3
<1>8. CASE Len(h.path) = l
  <2>1. Level(l, st, qu, expanded)
    BY <1>2, <1>3, <1>4, <1>5, <1>6, <1>8 DEF Level
  <2> QED BY <2>1
<1>9. CASE Len(h.path) = l + 1
  <2>1. l + 1 \in Nat /\ \A k \in DOMAIN st : Len(st[k].path) = l + 1
    BY <1>2, <1>9
  <2>2. \A k \in DOMAIN qu : Len(qu[k].path) \in {l + 1, l + 1 + 1}
    BY <1>6, <1>9
  <2>3. ASSUME NEW g, Waits(g, <<>>, queue) PROVE Len(g.path) = l + 1
    <3>1. g = h \/ \E k \in DOMAIN qu : g = qu[k]
      BY <1>2, <1>4, <2>3 DEF Waits
    <3> QED BY <1>6, <1>9, <3>1
  <2>4. ASSUME NEW x \in AllRoutes, Len(x[1]) < l + 1, x[2].node # query.target, Expands(x[2])
        PROVE  CallsMet(x[2], expanded)
    <3>1. Len(x[1]) \in Nat
      BY RoutesClosed, PathMode DEF IsRoute
    <3>2. Len(x[1]) <= l
      BY <2>4, <3>1
    <3>3. x[2] \in expanded
      BY <2>4, <3>2, LevelKnows
    <3>4. SUFFICES ASSUME NEW g, Waits(g, <<>>, queue), Handles(g, x[2], expanded) PROVE FALSE
      BY <1>3, <3>3
    <3>5. Len(g.path) <= Len(x[1])
      BY <1>3, <3>4 DEF Handles
    <3> QED BY <2>3, <3>1, <3>2, <3>4, <3>5
  <2>5. Level(l + 1, st, qu, expanded)
    BY <1>3, <1>4, <1>5, <2>1, <2>2, <2>4 DEF Level
  <2> QED BY <2>1, <2>5
<1> QED BY <1>7, <1>8, <1>9

LEMMA PathNextPathStep == ASSUME PathInv, NextPath PROVE PathInv'
<1>1. /\ stack = <<>> /\ queue # <<>> /\ stack' = <<Head(queue)>> /\ queue' = Tail(queue)
      /\ UNCHANGED <<graph, query, interrupt, todo, expanded, result, status>>
  BY DEF NextPath
<1>2. PathOK(todo, stack, queue, expanded, result, status, interrupt)
  BY DEF PathInv
<1>3. query.mode = "shortest" /\ todo = <<>> /\ status = None
  BY <1>1, <1>2, PathMode DEF PathOK, PathFormed, PathEnded
<1>4. PICK st, qu : st = <<Head(queue)>> /\ qu = Tail(queue)
  OBVIOUS
<1>5. /\ st \in Seq(PathFrames) /\ Len(st) <= 1 /\ qu \in Seq(PathFrames)
      /\ \A k \in DOMAIN qu : k + 1 \in DOMAIN queue /\ qu[k] = queue[k + 1]
  BY <1>1, <1>4, FirstOfQueue
<1>6. PathFormed(todo, st, qu, expanded, result)
  BY <1>2, <1>3, <1>5 DEF PathOK, PathFormed
<1>7. ShortWhole(todo, st, qu, expanded, result)
  <2>1. SUFFICES ASSUME result.frontier = {} PROVE result.paths = {} /\ \E l \in Nat : Level(l, st, qu, expanded)
    BY DEF ShortWhole
  <2>2. PICK l \in Nat : result.paths = {} /\ Level(l, <<>>, queue, expanded)
    BY <1>1, <1>3, <2>1, ShortGoesOn
  <2> QED BY <1>1, <1>3, <1>4, <2>2, LevelNext
<1>8. PathOK(todo, st, qu, expanded, result, status, interrupt)
  BY <1>2, <1>3, <1>6, <1>7 DEF PathOK, PathEnded
<1> QED BY <1>1, <1>4, <1>8, PathGoesOn

-----------------------------------------------------------------------------
(* Call graph search for paths: the invariant holds, and says what it must *)

LEMMA PathBegins ==
    ASSUME NEW g, NEW q, GraphOK(g), PathQueryOK(g, q), Begin(g, q) PROVE PathInv
<1>1. /\ graph = g /\ query = q /\ interrupt = None /\ todo = q.roots /\ stack = <<>> /\ queue = <<>>
      /\ expanded = {} /\ result = NoResult /\ status = None
  BY DEF Begin
<1>2. todo # <<>> /\ query.roots = todo
  BY <1>1 DEF PathQueryOK
<1>3. Shaped(result) /\ result.paths = {}
  BY <1>1 DEF Shaped, NoResult
<1>4. <<>> \in Seq(PathFrames) /\ DOMAIN <<>> = {} /\ Len(<<>>) <= 1
  OBVIOUS
<1>5. PathFormed(todo, stack, queue, expanded, result)
  BY <1>1, <1>2, <1>3, <1>4 DEF PathFormed
<1>6. PathsSound(result) /\ PathEnded(todo, stack, queue, result, status)
  BY <1>1, <1>3, SearchAssumption DEF PathsSound, PathEnded
<1>7. SimpleWhole(todo, stack, result) /\ ShortWhole(todo, stack, queue, expanded, result)
  BY <1>2 DEF SimpleWhole, ShortWhole
<1> QED BY <1>1, <1>5, <1>6, <1>7 DEF PathInv, PathOK

LEMMA PathNext == ASSUME PathInv, [SearchNext]_searchVars PROVE PathInv'
<1>1. CASE StartRoot BY <1>1, PathStartRootStep
<1>2. CASE EnterPath BY <1>2, PathEnterStep
<1>3. CASE Stopped BY <1>3, PathStoppedStep
<1>4. CASE Exclude BY <1>4, PathExcludeNever
<1>5. CASE Refuse BY <1>5, PathRefuseStep
<1>6. CASE Follow
  BY <1>6, PathMode DEF Follow
<1>7. CASE ExtendPath
  <2>1. CASE query.mode = "simple"
    BY <1>7, <2>1, SimpleExtendStep
  <2>2. CASE query.mode = "shortest"
    BY <1>7, <2>2, ShortFoundStep, ShortOnStep
  <2> QED BY <2>1, <2>2, PathMode
<1>8. CASE Return BY <1>8, PathReturnStep
<1>9. CASE NextPath BY <1>9, PathNextPathStep
<1>10. CASE Finish BY <1>10, PathFinishStep
<1>11. CASE Interrupt BY <1>11, PathInterruptStep
<1>12. CASE UNCHANGED searchVars
  <2>1. UNCHANGED <<graph, query, todo, stack, queue, expanded, result, status, interrupt>>
    BY <1>12 DEF searchVars
  <2>2. PathOK(todo', stack', queue', expanded', result', status', interrupt')
    <3>1. PathOK(todo, stack, queue, expanded, result, status, interrupt)
      BY DEF PathInv
    <3> QED BY <2>1, <3>1
  <2> QED BY <2>1, <2>2, PathGoesOn
<1> QED BY <1>1, <1>2, <1>3, <1>4, <1>5, <1>6, <1>7, <1>8, <1>9, <1>10, <1>11, <1>12 DEF SearchNext

LEMMA SimplePathsAre == \A p : p \in SimplePaths <=> \E z : Wanted(z) /\ z[1] = p
BY DEF SimplePaths, Wanted, AllRoutes

\* A search for a shortest path that ran dry without one: there is none.
LEMMA NoneIsLeft ==
    ASSUME PathInv, query.mode = "shortest", NEW l \in Nat, Level(l, <<>>, <<>>, expanded), NEW z PROVE ~Wanted(z)
<1> DEFINE D == {x \in AllRoutes : x[2].node # query.target /\ (Expands(x[2]) => x[2] \in expanded)}
<1>1. /\ ~Backwards /\ GraphOK(graph) /\ FirstRoutes \subseteq AllRoutes
      /\ \A x \in AllRoutes : Extensions(x) \subseteq AllRoutes
  BY PathMode, RoutesClosed
<1>2. \A c \in expanded : CallsMet(c, expanded)
  BY DEF Level, Waits
<1>3. FirstRoutes \subseteq D
  <2>1. \A x \in FirstRoutes : x[2] \in Starts
    BY FirstIsRoute
  <2>2. \A c \in Starts : c \in expanded /\ c.node # query.target
    BY DEF Level
  <2> QED BY <1>1, <2>1, <2>2
<1>4. ASSUME NEW x \in D, NEW y \in Extensions(x) PROVE y \in D
  <2>1. PICK i \in Leaving(x[2]) : Expands(x[2]) /\ InScope(graph.edges[i].dst) /\ y = Extension(x, graph.edges[i])
    BY <1>1, ExtensionCall
  <2>2. Met(graph.edges[i].dst, expanded)
    BY <1>2, <2>1 DEF CallsMet
  <2>3. y \in AllRoutes
    BY <1>1
  <2>4. i \in DOMAIN graph.edges
    BY DEF Leaving
  <2>5. y[2] = Anywhere(graph.edges[i].dst)
    <3>1. x[2] = Anywhere(x[2].node)
      BY PlainContexts
    <3>2. Descend(graph.edges[i], x[2]) = Anywhere(graph.edges[i].dst)
      BY <2>4, <3>1, PlainContexts
    <3> QED BY <2>1, <3>2 DEF Extension
  <2>6. y[2].node = graph.edges[i].dst
    BY <2>5 DEF Anywhere, Context
  <2>7. ASSUME Expands(y[2]), Boundary(y[2].node) PROVE y[2] \in expanded
    BY <2>7 DEF Expands, Level
  <2> QED BY <2>2, <2>3, <2>5, <2>6, <2>7 DEF Met
<1> HIDE DEF D
<1>5. AllRoutes \subseteq D
  BY <1>1, <1>3, <1>4, RoutesAreLeast
<1> QED BY <1>5 DEF Wanted, D

LEMMA PathsAreHonest == ASSUME PathInv PROVE SearchHonest
<1>1. ~Walking /\ (query.mode = "simple" \/ query.mode = "shortest")
  BY PathMode
<1>2. CutsAreTold
  BY <1>1 DEF CutsAreTold
<1>3. SUFFICES ASSUME status = "complete"
               PROVE  /\ query.mode = "simple" => result.paths = SimplePaths
                      /\ query.mode = "shortest" =>
                           /\ result.paths \subseteq SimplePaths
                           /\ (result.paths = {}) = (SimplePaths = {})
                           /\ \A p \in result.paths, s \in SimplePaths : Len(p) <= Len(s)
  BY <1>1, <1>2 DEF SearchHonest, CompleteIsExact
<1>4. todo = <<>> /\ stack = <<>> /\ queue = <<>> /\ result.frontier = {}
  BY <1>3, SearchAssumption DEF PathInv, PathOK, PathEnded
<1>5. result.paths \subseteq SimplePaths
  BY SimplePathsAre DEF PathInv, PathOK, PathsSound
<1>6. ASSUME query.mode = "simple" PROVE SimplePaths \subseteq result.paths
  <2>1. SimpleWhole(todo, stack, result)
    BY <1>6 DEF PathInv, PathOK
  <2>2. \A k : k \notin DOMAIN <<>>
    OBVIOUS
  <2>3. \A z : Wanted(z) => z[1] \in result.paths
    BY <1>4, <2>1, <2>2 DEF SimpleWhole
  <2> QED BY <2>3, SimplePathsAre
<1>7. ASSUME query.mode = "shortest"
      PROVE  /\ (result.paths = {}) = (SimplePaths = {})
             /\ \A p \in result.paths, s \in SimplePaths : Len(p) <= Len(s)
  <2>1. ShortWhole(todo, stack, queue, expanded, result)
    BY <1>7 DEF PathInv, PathOK
  <2>2. CASE result.paths = {}
    <3>1. PICK l \in Nat : Level(l, <<>>, <<>>, expanded)
      BY <1>4, <2>1, <2>2 DEF ShortWhole
    <3>2. SimplePaths = {}
      BY <1>7, <3>1, NoneIsLeft, SimplePathsAre
    <3> QED BY <2>2, <3>2
  <2>3. CASE result.paths # {}
    <3>1. \A p \in result.paths : \A z : Wanted(z) => Len(p) <= Len(z[1])
      BY <1>4, <2>1, <2>3 DEF ShortWhole
    <3>2. SimplePaths # {}
      BY <1>5, <2>3
    <3> QED BY <2>3, <3>1, <3>2, SimplePathsAre
  <2> QED BY <2>2, <2>3
<1> QED BY <1>5, <1>6, <1>7

(* For every list of edges, with the functions with a body and those in    *)
(* scope, every budget and every moment of an interruption: a run of the   *)
(* engine that says "complete" found exactly the callees or callers, every *)
(* simple path, or a shortest one if there is any, and one that only the   *)
(* depth limit cut tells behind which functions the rest lies.  A path     *)
(* starts at one function; shortest paths are those of a graph without     *)
(* receivers, as a function is looked at once for each receiver.           *)
(* (TraversalEngine, SearchBudget, PathSearch)                             *)
THEOREM SearchIsHonest ==
    ASSUME NEW g, NEW q, GraphOK(g), QueryOK(q) \/ PathQueryOK(g, q)
    PROVE  SearchSpec(g, q) => []SearchHonest
<1>1. CASE QueryOK(q)
  <2>1. Begin(g, q) => SearchInv /\ Walking
    BY <1>1, SearchStarts
  <2>2. (SearchInv /\ Walking) /\ [SearchNext]_searchVars => (SearchInv /\ Walking)'
    BY SearchNextOK
  <2>3. SearchInv /\ Walking => SearchHonest
    BY InvFindsAll, FindingAllIsHonest DEF SearchInv
  <2> QED BY <2>1, <2>2, <2>3, PTL DEF SearchSpec
<1>2. CASE PathQueryOK(g, q)
  <2>1. Begin(g, q) => PathInv
    BY <1>2, PathBegins
  <2>2. PathInv /\ [SearchNext]_searchVars => PathInv'
    BY PathNext
  <2>3. PathInv => SearchHonest
    BY PathsAreHonest
  <2> QED BY <2>1, <2>2, <2>3, PTL DEF SearchSpec
<1> QED BY <1>1, <1>2

-----------------------------------------------------------------------------
(* Paths on a disk *)

TreePaths == TreeDirectories \union TreeFiles
Places == TreePaths \union DOMAIN TreeLinks

\* What is on the disk is in a directory that is on the disk.
DiskFits(disk) ==
    /\ disk \subseteq Places
    /\ \A p \in disk : Front(p) \in (TreeDirectories \intersect disk) \union {<<>>}

LEMMA PathParts ==
    ASSUME NEW p \in Seq(STRING)
    PROVE  /\ Len(p) \in Nat
           /\ p # <<>> =>
                /\ Len(p) > 0 /\ Front(p) \in Seq(STRING) /\ Last(p) \in STRING
                /\ p = Append(Front(p), Last(p)) /\ Len(Front(p)) = Len(p) - 1
           /\ \A n \in STRING :
                /\ Append(p, n) \in Seq(STRING) /\ Append(p, n) # <<>>
                /\ Front(Append(p, n)) = p /\ Last(Append(p, n)) = n
  <1>1. ASSUME NEW s \in Seq(STRING), NEW n \in STRING
        PROVE  /\ Append(s, n) \in Seq(STRING) /\ Append(s, n) # <<>> /\ Len(Append(s, n)) = Len(s) + 1
               /\ Front(Append(s, n)) = s /\ Last(Append(s, n)) = n
    <2>0. PICK longer : longer = Append(s, n)
      OBVIOUS
    <2>1. /\ longer \in Seq(STRING) /\ Len(longer) = Len(s) + 1 /\ longer[Len(s) + 1] = n
          /\ Len(s) \in Nat /\ \A i \in 1..Len(s) : longer[i] = s[i]
      <3>1. Len(s) \in Nat
        BY LenProperties
      <3> QED BY <2>0, <3>1, AppendProperties, ZenonT(40)
    <2>2. longer # <<>>
      BY <2>1, EmptySeq
    <2> DEFINE front == SubSeq(longer, 1, Len(s))
    <2>3. 1 \in 1..(Len(longer) + 1) /\ Len(s) \in (1 - 1)..Len(longer)
      BY <2>1
    <2>4. front \in Seq(STRING) /\ Len(front) = Len(s) /\ \A i \in 1..Len(s) : front[i] = longer[i]
      BY <2>1, <2>3
    <2> HIDE DEF front
    <2>5. front = s
      BY <2>1, <2>4, SeqEqual
    <2>6. Front(longer) = front /\ Last(longer) = n
      BY <2>1 DEF Front, Last, front
    <2> QED BY <2>0, <2>1, <2>2, <2>5, <2>6
  <1>2. ASSUME p # <<>>
        PROVE  /\ Len(p) > 0 /\ Front(p) \in Seq(STRING) /\ Last(p) \in STRING
               /\ p = Append(Front(p), Last(p)) /\ Len(Front(p)) = Len(p) - 1
    <2>1. PICK s \in Seq(STRING), n \in STRING : p = Append(s, n)
      BY <1>2, SequenceEmptyOrAppend
    <2>2. Front(p) = s /\ Last(p) = n /\ Len(p) = Len(s) + 1
      BY <1>1, <2>1
    <2>3. Len(s) \in Nat
      BY LenProperties
    <2>4. Front(p) \in Seq(STRING) /\ Last(p) \in STRING /\ p = Append(Front(p), Last(p))
      BY <2>1, <2>2, Zenon
    <2>5. Len(Front(p)) = Len(s)
      BY <2>2, Zenon
    <2>6. Len(p) > 0 /\ Len(s) = Len(p) - 1
      BY <2>2, <2>3
    <2> QED BY <2>4, <2>5, <2>6, Zenon
  <1>3. Len(p) \in Nat
    BY LenProperties
  <1> QED BY <1>1, <1>2, <1>3

LEMMA PlacesAreNamed ==
    ASSUME NEW p \in Places
    PROVE  /\ p \in Seq(STRING) /\ p # <<>> /\ p # None
           /\ Front(p) \in TreeDirectories \union {<<>>}
           /\ p = Append(Front(p), Last(p)) /\ Last(p) \in STRING /\ Front(p) \in Seq(STRING)
  <1>1. p \in Seq(STRING) /\ p # <<>> /\ p # None /\ Front(p) \in TreeDirectories \union {<<>>}
    BY TreeAssumption DEF Places, TreePaths
  <1> QED BY <1>1, PathParts

-----------------------------------------------------------------------------
(* Paths on a disk: where a path leads to, name by name *)

IsWay(disk, at, path) ==
    /\ at[0] = <<>>
    /\ \A n \in 1..Len(path) : at[n] = NextName(disk, at[n - 1], path[n])

LEMMA LeadsAlong ==
    ASSUME NEW disk, NEW path \in Seq(STRING)
    PROVE  \E at : IsWay(disk, at, path) /\ leadsTo(disk, path) = at[Len(path)]
  <1> DEFINE Along(at, k) ==
               at = [n \in 0..k |-> IF n = 0 THEN <<>> ELSE NextName(disk, at[n - 1], path[n])]
             bad == {k \in 0..Len(path) : ~ \E at : Along(at, k)}
  <1>0. Len(path) \in Nat
    BY PathParts
  <1>1. bad = {}
    <2>1. SUFFICES ASSUME bad # {} PROVE FALSE
      OBVIOUS
    <2>2. bad \subseteq Nat
      BY <1>0
    <2>3. PICK k \in bad : \A j \in bad : k <= j
      BY <2>1, <2>2, LeastPosition
    <2>4. k # 0
      <3> DEFINE nothing == [n \in {0} |-> <<>>]
      <3>1. nothing = [n \in {0} |-> IF n = 0 THEN <<>> ELSE NextName(disk, nothing[n - 1], path[n])]
        OBVIOUS
      <3>2. 0..0 = {0}
        OBVIOUS
      <3>3. Along(nothing, 0)
        BY <3>1, <3>2
      <3> QED BY <2>3, <3>3
    <2>5. k - 1 \in 0..Len(path) /\ k - 1 \notin bad /\ k \in Nat
      <3> HIDE DEF Along
      <3>1. k \in 0..Len(path) /\ ~(k <= k - 1)
        BY <1>0
      <3> QED BY <1>0, <2>3, <2>4, <3>1
    <2>6. PICK at : Along(at, k - 1)
      BY <2>5
    <2> DEFINE more == [n \in 0..k |-> IF n = k THEN NextName(disk, at[k - 1], path[k]) ELSE at[n]]
    <2>7. ASSUME NEW n \in 0..k
          PROVE  more[n] = IF n = 0 THEN <<>> ELSE NextName(disk, more[n - 1], path[n])
      <3>1. CASE n = k
        BY <2>4, <2>5, <3>1
      <3>2. CASE n # k
        <4>1. n \in 0..(k - 1)
          BY <2>5, <3>2
        <4>2. at[n] = IF n = 0 THEN <<>> ELSE NextName(disk, at[n - 1], path[n])
          BY <2>6, <4>1
        <4>3. more[n] = at[n] /\ (n # 0 => more[n - 1] = at[n - 1])
          BY <2>5, <3>2, <4>1
        <4> QED BY <4>2, <4>3
      <3> QED BY <3>1, <3>2
    <2>8. Along(more, k)
      BY <2>7
    <2> QED BY <2>3, <2>8
  <1>2. \E at : Along(at, Len(path))
    BY <1>0, <1>1
  <1> DEFINE at == CHOOSE at : Along(at, Len(path))
  <1>3. Along(at, Len(path))
    BY <1>2
  <1>4. leadsTo(disk, path) = at[Len(path)]
    BY Zenon DEF leadsTo
  <1> HIDE DEF at
  <1>5. IsWay(disk, at, path)
    BY <1>0, <1>3 DEF IsWay
  <1> QED BY <1>4, <1>5

LEMMA WaysAgree ==
    ASSUME NEW disk, NEW p \in Seq(STRING), NEW q \in Seq(STRING), NEW a, NEW b,
           IsWay(disk, a, p), IsWay(disk, b, q), Len(p) <= Len(q),
           \A i \in 1..Len(p) : p[i] = q[i]
    PROVE  a[Len(p)] = b[Len(p)]
  <1> DEFINE bad == {k \in 0..Len(p) : a[k] # b[k]}
  <1>0. Len(p) \in Nat /\ Len(q) \in Nat
    BY PathParts
  <1>1. SUFFICES ASSUME a[Len(p)] # b[Len(p)] PROVE FALSE
    OBVIOUS
  <1>7. bad # {} /\ bad \subseteq Nat
    <2>1. Len(p) \in 0..Len(p)
      BY <1>0
    <2> QED BY <1>0, <1>1, <2>1
  <1>2. PICK k \in bad : \A j \in bad : k <= j
    BY <1>7, LeastPosition
  <1>3. k # 0
    BY DEF IsWay
  <1>4. k - 1 \in 0..Len(p) /\ k - 1 \notin bad /\ k \in 1..Len(p) /\ k \in 1..Len(q)
    BY <1>0, <1>2, <1>3
  <1>5. a[k - 1] = b[k - 1]
    BY <1>4
  <1>6. a[k] = NextName(disk, a[k - 1], p[k]) /\ b[k] = NextName(disk, b[k - 1], q[k]) /\ p[k] = q[k]
    BY <1>4 DEF IsWay
  <1> QED BY <1>2, <1>5, <1>6

LEMMA LeadsFromTop ==
    ASSUME NEW disk
    PROVE  leadsTo(disk, <<>>) = <<>>
  <1>0. <<>> \in Seq(STRING) /\ Len(<<>>) = 0
    OBVIOUS
  <1>1. PICK at : IsWay(disk, at, <<>>) /\ leadsTo(disk, <<>>) = at[0]
    BY <1>0, LeadsAlong
  <1> QED BY <1>1 DEF IsWay

LEMMA LeadsFurther ==
    ASSUME NEW disk, NEW p \in Seq(STRING), NEW n \in STRING
    PROVE  /\ leadsTo(disk, <<>>) = <<>>
           /\ leadsTo(disk, Append(p, n)) = NextName(disk, leadsTo(disk, p), n)
  <1>1. leadsTo(disk, <<>>) = <<>>
    BY LeadsFromTop
  <1> DEFINE q == Append(p, n)
  <1>2. /\ q \in Seq(STRING) /\ Len(q) = Len(p) + 1 /\ Len(p) \in Nat /\ q[Len(q)] = n
        /\ \A i \in 1..Len(p) : p[i] = q[i]
    OBVIOUS
  <1> HIDE DEF q
  <1>3. PICK a : IsWay(disk, a, p) /\ leadsTo(disk, p) = a[Len(p)]
    BY LeadsAlong
  <1>4. PICK b : IsWay(disk, b, q) /\ leadsTo(disk, q) = b[Len(q)]
    BY <1>2, LeadsAlong
  <1>5. a[Len(p)] = b[Len(p)]
    <2>1. Len(p) <= Len(q)
      BY <1>2
    <2>2. \A i \in 1..Len(p) : p[i] = q[i]
      BY <1>2
    <2>3. q \in Seq(STRING)
      BY <1>2
    <2> QED BY <1>3, <1>4, <2>1, <2>2, <2>3, WaysAgree
  <1>6. b[Len(q)] = NextName(disk, b[Len(q) - 1], q[Len(q)])
    <2>1. Len(q) \in 1..Len(q)
      BY <1>2
    <2> QED BY <2>1, <1>4 DEF IsWay
  <1>7. Len(q) - 1 = Len(p)
    BY <1>2
  <1> QED BY <1>1, <1>2, <1>3, <1>4, <1>5, <1>6, <1>7 DEF q

LEMMA NextTyped ==
    ASSUME NEW disk, NEW at, NEW n \in STRING
    PROVE  /\ NextName(disk, at, n) \in (TreePaths \intersect disk) \union {None}
           /\ NextName(disk, None, n) = None
  <1>1. None \notin Places
    BY PlacesAreNamed
  <1>2. \A l \in DOMAIN TreeLinks : TreeLinks[l] \in TreePaths
    BY TreeAssumption DEF TreePaths
  <1> QED BY <1>1, <1>2 DEF NextName, TreePaths, Places

\* A path leads to a directory or a file of the disk, if it leads anywhere.
LEMMA LeadsTyped ==
    ASSUME NEW disk, NEW path \in Seq(STRING)
    PROVE  leadsTo(disk, path) \in (TreePaths \intersect disk) \union {<<>>, None}
  <1>1. CASE path = <<>>
    BY <1>1, LeadsFromTop
  <1>2. CASE path # <<>>
    <2>1. PICK p \in Seq(STRING), n \in STRING : path = Append(p, n)
      BY <1>2, SequenceEmptyOrAppend
    <2>2. leadsTo(disk, path) = NextName(disk, leadsTo(disk, p), n)
      BY <2>1, LeadsFurther
    <2> QED BY <2>2, NextTyped
  <1> QED BY <1>1, <1>2

\* Where an entry of a directory leads to.
TargetOf(disk, p) ==
    IF p \notin disk THEN None
    ELSE IF p \notin DOMAIN TreeLinks THEN p
    ELSE IF TreeLinks[p] \in disk THEN TreeLinks[p] ELSE None

LEMMA NextIsTarget ==
    ASSUME NEW disk, NEW p \in Places
    PROVE  NextName(disk, Front(p), Last(p)) = TargetOf(disk, p)
  <1>1. p = Append(Front(p), Last(p)) /\ Front(p) # None
    BY PlacesAreNamed, TreeAssumption
  <1>2. \A l \in DOMAIN TreeLinks : l \notin TreePaths
    BY TreeAssumption DEF TreePaths
  <1> QED BY <1>1, <1>2 DEF NextName, TargetOf, TreePaths, Places

\* A path without links leads to itself.
LEMMA LeadsToItself ==
    ASSUME NEW disk, DiskFits(disk), NEW p \in TreePaths
    PROVE  leadsTo(disk, p) = TargetOf(disk, p)
  <1> DEFINE bad == {q \in TreePaths : leadsTo(disk, q) # TargetOf(disk, q)}
             lengths == {Len(q) : q \in bad}
  <1>1. SUFFICES ASSUME bad # {} PROVE FALSE
    OBVIOUS
  <1>2. \A q \in TreePaths : q \in Places /\ q \in Seq(STRING) /\ q # <<>> /\ Len(q) \in Nat
    BY PlacesAreNamed, PathParts DEF Places
  <1>3. lengths # {} /\ lengths \subseteq Nat
    BY <1>1, <1>2
  <1>4. PICK q \in bad : \A r \in bad : Len(q) <= Len(r)
    <2> HIDE DEF bad
    <2>1. PICK m \in lengths : \A l \in lengths : m <= l
      BY <1>3, LeastPosition
    <2> QED BY <2>1
  <1> DEFINE d == Front(q)
  <1>5. /\ q \in Places /\ d \in TreeDirectories \union {<<>>} /\ q = Append(d, Last(q))
        /\ Last(q) \in STRING /\ d \in Seq(STRING) /\ Len(d) = Len(q) - 1 /\ Len(q) \in Nat
    BY <1>2, <1>4, PlacesAreNamed, PathParts
  <1>6. leadsTo(disk, q) = NextName(disk, leadsTo(disk, d), Last(q))
    BY <1>5, LeadsFurther
  <1>7. leadsTo(disk, d) = IF d = <<>> THEN <<>> ELSE TargetOf(disk, d)
    <2>1. d \notin bad
      BY <1>4, <1>5
    <2>2. d # <<>> => d \in TreePaths
      BY <1>5 DEF TreePaths
    <2>3. leadsTo(disk, <<>>) = <<>>
      BY <1>5, LeadsFurther
    <2> QED BY <2>1, <2>2, <2>3
  <1>8. d \in TreeDirectories => d \notin DOMAIN TreeLinks
    BY TreeAssumption
  <1>9. CASE leadsTo(disk, d) = d
    BY <1>4, <1>5, <1>6, <1>9, NextIsTarget
  <1>10. CASE leadsTo(disk, d) # d
    <2>1. d \in TreeDirectories /\ d \notin disk /\ leadsTo(disk, d) = None /\ d # <<>>
      BY <1>5, <1>7, <1>8, <1>10 DEF TargetOf
    <2>2. q \notin disk
      BY <2>1 DEF DiskFits
    <2> QED BY <1>4, <1>5, <1>6, <2>1, <2>2, NextTyped DEF TargetOf
  <1> QED BY <1>9, <1>10

\* Entries of directories lead where their names say.
LEMMA EntryLeads ==
    ASSUME NEW disk, DiskFits(disk), NEW p \in Places
    PROVE  /\ leadsTo(disk, p) = TargetOf(disk, p)
           /\ p \in disk => leadsTo(disk, Front(p)) = Front(p)
  <1> DEFINE d == Front(p)
  <1>1. /\ d \in TreeDirectories \union {<<>>} /\ p = Append(d, Last(p))
        /\ Last(p) \in STRING /\ d \in Seq(STRING)
    BY PlacesAreNamed
  <1>2. leadsTo(disk, p) = NextName(disk, leadsTo(disk, d), Last(p))
    BY <1>1, LeadsFurther
  <1>3. leadsTo(disk, d) = IF d = <<>> THEN <<>> ELSE TargetOf(disk, d)
    <2>1. d # <<>> => d \in TreePaths
      BY <1>1 DEF TreePaths
    <2>2. leadsTo(disk, <<>>) = <<>>
      BY <1>1, LeadsFurther
    <2> QED BY <2>1, <2>2, LeadsToItself
  <1>4. d \in TreeDirectories => d \notin DOMAIN TreeLinks
    BY TreeAssumption
  <1>5. CASE leadsTo(disk, d) = d
    BY <1>2, <1>5, NextIsTarget
  <1>6. CASE leadsTo(disk, d) # d
    <2>1. d \in TreeDirectories /\ d \notin disk /\ leadsTo(disk, d) = None /\ d # <<>>
      BY <1>1, <1>3, <1>4, <1>6 DEF TargetOf
    <2>2. p \notin disk
      BY <2>1 DEF DiskFits
    <2> QED BY <1>1, <1>2, <2>1, <2>2, NextTyped DEF TargetOf
  <1> QED BY <1>5, <1>6

LEMMA DiskAtFirst == DiskFits(Places)
  BY PlacesAreNamed DEF DiskFits, Places, TreePaths

LEMMA DiskStays ==
    ASSUME NEW disk, NEW path, DiskFits(disk),
           path \in TreeDirectories => ~ \E q \in disk : q # <<>> /\ Front(q) = path
    PROVE  DiskFits(disk \ {path})
  <1>1. \A q \in disk : q # <<>>
    BY PlacesAreNamed DEF DiskFits
  <1> QED BY <1>1 DEF DiskFits

-----------------------------------------------------------------------------
(* What is closed under edges *)

IsClosed(edges, nodes) == \A e \in edges : e[1] \in nodes => e[2] \in nodes

LEMMA LeastIsClosed ==
    ASSUME NEW edges, NEW start
    PROVE  /\ start \subseteq LeastClosed(edges, start)
           /\ IsClosed(edges, LeastClosed(edges, start))
  <1> DEFINE more == {e[2] : e \in edges} \ start
             closed == {c \in SUBSET more :
                          \A e \in edges : e[1] \in start \union c => e[2] \in start \union c}
             least == start \union {x \in more : \A c \in closed : x \in c}
  <1>1. LeastClosed(edges, start) = least
    BY DEF LeastClosed
  <1>2. ASSUME NEW e \in edges, e[1] \in least, e[2] \notin start PROVE e[2] \in least
    <2>1. e[2] \in more
      BY <1>2
    <2>2. \A c \in closed : e[2] \in c
      BY <1>2
    <2> QED BY <2>1, <2>2
  <1> QED BY <1>1, <1>2 DEF IsClosed

LEMMA LeastIsLeast ==
    ASSUME NEW edges, NEW start, NEW nodes, start \subseteq nodes, IsClosed(edges, nodes)
    PROVE  LeastClosed(edges, start) \subseteq nodes
  <1> DEFINE more == {e[2] : e \in edges} \ start
             closed == {c \in SUBSET more :
                          \A e \in edges : e[1] \in start \union c => e[2] \in start \union c}
             within == more \intersect nodes
  <1>1. within \in closed
    <2>1. ASSUME NEW e \in edges, e[1] \in start \union within PROVE e[2] \in start \union within
      <3>1. e[2] \in nodes /\ e[2] \in start \union more
        BY <2>1 DEF IsClosed
      <3> QED BY <3>1
    <2> QED BY <2>1
  <1>2. LeastClosed(edges, start) = start \union {x \in more : \A c \in closed : x \in c}
    BY DEF LeastClosed
  <1> QED BY <1>1, <1>2

-----------------------------------------------------------------------------
(* Source discovery: what is to be found on a disk *)

AllowedOn(disk, target, roots) ==
    \E r \in roots : leadsTo(disk, r) # None /\ IsPrefix(leadsTo(disk, r), target)

\* Where an entry leads to when it is followed.
LeadsOn(disk, roots, p, target) ==
    /\ p \in disk /\ target = TargetOf(disk, p) /\ target # None
    /\ p \in DOMAIN TreeLinks => AllowedOn(disk, target, roots)

IsInput(p, suffixless) ==
    Last(p) \in SuffixedNames \/ (suffixless /\ Last(p) \in SuffixlessHeaders)

EdgesOn(disk, roots) ==
    {e \in TreeDirectories \X TreeDirectories :
        e[1] \notin Unreadable /\ \E p \in disk : Front(p) = e[1] /\ LeadsOn(disk, roots, p, e[2])}

ReachedOn(disk, roots, directory) == LeastClosed(EdgesOn(disk, roots), {directory})

IsDirectoryOn(disk, path) == leadsTo(disk, path) \in TreeDirectories \intersect disk

InputsOn(disk, roots, path, suffixless) ==
    {t \in TreeFiles :
        /\ IsDirectoryOn(disk, path)
        /\ \E p \in disk : /\ Front(p) \in ReachedOn(disk, roots, leadsTo(disk, path)) \ Unreadable
                           /\ LeadsOn(disk, roots, p, t) /\ IsInput(p, suffixless)}

RootsIn(sources, includes) ==
    {[path |-> r, suffixless |-> TRUE] : r \in includes}
    \union {[path |-> r, suffixless |-> FALSE] : r \in sources \ includes}

ExpectedOn(disk, sources, includes) ==
    UNION {InputsOn(disk, sources \union includes, root.path, root.suffixless) :
              root \in RootsIn(sources, includes)}

\* The model's entries are those.
LEMMA EntryIs ==
    ASSUME DiskFits(onDisk), NEW p \in onDisk
    PROVE  /\ canonical(p) = TargetOf(onDisk, p) /\ canonical(Front(p)) = Front(p)
           /\ IsLink(p) <=> p \in DOMAIN TreeLinks
           /\ p = Append(Front(p), Last(p)) /\ p # <<>> /\ Last(p) \in NamesIn(Front(p))
           /\ Front(p) \in TreeDirectories \union {<<>>} /\ Front(p) # None
  <1>1. p \in Places /\ p \in Seq(STRING)
    BY PlacesAreNamed DEF DiskFits
  <1>2. /\ p = Append(Front(p), Last(p)) /\ p # <<>> /\ Front(p) \in TreeDirectories \union {<<>>}
        /\ Front(p) # None
    BY <1>1, PlacesAreNamed, TreeAssumption
  <1>3. canonical(p) = TargetOf(onDisk, p) /\ canonical(Front(p)) = Front(p)
    BY <1>1, EntryLeads DEF canonical
  <1>4. IsLink(p) <=> p \in DOMAIN TreeLinks
    BY <1>2, <1>3 DEF IsLink, LinksNow
  <1>5. Last(p) \in NamesIn(Front(p))
    BY <1>2 DEF NamesIn
  <1> QED BY <1>2, <1>3, <1>4, <1>5

LEMMA NameIsEntry ==
    ASSUME DiskFits(onDisk), NEW d, NEW n \in NamesIn(d)
    PROVE  Append(d, n) \in onDisk /\ Front(Append(d, n)) = d /\ Last(Append(d, n)) = n
  <1>1. PICK p \in onDisk : Front(p) = d /\ Last(p) = n
    BY DEF NamesIn
  <1>2. p = Append(d, n)
    BY <1>1, EntryIs
  <1> QED BY <1>1, <1>2

LEMMA AllowedIs ==
    ASSUME NEW target, NEW roots
    PROVE  allowedTarget(target, roots) <=> AllowedOn(onDisk, target, roots)
  BY DEF allowedTarget, AllowedOn, canonical

LEMMA EdgesAre ==
    ASSUME DiskFits(onDisk), NEW roots
    PROVE  LET followed == {e \in EntriesOf(DirectoriesNow) :
                               /\ canonical(e[2]) \in DirectoriesNow
                               /\ IsLink(e[2]) => allowedTarget(canonical(e[2]), roots)}
           IN {<<e[1], canonical(e[2])>> : e \in followed} = EdgesOn(onDisk, roots)
  <1> DEFINE followed == {e \in EntriesOf(DirectoriesNow) :
                             /\ canonical(e[2]) \in DirectoriesNow
                             /\ IsLink(e[2]) => allowedTarget(canonical(e[2]), roots)}
             edges == {<<e[1], canonical(e[2])>> : e \in followed}
  <1>1. ASSUME NEW e \in followed PROVE <<e[1], canonical(e[2])>> \in EdgesOn(onDisk, roots)
    <2>0. PICK d \in DirectoriesNow \ Unreadable : \E n \in NamesIn(d) : e = <<d, Append(d, n)>>
      BY DEF EntriesOf
    <2>1. PICK n \in NamesIn(d) : e = <<d, Append(d, n)>>
      BY <2>0
    <2> DEFINE p == Append(d, n)
    <2>2. p \in onDisk /\ Front(p) = d
      BY NameIsEntry
    <2> HIDE DEF p
    <2>3. canonical(p) = TargetOf(onDisk, p) /\ (IsLink(p) <=> p \in DOMAIN TreeLinks)
      BY <2>2, EntryIs
    <2>4. canonical(p) \in DirectoriesNow /\ (IsLink(p) => allowedTarget(canonical(p), roots))
      BY <2>1 DEF p
    <2>5. canonical(p) # None /\ canonical(p) \in TreeDirectories /\ d \in TreeDirectories /\ d \notin Unreadable
      BY <2>1, <2>4, TreeAssumption DEF DirectoriesNow
    <2>6. LeadsOn(onDisk, roots, p, canonical(p))
      BY <2>2, <2>3, <2>4, <2>5, AllowedIs DEF LeadsOn
    <2>7. <<d, canonical(p)>> \in EdgesOn(onDisk, roots)
      BY <2>2, <2>5, <2>6 DEF EdgesOn
    <2> QED BY <2>1, <2>7 DEF p
  <1>2. ASSUME NEW e \in EdgesOn(onDisk, roots) PROVE e \in edges
    <2>1. PICK d \in TreeDirectories, t \in TreeDirectories : e = <<d, t>> /\ d \notin Unreadable
      BY DEF EdgesOn
    <2>2. PICK p \in onDisk : Front(p) = d /\ LeadsOn(onDisk, roots, p, t)
      BY <2>1 DEF EdgesOn
    <2>3. /\ canonical(p) = TargetOf(onDisk, p) /\ (IsLink(p) <=> p \in DOMAIN TreeLinks)
          /\ p = Append(d, Last(p)) /\ Last(p) \in NamesIn(d)
      BY <2>2, EntryIs
    <2>4. d \in onDisk
      BY <2>1, <2>2, TreeAssumption DEF DiskFits
    <2>5. canonical(p) = t /\ t \in onDisk
      BY <2>2, <2>3 DEF LeadsOn, TargetOf
    <2>6. <<d, p>> \in EntriesOf(DirectoriesNow)
      BY <2>1, <2>3, <2>4 DEF EntriesOf, DirectoriesNow
    <2>7. IsLink(p) => allowedTarget(t, roots)
      BY <2>2, <2>3, AllowedIs DEF LeadsOn
    <2>8. <<d, p>> \in followed
      BY <2>1, <2>5, <2>6, <2>7 DEF DirectoriesNow
    <2> QED BY <2>1, <2>5, <2>8
  <1> QED BY <1>1, <1>2

LEMMA InputsAre ==
    ASSUME DiskFits(onDisk), NEW roots, NEW root, NEW suffixless
    PROVE  InputsBelow(root, suffixless, roots) = InputsOn(onDisk, roots, root, suffixless)
  <1>1. isDirectory(root) <=> IsDirectoryOn(onDisk, root)
    BY DEF isDirectory, IsDirectoryOn, canonical, DirectoriesNow
  <1>2. ReachedFrom(canonical(root), roots) = ReachedOn(onDisk, roots, canonical(root))
    BY EdgesAre DEF ReachedFrom, ReachedOn
  <1>3. canonical(root) = leadsTo(onDisk, root)
    BY DEF canonical
  <1> DEFINE below == IF isDirectory(root) THEN ReachedFrom(canonical(root), roots) ELSE {}
             inputs == {e \in EntriesOf(below) : /\ canonical(e[2]) \in FilesNow
                                                 /\ compilableInput(e[2], suffixless)
                                                 /\ IsLink(e[2]) => allowedTarget(canonical(e[2]), roots)}
  <1>4. InputsBelow(root, suffixless, roots) = {canonical(e[2]) : e \in inputs}
    BY DEF InputsBelow
  <1> HIDE DEF below
  <1>5. ASSUME NEW e \in inputs PROVE canonical(e[2]) \in InputsOn(onDisk, roots, root, suffixless)
    <2>0. PICK d \in below \ Unreadable : \E n \in NamesIn(d) : e = <<d, Append(d, n)>>
      BY DEF EntriesOf
    <2>1. PICK n \in NamesIn(d) : e = <<d, Append(d, n)>>
      BY <2>0
    <2> DEFINE p == Append(d, n)
    <2>2. p \in onDisk /\ Front(p) = d
      BY NameIsEntry
    <2> HIDE DEF p
    <2>3. canonical(p) = TargetOf(onDisk, p) /\ (IsLink(p) <=> p \in DOMAIN TreeLinks)
      BY <2>2, EntryIs
    <2>4. /\ canonical(p) \in FilesNow /\ compilableInput(p, suffixless)
          /\ (IsLink(p) => allowedTarget(canonical(p), roots))
      BY <2>1 DEF p
    <2>5. canonical(p) # None /\ canonical(p) \in TreeFiles
      BY <2>4, TreeAssumption DEF FilesNow
    <2>6. LeadsOn(onDisk, roots, p, canonical(p)) /\ IsInput(p, suffixless)
      BY <2>2, <2>3, <2>4, <2>5, AllowedIs DEF LeadsOn, IsInput, compilableInput
    <2>7. IsDirectoryOn(onDisk, root) /\ d \in ReachedOn(onDisk, roots, leadsTo(onDisk, root)) \ Unreadable
      BY <2>1, <1>1, <1>2, <1>3 DEF below
    <2>8. canonical(p) \in InputsOn(onDisk, roots, root, suffixless)
      BY <2>2, <2>5, <2>6, <2>7 DEF InputsOn
    <2> QED BY <2>1, <2>8 DEF p
  <1>6. ASSUME NEW t \in InputsOn(onDisk, roots, root, suffixless) PROVE \E e \in inputs : t = canonical(e[2])
    <2>1. PICK p \in onDisk : /\ Front(p) \in ReachedOn(onDisk, roots, leadsTo(onDisk, root)) \ Unreadable
                              /\ LeadsOn(onDisk, roots, p, t) /\ IsInput(p, suffixless)
      BY DEF InputsOn
    <2> DEFINE d == Front(p)
    <2>2. /\ canonical(p) = TargetOf(onDisk, p) /\ (IsLink(p) <=> p \in DOMAIN TreeLinks)
          /\ p = Append(d, Last(p)) /\ Last(p) \in NamesIn(d)
      BY EntryIs
    <2>3. t \in TreeFiles /\ IsDirectoryOn(onDisk, root)
      BY DEF InputsOn
    <2>4. canonical(p) = t /\ t \in onDisk
      BY <2>1, <2>2 DEF LeadsOn, TargetOf
    <2>5. d \in below \ Unreadable
      BY <2>1, <2>3, <1>1, <1>2, <1>3 DEF below
    <2>6. <<d, p>> \in EntriesOf(below)
      BY <2>2, <2>5 DEF EntriesOf
    <2>7. IsLink(p) => allowedTarget(t, roots)
      BY <2>1, <2>2, AllowedIs DEF LeadsOn
    <2>8. compilableInput(p, suffixless)
      BY <2>1 DEF IsInput, compilableInput
    <2>9. <<d, p>> \in inputs
      BY <2>3, <2>4, <2>6, <2>7, <2>8 DEF FilesNow
    <2> QED BY <2>4, <2>9
  <1> QED BY <1>4, <1>5, <1>6

LEMMA ExpectedIs ==
    ASSUME DiskFits(onDisk), NEW sources, NEW includes
    PROVE  Discoverable(sources, includes) = ExpectedOn(onDisk, sources, includes)
  <1> DEFINE roots == sources \union includes
             wide(r) == InputsOn(onDisk, roots, r, TRUE)
             narrow(r) == InputsOn(onDisk, roots, r, FALSE)
             of(root) == InputsOn(onDisk, roots, root.path, root.suffixless)
  <1>1. \A r : narrow(r) \subseteq wide(r)
    BY DEF InputsOn, IsInput
  <1> HIDE DEF wide, narrow, of
  <1>2. Discoverable(sources, includes) =
           (UNION {wide(r) : r \in includes}) \union (UNION {narrow(r) : r \in sources})
    BY InputsAre DEF Discoverable, wide, narrow
  <1>3. ExpectedOn(onDisk, sources, includes) =
           UNION {of(root) : root \in RootsIn(sources, includes)}
    BY DEF ExpectedOn, of
  <1>4. ASSUME NEW t \in Discoverable(sources, includes) PROVE t \in ExpectedOn(onDisk, sources, includes)
    <2>1. CASE \E r \in includes : t \in wide(r)
      <3>1. PICK r \in includes : t \in wide(r)
        BY <2>1
      <3>2. PICK root : root = [path |-> r, suffixless |-> TRUE]
        OBVIOUS
      <3>3. root \in RootsIn(sources, includes)
        BY <3>2 DEF RootsIn
      <3>4. root.path = r /\ root.suffixless = TRUE
        BY <3>2
      <3>5. t \in of(root)
        BY <3>1, <3>4, Zenon DEF wide, narrow, of
      <3> QED BY <1>3, <3>3, <3>5, Zenon
    <2>2. CASE \E r \in sources \ includes : t \in narrow(r)
      <3>1. PICK r \in sources \ includes : t \in narrow(r)
        BY <2>2
      <3>2. PICK root : root = [path |-> r, suffixless |-> FALSE]
        OBVIOUS
      <3>3. root \in RootsIn(sources, includes)
        BY <3>2 DEF RootsIn
      <3>4. root.path = r /\ root.suffixless = FALSE
        BY <3>2
      <3>5. t \in of(root)
        BY <3>1, <3>4, Zenon DEF wide, narrow, of
      <3> QED BY <1>3, <3>3, <3>5, Zenon
    <2>3. \/ \E r \in includes : t \in wide(r)
          \/ \E r \in sources : t \in narrow(r)
      <3>1. \/ t \in UNION {wide(r) : r \in includes}
            \/ t \in UNION {narrow(r) : r \in sources}
        BY <1>2
      <3> QED BY <3>1
    <2> QED BY <1>1, <2>1, <2>2, <2>3, Zenon
  <1>5. ASSUME NEW t \in ExpectedOn(onDisk, sources, includes) PROVE t \in Discoverable(sources, includes)
    <2>1. PICK root \in RootsIn(sources, includes) : t \in of(root)
      BY <1>3
    <2>2. \/ root.path \in includes /\ root.suffixless = TRUE
          \/ root.path \in sources /\ root.suffixless = FALSE
      BY DEF RootsIn
    <2>3. CASE root.path \in includes /\ root.suffixless = TRUE
      <3>1. t \in wide(root.path)
        BY <2>1, <2>3, Zenon DEF wide, of
      <3> QED BY <1>2, <2>3, <3>1, Zenon
    <2>4. CASE root.path \in sources /\ root.suffixless = FALSE
      <3>1. t \in narrow(root.path)
        BY <2>1, <2>4, Zenon DEF narrow, of
      <3>2. t \in UNION {narrow(r) : r \in sources}
        BY <2>4, <3>1
      <3> QED BY <1>2, <3>2
    <2> QED BY <2>2, <2>3, <2>4
  <1> QED BY <1>4, <1>5

-----------------------------------------------------------------------------
(* Source discovery: what is on the disk gets less *)

LEMMA LastName ==
    ASSUME NEW p \in Seq(STRING), p # <<>>
    PROVE  \E q \in Seq(STRING), n \in STRING : p = Append(q, n)
  BY SequenceEmptyOrAppend

LEMMA LeadsLess ==
    ASSUME NEW disk, NEW less, less \subseteq disk, NEW path \in Seq(STRING)
    PROVE  leadsTo(less, path) \in {leadsTo(disk, path), None}
  <1> DEFINE bad == {q \in Seq(STRING) : leadsTo(less, q) \notin {leadsTo(disk, q), None}}
             lengths == {Len(q) : q \in bad}
  <1>1. SUFFICES ASSUME bad # {} PROVE FALSE
    OBVIOUS
  <1>2. lengths # {} /\ lengths \subseteq Nat
    <2>1. \A q \in Seq(STRING) : Len(q) \in Nat
      BY LenProperties
    <2> QED BY <1>1, <2>1
  <1>3. PICK p \in bad : \A r \in bad : Len(p) <= Len(r)
    <2> HIDE DEF bad
    <2>1. PICK m \in lengths : \A l \in lengths : m <= l
      BY <1>2, LeastPosition
    <2> QED BY <2>1
  <1>4. p # <<>>
    <2>1. leadsTo(disk, <<>>) = <<>> /\ leadsTo(less, <<>>) = <<>>
      BY LeadsFromTop
    <2> QED BY <1>3, <2>1
  <1>5. PICK q \in Seq(STRING), n \in STRING : p = Append(q, n)
    BY <1>4, SequenceEmptyOrAppend
  <1>6. Len(p) = Len(q) + 1 /\ Len(q) \in Nat
    BY <1>5, AppendProperties, LenProperties
  <1>7. q \notin bad
    BY <1>3, <1>6
  <1>8. \A d \in {disk, less} : leadsTo(d, p) = NextName(d, leadsTo(d, q), n) /\ NextName(d, None, n) = None
    <2>1. \A d : leadsTo(d, Append(q, n)) = NextName(d, leadsTo(d, q), n)
      BY LeadsFurther
    <2>2. \A d : NextName(d, None, n) = None
      BY NextTyped
    <2> QED BY <1>5, <2>1, <2>2, Zenon
  <1>9. leadsTo(less, q) = leadsTo(disk, q)
    BY <1>3, <1>7, <1>8
  <1>10. \A at : NextName(less, at, n) \in {NextName(disk, at, n), None}
    <2>1. None \notin TreeDirectories \union TreeFiles
      BY TreeAssumption
    <2>2. DOMAIN TreeLinks \intersect (TreeDirectories \union TreeFiles) = {}
      BY TreeAssumption
    <2> QED BY <2>1, <2>2 DEF NextName
  <1> QED BY <1>3, <1>8, <1>9, <1>10

\* As long as no link goes, what is still there is found where it was.
LEMMA LeadsStill ==
    ASSUME NEW disk, NEW less, DiskFits(disk), DiskFits(less), less \subseteq disk,
           disk \intersect DOMAIN TreeLinks \subseteq less,
           NEW path \in Seq(STRING), leadsTo(disk, path) \in less \union {<<>>}
    PROVE  leadsTo(less, path) = leadsTo(disk, path)
  <1> DEFINE bad == {q \in Seq(STRING) : /\ leadsTo(disk, q) \in less \union {<<>>}
                                         /\ leadsTo(less, q) # leadsTo(disk, q)}
             lengths == {Len(q) : q \in bad}
  <1>1. SUFFICES ASSUME bad # {} PROVE FALSE
    OBVIOUS
  <1>2. lengths # {} /\ lengths \subseteq Nat
    <2>1. \A q \in Seq(STRING) : Len(q) \in Nat
      BY LenProperties
    <2> QED BY <1>1, <2>1
  <1>3. PICK p \in bad : \A r \in bad : Len(p) <= Len(r)
    <2> HIDE DEF bad
    <2>1. PICK m \in lengths : \A l \in lengths : m <= l
      BY <1>2, LeastPosition
    <2> QED BY <2>1
  <1>18. /\ p \in Seq(STRING) /\ leadsTo(disk, p) \in less \union {<<>>}
         /\ leadsTo(less, p) # leadsTo(disk, p)
    BY <1>3
  <1>4. p # <<>>
    <2>1. leadsTo(disk, <<>>) = <<>> /\ leadsTo(less, <<>>) = <<>>
      BY LeadsFromTop
    <2> QED BY <1>18, <2>1, Zenon
  <1>5. PICK q \in Seq(STRING), n \in STRING : p = Append(q, n)
    BY <1>4, <1>18, LastName
  <1>6. Len(p) = Len(q) + 1 /\ Len(q) \in Nat
    BY <1>5, AppendProperties, LenProperties
  <1>7. q \notin bad
    BY <1>3, <1>6
  <1> DEFINE at == leadsTo(disk, q)
             next == Append(at, n)
  <1>8. /\ \A d \in {disk, less} : leadsTo(d, p) = NextName(d, leadsTo(d, q), n)
        /\ NextName(disk, None, n) = None
    <2>1. \A d : leadsTo(d, Append(q, n)) = NextName(d, leadsTo(d, q), n)
      BY LeadsFurther
    <2>2. NextName(disk, None, n) = None
      BY NextTyped
    <2> QED BY <1>5, <2>1, <2>2, Zenon
  <1>9. None \notin less /\ None # <<>> /\ <<>> \in Seq(STRING)
    <2>1. <<>> \in Seq(STRING) /\ None \notin Seq(STRING)
      BY EmptySeq, TreeAssumption
    <2>2. None \notin Places
      BY <2>1, PlacesAreNamed
    <2> QED BY <2>1, <2>2 DEF DiskFits
  <1>10. at \in (TreePaths \intersect disk) \union {<<>>} /\ at # None /\ at \in Seq(STRING)
    BY <1>3, <1>8, <1>9, LeadsTyped, PlacesAreNamed DEF Places
  <1>11. Front(next) = at
    BY <1>10, PathParts
  <1>12. /\ \A l \in DOMAIN TreeLinks : l \notin TreePaths
         /\ None \notin DOMAIN TreeLinks
    BY TreeAssumption DEF TreePaths
  <1>13. next \in less
    <2>1. CASE next \in DOMAIN TreeLinks \intersect disk
      BY <2>1
    <2>2. CASE next \notin DOMAIN TreeLinks \intersect disk
      <3>1. leadsTo(disk, p) \in {next, None}
        BY <1>8, <1>10, <2>2 DEF NextName
      <3>2. leadsTo(disk, p) # <<>>
        BY <1>8, <1>9, <1>10, NextTyped, PlacesAreNamed DEF Places
      <3> QED BY <1>3, <1>9, <3>1, <3>2
    <2> QED BY <2>1, <2>2
  <1>14. at \in less \union {<<>>}
    BY <1>11, <1>13 DEF DiskFits
  <1>15. leadsTo(less, q) = at
    BY <1>7, <1>14
  <1>16. leadsTo(disk, p) \in less
    BY <1>3, <1>8, <1>9, <1>10, NextTyped, PlacesAreNamed DEF Places
  <1>17. NextName(less, at, n) = NextName(disk, at, n)
    BY <1>8, <1>10, <1>12, <1>13, <1>16 DEF NextName
  <1> QED BY <1>3, <1>8, <1>15, <1>17

LEMMA FollowedLess ==
    ASSUME NEW disk, NEW less, less \subseteq disk, NEW roots, roots \subseteq Seq(STRING),
           NEW p, NEW target, LeadsOn(less, roots, p, target)
    PROVE  LeadsOn(disk, roots, p, target) /\ TargetOf(disk, p) = TargetOf(less, p)
  <1>1. TargetOf(disk, p) = TargetOf(less, p)
    BY DEF LeadsOn, TargetOf
  <1>2. AllowedOn(less, target, roots) => AllowedOn(disk, target, roots)
    BY LeadsLess DEF AllowedOn
  <1> QED BY <1>1, <1>2 DEF LeadsOn

LEMMA InputsLess ==
    ASSUME NEW disk, NEW less, less \subseteq disk, NEW roots, roots \subseteq Seq(STRING),
           NEW path \in Seq(STRING), NEW suffixless
    PROVE  InputsOn(less, roots, path, suffixless) \subseteq InputsOn(disk, roots, path, suffixless)
  <1>1. EdgesOn(less, roots) \subseteq EdgesOn(disk, roots)
    BY FollowedLess DEF EdgesOn
  <1>2. ASSUME NEW d PROVE ReachedOn(less, roots, d) \subseteq ReachedOn(disk, roots, d)
    <2>1. d \in ReachedOn(disk, roots, d) /\ IsClosed(EdgesOn(disk, roots), ReachedOn(disk, roots, d))
      BY LeastIsClosed DEF ReachedOn
    <2>2. IsClosed(EdgesOn(less, roots), ReachedOn(disk, roots, d))
      BY <1>1, <2>1 DEF IsClosed
    <2> QED BY <2>1, <2>2, LeastIsLeast DEF ReachedOn
  <1>3. None \notin TreeDirectories
    BY TreeAssumption
  <1>4. ASSUME IsDirectoryOn(less, path)
        PROVE  IsDirectoryOn(disk, path) /\ leadsTo(less, path) = leadsTo(disk, path)
    BY <1>3, <1>4, LeadsLess DEF IsDirectoryOn
  <1>5. ASSUME NEW t \in InputsOn(less, roots, path, suffixless)
        PROVE  t \in InputsOn(disk, roots, path, suffixless)
    <2>1. IsDirectoryOn(less, path) /\ t \in TreeFiles
      BY DEF InputsOn
    <2>2. PICK p \in less : /\ Front(p) \in ReachedOn(less, roots, leadsTo(less, path)) \ Unreadable
                            /\ LeadsOn(less, roots, p, t) /\ IsInput(p, suffixless)
      BY DEF InputsOn
    <2>3. LeadsOn(disk, roots, p, t) /\ p \in disk
      BY <2>2, FollowedLess
    <2>4. Front(p) \in ReachedOn(disk, roots, leadsTo(disk, path)) \ Unreadable
      BY <1>2, <1>4, <2>1, <2>2
    <2> QED BY <1>4, <2>1, <2>2, <2>3, <2>4 DEF InputsOn
  <1> QED BY <1>5

-----------------------------------------------------------------------------
(* Source discovery: the invariant *)

ReadingRoot == {"directories", "entries"}
RootsAt(w) == w.sourceRoots \union w.includeRoots

WalkRecord(w) ==
    /\ w.at \in {"roots", "found"} \union ReadingRoot
    /\ w = [at |-> w.at, left |-> w.left, identities |-> w.identities, sourceRoots |-> w.sourceRoots,
            includeRoots |-> w.includeRoots, files |-> w.files, root |-> w.root, visited |-> w.visited,
            pending |-> w.pending, directory |-> w.directory, entries |-> w.entries]
    /\ RootsAt(w) \subseteq Seq(STRING)
    /\ w.visited \subseteq TreeDirectories
    /\ w.pending \in Seq(Seq(STRING))
    /\ w.entries \subseteq STRING
    /\ w.at = "entries" => w.directory \in Seq(STRING)
    /\ w.left \subseteq RootsIn(w.sourceRoots, w.includeRoots)
    /\ w.at \in ReadingRoot => w.root \in RootsIn(w.sourceRoots, w.includeRoots)
    /\ w.at = "found" => w.left = {}
    /\ w.identities \subseteq w.files

\* What an entry leads to has been found, or will be found.
Handled(disk, w, p) ==
    \A t : LeadsOn(disk, RootsAt(w), p, t) =>
              /\ t \in TreeDirectories => t \in w.visited
              /\ t \in TreeFiles /\ IsInput(p, w.root.suffixless) => t \in w.files

Due(disk, w, p) ==
    \/ \E i \in 1..Len(w.pending) : leadsTo(disk, w.pending[i]) = Front(p)
    \/ w.at = "entries" /\ leadsTo(disk, w.directory) = Front(p) /\ Last(p) \in w.entries

UnderRoot(disk, w) ==
    w.at \in ReadingRoot =>
        /\ IsDirectoryOn(disk, w.root.path) => leadsTo(disk, w.root.path) \in w.visited
        /\ \A p \in disk :
              Front(p) \in w.visited \ Unreadable => Due(disk, w, p) \/ Handled(disk, w, p)

FoundBelow(disk, w, root) == InputsOn(disk, RootsAt(w), root.path, root.suffixless) \subseteq w.files

Complete(disk, w) ==
    \A root \in RootsIn(w.sourceRoots, w.includeRoots) :
        root \in w.left \/ (w.at \in ReadingRoot /\ root = w.root) \/ FoundBelow(disk, w, root)

WalkGood(disk, w) == WalkRecord(w) /\ UnderRoot(disk, w) /\ Complete(disk, w)

\* As long as nothing has disappeared, all that was found is to be found.
WalkSound(w) ==
    /\ w.files \subseteq w.identities \union ExpectedOn(Places, w.sourceRoots, w.includeRoots)
    /\ w.at \in ReadingRoot =>
          /\ IsDirectoryOn(Places, w.root.path)
          /\ w.visited \subseteq ReachedOn(Places, RootsAt(w), leadsTo(Places, w.root.path))
          /\ \A i \in 1..Len(w.pending) : leadsTo(Places, w.pending[i]) \in w.visited
    /\ w.at = "entries" =>
          /\ leadsTo(Places, w.directory) \in w.visited \ Unreadable
          /\ \A n \in w.entries :
                \E p \in Places : Front(p) = leadsTo(Places, w.directory) /\ Last(p) = n

DiscoveryInv ==
    /\ DiskFits(onDisk) /\ vanished \in Nat
    /\ vanished = 0 => onDisk = Places
    /\ \/ walk.at \in {"none", "failed"}
       \/ WalkGood(onDisk, walk) /\ (vanished = 0 => WalkSound(walk))

\* The part of the invariant that is about a walk.
LEMMA WalkMoves ==
    ASSUME DiscoveryInv, UNCHANGED <<onDisk, vanished>>,
           \/ walk'.at \in {"none", "failed"}
           \/ WalkGood(onDisk, walk') /\ (onDisk = Places /\ WalkSound(walk) => WalkSound(walk'))
              /\ ~ walk.at \in {"none", "failed"}
    PROVE  DiscoveryInv'
  <1>1. PICK v : v = walk'
    OBVIOUS
  <1>2. \/ v.at \in {"none", "failed"}
        \/ WalkGood(onDisk, v) /\ (vanished = 0 => WalkSound(v))
    BY <1>1 DEF DiscoveryInv
  <1> QED BY <1>1, <1>2 DEF DiscoveryInv

-----------------------------------------------------------------------------
(* Source discovery: one lemma for each action *)

LEMMA DiscoveryInitOK == DiscoveryInit => DiscoveryInv
  <1>1. SUFFICES ASSUME DiscoveryInit PROVE DiscoveryInv
    OBVIOUS
  <1>2. onDisk = Places /\ vanished = 0 /\ walk.at = "none"
    BY <1>1 DEF DiscoveryInit, NoWalk, Places, TreePaths
  <1> QED BY <1>2, DiskAtFirst DEF DiscoveryInv

\* The roots of what is selected are paths.
LEMMA SelectedRoots ==
    ASSUME NEW selected \in SelectedSources, \A s \in SourcesOf(selected) : canonical(s) # None
    PROVE  sourceRoots(selected) \union includeRoots(selected) \subseteq Seq(STRING)
  <1>1. SourcesOf(selected) \subseteq Seq(STRING) /\ includeRoots(selected) \subseteq Seq(STRING)
    BY TreeAssumption DEF SourcesOf, includeRoots
  <1>2. ASSUME NEW s \in SourcesOf(selected) PROVE Front(canonical(s)) \in Seq(STRING)
    <2>1. canonical(s) \in TreePaths \union {<<>>}
      BY <1>1, LeadsTyped DEF canonical
    <2>2. CASE canonical(s) \in TreePaths
      BY <2>2, PlacesAreNamed DEF Places
    <2>3. CASE canonical(s) = <<>>
      <3>1. <<>> \in Seq(STRING) /\ Len(<<>>) = 0
        BY EmptySeq
      <3>2. SubSeq(<<>>, 1, 0 - 1) = <<>>
        BY SubSeqEmpty
      <3> QED BY <2>3, <3>1, <3>2 DEF Front
    <2> QED BY <2>1, <2>2, <2>3
  <1> QED BY <1>1, <1>2 DEF sourceRoots

LEMMA BeginWalkStep ==
    ASSUME DiscoveryInv, NEW selected \in SelectedSources, BeginWalk(selected)
    PROVE  DiscoveryInv'
  <1>1. CASE walk' = [at |-> "failed"]
    BY <1>1 DEF BeginWalk, DiscoveryInv
  <1>2. CASE walk' # [at |-> "failed"]
    <2>1. PICK s, i, ids : s = sourceRoots(selected) /\ i = includeRoots(selected) /\ ids = sourceIdentities(selected)
      OBVIOUS
    <2>2. PICK v : v = walk'
      OBVIOUS
    <2>3. v = [at |-> "roots", left |-> RootsIn(s, i), identities |-> ids,
               sourceRoots |-> s, includeRoots |-> i, files |-> ids,
               root |-> None, visited |-> {}, pending |-> <<>>, directory |-> None, entries |-> {}]
      BY <1>2, <2>1, <2>2 DEF BeginWalk, RootsOf, RootsIn
    <2>4. s \union i \subseteq Seq(STRING)
      BY <1>2, <2>1, SelectedRoots DEF BeginWalk
    <2>5. <<>> \in Seq(Seq(STRING))
      BY EmptySeq
    <2>6. v.at = "roots" /\ v.left = RootsIn(s, i) /\ v.files = ids /\ v.identities = ids /\ RootsAt(v) = s \union i
          /\ v.sourceRoots = s /\ v.includeRoots = i
      BY <2>3 DEF RootsAt
    <2>7. WalkRecord(v)
      <3> HIDE DEF RootsIn
      <3> QED BY <2>3, <2>4, <2>5, <2>6 DEF WalkRecord, ReadingRoot
    <2>8. UnderRoot(onDisk, v) /\ Complete(onDisk, v) /\ WalkSound(v)
      BY <2>6 DEF UnderRoot, Complete, WalkSound, ReadingRoot
    <2>9. WalkGood(onDisk, v)
      BY <2>7, <2>8 DEF WalkGood
    <2> QED BY <2>2, <2>8, <2>9 DEF BeginWalk, DiscoveryInv
  <1> QED BY <1>1, <1>2

\* A root that is no directory has nothing to be found.
LEMMA NoRoot ==
    ASSUME NEW disk, NEW w, NEW root, ~IsDirectoryOn(disk, root.path)
    PROVE  FoundBelow(disk, w, root)
  BY DEF FoundBelow, InputsOn

LEMMA BeginRootStep ==
    ASSUME DiscoveryInv, BeginRoot
    PROVE  DiscoveryInv'
  <1>1. PICK w, v : w = walk /\ v = walk'
    OBVIOUS
  <1>2. WalkGood(onDisk, w) /\ w.at = "roots" /\ UNCHANGED <<onDisk, vanished>> /\ DiskFits(onDisk)
    BY <1>1 DEF BeginRoot, DiscoveryInv
  <1>3. PICK r \in w.left :
          v = IF isDirectory(r.path)
              THEN [w EXCEPT !.left = @ \ {r}, !.at = "directories", !.root = r,
                             !.visited = {canonical(r.path)}, !.pending = <<r.path>>]
              ELSE [w EXCEPT !.left = @ \ {r}]
    BY <1>1 DEF BeginRoot
  <1>4. isDirectory(r.path) <=> IsDirectoryOn(onDisk, r.path)
    BY DEF isDirectory, IsDirectoryOn, canonical, DirectoriesNow
  <1>5. /\ r \in RootsIn(w.sourceRoots, w.includeRoots) /\ r.path \in RootsAt(w) /\ r.path \in Seq(STRING)
    <2>1. r \in RootsIn(w.sourceRoots, w.includeRoots) /\ RootsAt(w) \subseteq Seq(STRING)
      BY <1>2 DEF WalkGood, WalkRecord
    <2>2. r.path \in w.sourceRoots \union w.includeRoots
      BY <2>1 DEF RootsIn
    <2> QED BY <2>1, <2>2 DEF RootsAt
  <1>6. CASE ~isDirectory(r.path)
    <2>1. /\ v.at = w.at /\ v.left = w.left \ {r} /\ v.files = w.files /\ v.sourceRoots = w.sourceRoots
          /\ v.includeRoots = w.includeRoots /\ v.identities = w.identities /\ v.visited = w.visited
          /\ v.pending = w.pending /\ v.entries = w.entries /\ v.directory = w.directory /\ v.root = w.root
          /\ v = [at |-> v.at, left |-> v.left, identities |-> v.identities, sourceRoots |-> v.sourceRoots,
                  includeRoots |-> v.includeRoots, files |-> v.files, root |-> v.root, visited |-> v.visited,
                  pending |-> v.pending, directory |-> v.directory, entries |-> v.entries]
      BY <1>2, <1>3, <1>6 DEF WalkGood, WalkRecord
    <2>2. RootsAt(v) = RootsAt(w)
      BY <2>1 DEF RootsAt
    <2>3. WalkRecord(v)
      BY <1>2, <2>1, <2>2 DEF WalkGood, WalkRecord, ReadingRoot
    <2>4. UnderRoot(onDisk, v)
      BY <1>2, <2>1 DEF UnderRoot, ReadingRoot
    <2>5. Complete(onDisk, v)
      <3>1. FoundBelow(onDisk, v, r)
        BY <1>4, <1>6, NoRoot
      <3>2. ASSUME NEW root \in RootsIn(v.sourceRoots, v.includeRoots), root # r
            PROVE  root \in v.left \/ FoundBelow(onDisk, v, root)
        BY <1>2, <2>1, <2>2, <3>2 DEF WalkGood, Complete, FoundBelow, ReadingRoot
      <3> QED BY <3>1, <3>2 DEF Complete
    <2>6. WalkSound(w) => WalkSound(v)
      BY <1>2, <2>1 DEF WalkSound, ReadingRoot
    <2> QED BY <1>1, <1>2, <2>3, <2>4, <2>5, <2>6, WalkMoves DEF WalkGood
  <1>7. CASE isDirectory(r.path)
    <2> DEFINE d == leadsTo(onDisk, r.path)
    <2>1. /\ v.at = "directories" /\ v.left = w.left \ {r} /\ v.files = w.files /\ v.sourceRoots = w.sourceRoots
          /\ v.includeRoots = w.includeRoots /\ v.identities = w.identities /\ v.visited = {d}
          /\ v.pending = <<r.path>> /\ v.entries = w.entries /\ v.root = r
          /\ v = [at |-> v.at, left |-> v.left, identities |-> v.identities, sourceRoots |-> v.sourceRoots,
                  includeRoots |-> v.includeRoots, files |-> v.files, root |-> v.root, visited |-> v.visited,
                  pending |-> v.pending, directory |-> v.directory, entries |-> v.entries]
      BY <1>2, <1>3, <1>7 DEF WalkGood, WalkRecord, canonical
    <2>2. RootsAt(v) = RootsAt(w)
      BY <2>1 DEF RootsAt
    <2>3. d \in TreeDirectories
      BY <1>4, <1>7 DEF IsDirectoryOn
    <2>4. v.pending \in Seq(Seq(STRING)) /\ Len(v.pending) = 1 /\ v.pending[1] = r.path
      BY <1>5, <2>1
    <2>5. WalkRecord(v)
      <3> HIDE DEF d
      <3> QED BY <1>2, <1>5, <2>1, <2>2, <2>3, <2>4 DEF WalkGood, WalkRecord, ReadingRoot
    <2>6. UnderRoot(onDisk, v)
      BY <2>1, <2>4 DEF UnderRoot, ReadingRoot, Due
    <2>7. Complete(onDisk, v)
      BY <1>2, <2>1, <2>2 DEF WalkGood, Complete, FoundBelow, ReadingRoot
    <2>8. onDisk = Places /\ WalkSound(w) => WalkSound(v)
      <3>1. d \in ReachedOn(onDisk, RootsAt(v), d)
        BY LeastIsClosed DEF ReachedOn
      <3>2. \A j \in 1..Len(v.pending) : leadsTo(onDisk, v.pending[j]) = d
        BY <2>4
      <3>3. IsDirectoryOn(onDisk, v.root.path) /\ leadsTo(onDisk, v.root.path) = d
        BY <1>4, <1>7, <2>1
      <3> HIDE DEF d
      <3> QED BY <2>1, <2>2, <3>1, <3>2, <3>3 DEF WalkSound, ReadingRoot
    <2> QED BY <1>1, <1>2, <2>5, <2>6, <2>7, <2>8, WalkMoves DEF WalkGood
  <1> QED BY <1>6, <1>7

\* Two moments of a walk below the same root.
SameRoot(w, v) ==
    /\ v.left = w.left /\ v.sourceRoots = w.sourceRoots /\ v.includeRoots = w.includeRoots
    /\ v.identities = w.identities /\ v.root = w.root
    /\ v = [at |-> v.at, left |-> v.left, identities |-> v.identities, sourceRoots |-> v.sourceRoots,
            includeRoots |-> v.includeRoots, files |-> v.files, root |-> v.root, visited |-> v.visited,
            pending |-> v.pending, directory |-> v.directory, entries |-> v.entries]

LEMMA SameRootComplete ==
    ASSUME NEW disk, NEW w, NEW v, SameRoot(w, v), w.at \in ReadingRoot, v.at \in ReadingRoot,
           w.files \subseteq v.files, Complete(disk, w)
    PROVE  Complete(disk, v) /\ RootsAt(v) = RootsAt(w)
  BY DEF SameRoot, Complete, FoundBelow, RootsAt

LEMMA OpenDirectoryStep ==
    ASSUME DiscoveryInv, OpenDirectory
    PROVE  DiscoveryInv'
  <1>1. PICK w, v : w = walk /\ v = walk'
    OBVIOUS
  <1>2. /\ WalkGood(onDisk, w) /\ w.at = "directories" /\ w.pending # <<>>
        /\ UNCHANGED <<onDisk, vanished>> /\ DiskFits(onDisk)
    BY <1>1 DEF OpenDirectory, DiscoveryInv
  <1> DEFINE path == Last(w.pending)
             d == leadsTo(onDisk, path)
             opened == isDirectory(path) /\ canonical(path) \notin Unreadable
  <1>3. w.pending \in Seq(Seq(STRING))
    BY <1>2 DEF WalkGood, WalkRecord
  <1>4. PICK rest \in Seq(Seq(STRING)), last \in Seq(STRING) : w.pending = Append(rest, last)
    BY <1>2, <1>3, SequenceEmptyOrAppend
  <1>5. /\ Len(rest) \in Nat /\ Len(w.pending) = Len(rest) + 1 /\ w.pending[Len(rest) + 1] = last
        /\ \A i \in 1..Len(rest) : w.pending[i] = rest[i]
    <2>1. Len(rest) \in Nat
      BY LenProperties
    <2> QED BY <1>4, <2>1, AppendProperties
  <1>6. Front(w.pending) = rest /\ path = last
    <2>1. path = last
      BY <1>5 DEF Last
    <2> DEFINE front == SubSeq(w.pending, 1, Len(rest))
    <2>2. 1 \in 1..(Len(w.pending) + 1) /\ Len(rest) \in (1 - 1)..Len(w.pending)
      BY <1>5
    <2>3. front \in Seq(Seq(STRING)) /\ Len(front) = Len(rest) /\ \A i \in 1..Len(rest) : front[i] = w.pending[i]
      BY <1>3, <1>5, <2>2
    <2> HIDE DEF front
    <2>4. front = rest
      BY <1>5, <2>3, SeqEqual
    <2>5. Front(w.pending) = front
      BY <1>5 DEF Front, front
    <2> QED BY <2>1, <2>4, <2>5
  <1>7. CASE v = [at |-> "failed"]
    BY <1>1, <1>2, <1>7, WalkMoves
  <1>8. CASE v # [at |-> "failed"]
    <2>0. v = [w EXCEPT !.pending = Front(@), !.at = IF opened THEN "entries" ELSE "directories",
                        !.directory = path,
                        !.entries = IF isDirectory(path) THEN NamesIn(canonical(path)) ELSE {}]
      BY <1>1, <1>8 DEF OpenDirectory
    <2>1. /\ SameRoot(w, v) /\ v.at = (IF opened THEN "entries" ELSE "directories")
          /\ v.files = w.files /\ v.visited = w.visited /\ v.pending = rest /\ v.directory = last
          /\ v.entries = IF isDirectory(path) THEN NamesIn(canonical(path)) ELSE {}
      BY <2>0, <1>2, <1>6 DEF WalkGood, WalkRecord, SameRoot
    <2>2. v.at \in ReadingRoot /\ w.at \in ReadingRoot /\ (v.at = "entries" <=> opened)
      BY <1>2, <2>1 DEF ReadingRoot
    <2>3. Complete(onDisk, v) /\ RootsAt(v) = RootsAt(w)
      BY <1>2, <2>1, <2>2, SameRootComplete DEF WalkGood
    <2>4. isDirectory(path) <=> IsDirectoryOn(onDisk, path)
      BY DEF isDirectory, IsDirectoryOn, canonical, DirectoriesNow
    <2>5. canonical(path) = d /\ path = last
      BY <1>6 DEF canonical
    <2> HIDE DEF path, d
    <2>6. v.entries \subseteq STRING
      BY <1>2, <2>1, PlacesAreNamed DEF NamesIn, DiskFits
    <2>7. WalkRecord(v)
      BY <1>2, <1>4, <2>1, <2>2, <2>3, <2>6 DEF WalkGood, WalkRecord, ReadingRoot, SameRoot
    <2>8. UnderRoot(onDisk, v)
      <3>1. IsDirectoryOn(onDisk, v.root.path) => leadsTo(onDisk, v.root.path) \in v.visited
        BY <1>2, <2>1, <2>2 DEF WalkGood, UnderRoot, SameRoot
      <3>2. ASSUME NEW p \in onDisk, Front(p) \in v.visited \ Unreadable
            PROVE  Due(onDisk, v, p) \/ Handled(onDisk, v, p)
        <4>1. Due(onDisk, w, p) \/ Handled(onDisk, w, p)
          BY <1>2, <2>1, <2>2, <3>2 DEF WalkGood, UnderRoot
        <4>2. CASE Handled(onDisk, w, p)
          BY <4>2, <2>1, <2>3 DEF Handled, SameRoot
        <4>3. CASE \E i \in 1..Len(rest) : leadsTo(onDisk, w.pending[i]) = Front(p)
          BY <4>3, <1>5, <2>1 DEF Due
        <4>4. CASE d = Front(p)
          <5>1. d \in TreeDirectories /\ d \notin Unreadable
            BY <1>2, <2>1, <3>2, <4>4 DEF WalkGood, WalkRecord
          <5>2. d \in onDisk
            BY <4>4, <5>1, <1>2, TreeAssumption DEF DiskFits
          <5>3. opened
            BY <2>4, <2>5, <5>1, <5>2 DEF IsDirectoryOn, d
          <5>4. Last(p) \in v.entries
            BY <2>1, <2>5, <4>4, <5>3, <1>2, EntryIs
          <5> QED BY <2>1, <2>2, <2>5, <4>4, <5>3, <5>4 DEF Due, d
        <4>5. Due(onDisk, w, p) => (\E i \in 1..Len(rest) : leadsTo(onDisk, w.pending[i]) = Front(p)) \/ d = Front(p)
          BY <1>2, <1>5, <2>5 DEF Due, d
        <4> QED BY <4>1, <4>2, <4>3, <4>4, <4>5
      <3> QED BY <3>1, <3>2 DEF UnderRoot
    <2>9. onDisk = Places /\ WalkSound(w) => WalkSound(v)
      <3>1. SUFFICES ASSUME onDisk = Places, WalkSound(w) PROVE WalkSound(v)
        OBVIOUS
      <3>2. v.files \subseteq v.identities \union ExpectedOn(Places, v.sourceRoots, v.includeRoots)
        BY <2>1, <3>1 DEF WalkSound, SameRoot
      <3>3. /\ IsDirectoryOn(Places, v.root.path)
            /\ v.visited \subseteq ReachedOn(Places, RootsAt(v), leadsTo(Places, v.root.path))
        BY <2>1, <2>2, <2>3, <3>1 DEF WalkSound, SameRoot
      <3>4. \A i \in 1..Len(w.pending) : leadsTo(Places, w.pending[i]) \in w.visited
        BY <2>2, <3>1 DEF WalkSound
      <3>5. \A i \in 1..Len(v.pending) : leadsTo(Places, v.pending[i]) \in v.visited
        BY <1>5, <2>1, <3>4
      <3>6. leadsTo(Places, last) \in v.visited
        BY <1>5, <2>1, <3>4
      <3>7. ASSUME v.at = "entries"
            PROVE  /\ leadsTo(Places, v.directory) \in v.visited \ Unreadable
                   /\ \A n \in v.entries :
                         \E p \in Places : Front(p) = leadsTo(Places, v.directory) /\ Last(p) = n
        <4>1. opened /\ d = leadsTo(Places, v.directory)
          BY <2>1, <2>2, <2>5, <3>1, <3>7 DEF d
        <4>2. v.entries = NamesIn(d)
          BY <2>1, <2>5, <4>1
        <4> QED BY <2>1, <2>5, <3>1, <3>6, <4>1, <4>2 DEF NamesIn
      <3> QED BY <3>2, <3>3, <3>5, <3>7 DEF WalkSound
    <2> QED BY <1>1, <1>2, <2>2, <2>3, <2>7, <2>8, <2>9, WalkMoves DEF WalkGood
  <1> QED BY <1>7, <1>8

LEMMA CloseDirectoryStep ==
    ASSUME DiscoveryInv, CloseDirectory
    PROVE  DiscoveryInv'
  <1>1. PICK w, v : w = walk /\ v = walk'
    OBVIOUS
  <1>2. /\ WalkGood(onDisk, w) /\ w.at = "entries" /\ w.entries = {}
        /\ UNCHANGED <<onDisk, vanished>> /\ DiskFits(onDisk)
        /\ v = [w EXCEPT !.at = "directories", !.directory = None]
    BY <1>1 DEF CloseDirectory, DiscoveryInv
  <1>3. /\ SameRoot(w, v) /\ v.at = "directories" /\ v.files = w.files /\ v.visited = w.visited
        /\ v.pending = w.pending /\ v.entries = w.entries
    BY <1>2 DEF WalkGood, WalkRecord, SameRoot
  <1>4. v.at \in ReadingRoot /\ w.at \in ReadingRoot
    BY <1>2, <1>3 DEF ReadingRoot
  <1>5. Complete(onDisk, v) /\ RootsAt(v) = RootsAt(w)
    <2>1. SameRoot(w, v) /\ w.files \subseteq v.files
      BY <1>3
    <2> QED BY <1>2, <1>4, <2>1, SameRootComplete, ZenonT(60) DEF WalkGood
  <1>6. WalkRecord(v)
    BY <1>2, <1>3, <1>4, <1>5 DEF WalkGood, WalkRecord, ReadingRoot, SameRoot
  <1>7. UnderRoot(onDisk, v)
    BY <1>2, <1>3, <1>4, <1>5 DEF WalkGood, UnderRoot, Due, Handled, SameRoot
  <1>8. WalkSound(w) => WalkSound(v)
    BY <1>3, <1>4, <1>5 DEF WalkSound, SameRoot
  <1> QED BY <1>1, <1>2, <1>5, <1>6, <1>7, <1>8, WalkMoves DEF WalkGood

\* Below a root that has nothing left to be read everything is found.
LEMMA RootIsDone ==
    ASSUME NEW disk, DiskFits(disk), NEW w, WalkGood(disk, w), w.at = "directories", w.pending = <<>>
    PROVE  FoundBelow(disk, w, w.root)
  <1>1. CASE ~IsDirectoryOn(disk, w.root.path)
    BY <1>1, NoRoot
  <1>2. CASE IsDirectoryOn(disk, w.root.path)
    <2> DEFINE d == leadsTo(disk, w.root.path)
               edges == EdgesOn(disk, RootsAt(w))
    <2>1. d \in w.visited
      BY <1>2 DEF WalkGood, UnderRoot, ReadingRoot
    <2>2. ASSUME NEW p \in disk, Front(p) \in w.visited \ Unreadable PROVE Handled(disk, w, p)
      <3>1. Len(w.pending) = 0
        BY EmptySeq
      <3>2. ~Due(disk, w, p)
        BY <3>1 DEF Due
      <3> QED BY <2>2, <3>2 DEF WalkGood, UnderRoot, ReadingRoot
    <2>3. ASSUME NEW e \in edges, e[1] \in w.visited PROVE e[2] \in w.visited
      <3>1. PICK p \in disk : Front(p) = e[1] /\ LeadsOn(disk, RootsAt(w), p, e[2])
        BY <2>3 DEF EdgesOn
      <3>2. e[1] \notin Unreadable /\ e[2] \in TreeDirectories
        BY <2>3 DEF EdgesOn
      <3> QED BY <2>2, <2>3, <3>1, <3>2 DEF Handled
    <2>4. ReachedOn(disk, RootsAt(w), d) \subseteq w.visited
      <3>1. IsClosed(edges, w.visited) /\ {d} \subseteq w.visited
        BY <2>1, <2>3 DEF IsClosed
      <3> HIDE DEF d
      <3> QED BY <3>1, LeastIsLeast DEF ReachedOn
    <2> QED BY <2>2, <2>4 DEF FoundBelow, InputsOn, Handled
  <1> QED BY <1>1, <1>2

LEMMA EndRootStep ==
    ASSUME DiscoveryInv, EndRoot
    PROVE  DiscoveryInv'
  <1>1. PICK w, v : w = walk /\ v = walk'
    OBVIOUS
  <1>2. /\ WalkGood(onDisk, w) /\ w.at = "directories" /\ w.pending = <<>>
        /\ UNCHANGED <<onDisk, vanished>> /\ DiskFits(onDisk)
        /\ v = [w EXCEPT !.at = IF w.left = {} THEN "found" ELSE "roots", !.root = None, !.visited = {}]
    BY <1>1 DEF EndRoot, DiscoveryInv
  <1>3. /\ v.at = (IF w.left = {} THEN "found" ELSE "roots") /\ v.left = w.left /\ v.files = w.files
        /\ v.sourceRoots = w.sourceRoots /\ v.includeRoots = w.includeRoots /\ v.identities = w.identities
        /\ v.visited = {} /\ v.pending = w.pending /\ v.entries = w.entries
        /\ v = [at |-> v.at, left |-> v.left, identities |-> v.identities, sourceRoots |-> v.sourceRoots,
                includeRoots |-> v.includeRoots, files |-> v.files, root |-> v.root, visited |-> v.visited,
                pending |-> v.pending, directory |-> v.directory, entries |-> v.entries]
    BY <1>2 DEF WalkGood, WalkRecord
  <1>4. v.at \in {"roots", "found"} /\ v.at \notin ReadingRoot /\ (v.at = "found" => v.left = {}) /\ v.at # "entries"
    BY <1>3 DEF ReadingRoot
  <1>5. RootsAt(v) = RootsAt(w)
    BY <1>3 DEF RootsAt
  <1>6. WalkRecord(v)
    BY <1>2, <1>3, <1>4, <1>5 DEF WalkGood, WalkRecord
  <1>7. Complete(onDisk, v)
    <2>1. FoundBelow(onDisk, w, w.root)
      BY <1>2, RootIsDone
    <2>2. ASSUME NEW root \in RootsIn(w.sourceRoots, w.includeRoots)
          PROVE  root \in w.left \/ FoundBelow(onDisk, w, root)
      BY <1>2, <2>1 DEF WalkGood, Complete
    <2> QED BY <1>3, <1>5, <2>2 DEF Complete, FoundBelow
  <1>8. UnderRoot(onDisk, v) /\ (WalkSound(w) => WalkSound(v))
    BY <1>3, <1>4 DEF UnderRoot, WalkSound
  <1> QED BY <1>1, <1>2, <1>6, <1>7, <1>8, WalkMoves DEF WalkGood

LEMMA EndRootsStep ==
    ASSUME DiscoveryInv, EndRoots
    PROVE  DiscoveryInv'
  <1>1. PICK w, v : w = walk /\ v = walk'
    OBVIOUS
  <1>2. /\ WalkGood(onDisk, w) /\ w.at = "roots" /\ w.left = {}
        /\ UNCHANGED <<onDisk, vanished>> /\ DiskFits(onDisk)
        /\ v = [w EXCEPT !.at = "found", !.root = None]
    BY <1>1 DEF EndRoots, DiscoveryInv
  <1>3. /\ v.at = "found" /\ v.left = w.left /\ v.files = w.files
        /\ v.sourceRoots = w.sourceRoots /\ v.includeRoots = w.includeRoots /\ v.identities = w.identities
        /\ v.visited = w.visited /\ v.pending = w.pending /\ v.entries = w.entries
        /\ v = [at |-> v.at, left |-> v.left, identities |-> v.identities, sourceRoots |-> v.sourceRoots,
                includeRoots |-> v.includeRoots, files |-> v.files, root |-> v.root, visited |-> v.visited,
                pending |-> v.pending, directory |-> v.directory, entries |-> v.entries]
    BY <1>2 DEF WalkGood, WalkRecord
  <1>4. v.at \notin ReadingRoot /\ w.at \notin ReadingRoot /\ v.at # "entries"
    BY <1>2, <1>3 DEF ReadingRoot
  <1>5. RootsAt(v) = RootsAt(w)
    BY <1>3 DEF RootsAt
  <1>6. WalkRecord(v)
    BY <1>2, <1>3, <1>4, <1>5 DEF WalkGood, WalkRecord
  <1>7. Complete(onDisk, v)
    BY <1>2, <1>3, <1>4, <1>5 DEF WalkGood, Complete, FoundBelow
  <1>8. UnderRoot(onDisk, v) /\ (WalkSound(w) => WalkSound(v))
    BY <1>3, <1>4 DEF UnderRoot, WalkSound
  <1> QED BY <1>1, <1>2, <1>6, <1>7, <1>8, WalkMoves DEF WalkGood

\* What the walk learns from one entry.
EntryRead(w, v, path, target, passed) ==
    /\ SameRoot(w, v) /\ v.at = "entries" /\ v.directory = w.directory
    /\ v.files = IF ~passed /\ target \notin DirectoriesNow THEN w.files \union {target} ELSE w.files
    /\ v.visited = IF ~passed /\ target \in DirectoriesNow THEN w.visited \union {target} ELSE w.visited
    /\ v.pending = IF ~passed /\ target \in DirectoriesNow /\ target \notin w.visited
                   THEN Append(w.pending, path) ELSE w.pending

LEMMA EntryIsRead ==
    ASSUME DiscoveryInv, ReadEntry, NEW w, NEW v, w = walk, v = walk'
    PROVE  \E n \in w.entries : LET path == Append(w.directory, n)
                                    target == canonical(path)
                                    passed == \/ target = None
                                              \/ target \in FilesNow /\ ~compilableInput(path, w.root.suffixless)
                                              \/ IsLink(path) /\ ~allowedTarget(target, RootsAt(w))
                                IN v.entries = w.entries \ {n} /\ EntryRead(w, v, path, target, passed)
  <1>1. WalkGood(onDisk, w) /\ w.at = "entries"
    BY DEF ReadEntry, DiscoveryInv
  <1>2. PICK n \in w.entries :
          LET path == Append(w.directory, n)
              target == canonical(path)
              passed == \/ target = None
                        \/ target \in FilesNow /\ ~compilableInput(path, w.root.suffixless)
                        \/ IsLink(path) /\ ~allowedTarget(target, w.sourceRoots \union w.includeRoots)
              seen == IF passed THEN w ELSE Admitted(path)
          IN v = [seen EXCEPT !.entries = @ \ {n}]
    BY DEF ReadEntry
  <1> DEFINE path == Append(w.directory, n)
             target == canonical(path)
             passed == \/ target = None
                       \/ target \in FilesNow /\ ~compilableInput(path, w.root.suffixless)
                       \/ IsLink(path) /\ ~allowedTarget(target, RootsAt(w))
  <1>3. v = [(IF passed THEN w ELSE Admitted(path)) EXCEPT !.entries = @ \ {n}]
    BY <1>2 DEF RootsAt
  <1>4. Admitted(path) = IF target \notin DirectoriesNow THEN [w EXCEPT !.files = @ \union {target}]
                         ELSE [w EXCEPT !.visited = @ \union {target},
                                        !.pending = IF target \in w.visited THEN @ ELSE Append(@, path)]
    BY DEF Admitted
  <1> HIDE DEF passed, target, path
  <1>5. w = [at |-> w.at, left |-> w.left, identities |-> w.identities, sourceRoots |-> w.sourceRoots,
             includeRoots |-> w.includeRoots, files |-> w.files, root |-> w.root, visited |-> w.visited,
             pending |-> w.pending, directory |-> w.directory, entries |-> w.entries]
    BY <1>1 DEF WalkGood, WalkRecord
  <1>6. CASE passed
    <2>1. v = [w EXCEPT !.entries = @ \ {n}]
      BY <1>3, <1>6
    <2>2. v.entries = w.entries \ {n} /\ EntryRead(w, v, path, target, passed)
      BY <1>1, <1>5, <1>6, <2>1 DEF EntryRead, SameRoot
    <2> QED BY <2>2 DEF passed, target, path
  <1>7. CASE ~passed /\ target \notin DirectoriesNow
    <2>1. PICK seen : seen = [w EXCEPT !.files = @ \union {target}]
      OBVIOUS
    <2>2. v = [seen EXCEPT !.entries = @ \ {n}]
      BY <1>3, <1>4, <1>7, <2>1
    <2>3. v.entries = w.entries \ {n} /\ EntryRead(w, v, path, target, passed)
      BY <1>1, <1>5, <1>7, <2>1, <2>2 DEF EntryRead, SameRoot
    <2> QED BY <2>3 DEF passed, target, path
  <1>8. CASE ~passed /\ target \in DirectoriesNow
    <2>1. PICK seen : seen = [w EXCEPT !.visited = @ \union {target},
                                       !.pending = IF target \in w.visited THEN @ ELSE Append(@, path)]
      OBVIOUS
    <2>2. v = [seen EXCEPT !.entries = @ \ {n}]
      BY <1>3, <1>4, <1>8, <2>1
    <2>3. v.entries = w.entries \ {n} /\ EntryRead(w, v, path, target, passed)
      BY <1>1, <1>5, <1>8, <2>1, <2>2 DEF EntryRead, SameRoot
    <2> QED BY <2>3 DEF passed, target, path
  <1> QED BY <1>6, <1>7, <1>8

LEMMA ReadEntryStep ==
    ASSUME DiscoveryInv, ReadEntry
    PROVE  DiscoveryInv'
  <1>1. PICK w, v : w = walk /\ v = walk'
    OBVIOUS
  <1>2. /\ WalkGood(onDisk, w) /\ w.at = "entries" /\ w.directory \in Seq(STRING)
        /\ UNCHANGED <<onDisk, vanished>> /\ DiskFits(onDisk) /\ WalkRecord(w)
    BY <1>1 DEF ReadEntry, DiscoveryInv, WalkGood, WalkRecord
  <1>3. PICK n \in w.entries : LET path == Append(w.directory, n)
                                   target == canonical(path)
                                   passed == \/ target = None
                                             \/ target \in FilesNow /\ ~compilableInput(path, w.root.suffixless)
                                             \/ IsLink(path) /\ ~allowedTarget(target, RootsAt(w))
                               IN v.entries = w.entries \ {n} /\ EntryRead(w, v, path, target, passed)
    BY <1>1, EntryIsRead
  <1> DEFINE path == Append(w.directory, n)
             d == leadsTo(onDisk, w.directory)
             target == canonical(path)
             passed == \/ target = None
                       \/ target \in FilesNow /\ ~compilableInput(path, w.root.suffixless)
                       \/ IsLink(path) /\ ~allowedTarget(target, RootsAt(w))
  <1>4. EntryRead(w, v, path, target, passed) /\ v.entries = w.entries \ {n}
    BY <1>3
  <1>5. n \in STRING /\ path \in Seq(STRING) /\ Front(path) = w.directory /\ Last(path) = n
    BY <1>2, PathParts DEF WalkRecord
  <1>6. target = NextName(onDisk, d, n)
    BY <1>2, <1>5, LeadsFurther DEF canonical
  <1>7. target \in (TreePaths \intersect onDisk) \union {None}
    BY <1>5, <1>6, NextTyped
  <1>8. ASSUME NEW p \in onDisk, Front(p) = d, Last(p) = n
        PROVE  target = TargetOf(onDisk, p) /\ (IsLink(path) <=> p \in DOMAIN TreeLinks)
    <2>1. p \in Places
      BY <1>2 DEF DiskFits
    <2>2. target = TargetOf(onDisk, p)
      BY <1>6, <1>8, <2>1, NextIsTarget
    <2>3. p = Append(d, n) /\ d # None
      BY <1>2, <1>8, EntryIs
    <2>4. IsLink(path) <=> p \in DOMAIN TreeLinks
      BY <1>5, <2>3 DEF IsLink, LinksNow, canonical
    <2> QED BY <2>2, <2>4
  <1>9. \A s : compilableInput(path, s) <=> n \in SuffixedNames \/ (s /\ n \in SuffixlessHeaders)
    BY <1>5 DEF compilableInput
  <1>10. target \in DirectoriesNow <=> target \in TreeDirectories
    BY <1>7, TreeAssumption DEF DirectoriesNow, TreePaths
  <1>11. ASSUME target # None, target \notin TreeDirectories PROVE target \in FilesNow /\ target \in TreeFiles
    BY <1>7, <1>11 DEF FilesNow, TreePaths
  <1> HIDE DEF target, d, path
  <1>12. v.at \in ReadingRoot /\ w.at \in ReadingRoot /\ v.at = "entries" /\ v.directory = w.directory /\ SameRoot(w, v)
    BY <1>2, <1>4 DEF ReadingRoot, EntryRead
  <1>13. w.files \subseteq v.files /\ w.visited \subseteq v.visited
    BY <1>4 DEF EntryRead
  <1>14. Complete(onDisk, v) /\ RootsAt(v) = RootsAt(w)
    BY <1>2, <1>12, <1>13, SameRootComplete DEF WalkGood
  <1>15. /\ w.pending \in Seq(Seq(STRING)) /\ Len(w.pending) \in Nat /\ v.pending \in Seq(Seq(STRING))
         /\ \/ v.pending = w.pending
            \/ /\ Len(v.pending) = Len(w.pending) + 1 /\ v.pending[Len(w.pending) + 1] = path
               /\ \A i \in 1..Len(w.pending) : v.pending[i] = w.pending[i]
               /\ target \in v.visited
    <2>1. w.pending \in Seq(Seq(STRING))
      BY <1>2 DEF WalkRecord
    <2>2. PICK longer : longer = Append(w.pending, path)
      OBVIOUS
    <2>3. /\ longer \in Seq(Seq(STRING)) /\ Len(w.pending) \in Nat
          /\ Len(longer) = Len(w.pending) + 1 /\ longer[Len(w.pending) + 1] = path
          /\ \A i \in 1..Len(w.pending) : longer[i] = w.pending[i]
      <3>1. Len(w.pending) \in Nat
        BY <2>1, LenProperties
      <3> QED BY <1>5, <2>1, <2>2, <3>1, AppendProperties
    <2>4. CASE v.pending = w.pending
      BY <2>1, <2>3, <2>4
    <2>5. CASE v.pending = longer /\ target \in v.visited
      BY <2>1, <2>3, <2>5
    <2> QED BY <1>4, <2>2, <2>4, <2>5 DEF EntryRead
  <1>16. ASSUME NEW x \in v.visited \ w.visited
         PROVE  \E i \in 1..Len(v.pending) : leadsTo(onDisk, v.pending[i]) = x
    <2>1. x = target /\ v.pending = Append(w.pending, path)
      BY <1>4, <1>16 DEF EntryRead
    <2>2. Len(v.pending) = Len(w.pending) + 1 /\ v.pending[Len(w.pending) + 1] = path
      BY <1>5, <1>15, <2>1, AppendProperties
    <2>3. leadsTo(onDisk, path) = target
      BY DEF target, canonical
    <2>4. Len(w.pending) + 1 \in 1..Len(v.pending)
      BY <1>15, <2>2
    <2> QED BY <2>1, <2>2, <2>3, <2>4
  <1>17. WalkRecord(v)
    <2>1. v.visited \subseteq TreeDirectories
      BY <1>2, <1>4, <1>10 DEF EntryRead, WalkRecord
    <2> HIDE DEF passed
    <2> QED BY <1>2, <1>4, <1>12, <1>13, <1>14, <1>15, <2>1 DEF WalkRecord, ReadingRoot, SameRoot
  <1>18. UnderRoot(onDisk, v)
    <2>1. IsDirectoryOn(onDisk, v.root.path) => leadsTo(onDisk, v.root.path) \in v.visited
      BY <1>2, <1>12, <1>13 DEF WalkGood, UnderRoot, SameRoot
    <2>2. ASSUME NEW p \in onDisk, Front(p) \in v.visited \ Unreadable
          PROVE  Due(onDisk, v, p) \/ Handled(onDisk, v, p)
      <3>1. CASE Front(p) \notin w.visited
        BY <2>2, <3>1, <1>16 DEF Due
      <3>2. CASE Front(p) \in w.visited /\ Front(p) = d /\ Last(p) = n
        <4>1. target = TargetOf(onDisk, p) /\ (IsLink(path) <=> p \in DOMAIN TreeLinks)
          BY <1>8, <3>2
        <4>2. ASSUME NEW t, LeadsOn(onDisk, RootsAt(w), p, t)
              PROVE  /\ t \in TreeDirectories => t \in v.visited
                     /\ t \in TreeFiles /\ IsInput(p, v.root.suffixless) => t \in v.files
          <5>1. t = target /\ target # None /\ (IsLink(path) => allowedTarget(target, RootsAt(w)))
            BY <4>1, <4>2, AllowedIs DEF LeadsOn
          <5>2. ASSUME t \in TreeDirectories PROVE t \in v.visited
            <6>1. ~passed
              BY <5>1, <5>2, TreeAssumption DEF FilesNow
            <6> QED BY <1>4, <1>10, <5>1, <5>2, <6>1 DEF EntryRead
          <5>3. ASSUME t \in TreeFiles, IsInput(p, w.root.suffixless) PROVE t \in v.files
            <6>1. compilableInput(path, w.root.suffixless)
              BY <1>9, <3>2, <5>3 DEF IsInput
            <6>2. ~passed /\ target \notin TreeDirectories
              BY <5>1, <5>3, <6>1, TreeAssumption
            <6> QED BY <1>4, <1>10, <5>1, <6>2 DEF EntryRead
          <5>4. v.root = w.root
            BY <1>12 DEF SameRoot
          <5> QED BY <5>2, <5>3, <5>4
        <4> QED BY <1>14, <4>2 DEF Handled
      <3>3. CASE Front(p) \in w.visited /\ ~(Front(p) = d /\ Last(p) = n)
        <4>1. Due(onDisk, w, p) \/ Handled(onDisk, w, p)
          BY <1>2, <1>12, <2>2, <3>3 DEF WalkGood, UnderRoot
        <4>2. CASE Handled(onDisk, w, p)
          BY <4>2, <1>12, <1>13, <1>14 DEF Handled, SameRoot
        <4>3. CASE \E i \in 1..Len(w.pending) : leadsTo(onDisk, w.pending[i]) = Front(p)
          BY <4>3, <1>15 DEF Due
        <4>4. CASE d = Front(p) /\ Last(p) \in w.entries
          BY <1>4, <1>12, <3>3, <4>4 DEF Due, d
        <4> QED BY <4>1, <4>2, <4>3, <4>4 DEF Due, d
      <3> QED BY <3>1, <3>2, <3>3
    <2> QED BY <2>1, <2>2 DEF UnderRoot
  <1>19. onDisk = Places /\ WalkSound(w) => WalkSound(v)
    <2>1. SUFFICES ASSUME onDisk = Places, WalkSound(w) PROVE WalkSound(v)
      OBVIOUS
    <2> DEFINE reached == ReachedOn(Places, RootsAt(w), leadsTo(Places, w.root.path))
    <2>2. /\ d \in w.visited \ Unreadable /\ w.visited \subseteq reached /\ d = leadsTo(Places, w.directory)
          /\ IsDirectoryOn(Places, w.root.path)
          /\ \A i \in 1..Len(w.pending) : leadsTo(Places, w.pending[i]) \in w.visited
      BY <1>2, <1>12, <2>1 DEF WalkSound, d
    <2>3. PICK p \in Places : Front(p) = d /\ Last(p) = n
      BY <1>2, <2>1, <2>2 DEF WalkSound
    <2>4. target = TargetOf(Places, p) /\ (IsLink(path) <=> p \in DOMAIN TreeLinks)
      BY <1>8, <2>1, <2>3
    <2>5. ASSUME ~passed PROVE LeadsOn(Places, RootsAt(w), p, target)
      BY <2>1, <2>4, <2>5, AllowedIs DEF LeadsOn
    <2>6. IsClosed(EdgesOn(Places, RootsAt(w)), reached)
      BY LeastIsClosed DEF ReachedOn
    <2>7. d \in TreeDirectories
      BY <1>2, <2>2 DEF WalkRecord
    <2>8. ASSUME ~passed, target \in DirectoriesNow PROVE target \in reached
      <3>1. <<d, target>> \in EdgesOn(Places, RootsAt(w))
        BY <1>10, <2>2, <2>3, <2>5, <2>7, <2>8 DEF EdgesOn
      <3> QED BY <2>2, <2>6, <3>1 DEF IsClosed
    <2>9. ASSUME ~passed, target \notin DirectoriesNow
          PROVE  target \in ExpectedOn(Places, w.sourceRoots, w.includeRoots)
      <3>1. target \in FilesNow /\ target \in TreeFiles /\ compilableInput(path, w.root.suffixless)
        BY <1>10, <1>11, <2>9
      <3>2. IsInput(p, w.root.suffixless)
        BY <1>9, <2>3, <3>1 DEF IsInput
      <3>3. Front(p) \in reached \ Unreadable
        BY <2>2, <2>3
      <3>4. target \in InputsOn(Places, RootsAt(w), w.root.path, w.root.suffixless)
        BY <2>2, <2>5, <2>9, <3>1, <3>2, <3>3 DEF InputsOn
      <3>5. w.root \in RootsIn(w.sourceRoots, w.includeRoots)
        BY <1>2, <1>12 DEF WalkRecord
      <3> QED BY <3>4, <3>5 DEF ExpectedOn, RootsAt
    <2> HIDE DEF passed, reached
    <2>10. v.visited \subseteq reached
      BY <1>4, <2>2, <2>8 DEF EntryRead
    <2>11. v.files \subseteq v.identities \union ExpectedOn(Places, v.sourceRoots, v.includeRoots)
      BY <1>4, <1>12, <2>1, <2>9 DEF EntryRead, WalkSound, SameRoot
    <2>12. \A i \in 1..Len(v.pending) : leadsTo(Places, v.pending[i]) \in v.visited
      <3>1. leadsTo(Places, path) = target
        BY <2>1 DEF target, canonical
      <3>2. CASE v.pending = w.pending
        BY <1>13, <2>2, <3>2
      <3>3. CASE /\ Len(v.pending) = Len(w.pending) + 1 /\ v.pending[Len(w.pending) + 1] = path
                 /\ \A i \in 1..Len(w.pending) : v.pending[i] = w.pending[i]
                 /\ target \in v.visited
        <4>1. ASSUME NEW i \in 1..Len(v.pending), i # Len(w.pending) + 1 PROVE i \in 1..Len(w.pending)
          BY <1>15, <3>3, <4>1
        <4> QED BY <1>13, <2>2, <3>1, <3>3, <4>1
      <3> QED BY <1>15, <3>2, <3>3
    <2>13. \A m \in v.entries : \E q \in Places : Front(q) = leadsTo(Places, v.directory) /\ Last(q) = m
      BY <1>2, <1>4, <1>12, <2>1 DEF WalkSound
    <2>14. leadsTo(Places, v.directory) \in v.visited \ Unreadable
      BY <1>12, <1>13, <2>2
    <2>15. IsDirectoryOn(Places, v.root.path) /\ reached = ReachedOn(Places, RootsAt(v), leadsTo(Places, v.root.path))
      BY <1>12, <1>14, <2>2 DEF SameRoot, reached
    <2> QED BY <2>10, <2>11, <2>12, <2>13, <2>14, <2>15 DEF WalkSound
  <1>20. v.at \notin {"none", "failed"} /\ w.at \notin {"none", "failed"}
    BY <1>12, <1>2
  <1> QED BY <1>1, <1>2, <1>14, <1>17, <1>18, <1>19, <1>20, WalkMoves DEF WalkGood

\* A walk loses nothing that is still there, as long as links stay.
LEMMA WalkOutlives ==
    ASSUME NEW disk, NEW less, less \subseteq disk, DiskFits(disk), DiskFits(less),
           NEW w, WalkGood(disk, w), w.at \in ReadingRoot => disk \intersect DOMAIN TreeLinks \subseteq less
    PROVE  WalkGood(less, w)
  <1>1. WalkRecord(w) /\ RootsAt(w) \subseteq Seq(STRING)
    BY DEF WalkGood, WalkRecord
  <1>2. Complete(less, w)
    <2>1. ASSUME NEW root \in RootsIn(w.sourceRoots, w.includeRoots), FoundBelow(disk, w, root)
          PROVE  FoundBelow(less, w, root)
      <3>1. root.path \in w.sourceRoots \union w.includeRoots
        BY DEF RootsIn
      <3>2. root.path \in Seq(STRING)
        BY <1>1, <3>1 DEF RootsAt
      <3> QED BY <1>1, <2>1, <3>2, InputsLess DEF FoundBelow
    <2> QED BY <2>1 DEF WalkGood, Complete
  <1>3. ASSUME w.at \in ReadingRoot PROVE UnderRoot(less, w)
    <2>1. w.root.path \in Seq(STRING)
      <3>1. w.root.path \in w.sourceRoots \union w.includeRoots
        BY <1>1, <1>3 DEF WalkRecord, RootsIn
      <3> QED BY <1>1, <3>1 DEF RootsAt
    <2>2. None \notin TreeDirectories
      BY TreeAssumption
    <2>3. ASSUME IsDirectoryOn(less, w.root.path) PROVE leadsTo(less, w.root.path) \in w.visited
      <3>1. leadsTo(less, w.root.path) = leadsTo(disk, w.root.path)
        BY <2>1, <2>2, <2>3, LeadsLess DEF IsDirectoryOn
      <3>2. IsDirectoryOn(disk, w.root.path)
        BY <2>3, <3>1 DEF IsDirectoryOn
      <3> QED BY <1>3, <3>1, <3>2 DEF WalkGood, UnderRoot
    <2>4. ASSUME NEW p \in less, Front(p) \in w.visited \ Unreadable
          PROVE  Due(less, w, p) \/ Handled(less, w, p)
      <3>1. Due(disk, w, p) \/ Handled(disk, w, p)
        BY <1>3, <2>4 DEF WalkGood, UnderRoot
      <3>2. Front(p) \in less \union {<<>>}
        BY DEF DiskFits
      <3>3. CASE Handled(disk, w, p)
        BY <1>1, <3>3, FollowedLess DEF Handled
      <3>4. ASSUME NEW path \in Seq(STRING), leadsTo(disk, path) = Front(p) PROVE leadsTo(less, path) = Front(p)
        BY <1>3, <3>2, <3>4, LeadsStill
      <3>5. ASSUME NEW i \in 1..Len(w.pending) PROVE w.pending[i] \in Seq(STRING)
        <4>1. w.pending \in Seq(Seq(STRING))
          BY <1>1 DEF WalkRecord
        <4> QED BY <4>1, ElementOfSeq
      <3>6. w.at = "entries" => w.directory \in Seq(STRING)
        BY <1>1 DEF WalkRecord
      <3>7. CASE Due(disk, w, p)
        BY <3>4, <3>5, <3>6, <3>7 DEF Due
      <3> QED BY <3>1, <3>3, <3>7
    <2> QED BY <2>3, <2>4 DEF UnderRoot
  <1>4. UnderRoot(less, w)
    BY <1>3 DEF UnderRoot
  <1> QED BY <1>1, <1>2, <1>4 DEF WalkGood

LEMMA VanishStep ==
    ASSUME ~LinksVanish, DiscoveryInv, NEW path, Vanish(path)
    PROVE  DiscoveryInv'
  <1>1. PICK less : less = onDisk' /\ less = onDisk \ {path}
    BY DEF Vanish
  <1>2. ASSUME path \in TreeDirectories, NEW q \in onDisk, q # <<>>, Front(q) = path PROVE FALSE
    BY <1>2 DEF Vanish, NamesIn
  <1>3. DiskFits(onDisk) /\ DiskFits(less) /\ vanished' \in Nat /\ vanished' # 0
    <2>1. path \in TreeDirectories => ~ \E q \in onDisk : q # <<>> /\ Front(q) = path
      BY <1>2
    <2>2. DiskFits(onDisk) /\ vanished' = vanished + 1 /\ vanished \in Nat
      BY DEF Vanish, DiscoveryInv
    <2>3. DiskFits(less)
      BY <1>1, <2>1, <2>2, DiskStays
    <2> QED BY <2>2, <2>3
  <1>4. UNCHANGED walk
    BY DEF Vanish
  <1>5. ASSUME walk.at \notin {"none", "failed"} PROVE WalkGood(less, walk)
    <2>1. WalkGood(onDisk, walk)
      BY <1>5 DEF DiscoveryInv
    <2>2. walk.at \in ReadingRoot => onDisk \intersect DOMAIN TreeLinks \subseteq less
      BY <1>1 DEF Vanish, ReadingRoot
    <2> QED BY <1>1, <1>3, <2>1, <2>2, WalkOutlives
  <1>6. CASE walk.at \in {"none", "failed"}
    BY <1>1, <1>3, <1>4, <1>6 DEF DiscoveryInv
  <1>7. CASE walk.at \notin {"none", "failed"}
    <2>1. PICK w : w = walk /\ w = walk'
      BY <1>4
    <2>2. WalkGood(onDisk', w)
      BY <1>1, <1>5, <1>7, <2>1
    <2> QED BY <1>1, <1>3, <2>1, <2>2 DEF DiscoveryInv
  <1> QED BY <1>6, <1>7

LEMMA DiscoveryNextOK ==
    ASSUME ~LinksVanish, DiscoveryInv, [DiscoveryNext]_discoveryVars
    PROVE  DiscoveryInv'
  <1>1. CASE \E selected \in SelectedSources : BeginWalk(selected)
    BY <1>1, BeginWalkStep
  <1>2. CASE BeginRoot
    BY <1>2, BeginRootStep
  <1>3. CASE OpenDirectory
    BY <1>3, OpenDirectoryStep
  <1>4. CASE ReadEntry
    BY <1>4, ReadEntryStep
  <1>5. CASE CloseDirectory
    BY <1>5, CloseDirectoryStep
  <1>6. CASE EndRoot
    BY <1>6, EndRootStep
  <1>7. CASE EndRoots
    BY <1>7, EndRootsStep
  <1>8. CASE \E path \in onDisk : Vanish(path)
    BY <1>8, VanishStep
  <1>9. CASE UNCHANGED discoveryVars
    BY <1>9 DEF discoveryVars, DiscoveryInv
  <1> QED BY <1>1, <1>2, <1>3, <1>4, <1>5, <1>6, <1>7, <1>8, <1>9 DEF DiscoveryNext

-----------------------------------------------------------------------------
(* Source discovery: the theorem *)

LEMMA DiscoveryInvTells == DiscoveryInv => FoundInAnyOrder
  <1>1. SUFFICES ASSUME DiscoveryInv, walk.at = "found"
                 PROVE  /\ Discoverable(walk.sourceRoots, walk.includeRoots) \subseteq walk.files
                        /\ vanished = 0 => walk.files = Discoverable(walk.sourceRoots, walk.includeRoots)
                                                        \union walk.identities
    BY DEF FoundInAnyOrder
  <1>2. WalkGood(onDisk, walk) /\ (vanished = 0 => WalkSound(walk) /\ onDisk = Places) /\ DiskFits(onDisk)
    BY <1>1 DEF DiscoveryInv
  <1>3. Discoverable(walk.sourceRoots, walk.includeRoots) = ExpectedOn(onDisk, walk.sourceRoots, walk.includeRoots)
    BY <1>2, ExpectedIs
  <1>4. ExpectedOn(onDisk, walk.sourceRoots, walk.includeRoots) \subseteq walk.files
    <2>1. walk.left = {} /\ walk.at \notin ReadingRoot
      BY <1>1, <1>2 DEF WalkGood, WalkRecord, ReadingRoot
    <2>2. \A root \in RootsIn(walk.sourceRoots, walk.includeRoots) : FoundBelow(onDisk, walk, root)
      BY <1>2, <2>1 DEF WalkGood, Complete
    <2> QED BY <2>2 DEF ExpectedOn, FoundBelow, RootsAt
  <1>5. walk.identities \subseteq walk.files
    BY <1>2 DEF WalkGood, WalkRecord
  <1>6. vanished = 0 => walk.files \subseteq walk.identities \union ExpectedOn(onDisk, walk.sourceRoots, walk.includeRoots)
    BY <1>2 DEF WalkSound
  <1> QED BY <1>3, <1>4, <1>5, <1>6

(* In whatever order directories are read, and through whatever cycles     *)
(* their links make, a discovery finds each compilable file that is still  *)
(* reachable from a root at its end, and none that is not, or was not      *)
(* before entries disappeared, as long as no link disappears while it      *)
(* runs. (discoverCompilationFiles)                                        *)
THEOREM DiscoveryFindsAll ==
    ASSUME ~LinksVanish
    PROVE  DiscoverySpec => []FoundInAnyOrder
  <1>1. DiscoveryInit => DiscoveryInv
    BY DiscoveryInitOK
  <1>2. DiscoveryInv /\ [DiscoveryNext]_discoveryVars => DiscoveryInv'
    BY DiscoveryNextOK
  <1>3. DiscoveryInv => FoundInAnyOrder
    BY DiscoveryInvTells
  <1> QED BY <1>1, <1>2, <1>3, PTL DEF DiscoverySpec

-----------------------------------------------------------------------------
(* The include graph: the invariant *)

\* The edges of a text, and those that are there for every source.
EdgesAt(f, v) == {<<f, g>> : g \in IncludesAt[f][v]}
CertainAt(f, v) == EdgesAt(f, v) \ DOMAIN OnlyFor

Started == {"collecting", "resolving", "built"}

\* What an analysis has collected are the texts of the files that it visited.
CollectionOK(a, ids) ==
    \/ a.at \in {"none", "failed", "stored"}
    \/ /\ a.at \in Started
       /\ a = [at |-> a.at, left |-> a.left, registered |-> a.registered,
               visited |-> a.visited, edges |-> a.edges, read |-> a.read]
       /\ a.visited \subseteq TreeFiles
       /\ a.at # "collecting" => a.visited \subseteq ids
       /\ \A f \in a.visited : \E r \in a.read : r[1] = f
       /\ \A r \in a.read : /\ r[1] \in a.visited /\ r[2] \in Nat \ {0}
                            /\ CertainAt(r[1], r[2]) \subseteq a.edges
       /\ \A e \in a.edges : /\ e[1] \in a.visited /\ e[2] \in a.visited
                             /\ \E r \in a.read : r[1] = e[1] /\ e \in EdgesAt(r[1], r[2])

\* The stored edges of a file are those of the text that was stored last.
StoredOK(kept, ids, last) ==
    /\ last \in [TreeFiles -> Nat]
    /\ \A e \in kept : e[1] \in TreeFiles /\ e[1] \in ids /\ e[2] \in ids
    /\ \A f \in TreeFiles : last[f] # 0 =>
          /\ CertainAt(f, last[f]) \subseteq kept
          /\ {e \in kept : e[1] = f} \subseteq EdgesAt(f, last[f])

GraphInv ==
    /\ DiskFits(onDisk)
    /\ texts \in [TreeFiles -> Nat \ {0}]
    /\ StoredOK(dependencies, fileIds, latest)
    /\ CollectionOK(analysis, fileIds)

LEMMA IdsGrow ==
    ASSUME NEW kept, NEW last, NEW a, NEW ids, NEW more, ids \subseteq more,
           StoredOK(kept, ids, last), CollectionOK(a, ids)
    PROVE  StoredOK(kept, more, last) /\ CollectionOK(a, more)
  BY DEF StoredOK, CollectionOK

-----------------------------------------------------------------------------
(* The include graph: one lemma for each action *)

LEMMA GraphInitOK == GraphInit => GraphInv
  <1>1. SUFFICES ASSUME GraphInit PROVE GraphInv
    OBVIOUS
  <1>2. DiskFits(onDisk)
    BY <1>1, DiskAtFirst DEF GraphInit, DiscoveryInit, Places, TreePaths
  <1>3. StoredOK(dependencies, fileIds, latest)
    BY <1>1 DEF GraphInit, StoredOK
  <1>4. CollectionOK(analysis, fileIds) /\ texts \in [TreeFiles -> Nat \ {0}]
    BY <1>1 DEF GraphInit, CollectionOK, NoAnalysis
  <1> QED BY <1>2, <1>3, <1>4 DEF GraphInv

LEMMA VanishKeepsGraph ==
    ASSUME GraphInv, NEW path, Vanish(path),
           UNCHANGED <<texts, fileIds, dependencies, entryRows, analysis, latest, analyses>>
    PROVE  GraphInv'
  <1>1. ASSUME path \in TreeDirectories, NEW q \in onDisk, q # <<>>, Front(q) = path PROVE FALSE
    BY <1>1 DEF Vanish, NamesIn
  <1>2. DiskFits(onDisk')
    BY <1>1, DiskStays DEF Vanish, GraphInv
  <1> QED BY <1>2 DEF GraphInv

LEMMA StartAnalysisStep ==
    ASSUME GraphInv, NEW sources, StartAnalysis(sources)
    PROVE  GraphInv'
  <1>1. CollectionOK(analysis', fileIds')
    <2>1. CASE analysis' = FailedAnalysis
      BY <2>1 DEF FailedAnalysis, CollectionOK
    <2>2. ASSUME NEW found,
                 analysis' = [at |-> "collecting", left |-> sources, registered |-> found,
                              visited |-> {}, edges |-> {}, read |-> {}]
          PROVE  CollectionOK(analysis', fileIds')
      BY <2>2 DEF CollectionOK, Started
    <2> QED BY <2>1, <2>2 DEF StartAnalysis
  <1>2. fileIds \subseteq fileIds'
    BY DEF StartAnalysis
  <1>3. StoredOK(dependencies, fileIds', latest)
    BY <1>2, IdsGrow DEF GraphInv
  <1> QED BY <1>1, <1>3 DEF GraphInv, StartAnalysis

\* What one source visits is closed, in the texts that are there.
LEMMA VisitsAreClosed ==
    ASSUME NEW asked, visitedSources(asked) \subseteq FilesNow
    PROVE  /\ visitedSources(asked) \subseteq TreeFiles
           /\ \A f \in visitedSources(asked) : CertainAt(f, texts[f]) \subseteq edgesOf(asked)
           /\ \A e \in edgesOf(asked) :
                 /\ e[1] \in visitedSources(asked) /\ e[2] \in visitedSources(asked)
                 /\ e \in EdgesAt(e[1], texts[e[1]])
  <1> DEFINE edges == UNION {ActiveFor(asked, f) : f \in TreeFiles}
             visits == visitedSources(asked)
  <1>1. visits \subseteq TreeFiles
    BY DEF FilesNow
  <1>2. IsClosed(edges, visits)
    BY LeastIsClosed DEF visitedSources
  <1>3. ASSUME NEW f \in visits PROVE CertainAt(f, texts[f]) \subseteq ActiveFor(asked, f)
    BY DEF CertainAt, EdgesAt, ActiveFor, MayInclude
  <1>4. ASSUME NEW f \in visits, NEW e \in ActiveFor(asked, f)
        PROVE  e[1] = f /\ e[2] \in visits /\ e \in EdgesAt(f, texts[f])
    <2>1. e[1] = f /\ e \in EdgesAt(f, texts[f])
      BY DEF ActiveFor, MayInclude, EdgesAt
    <2>2. e \in edges
      BY <1>1
    <2> QED BY <1>2, <2>1, <2>2 DEF IsClosed
  <1> QED BY <1>1, <1>3, <1>4 DEF edgesOf

LEMMA CollectSourceStep ==
    ASSUME GraphInv, CollectSource
    PROVE  GraphInv'
  <1>1. PICK named \in analysis.left :
          LET asked == canonical(named)
          IN analysis' =
            IF asked \in FilesNow /\ visitedSources(asked) \subseteq FilesNow
            THEN [analysis EXCEPT
                    !.left = @ \ {named}, !.visited = @ \union visitedSources(asked),
                    !.edges = @ \union edgesOf(asked),
                    !.read = @ \union {<<f, texts[f]>> : f \in visitedSources(asked)}]
            ELSE FailedAnalysis
    BY DEF CollectSource
  <1>2. CASE analysis' = FailedAnalysis
    BY <1>2 DEF FailedAnalysis, CollectionOK, GraphInv, CollectSource
  <1>3. CASE analysis' # FailedAnalysis
    <2> DEFINE asked == canonical(named)
    <2>1. PICK a : a = analysis'
      OBVIOUS
    <2>2. PICK visits, edges : /\ visits = visitedSources(asked) /\ edges = edgesOf(asked)
                               /\ visits \subseteq FilesNow
      BY <1>1, <1>3
    <2>3. /\ a.at = analysis.at /\ a.visited = analysis.visited \union visits
          /\ a.edges = analysis.edges \union edges
          /\ a.read = analysis.read \union {<<f, texts[f]>> : f \in visits}
          /\ a = [at |-> a.at, left |-> a.left, registered |-> a.registered,
                  visited |-> a.visited, edges |-> a.edges, read |-> a.read]
      BY <1>1, <1>3, <2>1, <2>2 DEF GraphInv, CollectionOK, Started, CollectSource
    <2>4. /\ visits \subseteq TreeFiles
          /\ \A f \in visits : CertainAt(f, texts[f]) \subseteq edges
          /\ \A e \in edges : e[1] \in visits /\ e[2] \in visits /\ e \in EdgesAt(e[1], texts[e[1]])
      BY <2>2, VisitsAreClosed
    <2>5. analysis.at = "collecting" /\ CollectionOK(analysis, fileIds) /\ texts \in [TreeFiles -> Nat \ {0}]
      BY DEF CollectSource, GraphInv
    <2>6. \A f \in a.visited : \E r \in a.read : r[1] = f
      <3>1. ASSUME NEW f \in analysis.visited PROVE \E r \in a.read : r[1] = f
        BY <2>3, <2>5 DEF CollectionOK
      <3>2. ASSUME NEW f \in visits PROVE \E r \in a.read : r[1] = f
        <4>1. <<f, texts[f]>> \in a.read
          BY <2>3
        <4>2. <<f, texts[f]>>[1] = f
          OBVIOUS
        <4> QED BY <4>1, <4>2
      <3> QED BY <2>3, <3>1, <3>2
    <2>7. \A r \in a.read : /\ r[1] \in a.visited /\ r[2] \in Nat \ {0}
                            /\ CertainAt(r[1], r[2]) \subseteq a.edges
      <3>1. ASSUME NEW r \in analysis.read
            PROVE  /\ r[1] \in a.visited /\ r[2] \in Nat \ {0} /\ CertainAt(r[1], r[2]) \subseteq a.edges
        BY <2>3, <2>5 DEF CollectionOK
      <3>2. ASSUME NEW f \in visits
            PROVE  /\ f \in a.visited /\ texts[f] \in Nat \ {0} /\ CertainAt(f, texts[f]) \subseteq a.edges
        BY <2>3, <2>4, <2>5
      <3> QED BY <2>3, <3>1, <3>2
    <2>8. \A e \in a.edges : /\ e[1] \in a.visited /\ e[2] \in a.visited
                             /\ \E r \in a.read : r[1] = e[1] /\ e \in EdgesAt(r[1], r[2])
      <3>1. ASSUME NEW e \in analysis.edges
            PROVE  /\ e[1] \in a.visited /\ e[2] \in a.visited
                   /\ \E r \in a.read : r[1] = e[1] /\ e \in EdgesAt(r[1], r[2])
        BY <2>3, <2>5 DEF CollectionOK
      <3>2. ASSUME NEW e \in edges
            PROVE  /\ e[1] \in a.visited /\ e[2] \in a.visited
                   /\ \E r \in a.read : r[1] = e[1] /\ e \in EdgesAt(r[1], r[2])
        <4>1. <<e[1], texts[e[1]]>> \in a.read
          BY <2>3, <2>4
        <4> QED BY <2>3, <2>4, <4>1
      <3> QED BY <2>3, <3>1, <3>2
    <2>9. CollectionOK(a, fileIds)
      BY <2>3, <2>4, <2>5, <2>6, <2>7, <2>8 DEF CollectionOK, Started
    <2> QED BY <2>1, <2>9 DEF GraphInv, CollectSource
  <1> QED BY <1>2, <1>3

LEMMA RegisterIncludedStep ==
    ASSUME GraphInv, RegisterIncluded
    PROVE  GraphInv'
  <1>1. CASE analysis' = FailedAnalysis /\ UNCHANGED fileIds
    BY <1>1 DEF FailedAnalysis, CollectionOK, GraphInv, RegisterIncluded
  <1>2. CASE ~(analysis' = FailedAnalysis /\ UNCHANGED fileIds)
    <2>1. /\ CanAdd(analysis.visited) /\ fileIds' = fileIds \union Identities(analysis.visited)
          /\ analysis' = [analysis EXCEPT !.at = "resolving", !.registered = @ \union analysis.visited]
      BY <1>2 DEF RegisterIncluded
    <2>2. analysis.at = "collecting" /\ CollectionOK(analysis, fileIds) /\ DiskFits(onDisk)
      BY DEF RegisterIncluded, GraphInv
    <2>3. analysis.visited \subseteq TreeFiles
      BY <2>2 DEF CollectionOK
    <2>4. ASSUME NEW f \in analysis.visited PROVE f \in fileIds'
      <3>1. f \in TreePaths /\ f \notin DOMAIN TreeLinks
        BY <2>3, TreeAssumption DEF TreePaths
      <3>2. canonical(f) = TargetOf(onDisk, f)
        BY <2>2, <3>1, LeadsToItself DEF canonical
      <3>3. canonical(f) # None
        BY <2>1, TreeAssumption DEF CanAdd, FilesNow
      <3>4. canonical(f) = f
        BY <3>1, <3>2, <3>3 DEF TargetOf
      <3> QED BY <2>1, <3>4 DEF Identities
    <2>5. PICK a : a = analysis'
      OBVIOUS
    <2>6. /\ a.at = "resolving" /\ a.visited = analysis.visited /\ a.edges = analysis.edges
          /\ a.read = analysis.read
          /\ a = [at |-> a.at, left |-> a.left, registered |-> a.registered,
                  visited |-> a.visited, edges |-> a.edges, read |-> a.read]
      BY <2>1, <2>2, <2>5 DEF CollectionOK, Started
    <2>7. CollectionOK(a, fileIds')
      BY <2>2, <2>4, <2>6 DEF CollectionOK, Started
    <2>8. StoredOK(dependencies, fileIds', latest)
      BY <2>1, IdsGrow DEF GraphInv
    <2> QED BY <2>5, <2>7, <2>8 DEF GraphInv, RegisterIncluded
  <1> QED BY <1>1, <1>2

LEMMA BuildGraphStep ==
    ASSUME GraphInv, BuildGraph
    PROVE  GraphInv'
  <1>1. CASE analysis' = FailedAnalysis
    BY <1>1, SMTT(30) DEF FailedAnalysis, CollectionOK, GraphInv, BuildGraph
  <1>2. CASE analysis' = [analysis EXCEPT !.at = "built"]
    <2>1. CollectionOK(analysis, fileIds) /\ analysis.at = "resolving"
      BY DEF GraphInv, BuildGraph
    <2>2. PICK a : a = analysis'
      OBVIOUS
    <2>3. /\ a.at = "built" /\ a.visited = analysis.visited /\ a.edges = analysis.edges
          /\ a.read = analysis.read
          /\ a = [at |-> a.at, left |-> a.left, registered |-> a.registered,
                  visited |-> a.visited, edges |-> a.edges, read |-> a.read]
      BY <1>2, <2>1, <2>2 DEF CollectionOK, Started
    <2>4. CollectionOK(a, fileIds)
      BY <2>1, <2>3 DEF CollectionOK, Started
    <2> QED BY <2>2, <2>4 DEF GraphInv, BuildGraph
  <1> QED BY <1>1, <1>2 DEF BuildGraph

LEMMA PersistGraphStep ==
    ASSUME GraphInv, PersistGraph
    PROVE  GraphInv'
  <1>1. CASE analysis' = FailedAnalysis /\ UNCHANGED <<dependencies, entryRows, latest>>
    BY <1>1 DEF FailedAnalysis, CollectionOK, GraphInv, PersistGraph
  <1>2. CASE ~(analysis' = FailedAnalysis /\ UNCHANGED <<dependencies, entryRows, latest>>)
    <2> DEFINE versions(f) == {r[2] : r \in {q \in analysis.read : q[1] = f}}
    <2>1. /\ dependencies' = Replaced(analysis.visited, analysis.edges)
          /\ latest' = [f \in TreeFiles |->
                          IF versions(f) = {} THEN latest[f]
                          ELSE IF \A v, w \in versions(f) : v = w THEN CHOOSE v \in versions(f) : TRUE ELSE 0]
          /\ analysis' = [at |-> "stored"]
      BY <1>2 DEF PersistGraph
    <2>2. CollectionOK(analysis, fileIds) /\ analysis.at = "built" /\ StoredOK(dependencies, fileIds, latest)
      BY DEF GraphInv, PersistGraph
    <2>3. PICK kept, last : kept = dependencies' /\ last = latest'
      OBVIOUS
    <2>4. \A f \in TreeFiles : /\ versions(f) \subseteq Nat
                               /\ f \in analysis.visited <=> versions(f) # {}
      BY <2>2 DEF CollectionOK, Started
    <2> HIDE DEF versions
    <2>5. last \in [TreeFiles -> Nat]
      <3>1. ASSUME NEW f \in TreeFiles
            PROVE  (IF versions(f) = {} THEN latest[f]
                    ELSE IF \A v, w \in versions(f) : v = w THEN CHOOSE v \in versions(f) : TRUE ELSE 0) \in Nat
        <4>1. latest[f] \in Nat
          BY <2>2 DEF StoredOK
        <4>2. versions(f) # {} => (CHOOSE v \in versions(f) : TRUE) \in versions(f)
          OBVIOUS
        <4> QED BY <2>4, <4>1, <4>2
      <3> QED BY <2>1, <2>3, <3>1
    <2>6. kept = {e \in dependencies : e[1] \notin analysis.visited} \union analysis.edges
      BY <2>1, <2>3 DEF Replaced
    <2>7. analysis.visited \subseteq TreeFiles /\ analysis.visited \subseteq fileIds
      BY <2>2 DEF CollectionOK, Started
    <2>8. \A e \in analysis.edges : /\ e[1] \in analysis.visited /\ e[2] \in analysis.visited
      BY <2>2 DEF CollectionOK, Started
    <2>9. \A e \in kept : e[1] \in TreeFiles /\ e[1] \in fileIds /\ e[2] \in fileIds
      BY <2>2, <2>6, <2>7, <2>8 DEF StoredOK
    <2>10. ASSUME NEW f \in TreeFiles, last[f] # 0
           PROVE  /\ CertainAt(f, last[f]) \subseteq kept
                  /\ {e \in kept : e[1] = f} \subseteq EdgesAt(f, last[f])
      <3>1. CASE f \notin analysis.visited
        <4>1. last[f] = latest[f]
          BY <2>1, <2>3, <2>4, <3>1
        <4>2. /\ CertainAt(f, last[f]) \subseteq dependencies
              /\ {e \in dependencies : e[1] = f} \subseteq EdgesAt(f, last[f])
          BY <2>2, <2>10, <4>1 DEF StoredOK
        <4>3. \A e \in CertainAt(f, last[f]) : e[1] = f
          BY DEF CertainAt, EdgesAt
        <4>4. {e \in kept : e[1] = f} \subseteq {e \in dependencies : e[1] = f}
          BY <2>6, <2>8, <3>1
        <4>5. CertainAt(f, last[f]) \subseteq kept
          BY <2>6, <3>1, <4>2, <4>3
        <4> QED BY <4>2, <4>4, <4>5
      <3>2. CASE f \in analysis.visited
        <4>1. versions(f) # {}
          BY <2>4, <3>2
        <4>2. \A v, w \in versions(f) : v = w
          BY <2>1, <2>3, <2>10, <4>1
        <4>3. last[f] = CHOOSE v \in versions(f) : TRUE
          BY <2>1, <2>3, <4>1, <4>2
        <4>4. last[f] \in versions(f)
          BY <4>1, <4>3
        <4>5. PICK r \in analysis.read : r[1] = f /\ r[2] = last[f]
          BY <4>4 DEF versions
        <4>6. CertainAt(f, last[f]) \subseteq analysis.edges
          BY <2>2, <4>5 DEF CollectionOK, Started
        <4>7. ASSUME NEW e \in kept, e[1] = f PROVE e \in EdgesAt(f, last[f])
          <5>1. e \in analysis.edges
            BY <2>6, <3>2, <4>7
          <5>2. PICK q \in analysis.read : q[1] = e[1] /\ e \in EdgesAt(q[1], q[2])
            BY <2>2, <5>1 DEF CollectionOK, Started
          <5>3. q[2] = last[f]
            BY <4>2, <4>4, <4>7, <5>2 DEF versions
          <5> QED BY <4>7, <5>2, <5>3
        <4> QED BY <2>6, <4>6, <4>7
      <3> QED BY <3>1, <3>2
    <2>11. StoredOK(kept, fileIds, last)
      BY <2>5, <2>9, <2>10 DEF StoredOK
    <2>12. CollectionOK(analysis', fileIds)
      BY <2>1 DEF CollectionOK
    <2> QED BY <2>3, <2>11, <2>12 DEF GraphInv, PersistGraph
  <1> QED BY <1>1, <1>2

LEMMA GraphNextOK ==
    ASSUME GraphInv, [GraphNext]_graphVars
    PROVE  GraphInv'
  <1>1. CASE \E sources \in SelectedSources : StartAnalysis(sources)
    BY <1>1, StartAnalysisStep
  <1>2. CASE /\ \E path \in onDisk : Vanish(path)
             /\ UNCHANGED <<texts, fileIds, dependencies, entryRows, analysis, latest, analyses>>
    BY <1>2, VanishKeepsGraph
  <1>3. CASE CollectSource
    BY <1>3, CollectSourceStep
  <1>4. CASE RegisterIncluded
    BY <1>4, RegisterIncludedStep
  <1>5. CASE BuildGraph
    BY <1>5, BuildGraphStep
  <1>6. CASE PersistGraph
    BY <1>6, PersistGraphStep
  <1>7. CASE \E f \in TreeFiles : EditText(f)
    <2>1. PICK f \in TreeFiles : EditText(f)
      BY <1>7
    <2>2. texts' \in [TreeFiles -> Nat \ {0}]
      BY <2>1 DEF EditText, GraphInv
    <2> QED BY <2>1, <2>2 DEF EditText, GraphInv
  <1>8. CASE StoreEntries
    BY <1>8 DEF StoreEntries, GraphInv
  <1>9. CASE KillAnalysis
    BY <1>9 DEF KillAnalysis, NoAnalysis, GraphInv, CollectionOK
  <1>10. CASE UNCHANGED graphVars
    BY <1>10 DEF graphVars, GraphInv
  <1> QED BY <1>1, <1>2, <1>3, <1>4, <1>5, <1>6, <1>7, <1>8, <1>9, <1>10 DEF GraphNext

-----------------------------------------------------------------------------
(* The include graph: the theorem *)

LEMMA GraphInvTells == GraphInv => GraphOfPresentTexts
  <1> SUFFICES ASSUME GraphInv PROVE GraphOfPresentTexts
    OBVIOUS
  <1> DEFINE possible == UNION {MayInclude(f) : f \in TreeFiles}
             certain == possible \ DOMAIN OnlyFor
  <1>1. StoredOK(dependencies, fileIds, latest) /\ texts \in [TreeFiles -> Nat \ {0}]
    BY DEF GraphInv
  <1>2. UNION {{e[1], e[2]} : e \in dependencies} \subseteq fileIds
    BY <1>1 DEF StoredOK
  <1>3. \A f \in TreeFiles : MayInclude(f) = EdgesAt(f, texts[f])
    BY DEF MayInclude, EdgesAt
  <1>4. \A e \in possible : /\ e[1] \in TreeFiles /\ e \in EdgesAt(e[1], texts[e[1]])
    BY <1>3 DEF EdgesAt
  <1>5. ASSUME NEW f, latest[f] = texts[f]
        PROVE  /\ {e \in certain : e[1] = f} \subseteq dependencies
               /\ {e \in dependencies : e[1] = f} \subseteq possible
    <2>1. CASE f \in TreeFiles
      <3>1. latest[f] # 0
        BY <1>1, <1>5, <2>1
      <3>2. /\ CertainAt(f, texts[f]) \subseteq dependencies
            /\ {e \in dependencies : e[1] = f} \subseteq EdgesAt(f, texts[f])
        BY <1>1, <1>5, <2>1, <3>1 DEF StoredOK
      <3>3. {e \in certain : e[1] = f} \subseteq CertainAt(f, texts[f])
        BY <1>4 DEF CertainAt
      <3>4. EdgesAt(f, texts[f]) \subseteq possible
        BY <1>3, <2>1
      <3> QED BY <3>2, <3>3, <3>4
    <2>2. CASE f \notin TreeFiles
      BY <1>1, <1>4, <2>2 DEF StoredOK
    <2> QED BY <2>1, <2>2
  <1>6. ASSUME NEW s, NEW included, included = LeastClosed(certain, {s}),
               \A f \in included : latest[f] = texts[f]
        PROVE  included \subseteq LeastClosed(dependencies, {s})
    <2> HIDE DEF certain
    <2> DEFINE both == included \intersect LeastClosed(dependencies, {s})
    <2>1. s \in included /\ IsClosed(certain, included)
      BY <1>6, LeastIsClosed
    <2>2. s \in LeastClosed(dependencies, {s}) /\ IsClosed(dependencies, LeastClosed(dependencies, {s}))
      BY LeastIsClosed
    <2>3. ASSUME NEW e \in certain, e[1] \in both PROVE e[2] \in both
      <3>1. e \in dependencies
        BY <1>5, <1>6, <2>3
      <3> QED BY <2>1, <2>2, <2>3, <3>1 DEF IsClosed
    <2>4. IsClosed(certain, both) /\ {s} \subseteq both
      BY <2>1, <2>2, <2>3 DEF IsClosed
    <2>5. included \subseteq both
      BY <1>6, <2>4, LeastIsLeast
    <2> QED BY <2>5
  <1> HIDE DEF possible, certain
  <1>7. ASSUME NEW s \in {f \in TreeFiles : latest[f] = texts[f]},
               \A f \in LeastClosed(certain, {s}) : latest[f] = texts[f]
        PROVE  /\ LeastClosed(certain, {s}) \subseteq LeastClosed(dependencies, {s})
               /\ \A f \in LeastClosed(certain, {s}) :
                     /\ {e \in certain : e[1] = f} \subseteq dependencies
                     /\ {e \in dependencies : e[1] = f} \subseteq possible
    BY <1>5, <1>6, <1>7
  <1> QED BY <1>2, <1>7 DEF GraphOfPresentTexts, possible, certain

(* Whichever source was analysed last after an edit of a header, the       *)
(* stored graph is right for the other sources that share it.              *)
(* (replaceDependencies)                                                   *)
THEOREM GraphFollowsTheTexts == GraphSpec => []GraphOfPresentTexts
  <1>1. GraphInit => GraphInv
    BY GraphInitOK
  <1>2. GraphInv /\ [GraphNext]_graphVars => GraphInv'
    BY GraphNextOK
  <1>3. GraphInv => GraphOfPresentTexts
    BY GraphInvTells
  <1> QED BY <1>1, <1>2, <1>3, PTL DEF GraphSpec
=============================================================================

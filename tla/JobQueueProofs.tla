--------------------------- MODULE JobQueueProofs ---------------------------
(***************************************************************************)
(* Proofs about JobQueue for every capacity, retention and number of jobs. *)
(***************************************************************************)
EXTENDS JobQueue, SequenceTheorems, FiniteSetTheorems, TLAPS

(***************************************************************************)
(* Lemmas about the two deques, order and pending, whose ids increase.     *)
(***************************************************************************)
LEMMA RemoveAtFacts ==
    ASSUME NEW S, NEW s \in Seq(S), NEW k \in 1..Len(s)
    PROVE  /\ RemoveAt(s, k) \in Seq(S)
           /\ Len(RemoveAt(s, k)) = Len(s) - 1
           /\ \A i \in 1..(Len(s) - 1) :
                RemoveAt(s, k)[i] = IF i < k THEN s[i] ELSE s[i + 1]
<1> DEFINE a == SubSeq(s, 1, k - 1)
           b == SubSeq(s, k + 1, Len(s))
<1>1. a \in Seq(S) /\ Len(a) = k - 1 /\ \A i \in 1..(k - 1) : a[i] = s[i]
  OBVIOUS
<1>2. /\ b \in Seq(S) /\ Len(b) = Len(s) - k
      /\ \A i \in 1..(Len(s) - k) : b[i] = s[k + i]
  OBVIOUS
<1> HIDE DEF a, b
<1>3. a \o b \in Seq(S) /\ Len(a \o b) = Len(s) - 1
  <2>1. a \o b \in Seq(S) /\ Len(a \o b) = Len(a) + Len(b)
    BY <1>1, <1>2, ConcatProperties
  <2>2. QED
    BY <2>1, <1>1, <1>2
<1>4. ASSUME NEW i \in 1..(Len(s) - 1)
      PROVE  (a \o b)[i] = IF i < k THEN s[i] ELSE s[i + 1]
  <2>1. CASE i < k
    BY <2>1, <1>1, <1>2, ConcatProperties
  <2>2. CASE ~(i < k)
    <3>1. (a \o b)[i] = b[i - Len(a)]
      BY <2>2, <1>1, <1>2, ConcatProperties
    <3>2. QED
      BY <3>1, <2>2, <1>1, <1>2
  <2>3. QED
    BY <2>1, <2>2
<1>5. QED
  BY <1>3, <1>4 DEF RemoveAt, a, b

LEMMA RemoveAtIncreasing ==
    ASSUME NEW S, S \subseteq Int, NEW s \in Seq(S), NEW k \in 1..Len(s), Increasing(s)
    PROVE  /\ Increasing(RemoveAt(s, k))
           /\ ToSet(RemoveAt(s, k)) = ToSet(s) \ {s[k]}
<1> DEFINE t == RemoveAt(s, k)
<1>1. /\ t \in Seq(S) /\ Len(t) = Len(s) - 1
      /\ \A i \in 1..(Len(s) - 1) : t[i] = IF i < k THEN s[i] ELSE s[i + 1]
  BY RemoveAtFacts
<1> HIDE DEF t
<1>2. \A i \in 1..Len(s) : s[i] \in Int
  <2>1. \A i \in 1..Len(s) : s[i] \in S
    OBVIOUS
  <2>2. QED
    BY <2>1
<1>3. Increasing(t)
  <2> SUFFICES ASSUME NEW i \in 1..Len(t), NEW j \in 1..Len(t), i < j
               PROVE  t[i] < t[j]
    BY DEF Increasing
  <2> DEFINE shift(n) == IF n < k THEN n ELSE n + 1
  <2>1. /\ shift(i) \in 1..Len(s) /\ shift(j) \in 1..Len(s)
        /\ shift(i) < shift(j)
    BY <1>1
  <2>2. s[shift(i)] < s[shift(j)]
    BY <2>1 DEF Increasing
  <2>3. t[i] = s[shift(i)] /\ t[j] = s[shift(j)]
    BY <1>1
  <2>4. QED
    BY <2>2, <2>3
<1>4. ToSet(t) \subseteq ToSet(s) \ {s[k]}
  <2> SUFFICES ASSUME NEW i \in 1..(Len(s) - 1)
               PROVE  t[i] \in ToSet(s) \ {s[k]}
    BY <1>1 DEF ToSet
  <2>1. CASE i < k
    <3>1. i \in 1..Len(s) /\ t[i] = s[i]
      BY <2>1, <1>1
    <3>2. s[i] \in ToSet(s) /\ s[i] < s[k]
      BY <3>1, <2>1 DEF ToSet, Increasing
    <3>3. QED
      BY <3>1, <3>2, <1>2
  <2>2. CASE ~(i < k)
    <3>1. i + 1 \in 1..Len(s) /\ k < i + 1 /\ t[i] = s[i + 1]
      BY <2>2, <1>1
    <3>2. s[i + 1] \in ToSet(s) /\ s[k] < s[i + 1]
      BY <3>1 DEF ToSet, Increasing
    <3>3. QED
      BY <3>1, <3>2, <1>2
  <2>3. QED
    BY <2>1, <2>2
<1>5. ToSet(s) \ {s[k]} \subseteq ToSet(t)
  <2> SUFFICES ASSUME NEW i \in 1..Len(s), i # k
               PROVE  s[i] \in ToSet(t)
    BY DEF ToSet
  <2>1. CASE i < k
    <3>1. i \in 1..Len(t) /\ t[i] = s[i]
      BY <2>1, <1>1
    <3>2. QED
      BY <3>1, <1>1 DEF ToSet
  <2>2. CASE i > k
    <3>1. i - 1 \in 1..Len(t) /\ t[i - 1] = s[i]
      BY <2>2, <1>1
    <3>2. QED
      BY <3>1, <1>1 DEF ToSet
  <2>3. QED
    BY <2>1, <2>2
<1>6. QED
  BY <1>3, <1>4, <1>5 DEF t

LEMMA AppendFacts ==
    ASSUME NEW S, S \subseteq Int, NEW s \in Seq(S), NEW e \in S,
           Increasing(s), \A x \in ToSet(s) : x < e
    PROVE  /\ Append(s, e) \in Seq(S)
           /\ Len(Append(s, e)) = Len(s) + 1
           /\ Increasing(Append(s, e))
           /\ ToSet(Append(s, e)) = ToSet(s) \cup {e}
<1> DEFINE t == Append(s, e)
<1>1. /\ t \in Seq(S) /\ Len(t) = Len(s) + 1
      /\ \A i \in 1..Len(s) : t[i] = s[i]
      /\ t[Len(s) + 1] = e
  OBVIOUS
<1> HIDE DEF t
<1>2. \A i \in 1..Len(s) : s[i] \in Int /\ s[i] < e
  <2>1. \A i \in 1..Len(s) : s[i] \in S /\ s[i] \in ToSet(s)
    BY DEF ToSet
  <2>2. QED
    BY <2>1
<1>3. Increasing(t)
  BY <1>1, <1>2 DEF Increasing
<1>4. ToSet(t) = ToSet(s) \cup {e}
  BY <1>1 DEF ToSet
<1>5. QED
  BY <1>1, <1>3, <1>4 DEF t

LEMMA TailFacts ==
    ASSUME NEW S, S \subseteq Int, NEW s \in Seq(S), s # <<>>, Increasing(s)
    PROVE  /\ Head(s) \in S
           /\ Tail(s) \in Seq(S)
           /\ Len(Tail(s)) = Len(s) - 1
           /\ Increasing(Tail(s))
           /\ ToSet(Tail(s)) = ToSet(s) \ {Head(s)}
           /\ Head(s) \in ToSet(s)
           /\ \A x \in ToSet(s) : Head(s) <= x
<1> DEFINE t == Tail(s)
<1>1. /\ t \in Seq(S) /\ Len(t) = Len(s) - 1
      /\ \A i \in 1..(Len(s) - 1) : t[i] = s[i + 1]
  OBVIOUS
<1>2. Head(s) = s[1] /\ 1 \in 1..Len(s)
  OBVIOUS
<1> HIDE DEF t
<1>3. \A i \in 1..Len(s) : s[i] \in Int
  <2>1. \A i \in 1..Len(s) : s[i] \in S
    OBVIOUS
  <2>2. QED
    BY <2>1
<1>4. Increasing(t)
  <2> SUFFICES ASSUME NEW k \in 1..Len(t), NEW l \in 1..Len(t), k < l
               PROVE  t[k] < t[l]
    BY DEF Increasing
  <2>1. k + 1 \in 1..Len(s) /\ l + 1 \in 1..Len(s) /\ k + 1 < l + 1
    BY <1>1, <1>2
  <2>2. s[k + 1] < s[l + 1]
    BY <2>1 DEF Increasing
  <2>3. QED
    BY <2>2, <1>1
<1>5. ToSet(t) = ToSet(s) \ {s[1]}
  <2>1. ASSUME NEW i \in 1..(Len(s) - 1) PROVE t[i] \in ToSet(s) \ {s[1]}
    <3>1. i + 1 \in 1..Len(s) /\ 1 < i + 1
      BY <1>2
    <3>2. s[i + 1] \in ToSet(s) /\ s[1] < s[i + 1]
      BY <3>1, <1>2 DEF ToSet, Increasing
    <3>3. QED
      BY <3>2, <3>1, <1>1, <1>2, <1>3
  <2>2. ASSUME NEW i \in 1..Len(s), i # 1 PROVE s[i] \in ToSet(t)
    <3>1. i - 1 \in 1..Len(t) /\ t[i - 1] = s[i]
      BY <2>2, <1>1
    <3>2. QED
      BY <3>1, <1>1 DEF ToSet
  <2>3. QED
    BY <2>1, <2>2, <1>1 DEF ToSet
<1>6. \A x \in ToSet(s) : s[1] <= x
  BY <1>2, <1>3 DEF ToSet, Increasing
<1>7. QED
  BY <1>1, <1>2, <1>4, <1>5, <1>6 DEF t, ToSet


(***************************************************************************)
(* The inductive invariant.                                                *)
(***************************************************************************)
LEMMA InitInv == Init => IInv
<1> SUFFICES ASSUME Init PROVE IInv
  OBVIOUS
<1>1. TypeOK
  <2>1. nextId \in 1..(MaxJobs + 1)
    BY JobQueueAssumption DEF Init
  <2>2. state \in [Ids -> States] /\ reports \in [Ids -> Nat]
    BY DEF Init, States
  <2>3. order \in Seq(Ids) /\ pending \in Seq(Ids)
    BY DEF Init
  <2>4. QED
    BY <2>1, <2>2, <2>3 DEF Init, TypeOK, Phases
<1>2. ToSet(order) = {} /\ ToSet(pending) = {}
  BY DEF Init, ToSet
<1>3. NoOrphan /\ ReportedOnce /\ WakeupPosted
  BY <1>2 DEF Init, NoOrphan, ReportedOnce, WakeupPosted, Runnable, Ids,
              Outcomes, NoJob
<1>4. Bookkeeping
  BY <1>2, JobQueueAssumption DEF Init, Bookkeeping, Increasing, Ids
<1>5. QED
  BY <1>1, <1>3, <1>4 DEF IInv

(***************************************************************************)
(* complete() preserves it, whichever handler calls it: the jobs it ends   *)
(* are the active one or leave pending in the same handler.                *)
(***************************************************************************)
LEMMA CompleteInv ==
    ASSUME IInv, NEW jobs \in SUBSET Ids, NEW outcome \in Outcomes,
           Complete(jobs, outcome),
           jobs \subseteq ToSet(pending) \cup {active},
           pending' \in Seq(Ids), Increasing(pending'),
           ToSet(pending') = ToSet(pending) \ jobs,
           Len(pending') <= Len(pending),
           UNCHANGED <<order, nextId>>,
           paused' \in BOOLEAN, paused => paused' \/ stopped',
           stopped' \in BOOLEAN, stopped => stopped',
           stopped' => active' = NoJob /\ pending' = <<>>
    PROVE  IInv'
<1> USE DEF IInv
<1>1. \A i \in jobs : state[i] \in {"queued", "running"}
  BY DEF NoOrphan
<1>2. \A i \in jobs : ~Finished(i)
  BY <1>1 DEF Finished, Outcomes
<1>3. /\ state' = [i \in Ids |-> IF i \in jobs THEN outcome ELSE state[i]]
      /\ reports' = [i \in Ids |-> IF i \in jobs THEN reports[i] + 1 ELSE reports[i]]
      /\ active' = IF active \in jobs THEN NoJob ELSE active
      /\ process' = IF active \in jobs THEN "none" ELSE process
      /\ pumpPosted' = (pumpPosted \/ jobs # {})
  <2>1. {i \in jobs : ~Finished(i)} = jobs
    BY <1>2
  <2>2. QED
    BY <2>1 DEF Complete
<1>4. TypeOK'
  BY <1>3 DEF TypeOK, States, Phases
<1>5. NoOrphan'
  <2>1. ASSUME NEW i \in Ids
        PROVE  /\ state'[i] = "queued" <=> i \in ToSet(pending')
               /\ state'[i] = "running" <=> i = active'
               /\ state'[i] \in {"queued", "running"} => i \in ToSet(order')
    BY <1>1, <1>3 DEF NoOrphan, TypeOK, Outcomes, NoJob, Ids
  <2>2. active' = NoJob <=> process' = "none"
    BY <1>3 DEF NoOrphan
  <2>3. ToSet(pending)' = ToSet(pending') /\ ToSet(order)' = ToSet(order')
    BY DEF ToSet
  <2>4. QED
    BY <2>1, <2>2, <2>3 DEF NoOrphan
<1>6. ReportedOnce'
  <2> SUFFICES ASSUME NEW i \in Ids
               PROVE  reports'[i] = IF state'[i] \in Outcomes \cup {"forgotten"}
                                    THEN 1 ELSE 0
    BY DEF ReportedOnce
  <2>1. CASE i \in jobs
    <3>1. reports[i] = 0
      BY <2>1, <1>1 DEF ReportedOnce, Outcomes
    <3>2. QED
      BY <3>1, <2>1, <1>3
  <2>2. CASE i \notin jobs
    BY <2>2, <1>3 DEF ReportedOnce
  <2>3. QED
    BY <2>1, <2>2
<1>7. WakeupPosted'
  <2>1. CASE jobs = {}
    <3>1. active' = active /\ pumpPosted' = pumpPosted
      BY <2>1, <1>3 DEF TypeOK
    <3>2. pending' # <<>> => pending # <<>>
      BY DEF TypeOK
    <3>3. Runnable' => Runnable
      BY <3>1, <3>2 DEF Runnable, TypeOK
    <3>4. QED
      BY <3>1, <3>3 DEF WakeupPosted
  <2>2. CASE jobs # {}
    BY <2>2, <1>3 DEF WakeupPosted
  <2>3. QED
    BY <2>1, <2>2
<1>8. Bookkeeping'
  <2>1. \A i \in Ids : state'[i] = "absent" <=> i >= nextId'
    BY <1>1, <1>3 DEF Bookkeeping, TypeOK, Outcomes
  <2>2. \A i \in Ids : i \in ToSet(order') <=> state'[i] \notin {"absent", "forgotten"}
    BY <1>1, <1>3 DEF Bookkeeping, TypeOK, Outcomes
  <2>3. Len(pending') <= MaxPending
    BY JobQueueAssumption DEF Bookkeeping, TypeOK
  <2>4. QED
    BY <2>1, <2>2, <2>3 DEF Bookkeeping, ToSet, Increasing
<1>9. QED
  BY <1>4, <1>5, <1>6, <1>7, <1>8

(***************************************************************************)
(* The same for a list of job ids and a fresh id: what submit() does to    *)
(* the records and to the queue.                                           *)
(***************************************************************************)
LEMMA AppendIds ==
    ASSUME NEW s \in Seq(Ids), NEW e \in Ids, Increasing(s), \A x \in ToSet(s) : x < e
    PROVE  /\ Append(s, e) \in Seq(Ids)
           /\ Len(Append(s, e)) = Len(s) + 1
           /\ Increasing(Append(s, e))
           /\ ToSet(Append(s, e)) = ToSet(s) \cup {e}
<1>1. Ids \subseteq Int
  BY DEF Ids
<1>2. QED
  BY <1>1, AppendFacts, ZenonT(60)

(***************************************************************************)
(* submit(): the new id is larger than every id seen, and the evicted      *)
(* record, if any, is that of a finished job.                              *)
(***************************************************************************)
LEMMA AcceptInv ==
    ASSUME IInv, nextId <= MaxJobs, ~stopped, Len(pending) < MaxPending,
           NEW kept \in Seq(Ids), Increasing(kept), Len(kept) < MaxRetained,
           ToSet(kept) \subseteq ToSet(order),
           \A i \in ToSet(order) \ ToSet(kept) : Finished(i),
           Accept(kept),
           UNCHANGED <<active, process, paused, stopped, reports>>
    PROVE  IInv'
<1> USE DEF IInv
<1> DEFINE gone == ToSet(order) \ ToSet(kept)
<1>1. nextId \in Ids /\ Ids \subseteq Int
  BY JobQueueAssumption DEF TypeOK, Ids
<1>2. \A i \in ToSet(order) \cup ToSet(pending) : i \in Ids /\ i < nextId
  <2>1. \A i \in ToSet(order) \cup ToSet(pending) : i \in Ids
    BY DEF ToSet, TypeOK
  <2>2. \A i \in ToSet(order) \cup ToSet(pending) : state[i] # "absent"
    BY <2>1 DEF NoOrphan, Bookkeeping
  <2>3. QED
    BY <2>1, <2>2, <1>1 DEF Bookkeeping, Ids, TypeOK
<1>3. /\ order' \in Seq(Ids) /\ Len(order') = Len(kept) + 1
      /\ Increasing(order') /\ ToSet(order') = ToSet(kept) \cup {nextId}
  <2>1. \A x \in ToSet(kept) : x < nextId
    BY <1>2
  <2>2. order' = Append(kept, nextId)
    BY DEF Accept
  <2>3. /\ Append(kept, nextId) \in Seq(Ids)
        /\ Len(Append(kept, nextId)) = Len(kept) + 1
        /\ Increasing(Append(kept, nextId))
        /\ ToSet(Append(kept, nextId)) = ToSet(kept) \cup {nextId}
    <3>1. Ids \subseteq Int /\ kept \in Seq(Ids) /\ nextId \in Ids /\ Increasing(kept)
      BY <1>1
    <3>2. QED
      BY <3>1, <2>1, AppendIds
  <2>4. QED
    BY <2>2, <2>3
<1>4. /\ pending' \in Seq(Ids) /\ Len(pending') = Len(pending) + 1
      /\ Increasing(pending') /\ ToSet(pending') = ToSet(pending) \cup {nextId}
  BY <1>1, <1>2, AppendFacts DEF Accept, TypeOK, Bookkeeping
<1>5. /\ state' = [i \in Ids |-> IF i = nextId THEN "queued"
                                 ELSE IF i \in gone THEN "forgotten" ELSE state[i]]
      /\ nextId' = nextId + 1 /\ pumpPosted' = TRUE
  BY DEF Accept
<1>6. /\ nextId \notin gone /\ state[nextId] = "absent"
      /\ \A i \in gone : i \in Ids /\ state[i] \in Outcomes
  BY <1>1, <1>2 DEF Bookkeeping, Finished, TypeOK
<1> HIDE DEF gone
<1>7. TypeOK'
  <2>1. state' \in [Ids -> States]
    BY <1>5 DEF TypeOK, States
  <2>2. nextId' \in 1..(MaxJobs + 1)
    BY <1>1, <1>5, JobQueueAssumption DEF Ids
  <2>3. QED
    BY <2>1, <2>2, <1>3, <1>4, <1>5 DEF TypeOK
<1>8. NoOrphan'
  <2>1. ASSUME NEW i \in Ids
        PROVE  /\ state'[i] = "queued" <=> i \in ToSet(pending')
               /\ state'[i] = "running" <=> i = active'
               /\ state'[i] \in {"queued", "running"} => i \in ToSet(order')
    <3>1. CASE i = nextId
      BY <3>1, <1>1, <1>3, <1>4, <1>5, <1>6 DEF NoOrphan
    <3>2. CASE i \in gone
      BY <3>2, <1>3, <1>4, <1>5, <1>6 DEF NoOrphan, Outcomes
    <3>3. CASE i # nextId /\ i \notin gone
      BY <3>3, <1>3, <1>4, <1>5 DEF NoOrphan, gone
    <3>4. QED
      BY <3>1, <3>2, <3>3
  <2>2. ToSet(pending)' = ToSet(pending') /\ ToSet(order)' = ToSet(order')
    BY DEF ToSet
  <2>3. QED
    BY <2>1, <2>2 DEF NoOrphan
<1>9. ReportedOnce'
  <2> SUFFICES ASSUME NEW i \in Ids
               PROVE  reports[i] = IF state'[i] \in Outcomes \cup {"forgotten"}
                                   THEN 1 ELSE 0
    BY DEF ReportedOnce
  <2>1. CASE i = nextId
    BY <2>1, <1>5, <1>6 DEF ReportedOnce, Outcomes
  <2>2. CASE i \in gone
    BY <2>2, <1>5, <1>6 DEF ReportedOnce
  <2>3. CASE i # nextId /\ i \notin gone
    BY <2>3, <1>5 DEF ReportedOnce
  <2>4. QED
    BY <2>1, <2>2, <2>3
<1>10. WakeupPosted'
  BY <1>5 DEF WakeupPosted
<1>11. Bookkeeping'
  <2>1. ASSUME NEW i \in Ids
        PROVE  /\ state'[i] = "absent" <=> i >= nextId'
               /\ i \in ToSet(order') <=> state'[i] \notin {"absent", "forgotten"}
    <3>1. i \in Int /\ nextId \in Int
      BY <1>1
    <3>2. CASE i = nextId
      BY <3>1, <3>2, <1>3, <1>5
    <3>3. CASE i \in gone
      BY <3>1, <3>3, <1>3, <1>5, <1>6, <1>2 DEF gone, Bookkeeping
    <3>4. CASE i # nextId /\ i \notin gone
      BY <3>1, <3>4, <1>3, <1>5 DEF gone, Bookkeeping
    <3>5. QED
      BY <3>2, <3>3, <3>4
  <2>2. Len(pending') <= MaxPending /\ Len(order') <= MaxRetained
    BY <1>3, <1>4, JobQueueAssumption DEF TypeOK
  <2>3. QED
    BY <2>1, <2>2, <1>3, <1>4 DEF Bookkeeping, ToSet, Increasing
<1>12. QED
  BY <1>7, <1>8, <1>9, <1>10, <1>11

LEMMA SubmitInv == IInv /\ Submit => IInv'
<1> SUFFICES ASSUME IInv, Submit PROVE IInv'
  OBVIOUS
<1>1. order \in Seq(Ids) /\ Increasing(order) /\ Len(order) \in Nat /\ Ids \subseteq Int
  BY DEF IInv, TypeOK, Bookkeeping, Ids
<1>2. CASE Len(order) < MaxRetained /\ Accept(order)
  BY <1>1, <1>2, AcceptInv DEF Submit
<1>3. ASSUME NEW k \in 1..Len(order), Oldest(k), Accept(RemoveAt(order, k))
      PROVE  IInv'
  <2> DEFINE kept == RemoveAt(order, k)
  <2>1. kept \in Seq(Ids) /\ Len(kept) = Len(order) - 1
    BY <1>1, RemoveAtFacts
  <2>2. Increasing(kept) /\ ToSet(kept) = ToSet(order) \ {order[k]}
    BY <1>1, RemoveAtIncreasing
  <2>3. \A i \in ToSet(order) \ ToSet(kept) : Finished(i)
    BY <2>2, <1>3 DEF Oldest, Evictable
  <2>4. Len(kept) < MaxRetained
    BY <2>1, <1>1, JobQueueAssumption DEF IInv, Bookkeeping
  <2> HIDE DEF kept
  <2>5. Accept(kept)
    BY <1>3 DEF kept
  <2>6. QED
    BY <2>1, <2>2, <2>3, <2>4, <2>5, AcceptInv DEF Submit
<1>4. QED
  BY <1>2, <1>3 DEF Submit

(***************************************************************************)
(* The handlers that end jobs, each through complete().                    *)
(***************************************************************************)
LEMMA CancelQueuedInv ==
    ASSUME NEW i \in Ids, IInv, CancelQueued(i) PROVE IInv'
<1>1. PICK k \in 1..Len(pending) : pending[k] = i /\ pending' = RemoveAt(pending, k)
  BY DEF CancelQueued
<1>2. pending \in Seq(Ids) /\ Increasing(pending) /\ Ids \subseteq Int /\ Len(pending) \in Nat
  BY DEF IInv, TypeOK, Bookkeeping, Ids
<1>3. pending' \in Seq(Ids) /\ Len(pending') = Len(pending) - 1
  BY <1>1, <1>2, RemoveAtFacts
<1>4. Increasing(pending') /\ ToSet(pending') = ToSet(pending) \ {i}
  BY <1>1, <1>2, RemoveAtIncreasing
<1>5. i \in ToSet(pending) /\ ~stopped /\ stopped \in BOOLEAN /\ paused \in BOOLEAN
  BY <1>1, <1>2 DEF ToSet, IInv, TypeOK, Bookkeeping
<1>6. /\ Complete({i}, "cancelled") /\ "cancelled" \in Outcomes
      /\ {i} \in SUBSET Ids /\ {i} \subseteq ToSet(pending) \cup {active}
      /\ Len(pending') <= Len(pending)
      /\ UNCHANGED <<order, nextId, paused>> /\ paused \in BOOLEAN
      /\ stopped' \in BOOLEAN /\ ~stopped'
  BY <1>2, <1>3, <1>5 DEF CancelQueued, Outcomes
<1>7. QED
  BY <1>3, <1>4, <1>5, <1>6, CompleteInv

(***************************************************************************)
(* The active job ends: pending does not change, and does not hold it.     *)
(***************************************************************************)
LEMMA ActiveEndsInv ==
    ASSUME IInv, active # NoJob, NEW outcome \in Outcomes,
           Complete({active}, outcome),
           UNCHANGED <<order, pending, nextId, paused, stopped>>
    PROVE  IInv'
<1>1. active \in Ids /\ state[active] = "running"
  BY DEF IInv, TypeOK, NoOrphan
<1>2. active \notin ToSet(pending)
  BY <1>1 DEF IInv, NoOrphan
<1>3. /\ pending' \in Seq(Ids) /\ Increasing(pending')
      /\ ToSet(pending') = ToSet(pending) \ {active}
      /\ Len(pending') <= Len(pending)
  BY <1>2 DEF IInv, TypeOK, Bookkeeping
<1>4. ~stopped
  BY DEF IInv, Bookkeeping
<1>5. QED
  BY <1>1, <1>3, <1>4, CompleteInv DEF IInv, TypeOK

LEMMA CancelActiveInv == IInv /\ CancelActive => IInv'
<1> SUFFICES ASSUME IInv, CancelActive PROVE IInv'
  OBVIOUS
<1>1. CASE process = "draining" /\ Complete({active}, "cancelled")
  BY <1>1, ActiveEndsInv DEF CancelActive, Outcomes
<1>2. CASE process = "running" /\ process' = "cancelling"
           /\ UNCHANGED <<state, active, pumpPosted, reports>>
  BY <1>2 DEF CancelActive, IInv, TypeOK, NoOrphan, ReportedOnce, WakeupPosted,
              Runnable, Bookkeeping, Increasing, ToSet, Phases
<1>3. QED
  BY <1>1, <1>2 DEF CancelActive

LEMMA ProcessDoneInv == IInv /\ ProcessDone => IInv'
<1> SUFFICES ASSUME IInv, ProcessDone PROVE IInv'
  OBVIOUS
<1>1. PICK outcome \in Ends(process) : Complete({active}, outcome)
  BY DEF ProcessDone
<1>2. outcome \in Outcomes
  BY DEF Ends, Outcomes
<1>3. QED
  BY <1>1, <1>2, ActiveEndsInv DEF ProcessDone

LEMMA StopInv == IInv /\ Stop => IInv'
<1> SUFFICES ASSUME IInv, Stop PROVE IInv'
  OBVIOUS
<1> DEFINE jobs == ToSet(pending) \cup ({active} \ {NoJob})
<1>1. jobs \in SUBSET Ids
  BY DEF IInv, TypeOK, ToSet
<1>2. /\ pending' = <<>> /\ pending' \in Seq(Ids) /\ Increasing(pending')
      /\ Len(pending') = 0 /\ ToSet(pending') = {}
  BY DEF Stop, Increasing, ToSet
<1>3. active' = NoJob
  <2>1. CASE active = NoJob
    BY <2>1 DEF Stop, Complete
  <2>2. CASE active # NoJob
    <3>1. active \in Ids /\ ~Finished(active)
      BY <2>2 DEF IInv, TypeOK, NoOrphan, Finished, Outcomes
    <3>2. QED
      BY <2>2, <3>1 DEF Stop, Complete
  <2>3. QED
    BY <2>1, <2>2
<1>4. Len(pending) \in Nat
  BY DEF IInv, TypeOK
<1>5. /\ Complete(jobs, "cancelled") /\ stopped' = TRUE /\ UNCHANGED <<order, nextId, paused>>
      /\ paused \in BOOLEAN
  BY DEF Stop, IInv, TypeOK
<1> HIDE DEF jobs
<1>6. jobs \subseteq ToSet(pending) \cup {active} /\ ToSet(pending') = ToSet(pending) \ jobs
  BY <1>2 DEF jobs
<1>7. QED
  BY <1>1, <1>2, <1>3, <1>4, <1>5, <1>6, CompleteInv DEF Outcomes

LEMMA PumpSpawnFailsInv == IInv /\ PumpSpawnFails => IInv'
<1> SUFFICES ASSUME IInv, PumpSpawnFails PROVE IInv'
  OBVIOUS
<1>1. pending \in Seq(Ids) /\ Increasing(pending) /\ Ids \subseteq Int /\ pending # <<>>
      /\ Len(pending) \in Nat /\ ~stopped /\ stopped \in BOOLEAN /\ paused \in BOOLEAN
  BY DEF IInv, TypeOK, Bookkeeping, Ids, PumpSpawnFails, Runnable
<1>2. /\ Head(pending) \in Ids /\ Head(pending) \in ToSet(pending)
      /\ Tail(pending) \in Seq(Ids) /\ Len(Tail(pending)) = Len(pending) - 1
      /\ Increasing(Tail(pending))
      /\ ToSet(Tail(pending)) = ToSet(pending) \ {Head(pending)}
  BY <1>1, TailFacts
<1>3. /\ Complete({Head(pending)}, "failed") /\ "failed" \in Outcomes
      /\ {Head(pending)} \in SUBSET Ids
      /\ {Head(pending)} \subseteq ToSet(pending) \cup {active}
      /\ pending' = Tail(pending)
      /\ UNCHANGED <<order, nextId, paused>> /\ paused \in BOOLEAN
      /\ stopped' \in BOOLEAN /\ ~stopped'
  BY <1>1, <1>2 DEF PumpSpawnFails, Outcomes
<1>4. Len(pending') <= Len(pending)
  BY <1>1, <1>2, <1>3
<1>5. QED
  BY <1>1, <1>2, <1>3, <1>4, CompleteInv

LEMMA PumpStartInv == IInv /\ PumpStart => IInv'
<1> SUFFICES ASSUME IInv, PumpStart PROVE IInv'
  OBVIOUS
<1> DEFINE h == Head(pending)
<1>1. pending \in Seq(Ids) /\ Increasing(pending) /\ Ids \subseteq Int /\ pending # <<>>
      /\ Len(pending) \in Nat /\ ~stopped /\ active = NoJob
  BY DEF IInv, TypeOK, Bookkeeping, Ids, PumpStart, Runnable
<1>2. /\ h \in Ids /\ h \in ToSet(pending)
      /\ Tail(pending) \in Seq(Ids) /\ Len(Tail(pending)) = Len(pending) - 1
      /\ Increasing(Tail(pending)) /\ ToSet(Tail(pending)) = ToSet(pending) \ {h}
  BY <1>1, TailFacts
<1>3. /\ state' = [state EXCEPT ![h] = "running"] /\ active' = h
      /\ pending' = Tail(pending) /\ process' = "running" /\ pumpPosted' = FALSE
      /\ UNCHANGED <<order, nextId, paused, stopped, reports>>
  BY DEF PumpStart
<1> HIDE DEF h
<1>4. state[h] = "queued" /\ h # NoJob
  BY <1>2, JobQueueAssumption DEF IInv, NoOrphan, Ids, NoJob
<1>5. TypeOK'
  BY <1>2, <1>3 DEF IInv, TypeOK, States, Phases
<1>6. NoOrphan'
  <2>1. ASSUME NEW i \in Ids
        PROVE  /\ state'[i] = "queued" <=> i \in ToSet(pending')
               /\ state'[i] = "running" <=> i = active'
               /\ state'[i] \in {"queued", "running"} => i \in ToSet(order')
    <3>1. CASE i = h
      BY <3>1, <1>2, <1>3, <1>4 DEF IInv, TypeOK, NoOrphan
    <3>2. CASE i # h
      BY <3>2, <1>1, <1>2, <1>3 DEF IInv, TypeOK, NoOrphan, NoJob, Ids
    <3>3. QED
      BY <3>1, <3>2
  <2>2. ToSet(pending)' = ToSet(pending') /\ ToSet(order)' = ToSet(order')
    BY DEF ToSet
  <2>3. QED
    BY <2>1, <2>2, <1>3, <1>4 DEF NoOrphan
<1>7. ReportedOnce'
  <2> SUFFICES ASSUME NEW i \in Ids
               PROVE  reports[i] = IF state'[i] \in Outcomes \cup {"forgotten"}
                                   THEN 1 ELSE 0
    BY <1>3 DEF ReportedOnce
  <2>1. CASE i = h
    BY <2>1, <1>3, <1>4 DEF IInv, TypeOK, ReportedOnce, Outcomes
  <2>2. CASE i # h
    BY <2>2, <1>3 DEF IInv, TypeOK, ReportedOnce
  <2>3. QED
    BY <2>1, <2>2
<1>8. WakeupPosted'
  BY <1>3, <1>4 DEF WakeupPosted, Runnable
<1>9. Bookkeeping'
  <2>1. ASSUME NEW i \in Ids
        PROVE  /\ state'[i] = "absent" <=> i >= nextId
               /\ i \in ToSet(order) <=> state'[i] \notin {"absent", "forgotten"}
    <3>1. CASE i = h
      BY <3>1, <1>3, <1>4 DEF IInv, TypeOK, Bookkeeping
    <3>2. CASE i # h
      BY <3>2, <1>3 DEF IInv, TypeOK, Bookkeeping
    <3>3. QED
      BY <3>1, <3>2
  <2>2. Len(pending') <= MaxPending
    BY <1>1, <1>2, <1>3, JobQueueAssumption DEF IInv, Bookkeeping
  <2>3. ~stopped' /\ Increasing(pending')
    BY <1>1, <1>2, <1>3
  <2>4. QED
    BY <2>1, <2>2, <2>3, <1>3 DEF IInv, Bookkeeping, ToSet, Increasing
<1>10. QED
  BY <1>5, <1>6, <1>7, <1>8, <1>9 DEF IInv

(***************************************************************************)
(* The handlers that touch neither a record nor a deque.                   *)
(***************************************************************************)
LEMMA QuietStepsInv ==
    IInv /\ (PumpIdle \/ ProcessReaped \/ Pause \/ UNCHANGED vars) => IInv'
<1> SUFFICES ASSUME IInv, PumpIdle \/ ProcessReaped \/ Pause \/ UNCHANGED vars
             PROVE  IInv'
  OBVIOUS
<1> DEFINE Harmless ==
             /\ UNCHANGED <<state, order, pending, active, nextId, stopped, reports>>
             /\ process' \in Phases /\ (process' = "none" <=> process = "none")
             /\ pumpPosted' \in BOOLEAN /\ paused' \in BOOLEAN
             /\ Runnable' => pumpPosted'
<1>1. Harmless
  <2>1. CASE PumpIdle
    BY <2>1 DEF PumpIdle, IInv, TypeOK, Runnable
  <2>2. CASE ProcessReaped
    BY <2>2 DEF ProcessReaped, IInv, TypeOK, WakeupPosted, Runnable, Phases
  <2>3. ASSUME NEW value \in BOOLEAN, SetPaused(value)
        PROVE  Harmless
    <3>1. pumpPosted' \in BOOLEAN /\ (Runnable' => pumpPosted')
      <4>1. CASE value = TRUE
        BY <2>3, <4>1 DEF SetPaused, IInv, TypeOK, Runnable
      <4>2. CASE value = FALSE
        BY <2>3, <4>2 DEF SetPaused
      <4>3. QED
        BY <4>1, <4>2
    <3>2. QED
      BY <2>3, <3>1 DEF SetPaused, IInv, TypeOK
  <2>4. CASE UNCHANGED vars
    BY <2>4 DEF vars, IInv, TypeOK, WakeupPosted, Runnable
  <2>5. QED
    BY <2>1, <2>2, <2>3, <2>4 DEF Pause
<1>2. QED
  BY <1>1 DEF IInv, TypeOK, NoOrphan, ReportedOnce, WakeupPosted, Bookkeeping,
              ToSet, Increasing

LEMMA NextInv == IInv /\ [Next]_vars => IInv'
<1> SUFFICES ASSUME IInv, [Next]_vars PROVE IInv'
  OBVIOUS
<1>1. CASE Submit
  BY <1>1, SubmitInv
<1>2. CASE Cancel
  BY <1>2, CancelActiveInv, CancelQueuedInv DEF Cancel
<1>3. CASE Stop
  BY <1>3, StopInv
<1>4. CASE Pump
  BY <1>4, PumpStartInv, PumpSpawnFailsInv, QuietStepsInv DEF Pump
<1>5. CASE ProcessDone
  BY <1>5, ProcessDoneInv
<1>6. CASE Pause \/ ProcessReaped \/ UNCHANGED vars
  BY <1>6, QuietStepsInv
<1>7. QED
  BY <1>1, <1>2, <1>3, <1>4, <1>5, <1>6 DEF Next

LEMMA Invariance == Spec => []IInv
<1>1. QED
  BY InitInv, NextInv, PTL DEF Spec

(***************************************************************************)
(* The type invariant holds, for every size of the queue.                  *)
(***************************************************************************)
THEOREM TypeCorrect == Spec => []TypeOK
<1>1. IInv => TypeOK
  BY DEF IInv
<1>2. QED
  BY <1>1, Invariance, PTL

(***************************************************************************)
(* No job is orphaned: pending, active and the records always agree.       *)
(***************************************************************************)
THEOREM NoJobOrphaned == Spec => []NoOrphan
<1>1. IInv => NoOrphan
  BY DEF IInv
<1>2. QED
  BY <1>1, Invariance, PTL

(***************************************************************************)
(* The end of every job is reported exactly once.                          *)
(***************************************************************************)
THEOREM EndsReportedOnce == Spec => []ReportedOnce
<1>1. IInv => ReportedOnce
  BY DEF IInv
<1>2. QED
  BY <1>1, Invariance, PTL

(***************************************************************************)
(* The queue never sleeps over a job that it could start.                  *)
(***************************************************************************)
THEOREM NoLostWakeup == Spec => []WakeupPosted
<1>1. IInv => WakeupPosted
  BY DEF IInv
<1>2. QED
  BY <1>1, Invariance, PTL

LEMMA IntervalFacts ==
    ASSUME NEW n \in Nat
    PROVE  IsFiniteSet(1..n) /\ Cardinality(1..n) = n
<1>1. 1 \in Int /\ n \in Int
  OBVIOUS
<1>2. /\ IsFiniteSet(1..n)
      /\ Cardinality(1..n) = IF 1 > n THEN 0 ELSE n - 1 + 1
  BY <1>1, FS_Interval
<1>3. QED
  BY <1>2

(***************************************************************************)
(* A record can always be evicted: if none of the MaxRetained retained     *)
(* jobs had finished, all of them would wait or run, and pending and       *)
(* active together hold too few (pigeonhole).                              *)
(***************************************************************************)
LEMMA RoomFromInv == IInv => RoomForRecords
<1> SUFFICES ASSUME IInv PROVE RoomForRecords
  OBVIOUS
<1>1. Len(pending) <= MaxPending /\ Len(order) <= MaxRetained
  BY DEF IInv, Bookkeeping
<1>2. ASSUME Len(order) = MaxRetained, Evictable = {} PROVE FALSE
  <2> DEFINE slots == 1..Len(order)
             T == ToSet(pending) \cup {active}
  <2>1. /\ order \in Seq(Ids) /\ pending \in Seq(Ids) /\ Ids \subseteq Int
        /\ Len(order) \in Nat /\ Len(pending) \in Nat
    BY DEF IInv, TypeOK, Ids
  <2>2. order \in [slots -> T]
    <3>1. ASSUME NEW k \in slots PROVE order[k] \in T
      <4>1. order[k] \in Ids /\ order[k] \in ToSet(order) /\ ~Finished(order[k])
        BY <1>2, <2>1 DEF Evictable, ToSet
      <4>2. state[order[k]] \in {"queued", "running"}
        BY <4>1 DEF IInv, TypeOK, Bookkeeping, States, Finished
      <4>3. QED
        BY <4>1, <4>2 DEF IInv, NoOrphan
    <3>2. QED
      BY <3>1, <2>1
  <2>3. IsFiniteSet(ToSet(pending)) /\ Cardinality(ToSet(pending)) <= Len(pending)
    <3>1. pending \in Surjection(1..Len(pending), ToSet(pending))
      <4>1. pending \in [1..Len(pending) -> ToSet(pending)]
        BY <2>1 DEF ToSet
      <4>2. QED
        BY <4>1, <2>1 DEF Surjection, ToSet
    <3>2. IsFiniteSet(1..Len(pending)) /\ Cardinality(1..Len(pending)) = Len(pending)
      BY <2>1, IntervalFacts
    <3>3. QED
      BY <3>1, <3>2, FS_Surjection
  <2>4. /\ IsFiniteSet(T) /\ Cardinality(T) \in Nat
        /\ Cardinality(T) <= Cardinality(ToSet(pending)) + 1
    <3>1. IsFiniteSet(T) /\ Cardinality(T) =
            IF active \in ToSet(pending) THEN Cardinality(ToSet(pending))
                                         ELSE Cardinality(ToSet(pending)) + 1
      BY <2>3, FS_AddElement
    <3>2. Cardinality(T) \in Nat /\ Cardinality(ToSet(pending)) \in Nat
      BY <3>1, <2>3, FS_CardinalityType
    <3>3. QED
      BY <3>1, <3>2
  <2>5. IsFiniteSet(slots) /\ Cardinality(slots) = Len(order)
    BY <2>1, IntervalFacts
  <2>6. Cardinality(T) < Cardinality(slots)
    <3>1. Cardinality(ToSet(pending)) \in Nat
      BY <2>3, FS_CardinalityType
    <3>2. QED
      BY <1>1, <1>2, <2>1, <2>3, <2>4, <2>5, <3>1, JobQueueAssumption
  <2> HIDE DEF slots, T
  <2>7. \E k, l \in slots : k # l /\ order[k] = order[l]
    BY <2>2, <2>4, <2>5, <2>6, FS_PigeonHole
  <2>8. PICK k, l \in slots : k < l /\ order[k] = order[l]
    BY <2>7, <2>1 DEF slots
  <2>9. order[k] < order[l]
    BY <2>8 DEF slots, IInv, Bookkeeping, Increasing
  <2>10. order[k] \in Int
    <3>1. order[k] \in Ids
      BY <2>1, <2>8 DEF slots
    <3>2. QED
      BY <3>1, <2>1
  <2>11. QED
    BY <2>8, <2>9, <2>10
<1>3. QED
  BY <1>1, <1>2 DEF RoomForRecords

(***************************************************************************)
(* Both limits hold and no submission is refused for want of retention.    *)
(***************************************************************************)
THEOREM RoomAlways == Spec => []RoomForRecords
<1>1. QED
  BY RoomFromInv, Invariance, PTL

(***************************************************************************)
(* The queue implements its abstract service: every handler is a step of   *)
(* JobService or changes nothing that a client sees.                       *)
(***************************************************************************)
LEMMA InitRefines == Init => Service!ServiceInit
  BY DEF Init, Service!ServiceInit, Service!Ids, Ids

LEMMA SubmitRefines == IInv /\ Submit => Service!ServiceNext
<1> SUFFICES ASSUME IInv, Submit PROVE Service!Accept(nextId)
  BY JobQueueAssumption DEF Submit, IInv, TypeOK, Service!ServiceNext, Service!Ids
<1>1. nextId \in Ids /\ nextId \in Int /\ \A j \in Ids : j \in Int
  BY JobQueueAssumption DEF Submit, IInv, TypeOK, Ids
<1>2. state[nextId] = "absent" /\ state \in [Ids -> States]
  BY <1>1 DEF IInv, TypeOK, Bookkeeping
<1>3. \A j \in 1..(nextId - 1) : state[j] # "absent"
  <2> SUFFICES ASSUME NEW j \in 1..(nextId - 1) PROVE state[j] # "absent"
    OBVIOUS
  <2>1. j \in Ids /\ ~(j >= nextId)
    BY <1>1, JobQueueAssumption DEF Ids
  <2>2. QED
    BY <2>1 DEF IInv, Bookkeeping
<1>4. CASE Accept(order)
  <2>1. state' = [state EXCEPT ![nextId] = "queued"]
    BY <1>2, <1>4 DEF Accept
  <2>2. QED
    BY <2>1, <1>2, <1>3 DEF Submit, Service!Accept
<1>5. ASSUME NEW k \in 1..Len(order), Oldest(k), Accept(RemoveAt(order, k))
      PROVE  Service!Accept(nextId)
  <2> DEFINE j == order[k]
  <2>1. order \in Seq(Ids) /\ Increasing(order) /\ Ids \subseteq Int
    BY <1>1 DEF IInv, TypeOK, Bookkeeping
  <2>2. ToSet(RemoveAt(order, k)) = ToSet(order) \ {j}
    BY <2>1, RemoveAtIncreasing
  <2>3. j \in Ids /\ j \in ToSet(order) /\ state[j] \in Outcomes
    BY <2>1, <1>5 DEF Oldest, Evictable, Finished, ToSet
  <2>4. ToSet(order) \ ToSet(RemoveAt(order, k)) = {j} /\ j # nextId
    BY <2>2, <2>3, <1>2 DEF Outcomes
  <2> HIDE DEF j
  <2>5. state' = [state EXCEPT ![nextId] = "queued", ![j] = "forgotten"]
    BY <2>3, <2>4, <1>1, <1>2, <1>5 DEF Accept
  <2>6. QED
    BY <2>3, <2>5, <1>2, <1>3 DEF Submit, Service!Accept, Service!Ids, Ids,
                                  Service!Outcomes, Outcomes
<1>6. QED
  BY <1>4, <1>5 DEF Submit

LEMMA FinishRefines ==
    ASSUME IInv, NEW i \in Ids, NEW outcome \in Outcomes,
           state[i] = "running" \/ (state[i] = "queued" /\ outcome = "cancelled"),
           Complete({i}, outcome), UNCHANGED stopped
    PROVE  Service!ServiceNext
<1>1. {j \in {i} : ~Finished(j)} = {i}
  BY DEF Finished, Outcomes
<1>2. state' = [state EXCEPT ![i] = outcome]
  BY <1>1 DEF Complete, IInv, TypeOK
<1>3. Service!Finish(i)
  BY <1>2 DEF Service!Finish, Service!Outcomes, Outcomes
<1>4. QED
  BY <1>3 DEF Service!ServiceNext, Service!Ids, Ids

LEMMA StopRefines == IInv /\ Stop => Service!ServiceNext
<1> SUFFICES ASSUME IInv, Stop PROVE Service!Shutdown
  BY DEF Service!ServiceNext
<1> DEFINE jobs == ToSet(pending) \cup ({active} \ {NoJob})
<1>1. Complete(jobs, "cancelled") /\ ~stopped /\ stopped' = TRUE
  BY DEF Stop
<1>2. ASSUME NEW i \in Ids
      PROVE  i \in {j \in jobs : ~Finished(j)} <=> state[i] \in {"queued", "running"}
  BY <1>2, JobQueueAssumption DEF IInv, NoOrphan, Finished, Outcomes, NoJob, Ids
<1> HIDE DEF jobs
<1>3. state' = [i \in Ids |-> IF state[i] \in {"queued", "running"}
                              THEN "cancelled" ELSE state[i]]
  BY <1>1, <1>2 DEF Complete
<1>4. QED
  BY <1>1, <1>3 DEF Service!Shutdown, Service!Unfinished, Service!Ids, Ids

LEMMA PumpRefines == IInv /\ Pump => [Service!ServiceNext]_Service!serviceVars
<1> SUFFICES ASSUME IInv, Pump PROVE [Service!ServiceNext]_Service!serviceVars
  OBVIOUS
<1>1. CASE PumpIdle
  BY <1>1 DEF PumpIdle, Service!serviceVars
<1>2. CASE PumpStart \/ PumpSpawnFails
  <2> DEFINE h == Head(pending)
  <2>1. Runnable /\ UNCHANGED stopped
    BY <1>2 DEF PumpStart, PumpSpawnFails
  <2>2. pending \in Seq(Ids) /\ pending # <<>> /\ Increasing(pending) /\ Ids \subseteq Int
    BY <2>1 DEF Runnable, IInv, TypeOK, Bookkeeping, Ids
  <2>3. h \in Ids /\ h \in ToSet(pending) /\ \A x \in ToSet(pending) : h <= x
    BY <2>2, TailFacts
  <2>4. state[h] = "queued" /\ \A j \in Ids : state[j] = "queued" => h <= j
    BY <2>3 DEF IInv, NoOrphan
  <2>5. \A j \in Ids : state[j] # "running"
    BY <2>1, JobQueueAssumption DEF Runnable, IInv, NoOrphan, NoJob, Ids
  <2> HIDE DEF h
  <2>6. \A j \in 1..(h - 1) : state[j] # "queued"
    <3> SUFFICES ASSUME NEW j \in 1..(h - 1) PROVE state[j] # "queued"
      OBVIOUS
    <3>1. j \in Ids /\ ~(h <= j)
      BY <2>3, JobQueueAssumption DEF Ids
    <3>2. QED
      BY <3>1, <2>4
  <2>7. \E s \in {"running", "failed"} : state' = [state EXCEPT ![h] = s]
    <3>1. CASE PumpStart
      BY <3>1 DEF PumpStart, h
    <3>2. CASE PumpSpawnFails
      <4>1. {j \in {h} : ~Finished(j)} = {h}
        BY <2>4 DEF Finished, Outcomes
      <4>2. Complete({h}, "failed")
        BY <3>2 DEF PumpSpawnFails, h
      <4>3. QED
        BY <4>1, <4>2 DEF Complete, IInv, TypeOK
    <3>3. QED
      BY <1>2, <3>1, <3>2
  <2>8. Service!Start(h)
    BY <2>1, <2>4, <2>5, <2>6, <2>7
       DEF Runnable, Service!Start, Service!Ids, Ids
  <2>9. QED
    BY <2>8, <2>3 DEF Service!ServiceNext, Service!Ids, Ids
<1>3. QED
  BY <1>1, <1>2 DEF Pump

LEMMA NextRefines == IInv /\ [Next]_vars => [Service!ServiceNext]_Service!serviceVars
<1> SUFFICES ASSUME IInv, [Next]_vars
             PROVE  [Service!ServiceNext]_Service!serviceVars
  OBVIOUS
<1>1. CASE Submit
  BY <1>1, SubmitRefines
<1>2. ASSUME NEW i \in Ids, CancelQueued(i) PROVE Service!ServiceNext
  <2>1. state[i] = "queued"
    BY <1>2 DEF CancelQueued, IInv, NoOrphan, TypeOK, ToSet
  <2>2. QED
    BY <1>2, <2>1, FinishRefines DEF CancelQueued, Outcomes
<1>3. active # NoJob => active \in Ids /\ state[active] = "running"
  BY DEF IInv, TypeOK, NoOrphan
<1>4. CASE CancelActive
  <2>1. CASE UNCHANGED <<state, stopped>>
    BY <2>1 DEF Service!serviceVars
  <2>2. CASE Complete({active}, "cancelled") /\ UNCHANGED stopped
    BY <2>2, <1>3, <1>4, FinishRefines DEF CancelActive, Outcomes
  <2>3. QED
    BY <2>1, <2>2, <1>4 DEF CancelActive
<1>5. CASE ProcessDone
  <2>1. PICK outcome \in Ends(process) : Complete({active}, outcome)
    BY <1>5 DEF ProcessDone
  <2>2. outcome \in Outcomes
    BY DEF Ends, Outcomes
  <2>3. UNCHANGED stopped /\ active \in Ids /\ state[active] = "running"
    BY <1>3, <1>5 DEF ProcessDone
  <2>4. ASSUME NEW i \in Ids, state[i] = "running", Complete({i}, outcome)
        PROVE  Service!ServiceNext
    <3>1. state[i] = "running" \/ (state[i] = "queued" /\ outcome = "cancelled")
      BY <2>4
    <3>2. UNCHANGED stopped
      BY <2>3
    <3>3. QED
      BY <3>1, <3>2, <2>2, <2>4, FinishRefines, ZenonT(60)
  <2>5. Service!ServiceNext
    BY <2>1, <2>3, <2>4
  <2>6. QED
    BY <2>5
<1>6. CASE Stop
  BY <1>6, StopRefines
<1>7. CASE Pump
  BY <1>7, PumpRefines
<1>8. CASE Pause \/ ProcessReaped \/ UNCHANGED vars
  BY <1>8 DEF Pause, SetPaused, ProcessReaped, vars, Service!serviceVars
<1>9. QED
  BY <1>1, <1>2, <1>4, <1>5, <1>6, <1>7, <1>8 DEF Next, Cancel

(***************************************************************************)
(* The queue keeps every promise of JobService, whatever its limits.       *)
(***************************************************************************)
THEOREM ServiceImplemented == Spec => Implements
<1>1. QED
  BY InitRefines, NextRefines, Invariance, PTL
     DEF Spec, Implements, Service!ServiceSpec

=============================================================================

-------------------------- MODULE Dispatch_proofs --------------------------
(***************************************************************************)
(* Proofs about Dispatch, and about the worker pool it extends: the types, *)
(* and the reservation count of the device, for every number of requests,  *)
(* adapters, workers and objects, and for every set of faults.             *)
(***************************************************************************)
EXTENDS Dispatch, FiniteSetTheorems, SequenceTheorems, WellFoundedInduction,
        TLAPS

\* A spawn that is past _ensure_aggregator. Its id does not change any more.
Begun == {"poll", "failing", "done"}
Past(w) == spawn[w] \in Begun
Waiting == {w \in Objs : spawn[w] = "aggregator"}

\* What is known of an object from how far its spawn is and its process is.
ObjectsOK ==
  /\ \A w \in Objs : w >= nextObj => spawn[w] = "none" /\ proc[w] = "none"
  /\ \A w \in Objs : spawn[w] # "none" => wid[w] \in Ids
  /\ \A w \in Objs : spawn[w] \in {"aggregator", "poll"} =>
                       owner[w].adapter \in Adapters
  /\ \A p \in Objs : proc[p] \in {"loading", "up", "draining"} =>
                       loaded[p] \in Adapters

\* An entry of the dictionary is a worker with that id; so no worker has two.
DictionaryOK ==
  \A i \in Ids : workers[i] # NoObj => wid[workers[i]] = i /\ Past(workers[i])

\* Stops and health checks are of workers whose id is final.
StopsOK ==
  /\ \A t \in stops : Past(t.w)
  /\ \A w \in Objs : check[w] # "none" => Past(w)

PoolInv ==
  /\ PoolTypeOK
  /\ ObjectsOK
  /\ DictionaryOK
  /\ StopsOK
  /\ gpu_count = Cardinality(Tracked) + Cardinality(Waiting)

\* The rest of TypeOK.
RequestTypeOK ==
  /\ rpc \in [Requests -> RequestPC]
  /\ want \in [Requests -> Adapters]
  /\ rworker \in [Requests -> Objs \union {NoObj}]
  /\ attempt \in [Requests -> {0, 1}]
  /\ server \in [Requests -> Objs \union {NoObj}]
  /\ used \in [Requests -> SUBSET (Adapters \union {NoAdapter})]
  /\ pending \in Seq(Entry)
  /\ scan \in 0 .. Len(pending)
  /\ swaps \subseteq Swap

\* Requests and swaps refer to workers whose id is final, and a request that was
\* given a worker knows which.
ReferencesOK ==
  /\ \A r \in Requests : rworker[r] # NoObj => Past(rworker[r])
  /\ \A r \in Requests : rpc[r] \in {"granted", "sent", "serving"} =>
                           rworker[r] # NoObj
  /\ \A t \in swaps : Past(t.w)
  /\ \A t \in swaps : t.for = "route" =>
                        t.entry \in Entry /\ rworker[t.entry.r] # NoObj
  /\ \A t \in swaps : t.for = "dispatch" => t.entry \in Entry

IInv == PoolInv /\ RequestTypeOK /\ ReferencesOK
----------------------------------------------------------------------------
(* Facts about the pool's operators. *)

\* A set of natural numbers that is not empty has a least element.
LEMMA LeastNatural ==
  ASSUME NEW K, K \subseteq Nat, K # {}
  PROVE  \E k \in K : \A j \in K : k <= j
<1> DEFINE R == {p \in Nat \X Nat : p[1] < p[2]}
<1> HIDE DEF R
<1>1. IsWellFoundedOn(R, Nat)
  BY NatLessThanWellFounded DEF R, OpToRel
<1>2. PICK k \in K : \A j \in K : ~ (<<j, k>> \in R)
  BY <1>1, WFMin
<1>3. ASSUME NEW j \in K
      PROVE  k <= j
  <2>1. k \in Nat /\ j \in Nat /\ <<j, k>> \notin R
    BY <1>2
  <2>2. ~ (j < k)
    BY <2>1 DEF R
  <2>3. QED
    BY <2>1, <2>2
<1>4. QED
  BY <1>3

\* _get_next_worker_id answers with a free id, if there is one.
LEMMA NextIdFree ==
  ASSUME NextId # NoId
  PROVE  NextId \in FreeIds
<1>1. FreeIds # {}
  BY DEF NextId
<1>2. FreeIds \subseteq Nat
  BY PoolConstantsOK DEF FreeIds, Ids
<1>3. \E i \in FreeIds : \A j \in FreeIds : i <= j
  BY <1>1, <1>2, LeastNatural
<1>4. QED
  BY <1>1, <1>3 DEF NextId

LEMMA FiniteObjs == IsFiniteSet(Objs)
  BY PoolConstantsOK, FS_Interval DEF Objs

LEMMA CountsAreNat ==
  ASSUME workers \in [Ids -> Objs \union {NoObj}]
  PROVE  /\ Tracked \subseteq Objs /\ IsFiniteSet(Tracked)
         /\ Cardinality(Tracked) \in Nat
         /\ IsFiniteSet(Waiting) /\ Cardinality(Waiting) \in Nat
<1>1. Tracked \subseteq Objs /\ Waiting \subseteq Objs
  BY DEF Tracked, Waiting
<1>2. QED
  BY <1>1, FiniteObjs, FS_Subset, FS_CardinalityType

\* A worker that is launched gets an id that nobody has.
LEMMA LaunchIdFree ==
  ASSUME PoolInv, NEW w \in Objs, spawn[w] = "aggregator", LaunchId(w) # NoId
  PROVE  LaunchId(w) \in Ids /\ workers[LaunchId(w)] = NoObj
<1>1. wid[w] \in Ids
  BY DEF PoolInv, ObjectsOK
<1>2. CASE workers[wid[w]] = NoObj
  BY <1>1, <1>2 DEF LaunchId
<1>3. CASE workers[wid[w]] # NoObj
  BY <1>3, NextIdFree DEF LaunchId, FreeIds
<1>4. QED
  BY <1>2, <1>3

\* _remove_worker takes at most one worker out and counts it.
LEMMA RemoveCounts ==
  ASSUME PoolInv, NEW i \in Ids, Remove(i)
  PROVE  /\ workers' \in [Ids -> Objs \union {NoObj}]
         /\ registry' \in [Ids -> Adapters \union {NoAdapter}]
         /\ \A j \in Ids : workers'[j] = IF j = i THEN NoObj ELSE workers[j]
         /\ gpu_count' \in Nat
         /\ gpu_count' = Cardinality(Tracked') + Cardinality(Waiting)
<1>1. /\ workers \in [Ids -> Objs \union {NoObj}]
      /\ registry \in [Ids -> Adapters \union {NoAdapter}]
      /\ gpu_count \in Nat
      /\ gpu_count = Cardinality(Tracked) + Cardinality(Waiting)
  BY DEF PoolInv, PoolTypeOK
<1>2. /\ workers' = [workers EXCEPT ![i] = NoObj]
      /\ gpu_count' = IF workers[i] # NoObj /\ gpu_count > 0
                      THEN gpu_count - 1 ELSE gpu_count
      /\ registry' = [registry EXCEPT ![i] = NoAdapter]
  BY DEF Remove
<1>3. NoObj \notin Objs
  BY PoolConstantsOK DEF Objs, NoObj
<1>4. Tracked' = Tracked \ {workers[i]}
  <2>1. \A j \in Ids : j # i => workers[j] = NoObj \/ workers[j] # workers[i]
    BY DEF PoolInv, DictionaryOK
  <2>2. Tracked' = {workers'[j] : j \in Ids} \ {NoObj}
    BY DEF Tracked
  <2>3. QED
    BY <1>1, <1>2, <2>1, <2>2 DEF Tracked
<1>5. /\ IsFiniteSet(Tracked) /\ Cardinality(Tracked) \in Nat
      /\ Cardinality(Waiting) \in Nat
  BY <1>1, CountsAreNat
<1>6. Cardinality(Tracked') = IF workers[i] \in Tracked
                              THEN Cardinality(Tracked) - 1
                              ELSE Cardinality(Tracked)
  BY <1>4, <1>5, FS_RemoveElement
<1>7. workers[i] \in Tracked <=> workers[i] # NoObj
  BY DEF Tracked
<1>8. workers[i] # NoObj => Cardinality(Tracked) # 0
  BY <1>5, <1>7, FS_EmptySet
<1>9. QED
  BY <1>1, <1>2, <1>5, <1>6, <1>7, <1>8
----------------------------------------------------------------------------
(* The steps of the pool. *)

\* What the steps below keep of every object: its id, once it is final.
PastKept == \A w \in Objs : Past(w) => Past(w)'

\* A step that starts, refuses and launches no spawn. It may take a worker out
\* of the dictionary, end a spawn that was launched, and let processes die.
QuietStep ==
  /\ adapter' \in [Objs -> Adapters \union {NoAdapter}]
  /\ status' \in [Objs -> WorkerStatus]
  /\ active' \in [Objs -> Int]
  /\ registry' \in [Ids -> Adapters \union {NoAdapter}]
  /\ check' \in [Objs -> {"none", "begun", "asking", "replied"}]
  /\ \A w \in Objs : check'[w] # "none" => Past(w)
  /\ info' \in [Objs -> Reply \union {NoReply}]
  /\ loaded' \in [Objs -> Adapters \union {NoAdapter}]
  /\ \A p \in Objs : loaded[p] \in Adapters => loaded'[p] \in Adapters
  /\ mixed' \subseteq Objs
  /\ proc' \in [Objs -> ProcState]
  /\ \A p \in Objs : proc'[p] \in {"loading", "up", "draining"} =>
                       proc[p] \in {"loading", "up", "draining"}
  /\ \A p \in Objs : proc'[p] # "none" => proc[p] # "none" \/ Past(p)
  /\ spawn' \in [Objs -> SpawnPhase]
  /\ \A w \in Objs : spawn'[w] = spawn[w]
                       \/ (spawn[w] \in Begun /\ spawn'[w] \in {"failing", "done"})
  /\ stops' \subseteq Stop
  /\ \A t \in stops' : Past(t.w)
  /\ \/ UNCHANGED <<workers, gpu_count>>
     \/ \E i \in Ids : Remove(i)
  /\ UNCHANGED <<wid, owner, nextObj>>

LEMMA QuietKeeps ==
  ASSUME PoolInv, QuietStep
  PROVE  PoolInv' /\ PastKept
<1>1. PastKept
  BY DEF QuietStep, PastKept, Past, Begun
<1>2. /\ workers' \in [Ids -> Objs \union {NoObj}]
      /\ \A j \in Ids : workers'[j] \in {workers[j], NoObj}
      /\ gpu_count' \in Nat
      /\ gpu_count' = Cardinality(Tracked') + Cardinality(Waiting)
  <2>1. CASE UNCHANGED <<workers, gpu_count>>
    <3>1. Tracked' = Tracked
      BY <2>1 DEF Tracked
    <3>2. QED
      BY <2>1, <3>1 DEF PoolInv, PoolTypeOK
  <2>2. CASE \E i \in Ids : Remove(i)
    BY <2>2, RemoveCounts
  <2>3. QED
    BY <2>1, <2>2 DEF QuietStep
<1>3. Waiting' = Waiting
  BY DEF QuietStep, Waiting, Begun
<1>4. PoolTypeOK'
  BY <1>2 DEF PoolInv, PoolTypeOK, QuietStep
<1>5. ObjectsOK'
  <2>1. \A w \in Objs : w >= nextObj => ~Past(w)
    BY DEF PoolInv, ObjectsOK, Past, Begun
  <2>2. QED
    BY <2>1 DEF PoolInv, ObjectsOK, QuietStep, Begun
<1>6. DictionaryOK'
  <2>1. \A i \in Ids : workers[i] # NoObj => workers[i] \in Objs
    BY DEF PoolInv, PoolTypeOK
  <2>2. QED
    BY <1>1, <1>2, <2>1 DEF PoolInv, DictionaryOK, QuietStep, PastKept
<1>7. StopsOK'
  <2>1. \A t \in stops' : t.w \in Objs
    BY DEF QuietStep, Stop
  <2>2. QED
    BY <1>1, <2>1 DEF StopsOK, QuietStep, PastKept
<1>8. QED
  BY <1>1, <1>2, <1>3, <1>4, <1>5, <1>6, <1>7 DEF PoolInv

\* spawn_worker reserves the device for one more worker, which is not in the
\* dictionary yet.
LEMMA StartKeeps ==
  ASSUME PoolInv, NEW a \in Adapters, NEW who \in Requests \union {"dispatch", "grow"},
         StartSpawn(a, who),
         adapter' \in [Objs -> Adapters \union {NoAdapter}],
         status' \in [Objs -> WorkerStatus],
         active' \in [Objs -> Int],
         registry' \in [Ids -> Adapters \union {NoAdapter}],
         UNCHANGED <<workers, stops, checks, processes>>
  PROVE  PoolInv' /\ PastKept
<1>1. /\ nextObj \in Objs /\ nextObj' = nextObj + 1
      /\ nextObj' \in 1 .. MaxObjs + 1
  BY PoolConstantsOK DEF PoolInv, PoolTypeOK, StartSpawn, CanSpawn, Objs
<1>2. NextId \in Ids
  BY NextIdFree DEF StartSpawn, CanSpawn, FreeIds
<1>3. spawn[nextObj] = "none" /\ proc[nextObj] = "none"
  BY <1>1 DEF PoolInv, ObjectsOK, Objs
<1>4. /\ wid' = [wid EXCEPT ![nextObj] = NextId]
      /\ owner' = [owner EXCEPT ![nextObj] = [by |-> who, adapter |-> a]]
      /\ spawn' = [spawn EXCEPT ![nextObj] = "aggregator"]
      /\ gpu_count' = gpu_count + 1
      /\ UNCHANGED <<workers, stops, check, info, proc, loaded, mixed>>
  BY DEF StartSpawn, checks, processes
<1>5. PastKept
  BY <1>3, <1>4 DEF PoolInv, PoolTypeOK, PastKept, Past, Begun
<1>6. PoolTypeOK'
  <2>1. [by |-> who, adapter |-> a] \in Owners
    BY DEF Owners
  <2>2. "aggregator" \in SpawnPhase
    BY DEF SpawnPhase
  <2>3. QED
    BY <1>1, <1>2, <1>4, <2>1, <2>2 DEF PoolInv, PoolTypeOK
<1>7. ObjectsOK'
  <2>1. ASSUME NEW w \in Objs
        PROVE  /\ w >= nextObj' => w > nextObj /\ w # nextObj
               /\ w # nextObj => wid'[w] = wid[w] /\ spawn'[w] = spawn[w]
                                   /\ owner'[w] = owner[w]
               /\ wid'[nextObj] = NextId
               /\ owner'[nextObj].adapter = a
    BY <1>1, <1>4 DEF PoolInv, PoolTypeOK, Objs
  <2>2. \A w \in Objs : w > nextObj => w >= nextObj
    BY <1>1 DEF Objs
  <2>3. QED
    BY <1>1, <1>2, <1>3, <1>4, <2>1, <2>2 DEF PoolInv, ObjectsOK
<1>8. DictionaryOK'
  <2>1. \A i \in Ids : workers[i] # NoObj => workers[i] \in Objs /\ workers[i] # nextObj
    BY <1>3 DEF PoolInv, PoolTypeOK, DictionaryOK, Past, Begun
  <2>2. QED
    BY <1>1, <1>4, <1>5, <2>1 DEF PoolInv, PoolTypeOK, DictionaryOK, PastKept
<1>9. StopsOK'
  <2>1. \A t \in stops : t.w \in Objs
    BY DEF PoolInv, PoolTypeOK, Stop
  <2>2. QED
    BY <1>4, <1>5, <2>1 DEF PoolInv, StopsOK, PastKept
<1>10. gpu_count' = Cardinality(Tracked') + Cardinality(Waiting')
  <2>1. Tracked' = Tracked
    BY <1>4 DEF Tracked
  <2>2. Waiting' = Waiting \union {nextObj} /\ nextObj \notin Waiting
    BY <1>1, <1>3, <1>4 DEF Waiting, PoolInv, PoolTypeOK
  <2>3. /\ IsFiniteSet(Waiting) /\ Cardinality(Waiting) \in Nat
        /\ Cardinality(Tracked) \in Nat
    BY CountsAreNat DEF PoolInv, PoolTypeOK
  <2>4. Cardinality(Waiting') = Cardinality(Waiting) + 1
    BY <2>2, <2>3, FS_AddElement
  <2>5. QED
    BY <1>4, <2>1, <2>3, <2>4 DEF PoolInv
<1>11. QED
  BY <1>5, <1>6, <1>7, <1>8, <1>9, <1>10 DEF PoolInv

\* A spawn that gets no aggregator, or no id, gives the device back.
LEMMA RefusedKeeps ==
  ASSUME PoolInv, NEW w \in Objs, SpawnRefused(w)
  PROVE  PoolInv' /\ PastKept
<1>1. /\ spawn[w] = "aggregator"
      /\ spawn' = [spawn EXCEPT ![w] = "done"]
      /\ gpu_count' = gpu_count - 1
      /\ UNCHANGED <<wid, adapter, status, active, workers, registry, owner,
                     nextObj, stops, check, info, proc, loaded, mixed>>
  BY DEF SpawnRefused, fields, checks, processes
<1>2. PastKept
  BY <1>1 DEF PoolInv, PoolTypeOK, PastKept, Past, Begun
<1>3. /\ gpu_count' \in Nat
      /\ gpu_count' = Cardinality(Tracked') + Cardinality(Waiting')
  <2>1. Tracked' = Tracked
    BY <1>1 DEF Tracked
  <2>2. Waiting' = Waiting \ {w} /\ w \in Waiting
    BY <1>1 DEF Waiting, PoolInv, PoolTypeOK
  <2>3. /\ IsFiniteSet(Waiting) /\ Cardinality(Waiting) \in Nat
        /\ Cardinality(Tracked) \in Nat
    BY CountsAreNat DEF PoolInv, PoolTypeOK
  <2>4. Cardinality(Waiting') = Cardinality(Waiting) - 1
    BY <2>2, <2>3, FS_RemoveElement
  <2>5. Cardinality(Waiting) # 0
    BY <2>2, <2>3, FS_EmptySet
  <2>6. QED
    BY <1>1, <2>1, <2>3, <2>4, <2>5 DEF PoolInv
<1>4. PoolTypeOK'
  <2>1. "done" \in SpawnPhase
    BY DEF SpawnPhase
  <2>2. QED
    BY <1>1, <1>3, <2>1 DEF PoolInv, PoolTypeOK
<1>5. ObjectsOK'
  BY <1>1 DEF PoolInv, PoolTypeOK, ObjectsOK
<1>6. DictionaryOK'
  BY <1>1, <1>2 DEF PoolInv, PoolTypeOK, DictionaryOK, PastKept
<1>7. StopsOK'
  <2>1. \A t \in stops : t.w \in Objs
    BY DEF PoolInv, PoolTypeOK, Stop
  <2>2. QED
    BY <1>1, <1>2, <2>1 DEF PoolInv, StopsOK, PastKept
<1>8. QED
  BY <1>2, <1>3, <1>4, <1>5, <1>6, <1>7 DEF PoolInv

\* A launch, with or without a twin, puts one worker into the dictionary, and it
\* is the one whose reservation ends.
LEMMA LaunchKeeps ==
  ASSUME PoolInv, NEW w \in Objs, NEW P, w \in P, P \subseteq {w, nextObj},
         LaunchAs(w, P), nextObj' \in 1 .. MaxObjs + 1, nextObj <= nextObj',
         \A p \in P : p < nextObj'
  PROVE  PoolInv' /\ PastKept
<1> DEFINE i == LaunchId(w)
<1>1. i # NoId /\ spawn[w] = "aggregator"
  BY DEF LaunchAs
<1>2. /\ wid' = [p \in Objs |-> IF p \in P THEN i ELSE wid[p]]
      /\ workers' = [workers EXCEPT ![i] = w]
      /\ adapter' = [adapter EXCEPT ![w] = owner[w].adapter]
      /\ loaded' = [p \in Objs |-> IF p \in P THEN owner[w].adapter ELSE loaded[p]]
      /\ proc' = [p \in Objs |-> IF p \in P THEN "loading" ELSE proc[p]]
      /\ status' = [status EXCEPT ![w] = "starting"]
      /\ spawn' = [spawn EXCEPT ![w] = "poll"]
      /\ UNCHANGED <<active, registry, gpu_count, owner, stops, check, info, mixed>>
  BY DEF LaunchAs, checks
<1>3. i \in Ids /\ workers[i] = NoObj
  BY <1>1, LaunchIdFree
<1> HIDE DEF i
<1>4. owner[w].adapter \in Adapters
  BY <1>1 DEF PoolInv, ObjectsOK
<1>5. nextObj \in Objs => spawn[nextObj] = "none"
  BY DEF PoolInv, ObjectsOK, Objs
<1>6. nextObj \in Nat /\ nextObj' \in Nat /\ nextObj <= nextObj'
  BY PoolConstantsOK DEF PoolInv, PoolTypeOK
<1>7. PastKept
  BY <1>1, <1>2 DEF PoolInv, PoolTypeOK, PastKept, Past, Begun
<1>8. PoolTypeOK'
  <2>1. wid' \in [Objs -> Ids \union {NoId}]
    BY <1>2, <1>3 DEF PoolInv, PoolTypeOK
  <2>2. proc' \in [Objs -> ProcState]
    BY <1>2 DEF PoolInv, PoolTypeOK, ProcState
  <2>3. spawn' \in [Objs -> SpawnPhase]
    BY <1>2 DEF PoolInv, PoolTypeOK, SpawnPhase
  <2>4. status' \in [Objs -> WorkerStatus]
    BY <1>2 DEF PoolInv, PoolTypeOK, WorkerStatus
  <2>5. QED
    BY <1>2, <1>3, <1>4, <2>1, <2>2, <2>3, <2>4 DEF PoolInv, PoolTypeOK
<1>9. ObjectsOK'
  <2>1. \A v \in Objs : v >= nextObj' => v \notin P /\ v >= nextObj /\ v # w
    BY <1>6 DEF Objs
  <2>2. \A v \in Objs : spawn'[v] = IF v = w THEN "poll" ELSE spawn[v]
    BY <1>2 DEF PoolInv, PoolTypeOK
  <2>3. QED
    BY <1>2, <1>3, <1>4, <2>1, <2>2 DEF PoolInv, ObjectsOK
<1>10. DictionaryOK'
  <2>1. \A j \in Ids : workers[j] # NoObj => workers[j] \in Objs /\ workers[j] \notin P
    BY <1>1, <1>5 DEF PoolInv, PoolTypeOK, DictionaryOK, Past, Begun
  <2>2. \A j \in Ids : workers'[j] = IF j = i THEN w ELSE workers[j]
    BY <1>2 DEF PoolInv, PoolTypeOK
  <2>3. Past(w)' /\ wid'[w] = i
    BY <1>2 DEF PoolInv, PoolTypeOK, Past, Begun
  <2>4. \A j \in Ids : j # i /\ workers[j] # NoObj =>
          wid'[workers[j]] = j /\ Past(workers[j])'
    BY <1>2, <1>7, <2>1 DEF PoolInv, DictionaryOK, PastKept
  <2>5. ASSUME NEW j \in Ids, workers'[j] # NoObj
        PROVE  wid'[workers'[j]] = j /\ Past(workers[j])'
    <3>1. CASE j = i
      BY <2>2, <2>3, <3>1 DEF Past
    <3>2. CASE j # i
      BY <2>2, <2>4, <2>5, <3>2 DEF Past
    <3>3. QED
      BY <3>1, <3>2
  <2>6. QED
    BY <2>5 DEF DictionaryOK
<1>11. StopsOK'
  <2>1. \A t \in stops : t.w \in Objs
    BY DEF PoolInv, PoolTypeOK, Stop
  <2>2. QED
    BY <1>2, <1>7, <2>1 DEF PoolInv, StopsOK, PastKept
<1>12. gpu_count' = Cardinality(Tracked') + Cardinality(Waiting')
  <2>1. Tracked' = Tracked \union {w} /\ w \notin Tracked
    <3>1. w \notin Tracked
      BY <1>1 DEF PoolInv, DictionaryOK, Tracked, Past, Begun
    <3>2. NoObj \notin Objs
      BY PoolConstantsOK DEF Objs, NoObj
    <3>3. \A j \in Ids : workers'[j] = IF j = i THEN w ELSE workers[j]
      BY <1>2 DEF PoolInv, PoolTypeOK
    <3>4. Tracked' = {workers'[j] : j \in Ids} \ {NoObj}
      BY DEF Tracked
    <3>5. QED
      BY <1>3, <3>1, <3>2, <3>3, <3>4 DEF Tracked
  <2>2. Waiting' = Waiting \ {w} /\ w \in Waiting
    BY <1>1, <1>2 DEF Waiting, PoolInv, PoolTypeOK
  <2>3. /\ IsFiniteSet(Waiting) /\ Cardinality(Waiting) \in Nat
        /\ IsFiniteSet(Tracked) /\ Cardinality(Tracked) \in Nat
    BY CountsAreNat DEF PoolInv, PoolTypeOK
  <2>4. Cardinality(Waiting') = Cardinality(Waiting) - 1
    BY <2>2, <2>3, FS_RemoveElement
  <2>5. Cardinality(Tracked') = Cardinality(Tracked) + 1
    BY <2>1, <2>3, FS_AddElement
  <2>6. QED
    BY <1>2, <2>3, <2>4, <2>5 DEF PoolInv
<1>13. QED
  BY <1>7, <1>8, <1>9, <1>10, <1>11, <1>12 DEF PoolInv
----------------------------------------------------------------------------
(* The steps of Dispatch: what they need of the queue, and references. *)

LEMMA NoObjIsNone == NoObj \notin Objs
  BY DEF Objs, NoObj

LEMMA TrackedPast ==
  ASSUME PoolInv, NEW w \in Tracked
  PROVE  w \in Objs /\ Past(w) /\ wid[w] \in Ids
  BY DEF PoolInv, PoolTypeOK, DictionaryOK, Tracked

LEMMA FreePast ==
  ASSUME PoolInv, NEW w \in Free
  PROVE  w \in Objs /\ Past(w) /\ wid[w] \in Ids
  BY TrackedPast DEF Free

LEMMA PastHasId ==
  ASSUME PoolInv, NEW w \in Objs, Past(w)
  PROVE  wid[w] \in Ids
  BY DEF PoolInv, ObjectsOK, Past, Begun

\* References stay good when new ones are made to workers whose id is final.
LEMMA ReferencesKept ==
  ASSUME RequestTypeOK, ReferencesOK, PastKept, RequestTypeOK',
         \A r \in Requests :
           \/ rworker'[r] = rworker[r]
           \/ rworker'[r] \in Objs /\ Past(rworker'[r]),
         \A r \in Requests :
           rpc'[r] \in {"granted", "sent", "serving"} =>
             \/ rpc[r] \in {"granted", "sent", "serving"}
             \/ rworker'[r] # NoObj,
         \A t \in swaps' :
           \/ t \in swaps
           \/ /\ t \in Swap /\ Past(t.w)
              /\ t.for = "route" =>
                   t.entry \in Entry /\ rworker'[t.entry.r] # NoObj
              /\ t.for = "dispatch" => t.entry \in Entry
  PROVE  ReferencesOK'
<1>1. \A r \in Requests : rworker[r] # NoObj => rworker'[r] # NoObj
  BY NoObjIsNone
<1>2. \A r \in Requests : rworker'[r] # NoObj => spawn'[rworker'[r]] \in Begun
  <2>1. \A r \in Requests : rworker[r] # NoObj => rworker[r] \in Objs
    BY DEF RequestTypeOK
  <2>2. QED
    BY <2>1 DEF ReferencesOK, PastKept, Past
<1>3. \A r \in Requests : rpc'[r] \in {"granted", "sent", "serving"} =>
                            rworker'[r] # NoObj
  BY <1>1 DEF ReferencesOK
<1>4. \A t \in swaps' : Past(t.w)'
  <2>1. \A t \in swaps' : t.w \in Objs
    BY DEF RequestTypeOK, Swap
  <2>2. QED
    BY <2>1 DEF ReferencesOK, PastKept
<1>5. \A t \in swaps' : t.for = "route" =>
                          t.entry \in Entry /\ rworker'[t.entry.r] # NoObj
  BY <1>1 DEF ReferencesOK, Entry
<1>6. \A t \in swaps' : t.for = "dispatch" => t.entry \in Entry
  BY DEF ReferencesOK
<1>7. QED
  BY <1>2, <1>3, <1>4, <1>5, <1>6 DEF ReferencesOK, Past

\* The entries of the queue, and what the dispatcher does with it.
LEMMA EntryAt ==
  ASSUME RequestTypeOK, NEW k \in 1 .. Len(pending)
  PROVE  pending[k] \in Entry /\ pending[k].r \in Requests
<1>1. pending \in Seq(Entry)
  BY DEF RequestTypeOK
<1>2. pending[k] \in Entry
  BY <1>1, ElementOfSeq
<1>3. QED
  BY <1>2 DEF Entry

LEMMA CurrentIsEntry ==
  ASSUME RequestTypeOK, scan > 0
  PROVE  Current \in Entry /\ Current.r \in Requests
<1>1. scan \in 1 .. Len(pending)
  BY LenProperties DEF RequestTypeOK
<1>2. QED
  BY <1>1, EntryAt DEF Current

LEMMA DropTyped ==
  ASSUME RequestTypeOK, scan > 0, Drop
  PROVE  pending' \in Seq(Entry) /\ scan' \in 0 .. Len(pending')
<1>1. /\ Len(pending) \in Nat /\ scan \in 1 .. Len(pending)
      /\ pending \in Seq(Entry)
      /\ \A i \in 1 .. Len(pending) : pending[i] \in Entry
  BY LenProperties, ElementOfSeq DEF RequestTypeOK
<1> DEFINE before == SubSeq(pending, 1, scan - 1)
           after == SubSeq(pending, scan + 1, Len(pending))
<1>2. before \in Seq(Entry) /\ Len(before) = scan - 1
  BY <1>1, SubSeqProperties
<1>3. after \in Seq(Entry) /\ Len(after) = Len(pending) - scan
  BY <1>1, SubSeqProperties
<1>4. /\ pending' = before \o after
      /\ scan' = IF scan = Len(pending) THEN 0 ELSE scan
  BY DEF Drop
<1> HIDE DEF before, after
<1>5. /\ before \o after \in Seq(Entry)
      /\ Len(before \o after) = Len(before) + Len(after)
  BY <1>2, <1>3, ConcatProperties
<1>6. Len(pending') = Len(pending) - 1
  BY <1>1, <1>2, <1>3, <1>4, <1>5
<1>7. QED
  BY <1>1, <1>4, <1>5, <1>6

LEMMA KeepTyped ==
  ASSUME RequestTypeOK, scan > 0, Keep
  PROVE  pending' \in Seq(Entry) /\ scan' \in 0 .. Len(pending')
<1>1. Len(pending) \in Nat /\ scan \in 1 .. Len(pending)
  BY LenProperties DEF RequestTypeOK
<1>2. QED
  BY <1>1 DEF Keep, RequestTypeOK

LEMMA EnqueueTyped ==
  ASSUME RequestTypeOK, NEW e \in Entry
  PROVE  /\ Append(pending, e) \in Seq(Entry)
         /\ scan \in 0 .. Len(Append(pending, e))
<1>1. /\ Append(pending, e) \in Seq(Entry)
      /\ Len(Append(pending, e)) = Len(pending) + 1
      /\ Len(pending) \in Nat
  BY AppendProperties, LenProperties DEF RequestTypeOK
<1>2. QED
  BY <1>1 DEF RequestTypeOK

\* A swap that goes on is the same swap in another phase.
LEMMA PhaseTyped ==
  ASSUME RequestTypeOK, NEW t \in swaps, NEW phase \in {"created", "posted", "ok", "failed"}
  PROVE  LET u == [t EXCEPT !.phase = phase]
         IN  /\ u \in Swap
             /\ u.w = t.w /\ u.for = t.for /\ u.entry = t.entry /\ u.to = t.to
             /\ u.phase = phase
  BY DEF RequestTypeOK, Swap

\* The entry the spawner picks is one of the candidates.
LEMMA FirstIsCandidate ==
  ASSUME RequestTypeOK, NEW w, Candidates(w) # {}
  PROVE  First(Candidates(w)) \in Candidates(w)
<1>1. Candidates(w) \subseteq Nat
  BY DEF Candidates
<1>2. \E k \in Candidates(w) : \A j \in Candidates(w) : k <= j
  BY <1>1, LeastNatural
<1>3. QED
  BY <1>2 DEF First
----------------------------------------------------------------------------
(* Each action keeps the invariant of the pool. *)

LEMMA PoolSame ==
  ASSUME PoolInv, UNCHANGED poolVars
  PROVE  PoolInv' /\ PastKept
<1>1. QuietStep
  BY DEF QuietStep, PoolInv, PoolTypeOK, StopsOK, poolVars, fields, pool,
         spawning, checks, processes
<1>2. QED
  BY <1>1, QuietKeeps

\* A step that changes what is known of a worker, and nothing else of the pool.
LEMMA FieldsKeep ==
  ASSUME PoolInv,
         adapter' \in [Objs -> Adapters \union {NoAdapter}],
         status' \in [Objs -> WorkerStatus],
         active' \in [Objs -> Int],
         registry' \in [Ids -> Adapters \union {NoAdapter}],
         UNCHANGED <<wid, workers, gpu_count, spawning, stops, checks, processes>>
  PROVE  PoolInv' /\ PastKept
<1>1. QuietStep
  BY DEF QuietStep, PoolInv, PoolTypeOK, StopsOK, spawning, checks, processes
<1>2. QED
  BY <1>1, QuietKeeps

\* Counters and states are changed at one worker.
LEMMA CountersTyped ==
  ASSUME PoolInv
  PROVE  /\ \A w, n : n \in Int => [active EXCEPT ![w] = n] \in [Objs -> Int]
         /\ \A w : [active EXCEPT ![w] = @ + 1] \in [Objs -> Int]
         /\ \A w : [active EXCEPT ![w] = @ - 1] \in [Objs -> Int]
         /\ \A w, s : s \in WorkerStatus =>
              [status EXCEPT ![w] = s] \in [Objs -> WorkerStatus]
         /\ \A w : [status EXCEPT ![w] = IF @ = "unhealthy" THEN "ready" ELSE @]
                     \in [Objs -> WorkerStatus]
         /\ \A w, a : a \in Adapters \union {NoAdapter} =>
              /\ [adapter EXCEPT ![w] = a] \in [Objs -> Adapters \union {NoAdapter}]
              /\ [registry EXCEPT ![w] = a] \in [Ids -> Adapters \union {NoAdapter}]
<1>1. /\ active \in [Objs -> Int]
      /\ status \in [Objs -> WorkerStatus]
      /\ adapter \in [Objs -> Adapters \union {NoAdapter}]
      /\ registry \in [Ids -> Adapters \union {NoAdapter}]
  BY DEF PoolInv, PoolTypeOK
<1>2. \A w, n : n \in Int => [active EXCEPT ![w] = n] \in [Objs -> Int]
  BY <1>1
<1>3. \A w \in Objs : active[w] + 1 \in Int /\ active[w] - 1 \in Int
  BY <1>1
<1>4. ASSUME NEW w
      PROVE  /\ [active EXCEPT ![w] = @ + 1] \in [Objs -> Int]
             /\ [active EXCEPT ![w] = @ - 1] \in [Objs -> Int]
  BY <1>1, <1>3
<1>5. ASSUME NEW w
      PROVE  [status EXCEPT ![w] = IF @ = "unhealthy" THEN "ready" ELSE @]
               \in [Objs -> WorkerStatus]
  BY <1>1 DEF WorkerStatus
<1>6. \A w, s : s \in WorkerStatus =>
        [status EXCEPT ![w] = s] \in [Objs -> WorkerStatus]
  BY <1>1
<1>7. \A w, a : a \in Adapters \union {NoAdapter} =>
        /\ [adapter EXCEPT ![w] = a] \in [Objs -> Adapters \union {NoAdapter}]
        /\ [registry EXCEPT ![w] = a] \in [Ids -> Adapters \union {NoAdapter}]
  BY <1>1
<1>8. QED
  BY <1>2, <1>4, <1>5, <1>6, <1>7

LEMMA RouteSwapPool ==
  ASSUME PoolInv, NEW r \in Requests, RouteMatch(r) \/ RouteSwap(r)
  PROVE  PoolInv' /\ PastKept
<1>1. /\ \E w : Reserve(w)
      /\ status' = status \/ \E w : status' = [status EXCEPT ![w] = "swapping"]
      /\ UNCHANGED <<wid, adapter, registry, workers, gpu_count, spawning,
                     stops, checks, processes>>
  BY DEF RouteMatch, RouteSwap, pool
<1>2. "swapping" \in WorkerStatus
  BY DEF WorkerStatus
<1>3. active' \in [Objs -> Int] /\ status' \in [Objs -> WorkerStatus]
  BY <1>1, <1>2, CountersTyped DEF Reserve, PoolInv, PoolTypeOK
<1>4. QED
  BY <1>1, <1>3, FieldsKeep DEF PoolInv, PoolTypeOK

LEMMA CallSpawnPool ==
  ASSUME PoolInv, RequestTypeOK, NEW r \in Requests, NEW pc, CallSpawn(r, pc),
         UNCHANGED <<stops, checks, processes>>
  PROVE  PoolInv' /\ PastKept
<1>1. CASE CanSpawn
  <2>1. /\ StartSpawn(want[r], r)
        /\ UNCHANGED <<adapter, status, active, workers, registry>>
    BY <1>1 DEF CallSpawn
  <2>2. want[r] \in Adapters
    BY DEF RequestTypeOK
  <2>3. QED
    BY <2>1, <2>2, StartKeeps DEF PoolInv, PoolTypeOK
<1>2. CASE ~CanSpawn
  BY <1>2, PoolSame DEF CallSpawn, poolVars
<1>3. QED
  BY <1>1, <1>2

LEMMA TakeGrantPool ==
  ASSUME PoolInv, RequestTypeOK, ReferencesOK, NEW r \in Requests, TakeGrant(r)
  PROVE  PoolInv' /\ PastKept
<1>1. rworker[r] \in Objs
  BY DEF TakeGrant, RequestTypeOK, ReferencesOK
<1>2. active[rworker[r]] + attempt[r] \in Int
  <2>1. active[rworker[r]] \in Int /\ attempt[r] \in {0, 1}
    BY <1>1 DEF PoolInv, PoolTypeOK, RequestTypeOK
  <2>2. QED
    BY <2>1
<1>3. /\ \E n \in Int : active' = [active EXCEPT ![rworker[r]] = n]
      /\ UNCHANGED <<wid, adapter, status, registry, workers, gpu_count,
                     spawning, stops, checks, processes>>
  BY <1>2 DEF TakeGrant, pool
<1>4. QED
  BY <1>3, CountersTyped, FieldsKeep DEF PoolInv, PoolTypeOK

LEMMA GiveBackTyped ==
  ASSUME PoolInv, NEW r \in Requests, GiveBack(r)
  PROVE  active' \in [Objs -> Int] /\ status' \in [Objs -> WorkerStatus]
  BY CountersTyped DEF GiveBack, Unreserve

LEMMA GiveBackPool ==
  ASSUME PoolInv, RequestTypeOK, ReferencesOK, NEW r \in Requests,
         Reject(r) \/ Refused(r) \/ FinishServing(r)
  PROVE  PoolInv' /\ PastKept
<1>1. active' \in [Objs -> Int] /\ status' \in [Objs -> WorkerStatus]
  BY GiveBackTyped DEF Reject, Refused, FinishServing
<1>2. CASE ~(Refused(r) /\ attempt[r] = 0)
  <2>1. UNCHANGED <<wid, adapter, registry, workers, gpu_count, spawning, stops,
                    checks, processes>>
    BY <1>2 DEF Reject, Refused, FinishServing, pool
  <2>2. QED
    BY <1>1, <2>1, FieldsKeep DEF PoolInv, PoolTypeOK
<1>3. CASE Refused(r) /\ attempt[r] = 0
  <2>1. /\ Remove(wid[rworker[r]])
        /\ UNCHANGED <<wid, adapter, spawn, owner, nextObj, stops, check, info,
                       proc, loaded, mixed>>
    BY <1>3 DEF Refused, spawning, checks, processes
  <2>2. wid[rworker[r]] \in Ids
    BY <1>3, PastHasId DEF Refused, RequestTypeOK, ReferencesOK
  <2>3. registry' \in [Ids -> Adapters \union {NoAdapter}]
    BY <2>1, <2>2, RemoveCounts
  <2>4. QuietStep
    BY <1>1, <2>1, <2>2, <2>3 DEF QuietStep, PoolInv, PoolTypeOK, StopsOK
  <2>5. QED
    BY <2>4, QuietKeeps
<1>4. QED
  BY <1>2, <1>3

LEMMA DispatchPool ==
  ASSUME PoolInv, RequestTypeOK,
         \/ DispatchMatch \/ DispatchSwap \/ DispatchSpawn
         \/ \E a \in Adapters : SpawnAhead(a)
  PROVE  PoolInv' /\ PastKept
<1>1. CASE DispatchMatch \/ DispatchSwap
  <2>1. /\ \E w : Reserve(w)
        /\ UNCHANGED <<wid, adapter, status, registry, workers, gpu_count,
                       spawning, stops, checks, processes>>
    BY <1>1 DEF DispatchMatch, DispatchSwap, pool
  <2>2. active' \in [Objs -> Int]
    BY <2>1, CountersTyped DEF Reserve
  <2>3. QED
    BY <2>1, <2>2, FieldsKeep DEF PoolInv, PoolTypeOK
<1>2. CASE DispatchSpawn /\ CanSpawn
  <2>1. /\ StartSpawn(want[Current.r], "dispatch")
        /\ UNCHANGED <<adapter, status, active, workers, registry, stops,
                       checks, processes>>
    BY <1>2 DEF DispatchSpawn
  <2>2. want[Current.r] \in Adapters
    BY <1>2, CurrentIsEntry DEF DispatchSpawn, RequestTypeOK
  <2>3. QED
    BY <2>1, <2>2, StartKeeps DEF PoolInv, PoolTypeOK
<1>3. CASE DispatchSpawn /\ ~CanSpawn
  BY <1>3, PoolSame DEF DispatchSpawn, poolVars
<1>4. CASE \E a \in Adapters : SpawnAhead(a)
  <2>1. PICK a \in Adapters :
          /\ StartSpawn(a, "dispatch")
          /\ UNCHANGED <<adapter, status, active, workers, registry, stops,
                         checks, processes>>
    BY <1>4 DEF SpawnAhead
  <2>2. QED
    BY <2>1, StartKeeps DEF PoolInv, PoolTypeOK
<1>5. QED
  BY <1>1, <1>2, <1>3, <1>4

\* The ends of a spawn.
LEMMA SpawnReadyPool ==
  ASSUME PoolInv, NEW w \in Objs, SpawnReady(w)
  PROVE  PoolInv' /\ PastKept
<1>1. /\ spawn[w] = "poll"
      /\ spawn' = [spawn EXCEPT ![w] = "done"]
      /\ status' = [status EXCEPT ![w] = "ready"]
      /\ registry' = [registry EXCEPT ![wid[w]] = owner[w].adapter]
  BY DEF SpawnReady, BecomeReady
<1>2. UNCHANGED <<wid, adapter, workers, gpu_count, owner, nextObj, stops,
                  check, info, proc, loaded, mixed>>
  BY DEF SpawnReady, checks, processes
<1>3. active' \in [Objs -> Int]
  <2>1. PICK R : /\ R = {} \/ \E r : R = {r}
                 /\ active' = [active EXCEPT ![w] = @ + Cardinality(R)]
    <3> DEFINE receiver == IF owner[w].by \in Requests THEN {owner[w].by}
                           ELSE IF owner[w].by = "dispatch" /\ Candidates(w) # {}
                           THEN {pending[First(Candidates(w))].r}
                           ELSE {}
    <3>1. active' = [active EXCEPT ![w] = @ + Cardinality(receiver)]
      BY DEF SpawnReady
    <3>2. receiver = {} \/ \E r : receiver = {r}
      OBVIOUS
    <3> HIDE DEF receiver
    <3>3. QED
      BY <3>1, <3>2
  <2>2. Cardinality(R) \in Nat
    <3>1. R = {} \/ \E r : R = {r}
      BY <2>1
    <3>2. Cardinality(R) = 0 \/ Cardinality(R) = 1
      BY <3>1, FS_EmptySet, FS_Singleton, Zenon
    <3>3. QED
      BY <3>2
  <2>3. active[w] + Cardinality(R) \in Int
    BY <2>2 DEF PoolInv, PoolTypeOK
  <2>4. QED
    BY <2>1, <2>3, CountersTyped
<1>4. owner[w].adapter \in Adapters /\ "ready" \in WorkerStatus
  BY <1>1 DEF PoolInv, ObjectsOK, WorkerStatus
<1>5. /\ status' \in [Objs -> WorkerStatus]
      /\ registry' \in [Ids -> Adapters \union {NoAdapter}]
  BY <1>1, <1>4, CountersTyped
<1>6. QuietStep
  <2>1. spawn' \in [Objs -> SpawnPhase]
    BY <1>1 DEF PoolInv, PoolTypeOK, SpawnPhase
  <2>2. \A v \in Objs : spawn'[v] = spawn[v]
                          \/ (spawn[v] \in Begun /\ spawn'[v] \in {"failing", "done"})
    BY <1>1 DEF PoolInv, PoolTypeOK, Begun
  <2>3. QED
    BY <1>2, <1>3, <1>5, <2>1, <2>2 DEF QuietStep, PoolInv, PoolTypeOK, StopsOK
<1>7. QED
  BY <1>6, QuietKeeps

LEMMA StartFailsPool ==
  ASSUME PoolInv, NEW w \in Objs, StartFails(w)
  PROVE  PoolInv' /\ PastKept
<1>1. /\ spawn[w] = "poll"
      /\ spawn' = [spawn EXCEPT ![w] = "failing"]
      /\ status' = [status EXCEPT ![w] = "stopping"]
      /\ stops' = stops \union {[w |-> w, by |-> "spawner", phase |-> "post"]}
      /\ UNCHANGED <<wid, adapter, active, workers, registry, gpu_count, owner,
                     nextObj, check, info, proc, loaded, mixed>>
  BY DEF StartFails, pool, checks, processes
<1>2. "stopping" \in WorkerStatus
  BY DEF WorkerStatus
<1>3. status' \in [Objs -> WorkerStatus]
  BY <1>1, <1>2, CountersTyped
<1>4. stops' \subseteq Stop /\ \A t \in stops' : Past(t.w)
  BY <1>1 DEF PoolInv, PoolTypeOK, StopsOK, Stop, Past, Begun
<1>5. /\ spawn' \in [Objs -> SpawnPhase]
      /\ \A v \in Objs : spawn'[v] = spawn[v]
                           \/ (spawn[v] \in Begun /\ spawn'[v] \in {"failing", "done"})
  BY <1>1 DEF PoolInv, PoolTypeOK, Begun, SpawnPhase
<1>6. QuietStep
  BY <1>1, <1>3, <1>4, <1>5 DEF QuietStep, PoolInv, PoolTypeOK, StopsOK
<1>7. QED
  BY <1>6, QuietKeeps

LEMMA FinishStopPool ==
  ASSUME PoolInv, NEW t \in stops, FinishStop(t)
  PROVE  PoolInv' /\ PastKept
<1>1. t.w \in Objs /\ Past(t.w) /\ wid[t.w] \in Ids
  BY PastHasId DEF PoolInv, PoolTypeOK, StopsOK, Stop
<1>2. /\ stops' = stops \ {t}
      /\ proc' = [proc EXCEPT ![t.w] = "dead"]
      /\ spawn' = IF t.by = "spawner" THEN [spawn EXCEPT ![t.w] = "done"] ELSE spawn
      /\ UNCHANGED <<wid, adapter, status, active, owner, nextObj, check, info,
                     loaded, mixed>>
  BY DEF FinishStop, fields, checks
<1>3. /\ UNCHANGED <<workers, gpu_count>> \/ \E i \in Ids : Remove(i)
      /\ registry' \in [Ids -> Adapters \union {NoAdapter}]
  <2>1. CASE t.by = "reaper"
    <3>1. /\ registry' = [registry EXCEPT ![wid[t.w]] = NoAdapter]
          /\ UNCHANGED <<workers, gpu_count>>
      BY <2>1 DEF FinishStop
    <3>2. QED
      BY <3>1, CountersTyped
  <2>2. CASE t.by # "reaper"
    <3>1. Remove(wid[t.w])
      BY <2>2 DEF FinishStop
    <3>2. QED
      BY <1>1, <3>1, RemoveCounts
  <2>3. QED
    BY <2>1, <2>2
<1>4. /\ spawn' \in [Objs -> SpawnPhase]
      /\ \A v \in Objs : spawn'[v] = spawn[v]
                           \/ (spawn[v] \in Begun /\ spawn'[v] \in {"failing", "done"})
  BY <1>1, <1>2 DEF PoolInv, PoolTypeOK, Begun, SpawnPhase, Past
<1>5. /\ proc' \in [Objs -> ProcState]
      /\ \A p \in Objs : proc'[p] = proc[p] \/ (proc'[p] = "dead" /\ Past(p))
  BY <1>1, <1>2 DEF PoolInv, PoolTypeOK, ProcState
<1>6. QuietStep
  BY <1>2, <1>3, <1>4, <1>5 DEF QuietStep, PoolInv, PoolTypeOK, StopsOK
<1>7. QED
  BY <1>6, QuietKeeps

\* The swaps.
LEMMA SwapPool ==
  ASSUME PoolInv, RequestTypeOK, ReferencesOK, NEW t \in swaps,
         \/ SwapBegins(t) \/ WorkerSwaps(t) \/ WorkerHalfSwaps(t)
         \/ DispatchSwapped(t) \/ DispatchSwapFailed(t) \/ RebalanceEnds(t)
  PROVE  PoolInv' /\ PastKept
<1>1. t.to \in Adapters /\ t.w \in Objs
  BY DEF RequestTypeOK, Swap
<1>2. "swapping" \in WorkerStatus /\ "ready" \in WorkerStatus
  BY DEF WorkerStatus
<1>3. CASE SwapBegins(t)
  <2>1. /\ status' = [status EXCEPT ![t.w] = "swapping"]
        /\ UNCHANGED <<wid, adapter, active, registry, workers, gpu_count,
                       spawning, stops, checks, processes>>
    BY <1>3 DEF SwapBegins, pool
  <2>2. QED
    BY <1>2, <2>1, CountersTyped, FieldsKeep DEF PoolInv, PoolTypeOK
<1>4. CASE WorkerSwaps(t) \/ WorkerHalfSwaps(t)
  <2>1. /\ loaded' = loaded \/ \E p : loaded' = [loaded EXCEPT ![p] = t.to]
        /\ mixed' \subseteq Objs
        /\ UNCHANGED <<wid, adapter, status, active, registry, workers, gpu_count,
                       spawn, owner, nextObj, stops, check, info, proc>>
    BY <1>4 DEF WorkerSwaps, WorkerHalfSwaps, Listening, fields, pool, spawning, checks,
         PoolInv, PoolTypeOK
  <2>2. /\ loaded' \in [Objs -> Adapters \union {NoAdapter}]
        /\ \A p \in Objs : loaded[p] \in Adapters => loaded'[p] \in Adapters
    BY <1>1, <2>1 DEF PoolInv, PoolTypeOK
  <2>3. QuietStep
    BY <2>1, <2>2 DEF QuietStep, PoolInv, PoolTypeOK, StopsOK
  <2>4. QED
    BY <2>3, QuietKeeps
<1>5. CASE DispatchSwapped(t) \/ DispatchSwapFailed(t) \/ RebalanceEnds(t)
  <2>1. /\ status' = [status EXCEPT ![t.w] = "ready"]
        /\ adapter' = adapter \/ adapter' = [adapter EXCEPT ![t.w] = t.to]
        /\ registry' = registry \/ \E i : registry' = [registry EXCEPT ![i] = t.to]
        /\ active' = active \/ Unreserve(t.w)
        /\ UNCHANGED <<wid, workers, gpu_count, spawning, stops, checks, processes>>
    BY <1>5 DEF DispatchSwapped, DispatchSwapFailed, RebalanceEnds, SwapSucceeded,
         SwapFailed, pool
  <2>2. /\ adapter' \in [Objs -> Adapters \union {NoAdapter}]
        /\ registry' \in [Ids -> Adapters \union {NoAdapter}]
    BY <1>1, <2>1, CountersTyped DEF PoolInv, PoolTypeOK
  <2>3. /\ status' \in [Objs -> WorkerStatus]
        /\ active' \in [Objs -> Int]
    BY <1>2, <2>1, CountersTyped DEF PoolInv, PoolTypeOK, Unreserve
  <2>4. QED
    BY <2>1, <2>2, <2>3, FieldsKeep
<1>6. QED
  BY <1>3, <1>4, <1>5

\* route_request after its swap: it may spawn, besides or instead.
LEMMA RouteSwappedPool ==
  ASSUME PoolInv, RequestTypeOK, ReferencesOK, NEW t \in swaps,
         RouteSwapped(t) \/ RouteSwapFailed(t)
  PROVE  PoolInv' /\ PastKept
<1>1. t.to \in Adapters /\ t.w \in Objs
  BY DEF RequestTypeOK, Swap
<1>2. t.entry.r \in Requests /\ want[t.entry.r] \in Adapters
  BY DEF RouteSwapped, RouteSwapFailed, ReferencesOK, RequestTypeOK, Entry
<1>3. "ready" \in WorkerStatus
  BY DEF WorkerStatus
<1>4. /\ status' = [status EXCEPT ![t.w] = "ready"]
      /\ adapter' = adapter \/ adapter' = [adapter EXCEPT ![t.w] = t.to]
      /\ registry' = registry \/ \E i : registry' = [registry EXCEPT ![i] = t.to]
      /\ active' = active \/ Unreserve(t.w)
      /\ UNCHANGED <<workers, stops, checks, processes>>
  BY DEF RouteSwapped, RouteSwapFailed, SwapSucceeded, SwapFailed
<1>5. /\ adapter' \in [Objs -> Adapters \union {NoAdapter}]
      /\ registry' \in [Ids -> Adapters \union {NoAdapter}]
  BY <1>1, <1>4, CountersTyped DEF PoolInv, PoolTypeOK
<1>6. /\ status' \in [Objs -> WorkerStatus]
      /\ active' \in [Objs -> Int]
  BY <1>3, <1>4, CountersTyped DEF PoolInv, PoolTypeOK, Unreserve
<1>7. \/ UNCHANGED <<wid, spawning, gpu_count>>
      \/ \E a \in Adapters, who \in Requests \union {"dispatch", "grow"} :
           StartSpawn(a, who)
  BY <1>1, <1>2 DEF RouteSwapped, RouteSwapFailed
<1>8. QED
  BY <1>4, <1>5, <1>6, <1>7, StartKeeps, FieldsKeep

\* What a worker says names weights that are loaded.
LEMMA RepliesTyped ==
  ASSUME PoolInv, NEW w \in Objs, NEW said \in Replies(w)
  PROVE  said \in Reply \union {NoReply}
<1>1. CASE NobodyListens(w)
  BY <1>1 DEF Replies
<1>2. CASE ~NobodyListens(w)
  <2> DEFINE swapping == {FALSE} \union
             {TRUE : t \in {t \in swaps : t.phase = "posted" /\ wid[t.w] = wid[w]}}
  <2>1. said \in [adapter : {loaded[p] : p \in Listening(wid[w])},
                  is_swapping : swapping]
    BY <1>2 DEF Replies
  <2>2. \A p \in Listening(wid[w]) : loaded[p] \in Adapters
    BY DEF Listening, PoolInv, ObjectsOK
  <2>3. swapping \subseteq BOOLEAN
    OBVIOUS
  <2> HIDE DEF swapping
  <2>4. QED
    BY <2>1, <2>2, <2>3 DEF Reply
<1>3. QED
  BY <1>1, <1>2

LEMMA ApplyTyped ==
  ASSUME PoolInv, NEW w \in Objs, NEW said \in Reply \union {NoReply},
         NEW s \in WorkerStatus, Apply(w, said, s)
  PROVE  /\ adapter' \in [Objs -> Adapters \union {NoAdapter}]
         /\ registry' \in [Ids -> Adapters \union {NoAdapter}]
         /\ status' \in [Objs -> WorkerStatus]
<1>1. said.adapter \in Adapters \union {NoAdapter}
  BY DEF Reply, NoReply
<1>2. /\ adapter' = adapter \/ adapter' = [adapter EXCEPT ![w] = said.adapter]
      /\ registry' = registry \/ registry' = [registry EXCEPT ![wid[w]] = said.adapter]
  BY DEF Apply
<1>3. \E z \in WorkerStatus : status' = [status EXCEPT ![w] = z]
  BY DEF Apply, WorkerStatus
<1>4. QED
  BY <1>1, <1>2, <1>3, CountersTyped DEF PoolInv, PoolTypeOK

LEMMA RecoveredTyped ==
  ASSUME PoolInv, NEW w \in Objs
  PROVE  Recovered(w) \in WorkerStatus
  BY DEF Recovered, PoolInv, PoolTypeOK, WorkerStatus

\* Health checks.
LEMMA CheckPool ==
  ASSUME PoolInv, NEW w \in Objs, AnswerInfo(w) \/ CheckAtOnce(w) \/ FinishCheck(w)
  PROVE  PoolInv' /\ PastKept
<1>1. CASE AnswerInfo(w)
  <2>1. PICK said \in Reply \union {NoReply} : info' = [info EXCEPT ![w] = said]
    BY <1>1, RepliesTyped DEF AnswerInfo
  <2>2. /\ check' = [check EXCEPT ![w] = "replied"]
        /\ UNCHANGED <<wid, adapter, status, active, workers, registry, gpu_count,
                       spawn, owner, nextObj, stops, proc, loaded, mixed>>
    BY <1>1 DEF AnswerInfo, fields, pool, spawning, processes
  <2>3. /\ check' \in [Objs -> {"none", "begun", "asking", "replied"}]
        /\ \A v \in Objs : check'[v] # "none" => Past(v)
    BY <1>1, <2>2 DEF AnswerInfo, PoolInv, PoolTypeOK, StopsOK
  <2>4. QuietStep
    BY <2>1, <2>2, <2>3 DEF QuietStep, PoolInv, PoolTypeOK, StopsOK
  <2>5. QED
    BY <2>4, QuietKeeps
<1>2. CASE CheckAtOnce(w)
  <2>1. /\ \E said \in Reply \union {NoReply} : Apply(w, said, Recovered(w))
        /\ UNCHANGED <<wid, active, workers, gpu_count, spawning, stops, checks,
                       processes>>
    BY <1>2, RepliesTyped DEF CheckAtOnce
  <2>2. QED
    BY <2>1, RecoveredTyped, ApplyTyped, FieldsKeep DEF PoolInv, PoolTypeOK
<1>3. CASE FinishCheck(w)
  <2>1. /\ Apply(w, info[w], status[w])
        /\ check' = [check EXCEPT ![w] = "none"]
        /\ info' = [info EXCEPT ![w] = NoReply]
        /\ UNCHANGED <<wid, active, workers, gpu_count, spawn, owner, nextObj,
                       stops, proc, loaded, mixed>>
    BY <1>3 DEF FinishCheck, ApplyInfo, spawning, processes
  <2>2. /\ adapter' \in [Objs -> Adapters \union {NoAdapter}]
        /\ registry' \in [Ids -> Adapters \union {NoAdapter}]
        /\ status' \in [Objs -> WorkerStatus]
    <3>1. info[w] \in Reply \union {NoReply} /\ status[w] \in WorkerStatus
      BY DEF PoolInv, PoolTypeOK
    <3>2. QED
      BY <2>1, <3>1, ApplyTyped
  <2>3. QuietStep
    BY <2>1, <2>2 DEF QuietStep, PoolInv, PoolTypeOK, StopsOK
  <2>4. QED
    BY <2>3, QuietKeeps
<1>4. QED
  BY <1>1, <1>2, <1>3

\* Steps of the pool that no request notices.
LEMMA ProcessesPool ==
  ASSUME PoolInv,
         \/ \E p \in Objs : Exit(p) \/ Bind(p) \/ Die(p)
         \/ \E t \in stops : Shutdown(t)
  PROVE  PoolInv' /\ PastKept
<1>1. /\ UNCHANGED <<wid, adapter, status, active, workers, registry, gpu_count,
                     spawn, owner, nextObj, check, info, loaded, mixed>>
      /\ stops' = stops \/ \E t \in stops :
           stops' = (stops \ {t}) \union {[t EXCEPT !.phase = "wait"]}
  BY DEF Exit, Bind, Die, Shutdown, PostShutdown, fields, pool, spawning, checks
<1>2. stops' \subseteq Stop /\ \A t \in stops' : Past(t.w)
  BY <1>1 DEF PoolInv, PoolTypeOK, StopsOK, Stop
<1>3. /\ proc' \in [Objs -> ProcState]
      /\ \A p \in Objs :
           proc'[p] = proc[p] \/ (/\ proc[p] \in {"loading", "up", "draining"}
                                  /\ proc'[p] \in {"up", "draining", "dead"})
  <2>1. CASE \E p \in Objs : Exit(p) \/ Bind(p) \/ Die(p)
    BY <2>1 DEF Exit, Bind, Die, PoolInv, PoolTypeOK, ProcState
  <2>2. CASE \E t \in stops : Shutdown(t)
    BY <2>2 DEF Shutdown, PostShutdown, Listening, PoolInv, PoolTypeOK, ProcState
  <2>3. QED
    BY <2>1, <2>2
<1>4. QuietStep
  BY <1>1, <1>2, <1>3 DEF QuietStep, PoolInv, PoolTypeOK, StopsOK
<1>5. QED
  BY <1>4, QuietKeeps

LEMMA ReapPool ==
  ASSUME PoolInv, NEW w \in Objs, OperatorStop(w) \/ Reap(w)
  PROVE  PoolInv' /\ PastKept
<1>1. /\ w \in Tracked
      /\ status' = [status EXCEPT ![w] = "stopping"]
      /\ \E by \in {"operator", "reaper"} :
           stops' = stops \union {[w |-> w, by |-> by, phase |-> "post"]}
      /\ \/ UNCHANGED <<workers, gpu_count, registry>>
         \/ Remove(wid[w])
      /\ UNCHANGED <<wid, adapter, active, spawn, owner, nextObj, check, info,
                     proc, loaded, mixed>>
  BY DEF OperatorStop, Reap, pool, spawning, checks, processes
<1>2. Past(w) /\ wid[w] \in Ids
  BY <1>1, TrackedPast
<1>3. "stopping" \in WorkerStatus
  BY DEF WorkerStatus
<1>4. status' \in [Objs -> WorkerStatus]
  BY <1>1, <1>3, CountersTyped
<1>5. stops' \subseteq Stop /\ \A t \in stops' : Past(t.w)
  BY <1>1, <1>2 DEF PoolInv, PoolTypeOK, StopsOK, Stop
<1>6. registry' \in [Ids -> Adapters \union {NoAdapter}]
  BY <1>1, <1>2, RemoveCounts DEF PoolInv, PoolTypeOK
<1>7. QuietStep
  BY <1>1, <1>2, <1>4, <1>5, <1>6 DEF QuietStep, PoolInv, PoolTypeOK, StopsOK
<1>8. QED
  BY <1>7, QuietKeeps

LEMMA HealthPool ==
  ASSUME PoolInv, NEW w \in Objs, BeginCheck(w) \/ HealthOk(w) \/ HealthFails(w)
  PROVE  PoolInv' /\ PastKept
<1>1. /\ status' = status \/ \E s \in WorkerStatus : status' = [status EXCEPT ![w] = s]
      /\ \E c \in {"none", "begun", "asking"} : check' = [check EXCEPT ![w] = c]
      /\ \/ UNCHANGED <<workers, gpu_count, registry>>
         \/ Remove(wid[w])
      /\ UNCHANGED <<wid, adapter, active, spawn, owner, nextObj, stops, info,
                     proc, loaded, mixed>>
  BY RecoveredTyped DEF BeginCheck, HealthOk, HealthFails, fields, pool, spawning,
     processes, WorkerStatus
<1>2. Past(w) /\ wid[w] \in Ids
  <2>1. w \in Tracked \/ check[w] = "begun"
    BY DEF BeginCheck, HealthOk, HealthFails, Healthy, Checked
  <2>2. QED
    BY <2>1, TrackedPast, PastHasId DEF PoolInv, StopsOK
<1>3. status' \in [Objs -> WorkerStatus]
  BY <1>1, CountersTyped DEF PoolInv, PoolTypeOK
<1>4. registry' \in [Ids -> Adapters \union {NoAdapter}]
  BY <1>1, <1>2, RemoveCounts DEF PoolInv, PoolTypeOK
<1>5. /\ check' \in [Objs -> {"none", "begun", "asking", "replied"}]
      /\ \A v \in Objs : check'[v] # "none" => Past(v)
  BY <1>1, <1>2 DEF PoolInv, PoolTypeOK, StopsOK
<1>6. QuietStep
  BY <1>1, <1>2, <1>3, <1>4, <1>5 DEF QuietStep, PoolInv, PoolTypeOK, StopsOK
<1>7. QED
  BY <1>6, QuietKeeps

LEMMA LaunchPool ==
  ASSUME PoolInv, NEW w \in Objs, Launch(w) \/ LaunchTwins(w)
  PROVE  PoolInv' /\ PastKept
<1>1. spawn[w] = "aggregator"
  BY DEF Launch, LaunchTwins, LaunchAs
<1>2. w < nextObj /\ nextObj \in 1 .. MaxObjs + 1
  BY <1>1, PoolConstantsOK DEF PoolInv, PoolTypeOK, ObjectsOK, Objs
<1>3. CASE Launch(w)
  BY <1>2, <1>3, PoolConstantsOK, LaunchKeeps DEF Launch, Objs
<1>4. CASE LaunchTwins(w)
  <2>1. /\ LaunchAs(w, {w, nextObj})
        /\ nextObj <= MaxObjs /\ nextObj' = nextObj + 1
    BY <1>4 DEF LaunchTwins
  <2>2. /\ nextObj' \in 1 .. MaxObjs + 1 /\ nextObj <= nextObj'
        /\ \A p \in {w, nextObj} : p < nextObj'
    BY <1>2, <2>1, PoolConstantsOK DEF Objs
  <2>3. QED
    BY <2>1, <2>2, LaunchKeeps
<1>5. QED
  BY <1>3, <1>4

LEMMA PoolStepPool ==
  ASSUME PoolInv, NEW w \in Objs, PoolStep(w)
  PROVE  PoolInv' /\ PastKept
  BY LaunchPool, StartFailsPool, ReapPool, HealthPool, ProcessesPool DEF PoolStep
----------------------------------------------------------------------------
(* Each action keeps the requests, the queue and the references. *)

RequestInv == RequestTypeOK /\ ReferencesOK

LEMMA RequestsSame ==
  ASSUME RequestInv, PastKept, UNCHANGED <<requests, queue, swaps>>
  PROVE  RequestInv'
<1>1. UNCHANGED <<rpc, want, rworker, attempt, server, used, pending, scan, swaps>>
  BY DEF requests, queue
<1>2. RequestTypeOK'
  BY <1>1 DEF RequestInv, RequestTypeOK
<1>3. ReferencesOK'
  BY <1>1, <1>2, ReferencesKept DEF RequestInv
<1>4. QED
  BY <1>2, <1>3 DEF RequestInv

\* A request goes on to pc, and the queue may change.
LEMMA RequestMoves ==
  ASSUME RequestInv, PastKept,
         NEW r \in Requests, NEW pc \in RequestPC, rpc' = [rpc EXCEPT ![r] = pc],
         pc \in {"granted", "sent", "serving"} => rworker'[r] # NoObj,
         rworker' = rworker \/ \E w \in Objs : Past(w) /\ rworker' = [rworker EXCEPT ![r] = w],
         attempt' = attempt \/ attempt' = [attempt EXCEPT ![r] = 1],
         server' = server \/ \E p \in Objs \union {NoObj} :
                               server' = [server EXCEPT ![r] = p],
         used' = used \/ \E A \in SUBSET (Adapters \union {NoAdapter}) :
                           used' = [used EXCEPT ![r] = A],
         pending' \in Seq(Entry), scan' \in 0 .. Len(pending'),
         UNCHANGED want,
         swaps' \subseteq Swap,
         \A t \in swaps' :
           \/ t \in swaps
           \/ /\ Past(t.w)
              /\ t.for = "route" => t.entry \in Entry /\ rworker'[t.entry.r] # NoObj
              /\ t.for = "dispatch" => t.entry \in Entry
  PROVE  RequestInv'
<1>1. RequestTypeOK'
  <2>1. rpc' \in [Requests -> RequestPC]
    BY DEF RequestInv, RequestTypeOK
  <2>2. rworker' \in [Requests -> Objs \union {NoObj}]
    BY DEF RequestInv, RequestTypeOK
  <2>3. attempt' \in [Requests -> {0, 1}]
    BY DEF RequestInv, RequestTypeOK
  <2>4. server' \in [Requests -> Objs \union {NoObj}]
    BY DEF RequestInv, RequestTypeOK
  <2>5. used' \in [Requests -> SUBSET (Adapters \union {NoAdapter})]
    BY DEF RequestInv, RequestTypeOK
  <2>6. QED
    BY <2>1, <2>2, <2>3, <2>4, <2>5 DEF RequestInv, RequestTypeOK
<1>2. \A q \in Requests : \/ rworker'[q] = rworker[q]
                          \/ rworker'[q] \in Objs /\ Past(rworker'[q])
  BY DEF RequestInv, RequestTypeOK
<1>3. \A q \in Requests : rpc'[q] = IF q = r THEN pc ELSE rpc[q]
  BY DEF RequestInv, RequestTypeOK
<1>4. QED
  BY <1>1, <1>2, <1>3, ReferencesKept DEF RequestInv

LEMMA RouteMatchRequests ==
  ASSUME PoolInv, RequestInv, PastKept, NEW r \in Requests, RouteMatch(r)
  PROVE  RequestInv'
<1>1. PICK w \in Matching(want[r]) : rworker' = [rworker EXCEPT ![r] = w]
  BY DEF RouteMatch
<1>2. w \in Objs /\ Past(w)
  BY FreePast DEF Matching
<1>3. rworker'[r] = w /\ w # NoObj
  BY <1>1, <1>2, NoObjIsNone DEF RequestInv, RequestTypeOK
<1>4. /\ rpc' = [rpc EXCEPT ![r] = "sent"] /\ "sent" \in RequestPC
      /\ UNCHANGED <<want, attempt, server, used, pending, scan, swaps>>
  BY DEF RouteMatch, queue, RequestPC
<1>5. QED
  BY <1>1, <1>2, <1>3, <1>4, RequestMoves DEF RequestInv, RequestTypeOK

LEMMA RouteSwapRequests ==
  ASSUME PoolInv, RequestInv, PastKept, NEW r \in Requests, RouteSwap(r)
  PROVE  RequestInv'
<1>1. PICK w \in SwapVictims(want[r]) :
        /\ rworker' = [rworker EXCEPT ![r] = w]
        /\ swaps' = swaps \union
             {[w |-> w, to |-> want[r], for |-> "route",
               entry |-> [r |-> r, n |-> 0], grow |-> NeedsGrow,
               phase |-> "posted"]}
  BY DEF RouteSwap
<1>2. w \in Objs /\ Past(w)
  BY FreePast DEF SwapVictims
<1>3. rworker'[r] = w /\ w # NoObj
  BY <1>1, <1>2, NoObjIsNone DEF RequestInv, RequestTypeOK
<1>4. /\ rpc' = [rpc EXCEPT ![r] = "swap"] /\ "swap" \in RequestPC
      /\ UNCHANGED <<want, attempt, server, used, pending, scan>>
  BY DEF RouteSwap, queue, RequestPC
<1>5. /\ want[r] \in Adapters /\ NeedsGrow \in BOOLEAN
      /\ [r |-> r, n |-> 0] \in Entry
  BY DEF RequestInv, RequestTypeOK, NeedsGrow, Entry
<1>6. swaps' \subseteq Swap
  BY <1>1, <1>2, <1>5 DEF RequestInv, RequestTypeOK, Swap
<1>7. \A t \in swaps' :
        \/ t \in swaps
        \/ /\ Past(t.w) /\ t.for = "route"
           /\ t.entry \in Entry /\ rworker'[t.entry.r] # NoObj
  BY <1>1, <1>2, <1>3, <1>5
<1>8. QED
  BY <1>1, <1>2, <1>3, <1>4, <1>5, <1>6, <1>7, RequestMoves
     DEF RequestInv, RequestTypeOK

\* Joining the queue.
LEMMA QueuedRequests ==
  ASSUME RequestInv, PastKept, NEW r \in Requests, NEW e \in Entry,
         rpc' = [rpc EXCEPT ![r] = "queued"], pending' = Append(pending, e),
         attempt' = attempt \/ attempt' = [attempt EXCEPT ![r] = 1],
         UNCHANGED <<want, rworker, server, used, scan, swaps>>
  PROVE  RequestInv'
<1>1. pending' \in Seq(Entry) /\ scan' \in 0 .. Len(pending')
  BY EnqueueTyped DEF RequestInv
<1>2. "queued" \in RequestPC
  BY DEF RequestPC
<1>3. QED
  BY <1>1, <1>2, RequestMoves DEF RequestInv, RequestTypeOK

LEMMA EnqueuesEntry ==
  ASSUME RequestInv, NEW r \in Requests
  PROVE  [r |-> r, n |-> attempt[r]] \in Entry
  BY DEF RequestInv, RequestTypeOK, Entry

LEMMA CallSpawnRequests ==
  ASSUME RequestInv, PastKept, NEW r \in Requests, NEW pc \in {"spawn1", "spawn2"},
         CallSpawn(r, pc),
         UNCHANGED <<want, rworker, attempt, server, used, scan, swaps>>
  PROVE  RequestInv'
<1>1. CASE \E p \in {"spawn1", "spawn2", "respawn"} :
             rpc' = [rpc EXCEPT ![r] = p] /\ UNCHANGED pending
  <2>1. PICK p \in {"spawn1", "spawn2", "respawn"} :
          rpc' = [rpc EXCEPT ![r] = p] /\ UNCHANGED pending
    BY <1>1
  <2>2. p \in RequestPC
    BY DEF RequestPC
  <2>3. QED
    BY <2>1, <2>2, RequestMoves DEF RequestInv, RequestTypeOK
<1>2. CASE rpc' = [rpc EXCEPT ![r] = "queued"] /\ Enqueue(r)
  BY <1>2, EnqueuesEntry, QueuedRequests DEF Enqueue
<1>3. QED
  BY <1>1, <1>2 DEF CallSpawn

LEMMA RouteQueueRequests ==
  ASSUME RequestInv, PastKept, NEW r \in Requests, RouteQueue(r)
  PROVE  RequestInv'
  BY EnqueuesEntry, QueuedRequests DEF RouteQueue, Enqueue

LEMMA QueueTimeoutRequests ==
  ASSUME RequestInv, PastKept, NEW r \in Requests, QueueTimeout(r)
  PROVE  RequestInv'
<1>1. /\ rpc' = [rpc EXCEPT ![r] = "failed"] /\ "failed" \in RequestPC
      /\ UNCHANGED <<want, rworker, attempt, server, used, pending, scan, swaps>>
  BY DEF QueueTimeout, queue, RequestPC
<1>2. QED
  BY <1>1, RequestMoves DEF RequestInv, RequestTypeOK

LEMMA TakeGrantRequests ==
  ASSUME RequestInv, PastKept, NEW r \in Requests, TakeGrant(r)
  PROVE  RequestInv'
<1>1. /\ \E pc \in {"sent", "failed"} : rpc' = [rpc EXCEPT ![r] = pc]
      /\ rworker[r] # NoObj
      /\ UNCHANGED <<want, rworker, attempt, server, used, pending, scan, swaps>>
  BY DEF TakeGrant, queue, RequestInv, ReferencesOK
<1>2. {"sent", "failed"} \subseteq RequestPC
  BY DEF RequestPC
<1>3. QED
  BY <1>1, <1>2, RequestMoves DEF RequestInv, RequestTypeOK

LEMMA ServeRequests ==
  ASSUME PoolInv, RequestInv, PastKept, NEW r \in Requests, Serve(r)
  PROVE  RequestInv'
<1>1. PICK p \in Listening(wid[rworker[r]]) :
        /\ proc[p] = "up"
        /\ server' = [server EXCEPT ![r] = p]
        /\ used' = [used EXCEPT ![r] = WeightsOf(p)]
  BY DEF Serve
<1>2. p \in Objs /\ WeightsOf(p) \in SUBSET (Adapters \union {NoAdapter})
  BY <1>1 DEF Listening, WeightsOf, PoolInv, ObjectsOK
<1>3. /\ rpc' = [rpc EXCEPT ![r] = "serving"] /\ "serving" \in RequestPC
      /\ rworker[r] # NoObj
      /\ UNCHANGED <<want, rworker, attempt, pending, scan, swaps>>
  BY DEF Serve, queue, RequestPC, RequestInv, ReferencesOK
<1>4. QED
  BY <1>1, <1>2, <1>3, RequestMoves DEF RequestInv, RequestTypeOK

LEMMA GiveBackRequests ==
  ASSUME RequestInv, PastKept, NEW r \in Requests,
         Reject(r) \/ Refused(r) \/ FinishServing(r)
  PROVE  RequestInv'
<1>1. CASE Refused(r) /\ attempt[r] = 0
  <2>1. [r |-> r, n |-> 1] \in Entry
    BY DEF Entry
  <2>2. QED
    BY <1>1, <2>1, QueuedRequests DEF Refused
<1>2. CASE ~(Refused(r) /\ attempt[r] = 0)
  <2>1. /\ \E pc \in {"failed", "done"} : rpc' = [rpc EXCEPT ![r] = pc]
        /\ server' = server \/ server' = [server EXCEPT ![r] = NoObj]
        /\ UNCHANGED <<want, rworker, attempt, used, pending, scan, swaps>>
    BY <1>2 DEF Reject, Refused, FinishServing, queue
  <2>2. {"failed", "done"} \subseteq RequestPC
    BY DEF RequestPC
  <2>3. QED
    BY <2>1, <2>2, RequestMoves DEF RequestInv, RequestTypeOK
<1>3. QED
  BY <1>1, <1>2

\* A pass of the dispatcher.
LEMMA StartPassRequests ==
  ASSUME RequestInv, PastKept, StartPass
  PROVE  RequestInv'
<1>1. /\ scan' = 1
      /\ \E k \in 1 .. Len(pending) : TRUE
      /\ UNCHANGED <<rpc, want, rworker, attempt, server, used, pending, swaps>>
  BY DEF StartPass, requests
<1>2. scan' \in 0 .. Len(pending')
  BY <1>1, LenProperties DEF RequestInv, RequestTypeOK
<1>3. RequestTypeOK'
  BY <1>1, <1>2 DEF RequestInv, RequestTypeOK
<1>4. QED
  BY <1>1, <1>3, ReferencesKept DEF RequestInv

LEMMA DispatchDropRequests ==
  ASSUME RequestInv, PastKept, DispatchDrop
  PROVE  RequestInv'
<1>1. pending' \in Seq(Entry) /\ scan' \in 0 .. Len(pending')
  BY DropTyped DEF DispatchDrop, RequestInv
<1>2. /\ rpc' = rpc \/ rpc' = [rpc EXCEPT ![Current.r] = "failed"]
      /\ UNCHANGED <<want, rworker, attempt, server, used, swaps>>
  BY DEF DispatchDrop
<1>3. RequestTypeOK'
  BY <1>1, <1>2 DEF RequestInv, RequestTypeOK, RequestPC
<1>4. \A r \in Requests : rpc'[r] \in {"granted", "sent", "serving"} =>
                            rpc[r] \in {"granted", "sent", "serving"}
  BY <1>2 DEF RequestInv, RequestTypeOK
<1>5. QED
  BY <1>2, <1>3, <1>4, ReferencesKept DEF RequestInv

LEMMA DispatchMatchRequests ==
  ASSUME PoolInv, RequestInv, PastKept, DispatchMatch
  PROVE  RequestInv'
<1> DEFINE r == Current.r
<1>1. r \in Requests
  BY CurrentIsEntry DEF DispatchMatch, RequestInv
<1>2. PICK w \in Matching(want[r]) : rworker' = [rworker EXCEPT ![r] = w]
  BY DEF DispatchMatch
<1>3. w \in Objs /\ Past(w)
  BY FreePast DEF Matching
<1>4. rworker'[r] = w /\ w # NoObj
  BY <1>1, <1>2, <1>3, NoObjIsNone DEF RequestInv, RequestTypeOK
<1>5. /\ rpc' = [rpc EXCEPT ![r] = "granted"] /\ "granted" \in RequestPC
      /\ UNCHANGED <<want, attempt, server, used, swaps>>
  BY DEF DispatchMatch, RequestPC
<1>6. pending' \in Seq(Entry) /\ scan' \in 0 .. Len(pending')
  BY DropTyped DEF DispatchMatch, RequestInv
<1> HIDE DEF r
<1>7. QED
  BY <1>1, <1>2, <1>3, <1>4, <1>5, <1>6, RequestMoves DEF RequestInv, RequestTypeOK

LEMMA DispatchSwapRequests ==
  ASSUME PoolInv, RequestInv, PastKept, DispatchSwap
  PROVE  RequestInv'
<1>1. Current \in Entry /\ Current.r \in Requests
  BY CurrentIsEntry DEF DispatchSwap, RequestInv
<1>2. PICK w \in SwapVictims(want[Current.r]) :
        swaps' = swaps \union
          {[w |-> w, to |-> want[Current.r], for |-> "dispatch",
            entry |-> Current, grow |-> FALSE, phase |-> "created"]}
  BY DEF DispatchSwap
<1>3. w \in Objs /\ Past(w)
  BY FreePast DEF SwapVictims
<1>4. UNCHANGED <<rpc, want, rworker, attempt, server, used>>
  BY DEF DispatchSwap, requests
<1>5. pending' \in Seq(Entry) /\ scan' \in 0 .. Len(pending')
  BY DropTyped DEF DispatchSwap, RequestInv
<1>6. want[Current.r] \in Adapters
  BY <1>1 DEF RequestInv, RequestTypeOK
<1>7. swaps' \subseteq Swap
  <2>1. \A e \in Entry, a \in Adapters :
          [w |-> w, to |-> a, for |-> "dispatch", entry |-> e, grow |-> FALSE,
           phase |-> "created"] \in Swap
    BY <1>3 DEF Swap
  <2>2. QED
    BY <1>1, <1>2, <1>6, <2>1 DEF RequestInv, RequestTypeOK
<1>8. \A t \in swaps' :
        \/ t \in swaps
        \/ Past(t.w) /\ t.for = "dispatch" /\ t.entry \in Entry
  BY <1>1, <1>2, <1>3
<1>9. RequestTypeOK'
  BY <1>4, <1>5, <1>7 DEF RequestInv, RequestTypeOK
<1>10. QED
  BY <1>4, <1>7, <1>8, <1>9, ReferencesKept DEF RequestInv

LEMMA DispatchKeepRequests ==
  ASSUME RequestInv, PastKept, DispatchSpawn \/ DispatchKeep
  PROVE  RequestInv'
<1>1. UNCHANGED <<rpc, want, rworker, attempt, server, used, swaps>>
  BY DEF DispatchSpawn, DispatchKeep, requests
<1>2. pending' \in Seq(Entry) /\ scan' \in 0 .. Len(pending')
  BY KeepTyped DEF DispatchSpawn, DispatchKeep, RequestInv
<1>3. RequestTypeOK'
  BY <1>1, <1>2 DEF RequestInv, RequestTypeOK
<1>4. QED
  BY <1>1, <1>3, ReferencesKept DEF RequestInv

\* The ends of a spawn.
LEMMA SpawnReadyRequests ==
  ASSUME PoolInv, RequestInv, PastKept, NEW w \in Objs, SpawnReady(w)
  PROVE  RequestInv'
<1> DEFINE receiver == IF owner[w].by \in Requests THEN {owner[w].by}
                       ELSE IF owner[w].by = "dispatch" /\ Candidates(w) # {}
                       THEN {pending[First(Candidates(w))].r}
                       ELSE {}
<1>1. /\ rworker' = [r \in Requests |-> IF r \in receiver THEN w ELSE rworker[r]]
      /\ rpc' = [r \in Requests |->
           IF r \notin receiver THEN rpc[r]
           ELSE IF r = owner[w].by THEN "sent" ELSE "granted"]
      /\ UNCHANGED <<want, attempt, server, used, pending, scan, swaps>>
  BY DEF SpawnReady, queue
<1> HIDE DEF receiver
<1>2. Past(w)
  BY DEF SpawnReady, BecomeReady, Past, Begun
<1>3. /\ rpc' \in [Requests -> RequestPC]
      /\ rworker' \in [Requests -> Objs \union {NoObj}]
  BY <1>1 DEF RequestInv, RequestTypeOK, RequestPC
<1>4. RequestTypeOK'
  BY <1>1, <1>3 DEF RequestInv, RequestTypeOK
<1>5. \A r \in Requests : \/ r \notin receiver /\ rworker'[r] = rworker[r]
                                /\ rpc'[r] = rpc[r]
                          \/ rworker'[r] = w
  BY <1>1
<1>6. w # NoObj
  BY NoObjIsNone
<1>7. QED
  BY <1>1, <1>2, <1>4, <1>5, <1>6, ReferencesKept DEF RequestInv

LEMMA SpawnNoneRequests ==
  ASSUME RequestInv, PastKept, NEW w \in Objs, SpawnReturnsNone(w),
         UNCHANGED <<want, rworker, attempt, server, used, scan, swaps>>
  PROVE  RequestInv'
<1> DEFINE r == owner[w].by
<1>1. CASE r \notin Requests
  BY <1>1, RequestsSame DEF SpawnReturnsNone, requests, queue
<1>2. CASE r \in Requests /\ rpc[r] = "spawn1"
  <2>1. /\ rpc' = [rpc EXCEPT ![r] = "respawn"] /\ UNCHANGED pending
        /\ "respawn" \in RequestPC
    BY <1>2 DEF SpawnReturnsNone, RequestPC
  <2>2. QED
    BY <1>2, <2>1, RequestMoves DEF RequestInv, RequestTypeOK
<1>3. CASE r \in Requests /\ rpc[r] # "spawn1"
  BY <1>3, EnqueuesEntry, QueuedRequests DEF SpawnReturnsNone, Enqueue
<1>4. QED
  BY <1>1, <1>2, <1>3

\* The swaps.
LEMMA RebalanceRequests ==
  ASSUME PoolInv, RequestInv, PastKept, NEW w \in Objs, NEW a \in Adapters,
         Rebalance(w, a)
  PROVE  RequestInv'
<1>1. /\ swaps' = swaps \union {[w |-> w, to |-> a, for |-> "rebalance",
                                 entry |-> NoEntry, grow |-> FALSE,
                                 phase |-> "created"]}
      /\ Past(w)
      /\ UNCHANGED <<rpc, want, rworker, attempt, server, used, pending, scan>>
  BY FreePast DEF Rebalance, requests, queue
<1>2. [w |-> w, to |-> a, for |-> "rebalance", entry |-> NoEntry, grow |-> FALSE,
       phase |-> "created"] \in Swap
  BY DEF Swap
<1>3. RequestTypeOK'
  BY <1>1, <1>2 DEF RequestInv, RequestTypeOK
<1>4. \A t \in swaps' : t \in swaps \/ (Past(t.w) /\ t.for = "rebalance")
  BY <1>1
<1>5. QED
  BY <1>1, <1>3, <1>4, ReferencesKept DEF RequestInv, RequestTypeOK

LEMMA PhaseRequests ==
  ASSUME RequestInv, PastKept, NEW t \in swaps,
         SwapBegins(t) \/ WorkerSwaps(t) \/ WorkerCannotSwap(t) \/ WorkerHalfSwaps(t)
  PROVE  RequestInv'
<1>1. /\ \E phase \in {"posted", "ok", "failed"} : ToPhase(t, phase)
      /\ UNCHANGED <<rpc, want, rworker, attempt, server, pending, scan>>
  BY DEF SwapBegins, WorkerSwaps, WorkerCannotSwap, WorkerHalfSwaps, requests, queue
<1>2. PICK phase \in {"posted", "ok", "failed"} :
        swaps' = (swaps \ {t}) \union {[t EXCEPT !.phase = phase]}
  BY <1>1 DEF ToPhase
<1> DEFINE u == [t EXCEPT !.phase = phase]
<1>3. u \in Swap /\ u.w = t.w /\ u.for = t.for /\ u.entry = t.entry
  BY PhaseTyped DEF RequestInv
<1>4. swaps' = (swaps \ {t}) \union {u}
  BY <1>2
<1> HIDE DEF u
<1>5. used' \in [Requests -> SUBSET (Adapters \union {NoAdapter})]
  <2>1. t.to \in Adapters
    BY DEF RequestInv, RequestTypeOK, Swap
  <2>2. CASE WorkerSwaps(t) \/ WorkerHalfSwaps(t)
    <3>1. used' = used \/ \E p : ServesWith(p, {t.to}) \/ ServesWith(p, {NoAdapter})
      BY <2>2 DEF WorkerSwaps, WorkerHalfSwaps
    <3>2. QED
      BY <2>1, <3>1 DEF ServesWith, RequestInv, RequestTypeOK
  <2>3. CASE SwapBegins(t) \/ WorkerCannotSwap(t)
    BY <2>3 DEF SwapBegins, WorkerCannotSwap, requests, RequestInv, RequestTypeOK
  <2>4. QED
    BY <2>2, <2>3
<1>6. RequestTypeOK'
  BY <1>1, <1>3, <1>4, <1>5 DEF RequestInv, RequestTypeOK
<1>7. /\ Past(t.w)
      /\ t.for = "route" => t.entry \in Entry /\ rworker'[t.entry.r] # NoObj
      /\ t.for = "dispatch" => t.entry \in Entry
  BY <1>1 DEF RequestInv, ReferencesOK
<1>8. QED
  BY <1>1, <1>3, <1>4, <1>6, <1>7, ReferencesKept DEF RequestInv

LEMMA RouteSwappedRequests ==
  ASSUME RequestInv, PastKept, NEW t \in swaps,
         RouteSwapped(t) \/ RouteSwapFailed(t)
  PROVE  RequestInv'
<1>1. t.for = "route" /\ swaps' = swaps \ {t}
  BY DEF RouteSwapped, RouteSwapFailed, SwapSucceeded, SwapFailed
<1>2. t.entry.r \in Requests /\ rworker[t.entry.r] # NoObj
  BY <1>1 DEF RequestInv, ReferencesOK, Entry
<1>3. /\ \E pc \in {"sent", "spawn1", "respawn"} : rpc' = [rpc EXCEPT ![t.entry.r] = pc]
      /\ UNCHANGED <<want, rworker, attempt, server, used, pending, scan>>
  BY DEF RouteSwapped, RouteSwapFailed, queue
<1>4. {"sent", "spawn1", "respawn"} \subseteq RequestPC
  BY DEF RequestPC
<1>5. QED
  BY <1>1, <1>2, <1>3, <1>4, RequestMoves DEF RequestInv, RequestTypeOK

LEMMA DispatchSwappedRequests ==
  ASSUME RequestInv, PastKept, NEW t \in swaps, DispatchSwapped(t)
  PROVE  RequestInv'
<1>1. /\ t.for = "dispatch" /\ swaps' = swaps \ {t}
      /\ UNCHANGED <<want, attempt, server, used, pending, scan>>
  BY DEF DispatchSwapped, SwapSucceeded, queue
<1>2. t.entry.r \in Requests /\ t.w \in Objs /\ Past(t.w)
  BY <1>1 DEF RequestInv, RequestTypeOK, ReferencesOK, Entry, Swap
<1>3. CASE Live(t.entry)
  <2>1. /\ rworker' = [rworker EXCEPT ![t.entry.r] = t.w]
        /\ rpc' = [rpc EXCEPT ![t.entry.r] = "granted"]
        /\ "granted" \in RequestPC
    BY <1>3 DEF DispatchSwapped, RequestPC
  <2>2. rworker'[t.entry.r] # NoObj
    BY <1>2, <2>1, NoObjIsNone DEF RequestInv, RequestTypeOK
  <2>3. QED
    BY <1>1, <1>2, <2>1, <2>2, RequestMoves DEF RequestInv, RequestTypeOK
<1>4. CASE ~Live(t.entry)
  <2>1. UNCHANGED <<rworker, rpc>>
    BY <1>4 DEF DispatchSwapped
  <2>2. RequestTypeOK'
    BY <1>1, <2>1 DEF RequestInv, RequestTypeOK
  <2>3. QED
    BY <1>1, <2>1, <2>2, ReferencesKept DEF RequestInv
<1>5. QED
  BY <1>3, <1>4

LEMMA SwapEndsRequests ==
  ASSUME RequestInv, PastKept, NEW t \in swaps,
         DispatchSwapFailed(t) \/ RebalanceEnds(t)
  PROVE  RequestInv'
<1>1. /\ swaps' = swaps \ {t}
      /\ UNCHANGED <<rpc, want, rworker, attempt, server, used, scan>>
  BY DEF DispatchSwapFailed, RebalanceEnds, SwapSucceeded, SwapFailed, requests, queue
<1>2. pending' \in Seq(Entry) /\ scan' \in 0 .. Len(pending')
  <2>1. CASE pending' = pending
    BY <1>1, <2>1 DEF RequestInv, RequestTypeOK
  <2>2. CASE pending' # pending
    <3>1. t.for = "dispatch" /\ pending' = Append(pending, t.entry)
      BY <2>2 DEF DispatchSwapFailed, RebalanceEnds, queue
    <3>2. t.entry \in Entry
      BY <3>1 DEF RequestInv, ReferencesOK
    <3>3. QED
      BY <1>1, <3>1, <3>2, EnqueueTyped DEF RequestInv
  <2>3. QED
    BY <2>1, <2>2
<1>3. RequestTypeOK'
  BY <1>1, <1>2 DEF RequestInv, RequestTypeOK
<1>4. QED
  BY <1>1, <1>3, ReferencesKept DEF RequestInv
----------------------------------------------------------------------------
(* The theorems. *)

LEMMA InitOK ==
  Init => IInv
<1> SUFFICES ASSUME Init PROVE IInv
  OBVIOUS
<1>1. PICK n \in Warm, a \in [Objs -> Adapters] :
        /\ wid = [w \in Objs |-> IF w <= n THEN w - 1 ELSE NoId]
        /\ adapter = [w \in Objs |-> IF w <= n THEN a[w] ELSE NoAdapter]
        /\ loaded = adapter
        /\ status = [w \in Objs |-> IF w <= n THEN "ready" ELSE "none"]
        /\ proc = [w \in Objs |-> IF w <= n THEN "up" ELSE "none"]
        /\ spawn = [w \in Objs |-> IF w <= n THEN "done" ELSE "none"]
        /\ workers = [i \in Ids |-> IF i < n THEN i + 1 ELSE NoObj]
        /\ registry = [i \in Ids |-> IF i < n THEN a[i + 1] ELSE NoAdapter]
        /\ active = [w \in Objs |-> 0]
        /\ nextObj = n + 1
        /\ gpu_count = n
        /\ owner = [w \in Objs |-> NoOwner]
        /\ stops = {}
        /\ check = [w \in Objs |-> "none"]
        /\ info = [w \in Objs |-> NoReply]
        /\ mixed = {}
  BY DEF Init, PoolInit
<1>2. /\ n \in 0 .. MaxObjs /\ n <= MaxWorkers
      /\ MaxObjs \in Nat \ {0} /\ MaxWorkers \in Nat \ {0}
  BY PoolConstantsOK
<1>3. \A i \in Ids : i < n => i + 1 \in Objs
  BY <1>2 DEF Ids, Objs
<1>4. \A w \in Objs : w <= n => w - 1 \in Ids
  BY <1>2 DEF Ids, Objs
<1>5. PoolTypeOK
  <2>1. wid \in [Objs -> Ids \union {NoId}]
    BY <1>1, <1>4
  <2>2. workers \in [Ids -> Objs \union {NoObj}]
    BY <1>1, <1>3
  <2>3. registry \in [Ids -> Adapters \union {NoAdapter}]
    BY <1>1, <1>3
  <2>4. nextObj \in 1 .. MaxObjs + 1 /\ gpu_count \in Nat
    BY <1>1, <1>2
  <2>5. owner \in [Objs -> Owners]
    BY <1>1 DEF Owners, NoOwner
  <2>6. /\ adapter \in [Objs -> Adapters \union {NoAdapter}]
        /\ loaded \in [Objs -> Adapters \union {NoAdapter}]
        /\ active \in [Objs -> Int]
        /\ info \in [Objs -> Reply \union {NoReply}]
        /\ stops \subseteq Stop
        /\ check \in [Objs -> {"none", "begun", "asking", "replied"}]
        /\ mixed \subseteq Objs
    BY <1>1
  <2>7. /\ status \in [Objs -> WorkerStatus]
        /\ proc \in [Objs -> ProcState]
        /\ spawn \in [Objs -> SpawnPhase]
    BY <1>1 DEF WorkerStatus, ProcState, SpawnPhase
  <2>8. QED
    BY <2>1, <2>2, <2>3, <2>4, <2>5, <2>6, <2>7 DEF PoolTypeOK
<1>6. ObjectsOK
  BY <1>1, <1>2, <1>4 DEF ObjectsOK, Objs
<1>7. DictionaryOK
  BY <1>1, <1>2, <1>3, NoObjIsNone DEF DictionaryOK, Past, Begun, Ids
<1>8. gpu_count = Cardinality(Tracked) + Cardinality(Waiting)
  <2>1. Tracked = 1 .. n
    <3>1. \A i \in Ids : workers[i] \in 1 .. n \/ workers[i] = NoObj
      BY <1>1, <1>2 DEF Ids
    <3>2. ASSUME NEW w \in 1 .. n
          PROVE  w - 1 \in Ids /\ workers[w - 1] = w /\ w # NoObj
      BY <1>1, <1>2 DEF Ids, NoObj
    <3>3. QED
      BY <3>1, <3>2 DEF Tracked
  <2>2. Waiting = {}
    BY <1>1 DEF Waiting
  <2>3. Cardinality(1 .. n) = IF 1 > n THEN 0 ELSE n - 1 + 1
    BY <1>2, FS_Interval
  <2>4. Cardinality(Waiting) = 0
    BY <2>2, FS_EmptySet
  <2>5. QED
    BY <1>1, <1>2, <2>1, <2>3, <2>4
<1>9. PoolInv
  BY <1>1, <1>5, <1>6, <1>7, <1>8 DEF PoolInv, StopsOK
<1>10. RequestTypeOK
  BY EmptySeq DEF Init, RequestTypeOK, RequestPC
<1>11. ReferencesOK
  BY DEF Init, ReferencesOK
<1>12. QED
  BY <1>9, <1>10, <1>11 DEF IInv

LEMMA NextOK ==
  IInv /\ [Next]_vars => IInv'
<1> SUFFICES ASSUME IInv, [Next]_vars PROVE IInv'
  OBVIOUS
<1>1. PoolInv /\ RequestInv /\ RequestTypeOK /\ ReferencesOK
  BY DEF IInv, RequestInv
<1> SUFFICES PoolInv' /\ RequestInv'
  BY DEF IInv, RequestInv
<1>2. CASE UNCHANGED vars
  BY <1>1, <1>2, PoolSame, RequestsSame DEF vars
<1>3. ASSUME NEW r \in Requests,
             RouteMatch(r) \/ RouteSwap(r)
      PROVE  PoolInv' /\ RequestInv'
  BY <1>1, <1>3, RouteSwapPool, RouteMatchRequests, RouteSwapRequests
<1>4. ASSUME NEW r \in Requests, RouteSpawn(r) \/ Respawn(r)
      PROVE  PoolInv' /\ RequestInv'
  BY <1>1, <1>4, CallSpawnPool, CallSpawnRequests DEF RouteSpawn, Respawn
<1>5. ASSUME NEW r \in Requests, RouteQueue(r)
      PROVE  PoolInv' /\ RequestInv'
  BY <1>1, <1>5, PoolSame, RouteQueueRequests DEF RouteQueue
<1>6. ASSUME NEW r \in Requests, QueueTimeout(r)
      PROVE  PoolInv' /\ RequestInv'
  BY <1>1, <1>6, PoolSame, QueueTimeoutRequests DEF QueueTimeout
<1>7. ASSUME NEW r \in Requests, TakeGrant(r)
      PROVE  PoolInv' /\ RequestInv'
  BY <1>1, <1>7, TakeGrantPool, TakeGrantRequests
<1>8. ASSUME NEW r \in Requests, Serve(r)
      PROVE  PoolInv' /\ RequestInv'
  BY <1>1, <1>8, PoolSame, ServeRequests DEF Serve
<1>9. ASSUME NEW r \in Requests, Reject(r) \/ Refused(r) \/ FinishServing(r)
      PROVE  PoolInv' /\ RequestInv'
  BY <1>1, <1>9, GiveBackPool, GiveBackRequests
<1>10. CASE StartPass
  BY <1>1, <1>10, PoolSame, StartPassRequests DEF StartPass
<1>11. CASE DispatchDrop
  BY <1>1, <1>11, PoolSame, DispatchDropRequests DEF DispatchDrop
<1>12. CASE DispatchMatch \/ DispatchSwap \/ DispatchSpawn
  BY <1>1, <1>12, DispatchPool, DispatchMatchRequests, DispatchSwapRequests,
     DispatchKeepRequests
<1>13. CASE DispatchKeep
  BY <1>1, <1>13, PoolSame, DispatchKeepRequests DEF DispatchKeep
<1>14. ASSUME NEW w \in Objs, SpawnReady(w)
       PROVE  PoolInv' /\ RequestInv'
  BY <1>1, <1>14, SpawnReadyPool, SpawnReadyRequests
<1>15. ASSUME NEW w \in Objs, RefuseSpawn(w)
       PROVE  PoolInv' /\ RequestInv'
  BY <1>1, <1>15, RefusedKeeps, SpawnNoneRequests DEF RefuseSpawn
<1>16. ASSUME NEW w \in Objs, AnswerInfo(w) \/ FinishCheck(w) \/ CheckAtOnce(w)
       PROVE  PoolInv' /\ RequestInv'
  BY <1>1, <1>16, CheckPool, RequestsSame DEF AnswerInfo, FinishCheck, CheckAtOnce
<1>17. ASSUME NEW w \in Objs, Exit(w)
       PROVE  PoolInv' /\ RequestInv'
  BY <1>1, <1>17, ProcessesPool, RequestsSame DEF Exit
<1>18. ASSUME NEW w \in Objs, PoolStep(w)
       PROVE  PoolInv' /\ RequestInv'
  BY <1>1, <1>18, PoolStepPool, RequestsSame DEF PoolStep
<1>19. ASSUME NEW w \in Objs, NEW a \in Adapters, Rebalance(w, a)
       PROVE  PoolInv' /\ RequestInv'
  BY <1>1, <1>19, PoolSame, RebalanceRequests DEF Rebalance
<1>20. ASSUME NEW t \in stops, Shutdown(t)
       PROVE  PoolInv' /\ RequestInv'
  BY <1>1, <1>20, ProcessesPool, RequestsSame DEF Shutdown
<1>21. ASSUME NEW t \in stops, EndStop(t)
       PROVE  PoolInv' /\ RequestInv'
  <2>1. PoolInv' /\ PastKept
    BY <1>1, <1>21, FinishStopPool DEF EndStop
  <2>2. t.w \in Objs
    BY <1>1 DEF PoolInv, PoolTypeOK, Stop
  <2>3. CASE t.by = "spawner"
    BY <1>1, <1>21, <2>1, <2>2, <2>3, SpawnNoneRequests DEF EndStop
  <2>4. CASE t.by # "spawner"
    BY <1>1, <1>21, <2>1, <2>4, RequestsSame DEF EndStop, requests, queue
  <2>5. QED
    BY <2>1, <2>3, <2>4
<1>22. ASSUME NEW t \in swaps, SwapBegins(t) \/ WorkerSwaps(t) \/ WorkerHalfSwaps(t)
       PROVE  PoolInv' /\ RequestInv'
  BY <1>1, <1>22, SwapPool, PhaseRequests
<1>23. ASSUME NEW t \in swaps, WorkerCannotSwap(t)
       PROVE  PoolInv' /\ RequestInv'
  BY <1>1, <1>23, PoolSame, PhaseRequests DEF WorkerCannotSwap
<1>24. ASSUME NEW t \in swaps, RouteSwapped(t) \/ RouteSwapFailed(t)
       PROVE  PoolInv' /\ RequestInv'
  BY <1>1, <1>24, RouteSwappedPool, RouteSwappedRequests
<1>25. ASSUME NEW t \in swaps,
              DispatchSwapped(t) \/ DispatchSwapFailed(t) \/ RebalanceEnds(t)
       PROVE  PoolInv' /\ RequestInv'
  BY <1>1, <1>25, SwapPool, DispatchSwappedRequests, SwapEndsRequests
<1>26. ASSUME NEW a \in Adapters, SpawnAhead(a)
       PROVE  PoolInv' /\ RequestInv'
  BY <1>1, <1>26, DispatchPool, RequestsSame DEF SpawnAhead
<1>27. QED
  BY <1>2, <1>3, <1>4, <1>5, <1>6, <1>7, <1>8, <1>9, <1>10, <1>11, <1>12, <1>13,
     <1>14, <1>15, <1>16, <1>17, <1>18, <1>19, <1>20, <1>21, <1>22, <1>23, <1>24,
     <1>25, <1>26 DEF Next

LEMMA Invariance == Spec => []IInv
  BY InitOK, NextOK, PTL DEF Spec

\* Every variable of the pool, the requests and the queue keeps its type, and
\* the cursor of the dispatcher stays within the queue (controller.py: WorkerInfo,
\* _dispatch_loop).
THEOREM TypeCorrect == Spec => []TypeOK
<1>1. IInv => TypeOK
  BY DEF IInv, PoolInv, RequestTypeOK, TypeOK
<1>2. QED
  BY <1>1, Invariance, PTL

\* Whatever overlaps and whatever fails, the reservation count of the device is
\* the workers in the dictionary and the spawns that wait for an aggregator
\* (_gpu_worker_count: spawn_worker, _remove_worker).
THEOREM DeviceCounted == Spec => []GpuCountExact
<1>1. IInv => GpuCountExact
  BY DEF IInv, PoolInv, GpuCountExact, Waiting
<1>2. QED
  BY <1>1, Invariance, PTL
=============================================================================

------------------------ MODULE Reservations_proofs ------------------------
(***************************************************************************)
(* Proofs about the workers that Dispatch hands out, while nothing is lost: *)
(* no process dies but at the end of a stop of the reaper, and no id is    *)
(* reused too early. Who holds a worker, and then, with fewer faults still, *)
(* which weights it has. Every number of requests, adapters and workers.   *)
(***************************************************************************)
EXTENDS Dispatch_proofs

\* What may happen then: timeouts of health checks, aggregators and swaps that fail, the
\* latter halfway too, adapters that differ in their modules, proactive swaps. Health
\* checks whose steps are apart are left out: a late failure removes a worker by its id.
NothingLost ==
  Faults \subseteq {"slow", "swapfail", "tornswap", "sparse", "noagg", "rebalance"}

\* Holding a worker: from its reservation until it is given back.
HoldingPC == {"swap", "granted", "sent", "serving"}
Holds(r) == rpc[r] \in HoldingPC
ForQueue(t) == t.for = "dispatch"
Held(w) == \/ \E r \in Requests : Holds(r) /\ rworker[r] = w
           \/ \E t \in swaps : ForQueue(t) /\ t.w = w
Pending(w) == spawn[w] \in {"aggregator", "poll"}
Alive == {"loading", "up", "draining"}
----------------------------------------------------------------------------
(* The invariant. *)

\* The process of a worker, for each phase of its spawn. A worker that is being
\* started is not READY, whatever the health check finds.
ProcessesOK ==
  /\ \A w \in Objs : spawn[w] # "failing"
  /\ \A w \in Objs : spawn[w] \in {"none", "aggregator"} => proc[w] = "none"
  /\ \A w \in Objs : spawn[w] = "poll" =>
       /\ w \in Tracked
       /\ proc[w] \in {"loading", "up"}
       /\ status[w] \in {"starting", "unhealthy"}
  /\ \A w \in Tracked : spawn[w] = "done" => proc[w] = "up"
  /\ \A w \in Objs : proc[w] \in {"loading", "up"} =>
       w \in Tracked \/ \E t \in stops : t.w = w

\* Two live processes never have the same port.
PortsOK ==
  \A p, q \in Objs : proc[p] \in Alive /\ proc[q] \in Alive /\ wid[p] = wid[q]
                       => p = q

\* Only the reaper stops workers; they have left the dictionary.
ReapingOK ==
  /\ \A t \in stops :
       /\ t.by = "reaper" /\ t.w \notin Tracked /\ spawn[t.w] = "done"
       /\ t.phase = "post" => proc[t.w] = "up"
       /\ t.phase = "wait" => proc[t.w] \in {"draining", "dead"}
  /\ \A t, u \in stops : t.w = u.w => t = u

\* Without delays a health check is one step.
ChecksOK == \A w \in Objs : check[w] = "none"

PoolLossless == ProcessesOK /\ PortsOK /\ ReapingOK /\ ChecksOK

\* So are swaps. A request that awaits a swap awaits one, of the worker it
\* reserved.
SwapsOK ==
  /\ \A t \in swaps : spawn[t.w] = "done"
  /\ \A t \in swaps : t.for = "route" =>
       rpc[t.entry.r] = "swap" /\ rworker[t.entry.r] = t.w
  /\ \A t, u \in swaps :
       t.for = "route" /\ u.for = "route" /\ t.entry.r = u.entry.r => t = u

\* A request that has a spawn under way awaits it, and has no second one.
SpawnsOK ==
  /\ \A w \in Objs : Pending(w) /\ owner[w].by \in Requests =>
       rpc[owner[w].by] \in {"spawn1", "spawn2"}
  /\ \A v, w \in Objs :
       /\ Pending(v) /\ Pending(w)
       /\ owner[v].by \in Requests /\ owner[v].by = owner[w].by
       => v = w

\* Who holds a worker is alone, the worker is in the dictionary and serves, and
\* active_requests says so.
HoldersOK ==
  /\ \A r \in Requests : Holds(r) =>
       rworker[r] \in Tracked /\ spawn[rworker[r]] = "done"
  /\ \A t \in swaps : ForQueue(t) => t.w \in Tracked
  /\ \A q, r \in Requests : Holds(q) /\ Holds(r) /\ rworker[q] = rworker[r] => q = r
  /\ \A t, u \in swaps : ForQueue(t) /\ ForQueue(u) /\ t.w = u.w => t = u
  /\ \A r \in Requests, t \in swaps : Holds(r) /\ ForQueue(t) => rworker[r] # t.w
  /\ \A w \in Objs : active[w] = IF Held(w) THEN 1 ELSE 0

FirstTry == \A r \in Requests : attempt[r] = 0

RequestsLossless == SwapsOK /\ SpawnsOK /\ HoldersOK /\ FirstTry

LInv == IInv /\ PoolLossless /\ RequestsLossless
----------------------------------------------------------------------------
(* Facts about the states. *)

\* The dictionary holds each worker once, under its id.
LEMMA TrackedAt ==
  ASSUME PoolInv, NEW w \in Tracked
  PROVE  w \in Objs /\ wid[w] \in Ids /\ workers[wid[w]] = w
  BY TrackedPast DEF PoolInv, PoolTypeOK, DictionaryOK, Tracked

\* The port of a worker that serves is its own.
LEMMA OwnPort ==
  ASSUME PortsOK, NEW w \in Objs, proc[w] \in {"up", "draining"}
  PROVE  Listening(wid[w]) = {w}
  BY DEF PortsOK, Listening, Alive

\* A worker the scheduler may give away is held by nobody and serves.
LEMMA FreeIsFree ==
  ASSUME PoolInv, PoolLossless, HoldersOK, NEW w \in Free
  PROVE  /\ w \in Tracked /\ w \in Objs
         /\ spawn[w] = "done" /\ status[w] = "ready" /\ active[w] = 0
         /\ ~Held(w)
<1>1. w \in Tracked /\ status[w] = "ready" /\ active[w] = 0
  BY DEF Free, IsFree
<1>2. w \in Objs /\ spawn[w] \in Begun
  BY <1>1, TrackedPast DEF Past
<1>3. spawn[w] = "done"
  BY <1>1, <1>2 DEF PoolLossless, ProcessesOK, Begun
<1>4. ~Held(w)
  BY <1>1, <1>2 DEF HoldersOK
<1>5. QED
  BY <1>1, <1>2, <1>3, <1>4

\* The worker that a request holds answers.
LEMMA HolderServed ==
  ASSUME PoolInv, PoolLossless, HoldersOK, NEW r \in Requests, Holds(r)
  PROVE  /\ rworker[r] \in Tracked /\ rworker[r] \in Objs
         /\ spawn[rworker[r]] = "done"
         /\ Listening(wid[rworker[r]]) = {rworker[r]}
<1>1. rworker[r] \in Tracked /\ spawn[rworker[r]] = "done"
  BY DEF HoldersOK
<1>2. rworker[r] \in Objs /\ proc[rworker[r]] = "up"
  BY <1>1, TrackedPast DEF PoolLossless, ProcessesOK
<1>3. QED
  BY <1>1, <1>2, OwnPort DEF PoolLossless

LEMMA AtMostOne ==
  ASSUME NEW S, \A x, y \in S : x = y
  PROVE  Cardinality(S) = IF S = {} THEN 0 ELSE 1
<1>1. CASE S = {}
  BY <1>1, FS_EmptySet
<1>2. CASE S # {}
  <2>1. PICK x \in S : TRUE
    BY <1>2
  <2>2. S = {x}
    BY <2>1
  <2>3. Cardinality({x}) = 1
    BY FS_Singleton
  <2>4. QED
    BY <1>2, <2>2, <2>3
<1>3. QED
  BY <1>1, <1>2

\* Counting holders is adding two numbers of 0 or 1.
LEMMA HeldByIs ==
  ASSUME HoldersOK, NEW w \in Objs
  PROVE  HeldBy(w) = IF Held(w) THEN 1 ELSE 0
<1> DEFINE R == {r \in Requests : /\ rworker[r] = w
                                  /\ rpc[r] \in {"swap", "granted", "sent", "serving"}}
           T == {t \in swaps : t.w = w /\ t.for = "dispatch"}
<1>1. HeldBy(w) = Cardinality(R) + Cardinality(T)
  BY DEF HeldBy
<1>2. \A q, r \in R : q = r
  BY DEF HoldersOK, Holds, HoldingPC
<1>3. \A t, u \in T : t = u
  BY DEF HoldersOK, ForQueue
<1>4. R = {} \/ T = {}
  BY DEF HoldersOK, ForQueue, Holds, HoldingPC
<1>5. Held(w) <=> R # {} \/ T # {}
  BY DEF Held, Holds, HoldingPC, ForQueue
<1> HIDE DEF R, T
<1>6. Cardinality(R) = IF R = {} THEN 0 ELSE 1
  BY <1>2, AtMostOne
<1>7. Cardinality(T) = IF T = {} THEN 0 ELSE 1
  BY <1>3, AtMostOne
<1>8. QED
  BY <1>1, <1>4, <1>5, <1>6, <1>7
----------------------------------------------------------------------------
(* The steps of the pool. *)

DoneKept == \A w \in Objs : spawn[w] = "done" => spawn'[w] = "done"

\* A step that only changes what is known of workers.
LEMMA StatusLossless ==
  ASSUME PoolInv, PoolLossless,
         \A w \in Objs : spawn[w] = "poll" =>
           status'[w] = status[w] \/ status'[w] = "unhealthy",
         \A w \in Objs : check'[w] = "none",
         UNCHANGED <<wid, workers, spawn, proc, stops>>
  PROVE  PoolLossless' /\ DoneKept /\ Tracked' = Tracked
<1>1. Tracked' = Tracked
  BY DEF Tracked
<1>2. ProcessesOK'
  BY <1>1 DEF PoolLossless, ProcessesOK
<1>3. PortsOK' /\ ReapingOK' /\ ChecksOK'
  BY <1>1 DEF PoolLossless, PortsOK, ReapingOK, ChecksOK
<1>4. QED
  BY <1>1, <1>2, <1>3 DEF PoolLossless, DoneKept

LEMMA StartLossless ==
  ASSUME PoolInv, PoolLossless, NEW a, NEW who, StartSpawn(a, who),
         \A w \in Objs : spawn[w] = "poll" => status'[w] = status[w],
         UNCHANGED <<workers, stops, check, proc>>
  PROVE  /\ PoolLossless' /\ DoneKept /\ Tracked' = Tracked
         /\ nextObj \in Objs /\ spawn[nextObj] = "none"
<1>1. /\ nextObj \in Objs
      /\ wid' = [wid EXCEPT ![nextObj] = NextId]
      /\ spawn' = [spawn EXCEPT ![nextObj] = "aggregator"]
  BY PoolConstantsOK DEF StartSpawn, CanSpawn, PoolInv, PoolTypeOK, Objs
<1>2. spawn[nextObj] = "none" /\ proc[nextObj] = "none"
  BY <1>1 DEF PoolInv, ObjectsOK, Objs
<1>3. \A w \in Objs : /\ w # nextObj => spawn'[w] = spawn[w] /\ wid'[w] = wid[w]
                      /\ spawn'[nextObj] = "aggregator"
  BY <1>1 DEF PoolInv, PoolTypeOK
<1>4. Tracked' = Tracked /\ Tracked \subseteq Objs /\ nextObj \notin Tracked
  <2>1. Tracked \subseteq Objs
    BY CountsAreNat DEF PoolInv, PoolTypeOK
  <2>2. nextObj \notin Tracked
    BY <1>2, TrackedPast DEF Past, Begun
  <2>3. QED
    BY <2>1, <2>2 DEF Tracked
<1>5. ProcessesOK'
  BY <1>2, <1>3, <1>4 DEF PoolLossless, ProcessesOK
<1>6. PortsOK'
  BY <1>2, <1>3 DEF PoolLossless, PortsOK, Alive
<1>7. ReapingOK'
  <2>1. \A t \in stops : t.w \in Objs
    BY DEF PoolInv, PoolTypeOK, Stop
  <2>2. QED
    BY <1>2, <1>3, <1>4, <2>1 DEF PoolLossless, ReapingOK
<1>8. ChecksOK'
  BY <1>2, <1>3 DEF PoolLossless, ChecksOK
<1>9. QED
  BY <1>1, <1>2, <1>3, <1>4, <1>5, <1>6, <1>7, <1>8 DEF PoolLossless, DoneKept

LEMMA RefusedLossless ==
  ASSUME PoolInv, PoolLossless, NEW w \in Objs, SpawnRefused(w)
  PROVE  PoolLossless' /\ DoneKept /\ Tracked' = Tracked
<1>1. /\ spawn[w] = "aggregator"
      /\ spawn' = [spawn EXCEPT ![w] = "done"]
      /\ UNCHANGED <<wid, status, workers, stops, check, proc>>
  BY DEF SpawnRefused, fields, checks, processes
<1>2. proc[w] = "none"
  BY <1>1 DEF PoolLossless, ProcessesOK
<1>3. Tracked' = Tracked /\ w \notin Tracked /\ Tracked \subseteq Objs
  <2>1. w \notin Tracked
    BY <1>1, TrackedPast DEF Past, Begun
  <2>2. Tracked \subseteq Objs
    BY CountsAreNat DEF PoolInv, PoolTypeOK
  <2>3. QED
    BY <1>1, <2>1, <2>2 DEF Tracked
<1>4. \A v \in Objs : spawn'[v] = IF v = w THEN "done" ELSE spawn[v]
  BY <1>1 DEF PoolInv, PoolTypeOK
<1>5. ProcessesOK'
  BY <1>1, <1>2, <1>3, <1>4 DEF PoolLossless, ProcessesOK
<1>6. PortsOK'
  BY <1>1 DEF PoolLossless, PortsOK
<1>7. ReapingOK'
  <2>1. \A t \in stops : t.w \in Objs
    BY DEF PoolInv, PoolTypeOK, Stop
  <2>2. QED
    BY <1>1, <1>3, <1>4, <2>1 DEF PoolLossless, ReapingOK
<1>8. ChecksOK'
  BY <1>1, <1>4 DEF PoolLossless, ChecksOK
<1>9. QED
  BY <1>3, <1>4, <1>5, <1>6, <1>7, <1>8 DEF PoolLossless, DoneKept

\* A new worker gets a port of its own: nobody listens there, and nobody is about
\* to, as a process that is loading has its entry in the dictionary.
LEMMA LaunchLossless ==
  ASSUME PoolInv, PoolLossless, NothingLost, NEW w \in Objs,
         Launch(w) \/ LaunchTwins(w)
  PROVE  /\ PoolLossless' /\ DoneKept /\ Tracked' = Tracked \union {w}
         /\ spawn[w] = "aggregator" /\ spawn' = [spawn EXCEPT ![w] = "poll"]
<1> DEFINE i == LaunchId(w)
<1>1. LaunchAs(w, {w})
  BY DEF NothingLost, LaunchTwins, Launch
<1>2. /\ spawn[w] = "aggregator"
      /\ i # NoId /\ Listening(i) = {}
      /\ wid' = [p \in Objs |-> IF p \in {w} THEN i ELSE wid[p]]
      /\ workers' = [workers EXCEPT ![i] = w]
      /\ proc' = [p \in Objs |-> IF p \in {w} THEN "loading" ELSE proc[p]]
      /\ status' = [status EXCEPT ![w] = "starting"]
      /\ spawn' = [spawn EXCEPT ![w] = "poll"]
      /\ UNCHANGED <<stops, check>>
  BY <1>1 DEF LaunchAs, checks, NothingLost
<1>3. i \in Ids /\ workers[i] = NoObj
  BY <1>2, LaunchIdFree
<1> HIDE DEF i
<1>4. /\ \A p \in Objs : spawn'[p] = IF p = w THEN "poll" ELSE spawn[p]
      /\ \A p \in Objs : status'[p] = IF p = w THEN "starting" ELSE status[p]
      /\ \A p \in Objs : wid'[p] = IF p = w THEN i ELSE wid[p]
      /\ \A p \in Objs : proc'[p] = IF p = w THEN "loading" ELSE proc[p]
      /\ \A j \in Ids : workers'[j] = IF j = i THEN w ELSE workers[j]
  BY <1>2 DEF PoolInv, PoolTypeOK
<1>5. Tracked' = Tracked \union {w} /\ Tracked \subseteq Objs /\ w \notin Tracked
  <2>1. Tracked' = {workers'[j] : j \in Ids} \ {NoObj}
    BY DEF Tracked
  <2>2. w \notin Tracked
    BY <1>2, TrackedPast DEF Past, Begun
  <2>3. Tracked \subseteq Objs
    BY CountsAreNat DEF PoolInv, PoolTypeOK
  <2>4. QED
    BY <1>3, <1>4, <2>1, <2>2, <2>3, NoObjIsNone DEF Tracked
<1>6. ProcessesOK'
  BY <1>2, <1>4, <1>5 DEF PoolLossless, ProcessesOK
<1>7. ASSUME NEW p \in Objs, proc[p] \in Alive
      PROVE  wid[p] # i
  <2>1. CASE proc[p] = "loading"
    <3>1. p \in Tracked
      <4>1. spawn[p] \in SpawnPhase
        BY DEF PoolInv, PoolTypeOK
      <4>2. \A t \in stops : t.w = p => proc[p] \in {"up", "draining", "dead"}
        BY DEF PoolLossless, ReapingOK, PoolInv, PoolTypeOK, Stop
      <4>3. QED
        BY <2>1, <4>1, <4>2 DEF PoolLossless, ProcessesOK
    <3>2. workers[wid[p]] = p
      BY <3>1, TrackedAt
    <3>3. QED
      BY <1>3, <3>2, NoObjIsNone
  <2>2. CASE proc[p] \in {"up", "draining"}
    BY <1>2, <2>2 DEF Listening
  <2>3. QED
    BY <1>7, <2>1, <2>2 DEF Alive
<1>8. PortsOK'
  BY <1>4, <1>7 DEF PoolLossless, PortsOK, Alive
<1>9. ReapingOK'
  <2>1. \A t \in stops : t.w \in Objs /\ spawn[t.w] = "done"
    BY DEF PoolInv, PoolTypeOK, Stop, PoolLossless, ReapingOK
  <2>2. QED
    BY <1>2, <1>4, <1>5, <2>1 DEF PoolLossless, ReapingOK
<1>10. ChecksOK'
  BY <1>2, <1>4 DEF PoolLossless, ChecksOK
<1>11. QED
  BY <1>2, <1>4, <1>5, <1>6, <1>8, <1>9, <1>10 DEF PoolLossless, DoneKept

\* Who answers on the port of a worker that is being started is that worker.
LEMMA ReadyLossless ==
  ASSUME PoolInv, PoolLossless, NEW w \in Objs, BecomeReady(w),
         UNCHANGED <<wid, workers, stops, check, proc>>
  PROVE  /\ PoolLossless' /\ DoneKept /\ Tracked' = Tracked
         /\ w \in Tracked /\ spawn[w] = "poll" /\ spawn' = [spawn EXCEPT ![w] = "done"]
         /\ Listening(wid[w]) = {w}
<1>1. /\ spawn[w] = "poll" /\ Listening(wid[w]) # {}
      /\ spawn' = [spawn EXCEPT ![w] = "done"]
      /\ status' = [status EXCEPT ![w] = "ready"]
  BY DEF BecomeReady, NobodyListens
<1>2. w \in Tracked /\ proc[w] \in {"loading", "up"}
  BY <1>1 DEF PoolLossless, ProcessesOK
<1>3. proc[w] = "up"
  <2>1. PICK p \in Objs : proc[p] \in {"up", "draining"} /\ wid[p] = wid[w]
    BY <1>1 DEF Listening
  <2>2. p = w
    BY <1>2, <2>1 DEF PoolLossless, PortsOK, Alive
  <2>3. QED
    BY <1>2, <2>1, <2>2
<1>4. Tracked' = Tracked
  BY DEF Tracked
<1>5. /\ \A v \in Objs : spawn'[v] = IF v = w THEN "done" ELSE spawn[v]
      /\ \A v \in Objs : status'[v] = IF v = w THEN "ready" ELSE status[v]
  BY <1>1 DEF PoolInv, PoolTypeOK
<1>6. Tracked \subseteq Objs
  BY CountsAreNat DEF PoolInv, PoolTypeOK
<1>7. ProcessesOK'
  BY <1>3, <1>4, <1>5, <1>6 DEF PoolLossless, ProcessesOK
<1>8. PortsOK'
  BY DEF PoolLossless, PortsOK
<1>9. ReapingOK'
  <2>1. \A t \in stops : t.w \in Objs
    BY DEF PoolInv, PoolTypeOK, Stop
  <2>2. QED
    BY <1>4, <1>5, <2>1 DEF PoolLossless, ReapingOK
<1>10. ChecksOK'
  BY <1>5 DEF PoolLossless, ChecksOK
<1>11. QED
  BY <1>1, <1>2, <1>3, <1>4, <1>5, <1>7, <1>8, <1>9, <1>10, OwnPort
     DEF PoolLossless, DoneKept

\* The reaper takes a worker that is free out of the dictionary, and no other.
LEMMA ReapLossless ==
  ASSUME PoolInv, PoolLossless, NEW w \in Objs, Reap(w)
  PROVE  /\ PoolLossless' /\ DoneKept /\ Tracked' = Tracked \ {w}
         /\ w \in Free
<1>1. /\ w \in Tracked /\ status[w] = "ready" /\ w \in Free
      /\ status' = [status EXCEPT ![w] = "stopping"]
      /\ workers' = [workers EXCEPT ![wid[w]] = NoObj]
      /\ stops' = stops \union {[w |-> w, by |-> "reaper", phase |-> "post"]}
      /\ UNCHANGED <<wid, spawn, check, proc>>
  BY DEF Reap, Reapable, IsFree, Free, Remove, spawning, checks, processes
<1>2. spawn[w] = "done" /\ proc[w] = "up"
  <2>1. spawn[w] \in Begun
    BY <1>1, TrackedPast DEF Past
  <2>2. QED
    BY <1>1, <2>1 DEF PoolLossless, ProcessesOK, Begun
<1>3. Tracked' = Tracked \ {w} /\ Tracked \subseteq Objs
  <2>1. Tracked' = {workers'[j] : j \in Ids} \ {NoObj}
    BY DEF Tracked
  <2>2. wid[w] \in Ids /\ workers[wid[w]] = w
    BY <1>1, TrackedAt
  <2>3. \A j \in Ids : workers'[j] = IF j = wid[w] THEN NoObj ELSE workers[j]
    BY <1>1 DEF PoolInv, PoolTypeOK
  <2>4. \A j \in Ids : workers[j] = w => j = wid[w]
    BY NoObjIsNone DEF PoolInv, DictionaryOK
  <2>5. Tracked \subseteq Objs
    BY CountsAreNat DEF PoolInv, PoolTypeOK
  <2>6. QED
    BY <2>1, <2>2, <2>3, <2>4, <2>5 DEF Tracked
<1>4. \A v \in Objs : status'[v] = IF v = w THEN "stopping" ELSE status[v]
  BY <1>1 DEF PoolInv, PoolTypeOK
<1>5. ProcessesOK'
  <2>1. \E t \in stops' : t.w = w
    <3> DEFINE s == [w |-> w, by |-> "reaper", phase |-> "post"]
    <3>1. s \in stops' /\ s.w = w
      BY <1>1
    <3> HIDE DEF s
    <3>2. QED
      BY <3>1
  <2>2. \A v \in Objs : proc'[v] \in {"loading", "up"} =>
          v \in Tracked' \/ \E t \in stops' : t.w = v
    BY <1>1, <1>3, <2>1 DEF PoolLossless, ProcessesOK
  <2>3. QED
    BY <1>1, <1>2, <1>3, <1>4, <2>2 DEF PoolLossless, ProcessesOK
<1>6. PortsOK' /\ ChecksOK'
  BY <1>1 DEF PoolLossless, PortsOK, ChecksOK
<1>7. ReapingOK'
  BY <1>1, <1>2, <1>3 DEF PoolLossless, ReapingOK
<1>8. QED
  BY <1>1, <1>3, <1>5, <1>6, <1>7 DEF PoolLossless, DoneKept

LEMMA ShutdownLossless ==
  ASSUME PoolInv, PoolLossless, NEW t \in stops, PostShutdown(t)
  PROVE  PoolLossless' /\ DoneKept /\ Tracked' = Tracked
<1>1. /\ t.phase = "post"
      /\ stops' = (stops \ {t}) \union {[t EXCEPT !.phase = "wait"]}
      /\ proc' = [p \in Objs |-> IF p \in Listening(wid[t.w]) THEN "draining"
                                 ELSE proc[p]]
      /\ UNCHANGED <<wid, status, workers, spawn, check>>
  BY DEF PostShutdown, fields, pool, spawning, checks
<1>2. /\ t.by = "reaper" /\ t.w \notin Tracked /\ spawn[t.w] = "done"
      /\ proc[t.w] = "up" /\ t.w \in Objs
  BY <1>1 DEF PoolInv, PoolTypeOK, Stop, PoolLossless, ReapingOK
<1>3. Listening(wid[t.w]) = {t.w}
  BY <1>2, OwnPort DEF PoolLossless
<1>4. \A p \in Objs : proc'[p] = IF p = t.w THEN "draining" ELSE proc[p]
  BY <1>1, <1>3
<1>5. Tracked' = Tracked /\ Tracked \subseteq Objs
  BY <1>1, CountsAreNat DEF Tracked, PoolInv, PoolTypeOK
<1> DEFINE u == [t EXCEPT !.phase = "wait"]
<1>6. u.w = t.w /\ u.by = t.by /\ u.phase = "wait"
  BY DEF PoolInv, PoolTypeOK, Stop
<1>7. stops' = (stops \ {t}) \union {u}
  BY <1>1
<1> HIDE DEF u
<1>8. ProcessesOK'
  <2>1. \A v \in Objs : (\E s \in stops : s.w = v) => \E s \in stops' : s.w = v
    BY <1>6, <1>7
  <2>2. QED
    BY <1>1, <1>2, <1>4, <1>5, <2>1 DEF PoolLossless, ProcessesOK
<1>9. PortsOK'
  BY <1>1, <1>2, <1>4 DEF PoolLossless, PortsOK, Alive
<1>10. ReapingOK'
  <2>1. \A s \in stops : s # t => s.w # t.w /\ s.w \in Objs
    BY DEF PoolLossless, ReapingOK, PoolInv, PoolTypeOK, Stop
  <2>2. QED
    BY <1>1, <1>2, <1>4, <1>5, <1>6, <1>7, <2>1 DEF PoolLossless, ReapingOK
<1>11. ChecksOK'
  BY <1>1 DEF PoolLossless, ChecksOK
<1>12. QED
  BY <1>1, <1>5, <1>8, <1>9, <1>10, <1>11 DEF PoolLossless, DoneKept

LEMMA FinishStopLossless ==
  ASSUME PoolInv, PoolLossless, NEW t \in stops, FinishStop(t)
  PROVE  PoolLossless' /\ DoneKept /\ Tracked' = Tracked /\ spawn' = spawn
         /\ t.by = "reaper"
<1>1. t.by = "reaper" /\ t.w \notin Tracked /\ spawn[t.w] = "done" /\ t.w \in Objs
  BY DEF PoolInv, PoolTypeOK, Stop, PoolLossless, ReapingOK
<1>2. /\ stops' = stops \ {t}
      /\ proc' = [proc EXCEPT ![t.w] = "dead"]
      /\ UNCHANGED <<wid, status, workers, spawn, check>>
  BY <1>1 DEF FinishStop, fields, checks
<1>3. \A p \in Objs : proc'[p] = IF p = t.w THEN "dead" ELSE proc[p]
  BY <1>1, <1>2 DEF PoolInv, PoolTypeOK
<1>4. Tracked' = Tracked /\ Tracked \subseteq Objs
  BY <1>2, CountsAreNat DEF Tracked, PoolInv, PoolTypeOK
<1>5. ProcessesOK'
  <2>1. \A v \in Objs : v # t.w /\ (\E s \in stops : s.w = v) => \E s \in stops' : s.w = v
    BY <1>2
  <2>2. QED
    BY <1>1, <1>2, <1>3, <1>4, <2>1 DEF PoolLossless, ProcessesOK
<1>6. PortsOK' /\ ChecksOK'
  BY <1>2, <1>3 DEF PoolLossless, PortsOK, ChecksOK, Alive
<1>7. ReapingOK'
  <2>1. \A s \in stops' : s \in stops /\ s.w # t.w /\ s.w \in Objs
    BY <1>2 DEF PoolLossless, ReapingOK, PoolInv, PoolTypeOK, Stop
  <2>2. QED
    BY <1>2, <1>3, <1>4, <2>1 DEF PoolLossless, ReapingOK
<1>8. QED
  BY <1>1, <1>2, <1>4, <1>5, <1>6, <1>7 DEF PoolLossless, DoneKept

\* The port of a process that is loading is free when it binds it.
LEMMA BindLossless ==
  ASSUME PoolInv, PoolLossless, NEW p \in Objs, Bind(p)
  PROVE  PoolLossless' /\ DoneKept /\ Tracked' = Tracked
<1>1. /\ proc[p] = "loading"
      /\ proc' = [proc EXCEPT ![p] =
                    IF Listening(wid[p]) = {} THEN "up" ELSE "dead"]
      /\ UNCHANGED <<wid, status, workers, spawn, check, stops>>
  BY DEF Bind, fields, pool, spawning, checks
<1>2. Listening(wid[p]) = {}
  BY <1>1 DEF PoolLossless, PortsOK, Listening, Alive
<1>3. \A q \in Objs : proc'[q] = IF q = p THEN "up" ELSE proc[q]
  BY <1>1, <1>2 DEF PoolInv, PoolTypeOK
<1>4. Tracked' = Tracked /\ Tracked \subseteq Objs
  BY <1>1, CountsAreNat DEF Tracked, PoolInv, PoolTypeOK
<1>5. ProcessesOK'
  BY <1>1, <1>3, <1>4 DEF PoolLossless, ProcessesOK
<1>6. PortsOK' /\ ChecksOK'
  BY <1>1, <1>3 DEF PoolLossless, PortsOK, ChecksOK, Alive
<1>7. ReapingOK'
  <2>1. \A s \in stops : s.w \in Objs /\ s.w # p /\ s.phase \in {"post", "wait"}
    BY <1>1 DEF PoolLossless, ReapingOK, PoolInv, PoolTypeOK, Stop
  <2>2. QED
    BY <1>1, <1>3, <1>4, <2>1 DEF PoolLossless, ReapingOK
<1>8. QED
  BY <1>1, <1>4, <1>5, <1>6, <1>7 DEF PoolLossless, DoneKept

LEMMA ExitLossless ==
  ASSUME PoolInv, PoolLossless, NEW p \in Objs, Exit(p)
  PROVE  PoolLossless' /\ DoneKept /\ Tracked' = Tracked
<1>1. /\ proc[p] = "draining"
      /\ proc' = [proc EXCEPT ![p] = "dead"]
      /\ UNCHANGED <<wid, status, workers, spawn, check, stops>>
  BY DEF Exit, fields, pool, spawning, checks
<1>2. \A q \in Objs : proc'[q] = IF q = p THEN "dead" ELSE proc[q]
  BY <1>1 DEF PoolInv, PoolTypeOK
<1>3. Tracked' = Tracked /\ Tracked \subseteq Objs
  BY <1>1, CountsAreNat DEF Tracked, PoolInv, PoolTypeOK
<1>4. ProcessesOK'
  BY <1>1, <1>2, <1>3 DEF PoolLossless, ProcessesOK
<1>5. PortsOK' /\ ChecksOK'
  BY <1>1, <1>2 DEF PoolLossless, PortsOK, ChecksOK, Alive
<1>6. ReapingOK'
  <2>1. \A s \in stops : s.w \in Objs
    BY DEF PoolInv, PoolTypeOK, Stop
  <2>2. QED
    BY <1>1, <1>2, <1>3, <2>1 DEF PoolLossless, ReapingOK
<1>7. QED
  BY <1>1, <1>3, <1>4, <1>5, <1>6 DEF PoolLossless, DoneKept
----------------------------------------------------------------------------
(* Who holds a worker. In each of these steps only r and t may change what *)
(* they hold.                                                              *)

\* What is left alone by every step: a worker somebody holds stays in the
\* dictionary.
KeepsHeld ==
  /\ DoneKept
  /\ \A w \in Tracked : Held(w) => w \in Tracked'

SameForOthers(r) ==
  \A q \in Requests : q # r => rpc'[q] = rpc[q] /\ rworker'[q] = rworker[q]

SameQueueSwaps ==
  /\ \A t \in swaps' : ForQueue(t) => t \in swaps
  /\ \A t \in swaps : ForQueue(t) => t \in swaps'

LEMMA HolderStays ==
  ASSUME PoolInv, RequestTypeOK, HoldersOK, KeepsHeld, SameQueueSwaps,
         NEW r, SameForOthers(r), Holds(r)' <=> Holds(r),
         Holds(r) => rworker'[r] = rworker[r],
         active' = active
  PROVE  HoldersOK'
<1>1. \A q \in Requests : Holds(q)' <=> Holds(q)
  BY DEF SameForOthers, Holds
<1>2. \A q \in Requests : Holds(q) => rworker'[q] = rworker[q]
  BY DEF SameForOthers
<1>3. \A w \in Objs : Held(w)' <=> Held(w)
  BY <1>1, <1>2 DEF Held, SameQueueSwaps, ForQueue
<1>4. \A q \in Requests : Holds(q) =>
        rworker[q] \in Objs /\ rworker[q] \in Tracked' /\ spawn'[rworker[q]] = "done"
  <2>1. \A q \in Requests : Holds(q) =>
          rworker[q] \in Tracked /\ Held(rworker[q]) /\ spawn[rworker[q]] = "done"
    BY DEF HoldersOK, Held
  <2>2. QED
    BY <2>1, TrackedPast DEF KeepsHeld, DoneKept
<1>5. \A t \in swaps : ForQueue(t) => t.w \in Tracked'
  BY DEF HoldersOK, Held, KeepsHeld
<1>6. QED
  BY <1>1, <1>2, <1>3, <1>4, <1>5 DEF HoldersOK, SameQueueSwaps

LEMMA HolderTakes ==
  ASSUME PoolInv, RequestTypeOK, HoldersOK, KeepsHeld, SameQueueSwaps,
         NEW r \in Requests, SameForOthers(r), ~Holds(r), Holds(r)',
         NEW w \in Objs, rworker'[r] = w, w \in Tracked', spawn'[w] = "done",
         ~Held(w), active' = [active EXCEPT ![w] = @ + 1]
  PROVE  HoldersOK'
<1>1. \A q \in Requests : q # r => (Holds(q)' <=> Holds(q)) /\ rworker'[q] = rworker[q]
  BY DEF SameForOthers, Holds
<1>2. \A v \in Objs : Held(v)' <=> Held(v) \/ v = w
  BY <1>1 DEF Held, SameQueueSwaps, ForQueue
<1>3. \A q \in Requests : Holds(q) =>
        rworker[q] \in Objs /\ rworker[q] \in Tracked' /\ spawn'[rworker[q]] = "done"
          /\ rworker[q] # w
  <2>1. \A q \in Requests : Holds(q) =>
          rworker[q] \in Tracked /\ Held(rworker[q]) /\ spawn[rworker[q]] = "done"
    BY DEF HoldersOK, Held
  <2>2. QED
    BY <2>1, TrackedPast DEF KeepsHeld, DoneKept
<1>4. \A t \in swaps : ForQueue(t) => t.w \in Tracked' /\ t.w # w
  BY DEF HoldersOK, Held, KeepsHeld
<1>5. \A v \in Objs : active'[v] = IF v = w THEN active[v] + 1 ELSE active[v]
  BY DEF PoolInv, PoolTypeOK
<1>6. \A v \in Objs : active'[v] = IF Held(v)' THEN 1 ELSE 0
  BY <1>2, <1>5 DEF HoldersOK
<1>7. QED
  BY <1>1, <1>3, <1>4, <1>6 DEF HoldersOK, SameQueueSwaps

LEMMA HolderGives ==
  ASSUME PoolInv, RequestTypeOK, HoldersOK, KeepsHeld, SameQueueSwaps,
         NEW r \in Requests, SameForOthers(r), Holds(r), ~Holds(r)',
         active' = [active EXCEPT ![rworker[r]] = @ - 1]
  PROVE  HoldersOK'
<1>1. \A q \in Requests : q # r => (Holds(q)' <=> Holds(q)) /\ rworker'[q] = rworker[q]
  BY DEF SameForOthers, Holds
<1>2. \A v \in Objs : Held(v)' <=> Held(v) /\ v # rworker[r]
  BY <1>1 DEF Held, SameQueueSwaps, ForQueue, HoldersOK
<1>3. \A q \in Requests : Holds(q) =>
        rworker[q] \in Objs /\ rworker[q] \in Tracked' /\ spawn'[rworker[q]] = "done"
  <2>1. \A q \in Requests : Holds(q) =>
          rworker[q] \in Tracked /\ Held(rworker[q]) /\ spawn[rworker[q]] = "done"
    BY DEF HoldersOK, Held
  <2>2. QED
    BY <2>1, TrackedPast DEF KeepsHeld, DoneKept
<1>4. \A t \in swaps : ForQueue(t) => t.w \in Tracked'
  BY DEF HoldersOK, Held, KeepsHeld
<1>5. \A v \in Objs : active'[v] = IF v = rworker[r] THEN active[v] - 1 ELSE active[v]
  BY DEF PoolInv, PoolTypeOK
<1>6. \A v \in Objs : active'[v] = IF Held(v)' THEN 1 ELSE 0
  <2>1. Held(rworker[r])
    BY DEF Held
  <2>2. QED
    BY <1>2, <1>5, <2>1 DEF HoldersOK
<1>7. QED
  BY <1>1, <1>3, <1>4, <1>6 DEF HoldersOK, SameQueueSwaps

\* A swap for an entry of the queue takes a worker, goes on, or gives it back.
LEMMA QueueTakes ==
  ASSUME PoolInv, RequestTypeOK, HoldersOK, KeepsHeld, UNCHANGED <<rpc, rworker>>,
         NEW t, ForQueue(t), t.w \in Objs, t.w \in Tracked', ~Held(t.w),
         swaps' = swaps \union {t}, active' = [active EXCEPT ![t.w] = @ + 1]
  PROVE  HoldersOK'
<1>1. \A q \in Requests : Holds(q)' <=> Holds(q)
  BY DEF Holds
<1>2. \A v \in Objs : Held(v)' <=> Held(v) \/ v = t.w
  BY <1>1 DEF Held, ForQueue
<1>3. \A q \in Requests : Holds(q) =>
        rworker[q] \in Objs /\ rworker[q] \in Tracked' /\ spawn'[rworker[q]] = "done"
          /\ rworker[q] # t.w
  <2>1. \A q \in Requests : Holds(q) =>
          rworker[q] \in Tracked /\ Held(rworker[q]) /\ spawn[rworker[q]] = "done"
    BY DEF HoldersOK, Held
  <2>2. QED
    BY <2>1, TrackedPast DEF KeepsHeld, DoneKept
<1>4. \A u \in swaps : ForQueue(u) => u.w \in Tracked' /\ u.w # t.w
  BY DEF HoldersOK, Held, KeepsHeld
<1>5. \A v \in Objs : active'[v] = IF v = t.w THEN active[v] + 1 ELSE active[v]
  BY DEF PoolInv, PoolTypeOK
<1>6. \A v \in Objs : active'[v] = IF Held(v)' THEN 1 ELSE 0
  BY <1>2, <1>5 DEF HoldersOK
<1>7. QED
  BY <1>1, <1>3, <1>4, <1>6 DEF HoldersOK

LEMMA QueueGoesOn ==
  ASSUME PoolInv, RequestTypeOK, HoldersOK, KeepsHeld, UNCHANGED <<rpc, rworker, active>>,
         NEW t \in swaps, NEW u, u.w = t.w, u.for = t.for,
         swaps' = (swaps \ {t}) \union {u}
  PROVE  HoldersOK'
<1>1. \A q \in Requests : Holds(q)' <=> Holds(q)
  BY DEF Holds
<1>2. \A v \in Objs : Held(v)' <=> Held(v)
  BY <1>1 DEF Held, ForQueue
<1>3. \A q \in Requests : Holds(q) =>
        rworker[q] \in Objs /\ rworker[q] \in Tracked' /\ spawn'[rworker[q]] = "done"
  <2>1. \A q \in Requests : Holds(q) =>
          rworker[q] \in Tracked /\ Held(rworker[q]) /\ spawn[rworker[q]] = "done"
    BY DEF HoldersOK, Held
  <2>2. QED
    BY <2>1, TrackedPast DEF KeepsHeld, DoneKept
<1>4. \A s \in swaps : ForQueue(s) => s.w \in Tracked'
  BY DEF HoldersOK, Held, KeepsHeld
<1>5. QED
  BY <1>1, <1>2, <1>3, <1>4 DEF HoldersOK, ForQueue

LEMMA QueueGives ==
  ASSUME PoolInv, RequestTypeOK, HoldersOK, KeepsHeld, UNCHANGED <<rpc, rworker>>,
         NEW t \in swaps, ForQueue(t), swaps' = swaps \ {t},
         active' = [active EXCEPT ![t.w] = @ - 1]
  PROVE  HoldersOK'
<1>1. \A q \in Requests : Holds(q)' <=> Holds(q)
  BY DEF Holds
<1>2. \A v \in Objs : Held(v)' <=> Held(v) /\ v # t.w
  BY <1>1 DEF Held, ForQueue, HoldersOK
<1>3. \A q \in Requests : Holds(q) =>
        rworker[q] \in Objs /\ rworker[q] \in Tracked' /\ spawn'[rworker[q]] = "done"
  <2>1. \A q \in Requests : Holds(q) =>
          rworker[q] \in Tracked /\ Held(rworker[q]) /\ spawn[rworker[q]] = "done"
    BY DEF HoldersOK, Held
  <2>2. QED
    BY <2>1, TrackedPast DEF KeepsHeld, DoneKept
<1>4. \A u \in swaps : ForQueue(u) => u.w \in Tracked'
  BY DEF HoldersOK, Held, KeepsHeld
<1>5. \A v \in Objs : active'[v] = IF v = t.w THEN active[v] - 1 ELSE active[v]
  BY DEF PoolInv, PoolTypeOK
<1>6. \A v \in Objs : active'[v] = IF Held(v)' THEN 1 ELSE 0
  <2>1. Held(t.w)
    BY DEF Held
  <2>2. QED
    BY <1>2, <1>5, <2>1 DEF HoldersOK
<1>7. QED
  BY <1>1, <1>3, <1>4, <1>6 DEF HoldersOK

\* It hands the worker to the request it waited for.
LEMMA QueueHandsOver ==
  ASSUME PoolInv, RequestTypeOK, HoldersOK, KeepsHeld, active' = active,
         NEW t \in swaps, ForQueue(t), swaps' = swaps \ {t}, spawn'[t.w] = "done",
         NEW r \in Requests, SameForOthers(r), ~Holds(r), Holds(r)', rworker'[r] = t.w
  PROVE  HoldersOK'
<1>1. \A q \in Requests : q # r => (Holds(q)' <=> Holds(q)) /\ rworker'[q] = rworker[q]
  BY DEF SameForOthers, Holds
<1>2. \A v \in Objs : Held(v)' <=> Held(v)
  BY <1>1 DEF Held, ForQueue, HoldersOK
<1>3. \A q \in Requests : Holds(q) =>
        rworker[q] \in Objs /\ rworker[q] \in Tracked' /\ spawn'[rworker[q]] = "done"
          /\ rworker[q] # t.w
  <2>1. \A q \in Requests : Holds(q) =>
          rworker[q] \in Tracked /\ Held(rworker[q]) /\ spawn[rworker[q]] = "done"
            /\ rworker[q] # t.w
    BY DEF HoldersOK, Held
  <2>2. QED
    BY <2>1, TrackedPast DEF KeepsHeld, DoneKept
<1>4. \A u \in swaps : ForQueue(u) => u.w \in Tracked'
  BY DEF HoldersOK, Held, KeepsHeld
<1>5. \A u \in swaps : ForQueue(u) /\ u # t => u.w # t.w
  BY DEF HoldersOK
<1>6. QED
  BY <1>1, <1>2, <1>3, <1>4, <1>5 DEF HoldersOK
----------------------------------------------------------------------------
(* Spawns and swaps that requests await. *)

AwaitsSpawn(r) == rpc[r] \in {"spawn1", "spawn2"}

LEMMA SpawnsKept ==
  ASSUME SpawnsOK,
         \A w \in Objs : Pending(w)' => Pending(w) /\ owner'[w] = owner[w],
         \A r \in Requests : AwaitsSpawn(r) =>
           \/ AwaitsSpawn(r)'
           \/ \A w \in Objs : Pending(w)' => owner[w].by # r
  PROVE  SpawnsOK'
<1>1. \A w \in Objs : Pending(w)' /\ owner'[w].by \in Requests =>
        rpc'[owner'[w].by] \in {"spawn1", "spawn2"}
  BY DEF SpawnsOK, AwaitsSpawn
<1>2. QED
  BY <1>1 DEF SpawnsOK

\* A request that starts a spawn had none; nobody awaits the others.
LEMMA SpawnsStarted ==
  ASSUME PoolInv, SpawnsOK, NEW a, NEW who, StartSpawn(a, who),
         nextObj \in Objs, spawn[nextObj] = "none",
         who \in Requests => ~AwaitsSpawn(who) /\ AwaitsSpawn(who)',
         \A r \in Requests : r # who /\ AwaitsSpawn(r) => AwaitsSpawn(r)'
  PROVE  SpawnsOK'
<1>1. \A w \in Objs :
        /\ spawn'[w] = IF w = nextObj THEN "aggregator" ELSE spawn[w]
        /\ w # nextObj => owner'[w] = owner[w]
  BY DEF StartSpawn, PoolInv, PoolTypeOK
<1>2. owner'[nextObj].by = who
  BY DEF StartSpawn, PoolInv, PoolTypeOK
<1>3. \A w \in Objs : w # nextObj => (Pending(w)' <=> Pending(w))
  BY <1>1 DEF Pending
<1>4. \A w \in Objs : w # nextObj /\ Pending(w) /\ owner[w].by \in Requests =>
        owner[w].by # who /\ AwaitsSpawn(owner[w].by)
  BY DEF SpawnsOK, AwaitsSpawn
<1>5. \A w \in Objs : Pending(w)' /\ owner'[w].by \in Requests =>
        /\ rpc'[owner'[w].by] \in {"spawn1", "spawn2"}
        /\ w # nextObj => owner'[w].by # who
  <2>1. TAKE w \in Objs
  <2>2. CASE w = nextObj
    BY <1>2, <2>2 DEF AwaitsSpawn
  <2>3. CASE w # nextObj
    BY <1>1, <1>3, <1>4, <2>3 DEF AwaitsSpawn
  <2>4. QED
    BY <2>2, <2>3
<1>6. \A v, w \in Objs :
        /\ Pending(v)' /\ Pending(w)'
        /\ owner'[v].by \in Requests /\ owner'[v].by = owner'[w].by
        => v = w
  BY <1>1, <1>2, <1>3, <1>5 DEF SpawnsOK
<1>7. QED
  BY <1>5, <1>6 DEF SpawnsOK

LEMMA SwapsKept ==
  ASSUME PoolInv, RequestInv, SwapsOK, DoneKept, swaps' \subseteq swaps,
         \A r \in Requests : rpc[r] = "swap" =>
           \/ rpc'[r] = "swap" /\ rworker'[r] = rworker[r]
           \/ \A t \in swaps' : t.for = "route" => t.entry.r # r
  PROVE  SwapsOK'
<1>1. \A t \in swaps : t.w \in Objs
  BY DEF RequestInv, RequestTypeOK, Swap
<1>2. \A t \in swaps : t.for = "route" => t.entry.r \in Requests
  BY DEF RequestInv, ReferencesOK, Entry
<1>3. QED
  BY <1>1, <1>2 DEF SwapsOK, DoneKept

\* One more swap, for a request only if it awaits none yet.
LEMMA SwapAdded ==
  ASSUME PoolInv, RequestInv, SwapsOK, DoneKept,
         NEW t, t.w \in Objs, spawn[t.w] = "done", swaps' = swaps \union {t},
         \A r \in Requests : rpc[r] = "swap" =>
           rpc'[r] = "swap" /\ rworker'[r] = rworker[r],
         t.for = "route" =>
           /\ t.entry.r \in Requests /\ rpc[t.entry.r] # "swap"
           /\ rpc'[t.entry.r] = "swap" /\ rworker'[t.entry.r] = t.w
  PROVE  SwapsOK'
<1>1. \A u \in swaps : u.w \in Objs
  BY DEF RequestInv, RequestTypeOK, Swap
<1>2. \A u \in swaps : u.for = "route" => u.entry.r \in Requests
  BY DEF RequestInv, ReferencesOK, Entry
<1>3. \A u \in swaps : u.for = "route" /\ t.for = "route" => u.entry.r # t.entry.r
  BY DEF SwapsOK
<1>4. QED
  BY <1>1, <1>2, <1>3 DEF SwapsOK, DoneKept

LEMMA SwapGoesOn ==
  ASSUME PoolInv, RequestInv, SwapsOK, DoneKept, UNCHANGED <<rpc, rworker>>,
         NEW t \in swaps, NEW u, u.w = t.w, u.for = t.for, u.entry = t.entry,
         swaps' = (swaps \ {t}) \union {u}
  PROVE  SwapsOK'
<1>1. \A s \in swaps : s.w \in Objs
  BY DEF RequestInv, RequestTypeOK, Swap
<1>2. \A s \in swaps : spawn'[s.w] = "done"
  BY <1>1 DEF SwapsOK, DoneKept
<1>3. \A s \in swaps' : s = u \/ (s \in swaps /\ s # t)
  OBVIOUS
<1>4. /\ spawn'[u.w] = "done"
      /\ u.for = "route" => rpc'[u.entry.r] = "swap" /\ rworker'[u.entry.r] = u.w
  BY <1>2 DEF SwapsOK
<1>5. \A s \in swaps : /\ s # t /\ s.for = "route" /\ u.for = "route"
                         => s.entry.r # u.entry.r
  BY DEF SwapsOK
<1>6. QED
  BY <1>2, <1>3, <1>4, <1>5 DEF SwapsOK

\* A step of the pool that leaves the requests alone.
LEMMA RequestsLeftAlone ==
  ASSUME PoolInv, RequestInv, RequestsLossless, KeepsHeld,
         \A w \in Objs : Pending(w)' => Pending(w) /\ owner'[w] = owner[w],
         UNCHANGED <<rpc, rworker, attempt, swaps, active>>
  PROVE  RequestsLossless'
<1>1. SwapsOK'
  BY SwapsKept DEF RequestsLossless, KeepsHeld
<1>2. SpawnsOK'
  BY SpawnsKept DEF RequestsLossless, AwaitsSpawn
<1>3. HoldersOK'
  BY HolderStays DEF RequestsLossless, RequestInv, SameForOthers, SameQueueSwaps, Holds
<1>4. FirstTry'
  BY DEF RequestsLossless, FirstTry
<1>5. QED
  BY <1>1, <1>2, <1>3, <1>4 DEF RequestsLossless
----------------------------------------------------------------------------
(* Each action keeps the invariant: requests that go on by themselves. *)

Good == PoolInv /\ RequestInv /\ PoolLossless /\ RequestsLossless

LEMMA PoolStill ==
  ASSUME Good, UNCHANGED <<wid, status, workers, spawn, check, proc, stops>>
  PROVE  PoolLossless' /\ KeepsHeld /\ Tracked' = Tracked
<1>1. \A w \in Objs : check'[w] = "none"
  BY DEF Good, PoolLossless, ChecksOK
<1>2. QED
  BY <1>1, StatusLossless DEF Good, KeepsHeld

\* A request that awaits neither a swap nor a spawn goes on.
LEMMA MovesOn ==
  ASSUME Good, DoneKept, NEW r \in Requests, NEW pc, rpc' = [rpc EXCEPT ![r] = pc],
         rpc[r] \notin {"swap", "spawn1", "spawn2"},
         rworker' = rworker \/ \E w : rworker' = [rworker EXCEPT ![r] = w],
         \A w \in Objs : Pending(w)' => Pending(w) /\ owner'[w] = owner[w],
         UNCHANGED <<swaps, attempt>>
  PROVE  /\ SwapsOK' /\ SpawnsOK' /\ FirstTry'
         /\ SameForOthers(r) /\ rpc'[r] = pc /\ SameQueueSwaps
<1>1. /\ \A q \in Requests : q # r => rpc'[q] = rpc[q] /\ rworker'[q] = rworker[q]
      /\ rpc'[r] = pc
  BY DEF Good, RequestInv, RequestTypeOK
<1>2. SwapsOK'
  BY <1>1, SwapsKept DEF Good, RequestsLossless
<1>3. SpawnsOK'
  BY <1>1, SpawnsKept DEF Good, RequestsLossless, AwaitsSpawn
<1>4. QED
  BY <1>1, <1>2, <1>3 DEF Good, RequestsLossless, FirstTry, SameForOthers, SameQueueSwaps

\* A request is given a free worker that has its adapter.
LEMMA TakesLossless ==
  ASSUME Good, NEW r \in Requests, NEW pc \in {"sent", "granted"},
         rpc[r] \in {"new", "queued"}, rpc' = [rpc EXCEPT ![r] = pc],
         NEW w \in Free, Reserve(w), rworker' = [rworker EXCEPT ![r] = w],
         UNCHANGED <<wid, status, workers, spawn, owner, check, proc, stops,
                     swaps, attempt>>
  PROVE  PoolLossless' /\ RequestsLossless'
<1>1. w \in Tracked /\ w \in Objs /\ spawn[w] = "done" /\ ~Held(w)
  BY FreeIsFree DEF Good, RequestsLossless
<1>2. PoolLossless' /\ KeepsHeld /\ Tracked' = Tracked
  BY PoolStill
<1>3. /\ SwapsOK' /\ SpawnsOK' /\ FirstTry'
      /\ SameForOthers(r) /\ rpc'[r] = pc /\ SameQueueSwaps
  BY <1>2, MovesOn DEF KeepsHeld, Pending
<1>4. rworker'[r] = w
  BY DEF Good, RequestInv, RequestTypeOK
<1>5. HoldersOK'
  BY <1>1, <1>2, <1>3, <1>4, HolderTakes
     DEF Good, RequestInv, RequestsLossless, Holds, HoldingPC, Reserve
<1>6. QED
  BY <1>2, <1>3, <1>5 DEF RequestsLossless

LEMMA RouteMatchLossless ==
  ASSUME Good, NEW r \in Requests, RouteMatch(r)
  PROVE  PoolLossless' /\ RequestsLossless'
<1>1. PICK w \in Free : Reserve(w) /\ rworker' = [rworker EXCEPT ![r] = w]
  BY DEF RouteMatch, Matching
<1>2. /\ rpc[r] = "new" /\ rpc' = [rpc EXCEPT ![r] = "sent"]
      /\ UNCHANGED <<wid, status, workers, spawn, owner, check, proc, stops,
                     swaps, attempt>>
  BY DEF RouteMatch, pool, spawning, checks, processes
<1>3. QED
  BY <1>1, <1>2, TakesLossless

\* A request that neither takes nor gives back a worker.
LEMMA WaitsLossless ==
  ASSUME Good, NEW r \in Requests, NEW pc, rpc' = [rpc EXCEPT ![r] = pc],
         rpc[r] \notin {"swap", "spawn1", "spawn2"},
         rpc[r] \in HoldingPC <=> pc \in HoldingPC,
         UNCHANGED <<poolVars, rworker, swaps, attempt>>
  PROVE  PoolLossless' /\ RequestsLossless'
<1>1. UNCHANGED <<wid, status, active, workers, spawn, owner, check, proc, stops>>
  BY DEF poolVars, fields, pool, spawning, checks, processes
<1>2. PoolLossless' /\ KeepsHeld /\ Tracked' = Tracked
  BY <1>1, PoolStill
<1>3. /\ SwapsOK' /\ SpawnsOK' /\ FirstTry'
      /\ SameForOthers(r) /\ rpc'[r] = pc /\ SameQueueSwaps
  BY <1>1, <1>2, MovesOn DEF KeepsHeld, Pending
<1>4. HoldersOK'
  BY <1>1, <1>2, <1>3, HolderStays DEF Good, RequestInv, RequestsLossless, Holds
<1>5. QED
  BY <1>2, <1>3, <1>4 DEF RequestsLossless

LEMMA QueueLossless ==
  ASSUME Good, NEW r \in Requests, RouteQueue(r) \/ QueueTimeout(r) \/ Serve(r)
  PROVE  PoolLossless' /\ RequestsLossless'
<1>1. \E pc : /\ rpc' = [rpc EXCEPT ![r] = pc]
              /\ rpc[r] \notin {"swap", "spawn1", "spawn2"}
              /\ rpc[r] \in HoldingPC <=> pc \in HoldingPC
  BY DEF RouteQueue, QueueTimeout, Serve, HoldingPC
<1>2. UNCHANGED <<poolVars, rworker, swaps, attempt>>
  BY DEF RouteQueue, QueueTimeout, Serve
<1>3. QED
  BY <1>1, <1>2, WaitsLossless

\* A request gives its worker back.
LEMMA GivesLossless ==
  ASSUME Good, NEW r \in Requests, NEW pc \in {"done", "failed"},
         rpc' = [rpc EXCEPT ![r] = pc], rpc[r] \in {"granted", "sent", "serving"},
         Unreserve(rworker[r]),
         \A w \in Objs : spawn[w] = "poll" => status'[w] = status[w],
         UNCHANGED <<wid, workers, spawn, owner, check, proc, stops, rworker,
                     swaps, attempt>>
  PROVE  PoolLossless' /\ RequestsLossless'
<1>1. PoolLossless' /\ DoneKept /\ Tracked' = Tracked
  <2>1. \A w \in Objs : check'[w] = "none"
    BY DEF Good, PoolLossless, ChecksOK
  <2>2. QED
    BY <2>1, StatusLossless DEF Good
<1>2. KeepsHeld
  BY <1>1 DEF KeepsHeld
<1>3. /\ SwapsOK' /\ SpawnsOK' /\ FirstTry'
      /\ SameForOthers(r) /\ rpc'[r] = pc /\ SameQueueSwaps
  BY <1>1, MovesOn DEF Pending
<1>4. HoldersOK'
  BY <1>2, <1>3, HolderGives
     DEF Good, RequestInv, RequestsLossless, Holds, HoldingPC, Unreserve
<1>5. QED
  BY <1>1, <1>3, <1>4 DEF RequestsLossless

LEMMA AnswerLossless ==
  ASSUME Good, NEW r \in Requests, Reject(r) \/ FinishServing(r)
  PROVE  PoolLossless' /\ RequestsLossless'
<1>1. /\ \E pc \in {"done", "failed"} : rpc' = [rpc EXCEPT ![r] = pc]
      /\ rpc[r] \in {"sent", "serving"}
      /\ Unreserve(rworker[r])
      /\ status' = [status EXCEPT ![rworker[r]] =
                      IF @ = "unhealthy" THEN "ready" ELSE @]
      /\ UNCHANGED <<wid, workers, spawn, owner, check, proc, stops, rworker,
                     swaps, attempt>>
  BY DEF Reject, FinishServing, GiveBack, pool, spawning, checks, processes
<1>2. spawn[rworker[r]] = "done"
  BY <1>1 DEF Good, RequestsLossless, HoldersOK, Holds, HoldingPC
<1>3. \A w \in Objs : spawn[w] = "poll" => status'[w] = status[w]
  BY <1>1, <1>2 DEF Good, PoolInv, PoolTypeOK
<1>4. QED
  BY <1>1, <1>3, GivesLossless

\* A request that has its worker is never refused.
LEMMA NeverRefused ==
  ASSUME Good, NEW r \in Requests
  PROVE  ~Refused(r)
<1> SUFFICES ASSUME Refused(r) PROVE FALSE
  OBVIOUS
<1>1. Holds(r) /\ Listening(wid[rworker[r]]) = {}
  BY DEF Refused, NobodyListens, Holds, HoldingPC
<1>2. QED
  BY <1>1, HolderServed DEF Good, RequestsLossless

\* The first try is granted what the dispatcher reserved for it, no more.
LEMMA TakeGrantLossless ==
  ASSUME Good, NEW r \in Requests, TakeGrant(r)
  PROVE  PoolLossless' /\ RequestsLossless'
<1>1. /\ rpc[r] = "granted" /\ attempt[r] = 0
      /\ rworker[r] \in Objs /\ active[rworker[r]] \in Int
  BY HolderServed DEF TakeGrant, Good, RequestsLossless, FirstTry, PoolInv, PoolTypeOK,
     Holds, HoldingPC
<1>2. UNCHANGED <<wid, adapter, status, pool, spawning, stops, checks, processes,
                  want, rworker, attempt, server, used, queue, swaps>>
  BY DEF TakeGrant
<1>3. UNCHANGED <<wid, status, workers, spawn, owner, check, proc, stops, rworker,
                  swaps, attempt>>
  BY <1>2 DEF pool, spawning, checks, processes
<1>4. CASE status[rworker[r]] = "stopping"
  <2>1. Unreserve(rworker[r]) /\ rpc' = [rpc EXCEPT ![r] = "failed"]
    BY <1>1, <1>4 DEF TakeGrant, Unreserve
  <2>2. QED
    BY <1>1, <1>3, <2>1, GivesLossless
<1>5. CASE status[rworker[r]] # "stopping"
  <2>1. active' = active /\ rpc' = [rpc EXCEPT ![r] = "sent"]
    BY <1>1, <1>5 DEF TakeGrant, Good, PoolInv, PoolTypeOK
  <2>2. UNCHANGED poolVars
    BY <1>2, <2>1 DEF poolVars, fields
  <2>3. QED
    BY <1>1, <1>3, <2>1, <2>2, WaitsLossless DEF HoldingPC
<1>6. QED
  BY <1>4, <1>5
----------------------------------------------------------------------------
(* The dispatcher and the swaps it starts. *)

LEMMA StillLossless ==
  ASSUME Good, UNCHANGED <<poolVars, rpc, rworker, attempt, swaps>>
  PROVE  PoolLossless' /\ RequestsLossless'
<1>1. UNCHANGED <<wid, status, active, workers, spawn, owner, check, proc, stops>>
  BY DEF poolVars, fields, pool, spawning, checks, processes
<1>2. PoolLossless' /\ KeepsHeld
  BY <1>1, PoolStill
<1>3. \A w \in Objs : Pending(w)' => Pending(w) /\ owner'[w] = owner[w]
  BY <1>1 DEF Pending
<1>4. QED
  BY <1>1, <1>2, <1>3, RequestsLeftAlone DEF Good

LEMMA PassLossless ==
  ASSUME Good, StartPass \/ DispatchDrop \/ DispatchKeep
  PROVE  PoolLossless' /\ RequestsLossless'
<1>1. CASE StartPass \/ DispatchKeep
  BY <1>1, StillLossless DEF StartPass, DispatchKeep, requests
<1>2. CASE DispatchDrop
  <2>1. Current.r \in Requests
    BY <1>2, CurrentIsEntry DEF DispatchDrop, Good, RequestInv
  <2>2. UNCHANGED <<poolVars, rworker, swaps, attempt>>
    BY <1>2 DEF DispatchDrop
  <2>3. CASE Live(Current)
    <3>1. /\ rpc[Current.r] = "queued"
          /\ rpc' = [rpc EXCEPT ![Current.r] = "failed"]
      BY <1>2, <2>3 DEF DispatchDrop, Live
    <3>2. QED
      BY <2>1, <2>2, <3>1, WaitsLossless DEF HoldingPC
  <2>4. CASE ~Live(Current)
    BY <1>2, <2>2, <2>4, StillLossless DEF DispatchDrop
  <2>5. QED
    BY <2>3, <2>4
<1>3. QED
  BY <1>1, <1>2

LEMMA DispatchMatchLossless ==
  ASSUME Good, DispatchMatch
  PROVE  PoolLossless' /\ RequestsLossless'
<1>1. Current.r \in Requests
  BY CurrentIsEntry DEF DispatchMatch, Good, RequestInv
<1>2. PICK w \in Free : Reserve(w) /\ rworker' = [rworker EXCEPT ![Current.r] = w]
  BY DEF DispatchMatch, Matching
<1>3. /\ rpc[Current.r] = "queued" /\ rpc' = [rpc EXCEPT ![Current.r] = "granted"]
      /\ UNCHANGED <<wid, status, workers, spawn, owner, check, proc, stops,
                     swaps, attempt>>
  BY DEF DispatchMatch, Live, pool, spawning, checks, processes
<1>4. QED
  BY <1>1, <1>2, <1>3, TakesLossless

LEMMA DispatchSwapLossless ==
  ASSUME Good, DispatchSwap
  PROVE  PoolLossless' /\ RequestsLossless'
<1>1. PICK w \in Free :
        /\ Reserve(w)
        /\ swaps' = swaps \union
             {[w |-> w, to |-> want[Current.r], for |-> "dispatch",
               entry |-> Current, grow |-> FALSE, phase |-> "created"]}
  BY DEF DispatchSwap, SwapVictims
<1> DEFINE t == [w |-> w, to |-> want[Current.r], for |-> "dispatch",
                 entry |-> Current, grow |-> FALSE, phase |-> "created"]
<1>2. t.w = w /\ t.for = "dispatch" /\ swaps' = swaps \union {t}
  BY <1>1
<1> HIDE DEF t
<1>3. UNCHANGED <<wid, status, workers, spawn, owner, check, proc, stops, rpc,
                  rworker, attempt>>
  BY DEF DispatchSwap, pool, spawning, checks, processes, requests
<1>4. w \in Tracked /\ w \in Objs /\ spawn[w] = "done" /\ ~Held(w)
  BY FreeIsFree DEF Good, RequestsLossless
<1>5. PoolLossless' /\ KeepsHeld /\ Tracked' = Tracked
  BY <1>3, PoolStill
<1>6. SwapsOK'
  BY <1>2, <1>3, <1>4, <1>5, SwapAdded DEF Good, RequestsLossless, KeepsHeld
<1>7. SpawnsOK'
  BY <1>3, SpawnsKept DEF Good, RequestsLossless, Pending, AwaitsSpawn
<1>8. HoldersOK'
  BY <1>1, <1>2, <1>3, <1>4, <1>5, QueueTakes
     DEF Good, RequestInv, RequestsLossless, ForQueue, Reserve
<1>9. QED
  BY <1>3, <1>5, <1>6, <1>7, <1>8 DEF Good, RequestsLossless, FirstTry

LEMMA RouteSwapLossless ==
  ASSUME Good, NEW r \in Requests, RouteSwap(r)
  PROVE  PoolLossless' /\ RequestsLossless'
<1>1. PICK w \in Free :
        /\ Reserve(w)
        /\ rworker' = [rworker EXCEPT ![r] = w]
        /\ status' = [status EXCEPT ![w] = "swapping"]
        /\ swaps' = swaps \union
             {[w |-> w, to |-> want[r], for |-> "route",
               entry |-> [r |-> r, n |-> 0], grow |-> NeedsGrow,
               phase |-> "posted"]}
  BY DEF RouteSwap, SwapVictims
<1> DEFINE t == [w |-> w, to |-> want[r], for |-> "route",
                 entry |-> [r |-> r, n |-> 0], grow |-> NeedsGrow,
                 phase |-> "posted"]
<1>2. t.w = w /\ t.for = "route" /\ t.entry.r = r /\ swaps' = swaps \union {t}
  BY <1>1
<1> HIDE DEF t
<1>3. /\ rpc[r] = "new" /\ rpc' = [rpc EXCEPT ![r] = "swap"]
      /\ UNCHANGED <<wid, workers, spawn, owner, check, proc, stops, attempt>>
  BY DEF RouteSwap, pool, spawning, checks, processes
<1>4. w \in Tracked /\ w \in Objs /\ spawn[w] = "done" /\ ~Held(w)
  BY FreeIsFree DEF Good, RequestsLossless
<1>5. PoolLossless' /\ DoneKept /\ Tracked' = Tracked
  <2>1. \A v \in Objs : check'[v] = "none"
    BY <1>3 DEF Good, PoolLossless, ChecksOK
  <2>2. \A v \in Objs : spawn[v] = "poll" => status'[v] = status[v]
    BY <1>1, <1>4 DEF Good, PoolInv, PoolTypeOK
  <2>3. QED
    BY <1>3, <2>1, <2>2, StatusLossless DEF Good
<1>6. /\ \A q \in Requests : q # r => rpc'[q] = rpc[q] /\ rworker'[q] = rworker[q]
      /\ rpc'[r] = "swap" /\ rworker'[r] = w
  BY <1>1, <1>3 DEF Good, RequestInv, RequestTypeOK
<1>7. SwapsOK'
  BY <1>2, <1>3, <1>4, <1>5, <1>6, SwapAdded DEF Good, RequestsLossless
<1>8. SpawnsOK'
  BY <1>3, <1>6, SpawnsKept DEF Good, RequestsLossless, Pending, AwaitsSpawn
<1>9. SameForOthers(r) /\ SameQueueSwaps /\ KeepsHeld
  BY <1>2, <1>5, <1>6 DEF SameForOthers, SameQueueSwaps, ForQueue, KeepsHeld
<1>10. HoldersOK'
  BY <1>1, <1>3, <1>4, <1>5, <1>6, <1>9, HolderTakes
     DEF Good, RequestInv, RequestsLossless, Holds, HoldingPC, Reserve, DoneKept
<1>11. QED
  BY <1>3, <1>5, <1>7, <1>8, <1>10 DEF Good, RequestsLossless, FirstTry
----------------------------------------------------------------------------
(* Calls of spawn_worker. *)

\* A spawn starts for a request, or for nobody; what requests hold stays.
LEMMA StartsLossless ==
  ASSUME Good, NEW a, NEW who, StartSpawn(a, who),
         who \in Requests => rpc[who] = "swap" \/ rpc[who] \in {"new", "respawn"},
         who \in Requests => rpc'[who] \in {"spawn1", "spawn2"},
         \A r \in Requests : AwaitsSpawn(r) => AwaitsSpawn(r)',
         \A w \in Objs : spawn[w] = "poll" => status'[w] = status[w],
         UNCHANGED <<workers, stops, check, proc, attempt>>
  PROVE  PoolLossless' /\ KeepsHeld /\ Tracked' = Tracked /\ SpawnsOK' /\ FirstTry'
<1>1. /\ PoolLossless' /\ DoneKept /\ Tracked' = Tracked
      /\ nextObj \in Objs /\ spawn[nextObj] = "none"
  BY StartLossless DEF Good
<1>2. who \in Requests => ~AwaitsSpawn(who) /\ AwaitsSpawn(who)'
  BY DEF AwaitsSpawn
<1>3. SpawnsOK'
  BY <1>1, <1>2, SpawnsStarted DEF Good, RequestsLossless
<1>4. QED
  BY <1>1, <1>3 DEF Good, RequestsLossless, FirstTry, KeepsHeld

LEMMA CallSpawnLossless ==
  ASSUME Good, NEW r \in Requests, RouteSpawn(r) \/ Respawn(r)
  PROVE  PoolLossless' /\ RequestsLossless'
<1>1. PICK pc \in {"spawn1", "spawn2"} : CallSpawn(r, pc)
  BY DEF RouteSpawn, Respawn
<1>2. /\ rpc[r] \in {"new", "respawn"}
      /\ UNCHANGED <<stops, checks, processes, rworker, attempt, swaps>>
  BY DEF RouteSpawn, Respawn
<1>3. CASE CanSpawn
  <2>1. /\ StartSpawn(want[r], r)
        /\ rpc' = [rpc EXCEPT ![r] = pc]
        /\ UNCHANGED <<status, active, workers>>
    BY <1>1, <1>3 DEF CallSpawn
  <2>2. /\ \A q \in Requests : q # r => rpc'[q] = rpc[q] /\ rworker'[q] = rworker[q]
        /\ rpc'[r] = pc /\ rworker'[r] = rworker[r]
    BY <1>2, <2>1 DEF Good, RequestInv, RequestTypeOK
  <2>3. UNCHANGED <<check, proc>>
    BY <1>2 DEF checks, processes
  <2>4. PoolLossless' /\ KeepsHeld /\ Tracked' = Tracked /\ SpawnsOK' /\ FirstTry'
    BY <1>2, <2>1, <2>2, <2>3, StartsLossless DEF AwaitsSpawn
  <2>5. SwapsOK'
    BY <1>2, <2>2, <2>4, SwapsKept DEF Good, RequestsLossless, KeepsHeld
  <2>6. HoldersOK'
    BY <1>2, <2>1, <2>2, <2>4, HolderStays
       DEF Good, RequestInv, RequestsLossless, Holds, HoldingPC, SameForOthers,
           SameQueueSwaps
  <2>7. QED
    BY <2>4, <2>5, <2>6 DEF RequestsLossless
<1>4. CASE ~CanSpawn
  <2>1. /\ \E p \in {"respawn", "queued"} : rpc' = [rpc EXCEPT ![r] = p]
        /\ UNCHANGED <<fields, pool, spawning>>
    BY <1>1, <1>4 DEF CallSpawn
  <2>2. QED
    BY <1>2, <2>1, WaitsLossless DEF poolVars, HoldingPC
<1>5. QED
  BY <1>3, <1>4

LEMMA DispatchSpawnLossless ==
  ASSUME Good, DispatchSpawn \/ \E a \in Adapters : SpawnAhead(a)
  PROVE  PoolLossless' /\ RequestsLossless'
<1>1. UNCHANGED <<stops, checks, processes, requests, swaps>>
  BY DEF DispatchSpawn, SpawnAhead
<1>2. UNCHANGED <<check, proc, rpc, rworker, attempt>>
  BY <1>1 DEF checks, processes, requests
<1>3. ASSUME NEW a, StartSpawn(a, "dispatch"), UNCHANGED <<status, active, workers>>
      PROVE  PoolLossless' /\ RequestsLossless'
  <2>1. "dispatch" \notin Requests
    BY PoolConstantsOK
  <2>2. PoolLossless' /\ KeepsHeld /\ Tracked' = Tracked /\ SpawnsOK' /\ FirstTry'
    BY <1>1, <1>2, <1>3, <2>1, StartsLossless DEF AwaitsSpawn
  <2>3. SwapsOK'
    BY <1>1, <1>2, <2>2, SwapsKept DEF Good, RequestsLossless, KeepsHeld
  <2>4. HoldersOK'
    BY <1>1, <1>2, <1>3, <2>2, HolderStays
       DEF Good, RequestInv, RequestsLossless, Holds, SameForOthers, SameQueueSwaps
  <2>5. QED
    BY <2>2, <2>3, <2>4 DEF RequestsLossless
<1>4. CASE DispatchSpawn /\ ~CanSpawn
  <2>1. UNCHANGED <<fields, pool, spawning>>
    BY <1>4 DEF DispatchSpawn
  <2>2. QED
    BY <1>1, <1>2, <2>1, StillLossless DEF poolVars
<1>5. CASE DispatchSpawn /\ CanSpawn
  BY <1>3, <1>5 DEF DispatchSpawn
<1>6. QED
  BY <1>3, <1>4, <1>5 DEF SpawnAhead
----------------------------------------------------------------------------
(* The ends of spawns and stops. *)

\* A worker that has just become ready goes to one request that holds none: the
\* one that asked for it, or one of the queue.
LEMMA ReceivesLossless ==
  ASSUME Good, NEW w \in Objs, SpawnReady(w), NEW r \in Requests,
         NEW pc \in {"sent", "granted"},
         rpc[r] \in {"queued", "spawn1", "spawn2"},
         AwaitsSpawn(r) => owner[w].by = r,
         active' = [active EXCEPT ![w] = @ + 1],
         SameForOthers(r), rpc'[r] = pc, rworker'[r] = w
  PROVE  PoolLossless' /\ RequestsLossless'
<1>1. /\ BecomeReady(w)
      /\ UNCHANGED <<wid, workers, stops, check, proc, owner, attempt, swaps>>
  BY DEF SpawnReady, checks, processes
<1>2. /\ PoolLossless' /\ DoneKept /\ Tracked' = Tracked
      /\ w \in Tracked /\ spawn[w] = "poll" /\ spawn' = [spawn EXCEPT ![w] = "done"]
  BY <1>1, ReadyLossless DEF Good
<1>3. KeepsHeld
  BY <1>2 DEF KeepsHeld
<1>4. \A v \in Objs : spawn'[v] = IF v = w THEN "done" ELSE spawn[v]
  BY <1>2 DEF Good, PoolInv, PoolTypeOK
<1>5. ~Held(w)
  BY <1>2 DEF Held, Good, RequestsLossless, HoldersOK, SwapsOK
<1>6. SwapsOK'
  BY <1>1, <1>2, SwapsKept DEF Good, RequestsLossless, SameForOthers
<1>7. SpawnsOK'
  <2>1. \A v \in Objs : Pending(v)' => v # w /\ Pending(v) /\ owner'[v] = owner[v]
    BY <1>1, <1>4 DEF Pending
  <2>2. AwaitsSpawn(r) => \A v \in Objs : Pending(v)' => owner[v].by # r
    BY <1>2, <2>1 DEF Good, RequestsLossless, SpawnsOK, Pending
  <2>3. \A q \in Requests : q # r /\ AwaitsSpawn(q) => AwaitsSpawn(q)'
    BY DEF SameForOthers, AwaitsSpawn
  <2>4. QED
    BY <2>1, <2>2, <2>3, SpawnsKept DEF Good, RequestsLossless
<1>8. HoldersOK'
  <2>1. SameQueueSwaps
    BY <1>1 DEF SameQueueSwaps
  <2>2. ~Holds(r) /\ Holds(r)'
    BY DEF Holds, HoldingPC
  <2>3. w \in Tracked' /\ spawn'[w] = "done"
    BY <1>2, <1>4
  <2>4. QED
    BY <1>3, <1>5, <2>1, <2>2, <2>3, HolderTakes DEF Good, RequestInv, RequestsLossless
<1>9. QED
  BY <1>1, <1>2, <1>6, <1>7, <1>8 DEF Good, RequestsLossless, FirstTry

LEMMA SpawnReadyLossless ==
  ASSUME Good, NEW w \in Objs, SpawnReady(w)
  PROVE  PoolLossless' /\ RequestsLossless'
<1> DEFINE receiver == IF owner[w].by \in Requests THEN {owner[w].by}
                       ELSE IF owner[w].by = "dispatch" /\ Candidates(w) # {}
                       THEN {pending[First(Candidates(w))].r}
                       ELSE {}
<1>1. /\ active' = [active EXCEPT ![w] = @ + Cardinality(receiver)]
      /\ rworker' = [r \in Requests |-> IF r \in receiver THEN w ELSE rworker[r]]
      /\ rpc' = [r \in Requests |->
           IF r \notin receiver THEN rpc[r]
           ELSE IF r = owner[w].by THEN "sent" ELSE "granted"]
      /\ BecomeReady(w)
      /\ UNCHANGED <<wid, workers, stops, check, proc, owner, attempt, swaps>>
  BY DEF SpawnReady, checks, processes
<1>2. spawn[w] = "poll"
  BY <1>1 DEF BecomeReady
<1>3. CASE receiver = {}
  <2>1. active' = active
    <3>1. active' = [active EXCEPT ![w] = @ + 0]
      BY <1>1, <1>3, FS_EmptySet
    <3>2. QED
      BY <3>1 DEF Good, PoolInv, PoolTypeOK
  <2>2. rworker' = rworker /\ rpc' = rpc
    BY <1>1, <1>3 DEF Good, RequestInv, RequestTypeOK
  <2>3. /\ PoolLossless' /\ DoneKept /\ Tracked' = Tracked
        /\ spawn' = [spawn EXCEPT ![w] = "done"]
    BY <1>1, ReadyLossless DEF Good
  <2>4. \A v \in Objs : Pending(v)' => Pending(v) /\ owner'[v] = owner[v]
    BY <1>1, <2>3 DEF Good, PoolInv, PoolTypeOK, Pending
  <2>5. QED
    BY <1>1, <2>1, <2>2, <2>3, <2>4, RequestsLeftAlone DEF Good, KeepsHeld
<1>4. ASSUME NEW r \in Requests, receiver = {r},
             rpc[r] \in {"queued", "spawn1", "spawn2"},
             AwaitsSpawn(r) => owner[w].by = r
      PROVE  PoolLossless' /\ RequestsLossless'
  <2> HIDE DEF receiver
  <2>1. active' = [active EXCEPT ![w] = @ + 1]
    BY <1>1, <1>4, FS_Singleton
  <2>2. /\ SameForOthers(r)
        /\ rpc'[r] \in {"sent", "granted"} /\ rworker'[r] = w
    BY <1>1, <1>4 DEF SameForOthers
  <2>3. QED
    BY <1>4, <2>1, <2>2, ReceivesLossless
<1>5. CASE owner[w].by \in Requests
  <2>1. rpc[owner[w].by] \in {"spawn1", "spawn2"}
    BY <1>2, <1>5 DEF Good, RequestsLossless, SpawnsOK, Pending
  <2>2. QED
    BY <1>4, <1>5, <2>1
<1>6. CASE owner[w].by \notin Requests /\ receiver # {}
  <2> DEFINE k == First(Candidates(w))
  <2>1. Candidates(w) # {} /\ receiver = {pending[k].r}
    BY <1>6
  <2>2. k \in Candidates(w)
    BY <2>1, FirstIsCandidate DEF Good, RequestInv
  <2>3. k \in 1 .. Len(pending) /\ rpc[pending[k].r] = "queued"
    BY <2>2 DEF Candidates, Live
  <2> HIDE DEF k, receiver
  <2>4. pending[k].r \in Requests
    BY <2>3, EntryAt DEF Good, RequestInv
  <2>5. QED
    BY <1>4, <2>1, <2>3, <2>4 DEF AwaitsSpawn
<1>7. QED
  BY <1>3, <1>5, <1>6

LEMMA RefuseLossless ==
  ASSUME Good, NEW w \in Objs, RefuseSpawn(w)
  PROVE  PoolLossless' /\ RequestsLossless'
<1>1. /\ SpawnRefused(w) /\ spawn[w] = "aggregator"
      /\ UNCHANGED <<active, owner, rworker, attempt, swaps>>
      /\ spawn' = [spawn EXCEPT ![w] = "done"]
  BY DEF RefuseSpawn, SpawnRefused, fields
<1>2. PoolLossless' /\ DoneKept /\ Tracked' = Tracked /\ KeepsHeld
  BY <1>1, RefusedLossless DEF Good, KeepsHeld
<1>3. \A v \in Objs : Pending(v)' => v # w /\ Pending(v) /\ owner'[v] = owner[v]
  BY <1>1 DEF Good, PoolInv, PoolTypeOK, Pending
<1>4. CASE rpc' = rpc
  BY <1>1, <1>2, <1>3, <1>4, RequestsLeftAlone DEF Good
<1>5. CASE rpc' # rpc
  <2> DEFINE r == owner[w].by
  <2>1. r \in Requests /\ \E pc \in {"respawn", "queued"} : rpc' = [rpc EXCEPT ![r] = pc]
    BY <1>5 DEF RefuseSpawn, SpawnReturnsNone
  <2>2. rpc[r] \in {"spawn1", "spawn2"}
    BY <1>1, <2>1 DEF Good, RequestsLossless, SpawnsOK, Pending
  <2>3. \A v \in Objs : Pending(v)' => owner[v].by # r
    BY <1>1, <1>3, <2>1 DEF Good, RequestsLossless, SpawnsOK, Pending
  <2> HIDE DEF r
  <2>4. /\ \A q \in Requests : q # r => rpc'[q] = rpc[q]
        /\ rpc'[r] \in {"respawn", "queued"}
    BY <2>1 DEF Good, RequestInv, RequestTypeOK
  <2>5. SwapsOK'
    BY <1>1, <1>2, <2>2, <2>4, SwapsKept DEF Good, RequestsLossless
  <2>6. SpawnsOK'
    BY <1>3, <2>3, <2>4, SpawnsKept DEF Good, RequestsLossless, AwaitsSpawn
  <2>7. HoldersOK'
    BY <1>1, <1>2, <2>2, <2>4, HolderStays
       DEF Good, RequestInv, RequestsLossless, Holds, HoldingPC, SameForOthers,
           SameQueueSwaps
  <2>8. QED
    BY <1>1, <1>2, <2>5, <2>6, <2>7 DEF Good, RequestsLossless, FirstTry
<1>6. QED
  BY <1>4, <1>5

LEMMA EndStopLossless ==
  ASSUME Good, NEW t \in stops, EndStop(t)
  PROVE  PoolLossless' /\ RequestsLossless'
<1>1. /\ PoolLossless' /\ DoneKept /\ Tracked' = Tracked /\ spawn' = spawn
      /\ t.by = "reaper"
  BY FinishStopLossless DEF EndStop, Good
<1>2. UNCHANGED <<active, owner, rpc, rworker, attempt, swaps>>
  BY <1>1 DEF EndStop, FinishStop, fields
<1>3. \A w \in Objs : Pending(w)' => Pending(w) /\ owner'[w] = owner[w]
  BY <1>1, <1>2 DEF Pending
<1>4. QED
  BY <1>1, <1>2, <1>3, RequestsLeftAlone DEF Good, KeepsHeld
----------------------------------------------------------------------------
(* Health checks, and steps of the pool that no request notices. *)

LEMMA CheckLossless ==
  ASSUME Good, NothingLost, NEW w \in Objs,
         AnswerInfo(w) \/ CheckAtOnce(w) \/ FinishCheck(w)
  PROVE  PoolLossless' /\ RequestsLossless'
<1>1. UNCHANGED <<wid, active, workers, spawn, owner, stops, proc, rpc, rworker,
                  attempt, swaps>>
  BY DEF AnswerInfo, CheckAtOnce, FinishCheck, ApplyInfo, fields, pool, spawning,
     processes, requests
<1>2. \A v \in Objs : check'[v] = "none"
  BY DEF AnswerInfo, CheckAtOnce, FinishCheck, ApplyInfo, checks, Good, PoolLossless,
     ChecksOK
<1>3. spawn[w] # "poll" \/ status' = status
  BY DEF AnswerInfo, CheckAtOnce, FinishCheck, ApplyInfo, fields, Healthy,
     NothingLost, Good, PoolLossless, ChecksOK
<1>4. \A v \in Objs : v # w => status'[v] = status[v]
  BY DEF AnswerInfo, CheckAtOnce, FinishCheck, ApplyInfo, Apply, fields, Good,
     PoolInv, PoolTypeOK
<1>5. PoolLossless' /\ DoneKept /\ Tracked' = Tracked
  BY <1>1, <1>2, <1>3, <1>4, StatusLossless DEF Good
<1>6. \A v \in Objs : Pending(v)' => Pending(v) /\ owner'[v] = owner[v]
  BY <1>1 DEF Pending
<1>7. QED
  BY <1>1, <1>5, <1>6, RequestsLeftAlone DEF Good, KeepsHeld

\* A health check that fails finds no dead process in the dictionary.
LEMMA HealthLossless ==
  ASSUME Good, NothingLost, NEW w \in Objs, HealthFails(w)
  PROVE  PoolLossless' /\ KeepsHeld
<1>1. w \in Tracked
  BY DEF HealthFails, Checked, NothingLost
<1>2. proc[w] # "dead"
  <2>1. spawn[w] \in {"poll", "done"}
    BY <1>1, TrackedPast DEF Good, Past, Begun, PoolLossless, ProcessesOK
  <2>2. QED
    BY <1>1, <2>1 DEF Good, PoolLossless, ProcessesOK
<1>3. UNCHANGED <<wid, workers, spawn, stops, proc>>
  BY <1>2 DEF HealthFails, pool, spawning, processes
<1>4. \A v \in Objs : check'[v] = "none"
  BY DEF HealthFails, Good, PoolInv, PoolTypeOK, PoolLossless, ChecksOK
<1>5. \A v \in Objs : status'[v] = status[v] \/ status'[v] = "unhealthy"
  BY <1>2 DEF HealthFails, Good, PoolInv, PoolTypeOK
<1>6. QED
  BY <1>3, <1>4, <1>5, StatusLossless DEF Good, KeepsHeld

\* A health check is not one of several steps.
LEMMA ChecksAtOnce ==
  ASSUME NothingLost, NEW w \in Objs
  PROVE  ~BeginCheck(w) /\ ~HealthOk(w)
  BY DEF NothingLost, BeginCheck, HealthOk

\* No start fails: the process of a worker that is being started lives.
LEMMA NoStartFails ==
  ASSUME Good, NothingLost, NEW w \in Objs
  PROVE  ~StartFails(w) /\ ~OperatorStop(w) /\ ~Die(w)
  BY DEF StartFails, OperatorStop, Die, NothingLost, Good, PoolLossless, ProcessesOK

LEMMA PoolStepLossless ==
  ASSUME Good, NothingLost, NEW w \in Objs, PoolStep(w) \/ Exit(w)
  PROVE  PoolLossless' /\ RequestsLossless'
<1>1. UNCHANGED <<rpc, rworker, attempt, swaps>>
  BY DEF PoolStep, Exit, requests
<1> SUFFICES /\ PoolLossless' /\ KeepsHeld
             /\ \A v \in Objs : Pending(v)' => Pending(v) /\ owner'[v] = owner[v]
             /\ active' = active
  BY <1>1, RequestsLeftAlone DEF Good
<1>2. CASE Launch(w) \/ LaunchTwins(w)
  <2>1. /\ PoolLossless' /\ DoneKept /\ Tracked' = Tracked \union {w}
        /\ spawn[w] = "aggregator" /\ spawn' = [spawn EXCEPT ![w] = "poll"]
    BY <1>2, LaunchLossless DEF Good
  <2>2. UNCHANGED <<active, owner>>
    BY <1>2 DEF Launch, LaunchTwins, LaunchAs
  <2>3. QED
    BY <2>1, <2>2 DEF KeepsHeld, Pending, Good, PoolInv, PoolTypeOK
<1>3. CASE Reap(w)
  <2>1. PoolLossless' /\ DoneKept /\ Tracked' = Tracked \ {w} /\ w \in Free
    BY <1>3, ReapLossless DEF Good
  <2>2. ~Held(w)
    BY <2>1, FreeIsFree DEF Good, RequestsLossless
  <2>3. UNCHANGED <<active, spawn, owner>>
    BY <1>3 DEF Reap, spawning
  <2>4. QED
    BY <2>1, <2>2, <2>3 DEF KeepsHeld, Pending
<1>4. CASE HealthFails(w)
  <2>1. UNCHANGED <<active, spawn, owner>>
    BY <1>4 DEF HealthFails, spawning
  <2>2. QED
    BY <1>4, <2>1, HealthLossless DEF Pending
<1>5. CASE Bind(w) \/ Exit(w)
  <2>1. UNCHANGED <<active, spawn, owner>>
    BY <1>5 DEF Bind, Exit, fields, spawning
  <2>2. QED
    BY <1>5, <2>1, BindLossless, ExitLossless DEF Good, KeepsHeld, Pending
<1>6. QED
  BY <1>2, <1>3, <1>4, <1>5, NoStartFails, ChecksAtOnce DEF PoolStep

LEMMA StopLossless ==
  ASSUME Good, NEW t \in stops, Shutdown(t)
  PROVE  PoolLossless' /\ RequestsLossless'
<1>1. UNCHANGED <<active, spawn, owner, rpc, rworker, attempt, swaps>>
  BY DEF Shutdown, PostShutdown, fields, spawning, requests
<1>2. PoolLossless' /\ KeepsHeld
  BY ShutdownLossless DEF Shutdown, Good, KeepsHeld
<1>3. QED
  BY <1>1, <1>2, RequestsLeftAlone DEF Good, Pending
----------------------------------------------------------------------------
(* Swaps. *)

LEMMA RebalanceLossless ==
  ASSUME Good, NEW w \in Objs, NEW a \in Adapters, Rebalance(w, a)
  PROVE  PoolLossless' /\ RequestsLossless'
<1> DEFINE t == [w |-> w, to |-> a, for |-> "rebalance", entry |-> NoEntry,
                 grow |-> FALSE, phase |-> "created"]
<1>1. swaps' = swaps \union {t} /\ t.w = w /\ t.for = "rebalance" /\ w \in Free
  BY DEF Rebalance
<1> HIDE DEF t
<1>2. UNCHANGED <<wid, status, active, workers, spawn, owner, check, proc, stops,
                  rpc, rworker, attempt>>
  BY DEF Rebalance, poolVars, fields, pool, spawning, checks, processes, requests
<1>3. w \in Objs /\ spawn[w] = "done"
  BY <1>1, FreeIsFree DEF Good, RequestsLossless
<1>4. PoolLossless' /\ KeepsHeld
  BY <1>2, PoolStill
<1>5. SwapsOK'
  BY <1>1, <1>2, <1>3, <1>4, SwapAdded DEF Good, RequestsLossless, KeepsHeld
<1>6. SpawnsOK'
  BY <1>2, SpawnsKept DEF Good, RequestsLossless, Pending, AwaitsSpawn
<1>7. HoldersOK'
  BY <1>1, <1>2, <1>4, HolderStays
     DEF Good, RequestInv, RequestsLossless, Holds, SameForOthers, SameQueueSwaps, ForQueue
<1>8. QED
  BY <1>2, <1>4, <1>5, <1>6, <1>7 DEF Good, RequestsLossless, FirstTry

\* A step of a swap may change the status of its worker, which is not starting.
LEMMA SwapStatus ==
  ASSUME Good, NEW t \in swaps, NEW s,
         status' = status \/ status' = [status EXCEPT ![t.w] = s],
         UNCHANGED <<wid, workers, spawn, proc, stops, check>>
  PROVE  PoolLossless' /\ KeepsHeld /\ Tracked' = Tracked
<1>1. \A v \in Objs : check'[v] = "none"
  BY DEF Good, PoolLossless, ChecksOK
<1>2. spawn[t.w] = "done"
  BY DEF Good, RequestsLossless, SwapsOK
<1>3. \A v \in Objs : spawn[v] = "poll" => status'[v] = status[v]
  BY <1>2 DEF Good, PoolInv, PoolTypeOK
<1>4. QED
  BY <1>1, <1>3, StatusLossless DEF Good, KeepsHeld

LEMMA SwapMovesLossless ==
  ASSUME Good, NEW t \in swaps,
         \/ SwapBegins(t) \/ WorkerSwaps(t)
         \/ WorkerCannotSwap(t) \/ WorkerHalfSwaps(t)
  PROVE  PoolLossless' /\ RequestsLossless'
<1>1. PICK phase \in {"posted", "ok", "failed"} : ToPhase(t, phase)
  BY DEF SwapBegins, WorkerSwaps, WorkerCannotSwap, WorkerHalfSwaps
<1>2. /\ status' = status \/ status' = [status EXCEPT ![t.w] = "swapping"]
      /\ UNCHANGED <<wid, active, workers, spawn, owner, check, proc, stops, rpc,
                     rworker, attempt>>
  BY DEF SwapBegins, WorkerSwaps, WorkerCannotSwap, WorkerHalfSwaps, poolVars, fields,
     pool, spawning, checks, processes, requests
<1>3. PoolLossless' /\ KeepsHeld /\ Tracked' = Tracked
  BY <1>2, SwapStatus
<1> DEFINE u == [t EXCEPT !.phase = phase]
<1>4. /\ u.w = t.w /\ u.for = t.for /\ u.entry = t.entry
      /\ swaps' = (swaps \ {t}) \union {u}
  BY <1>1, PhaseTyped DEF Good, RequestInv, ToPhase
<1> HIDE DEF u
<1>5. SwapsOK'
  BY <1>2, <1>3, <1>4, SwapGoesOn DEF Good, RequestsLossless, KeepsHeld
<1>6. SpawnsOK'
  BY <1>2, SpawnsKept DEF Good, RequestsLossless, Pending, AwaitsSpawn
<1>7. HoldersOK'
  BY <1>2, <1>3, <1>4, QueueGoesOn DEF Good, RequestInv, RequestsLossless
<1>8. QED
  BY <1>2, <1>3, <1>5, <1>6, <1>7 DEF Good, RequestsLossless, FirstTry

\* The swap that a request awaited is over; nobody else awaits it.
LEMMA AwaitedSwapOver ==
  ASSUME Good, DoneKept, NEW t \in swaps, t.for = "route", swaps' = swaps \ {t},
         SameForOthers(t.entry.r)
  PROVE  SwapsOK'
<1>1. t.entry.r \in Requests
  BY DEF Good, RequestInv, ReferencesOK, Entry
<1>2. \A u \in swaps' : u.for = "route" => u.entry.r # t.entry.r
  BY DEF Good, RequestsLossless, SwapsOK
<1>3. QED
  BY <1>1, <1>2, SwapsKept DEF Good, RequestsLossless, SameForOthers

LEMMA RouteSwappedLossless ==
  ASSUME Good, NEW t \in swaps, RouteSwapped(t)
  PROVE  PoolLossless' /\ RequestsLossless'
<1> DEFINE r == t.entry.r
<1>1. /\ t.for = "route" /\ swaps' = swaps \ {t}
      /\ status' = [status EXCEPT ![t.w] = "ready"]
      /\ rpc' = [rpc EXCEPT ![r] = "sent"]
      /\ UNCHANGED <<active, workers, stops, check, proc, rworker, attempt>>
  BY DEF RouteSwapped, SwapSucceeded, checks, processes
<1>2. r \in Requests /\ rpc[r] = "swap" /\ spawn[t.w] = "done"
  BY <1>1 DEF Good, RequestInv, ReferencesOK, Entry, RequestsLossless, SwapsOK
<1> HIDE DEF r
<1>3. /\ \A q \in Requests : q # r => rpc'[q] = rpc[q] /\ rworker'[q] = rworker[q]
      /\ rpc'[r] = "sent"
  BY <1>1, <1>2 DEF Good, RequestInv, RequestTypeOK
<1>4. PoolLossless' /\ KeepsHeld /\ SpawnsOK' /\ FirstTry'
  <2>1. CASE UNCHANGED <<wid, spawning, gpu_count>>
    <3>1. UNCHANGED <<wid, spawn, owner>>
      BY <2>1 DEF spawning
    <3>2. PoolLossless' /\ KeepsHeld /\ Tracked' = Tracked
      BY <1>1, <3>1, SwapStatus
    <3>3. SpawnsOK'
      BY <1>2, <1>3, <3>1, SpawnsKept DEF Good, RequestsLossless, Pending, AwaitsSpawn
    <3>4. QED
      BY <1>1, <3>2, <3>3 DEF Good, RequestsLossless, FirstTry
  <2>2. CASE StartSpawn(t.to, "grow")
    <3>1. "grow" \notin Requests
      BY PoolConstantsOK
    <3>2. \A w \in Objs : spawn[w] = "poll" => status'[w] = status[w]
      BY <1>1, <1>2 DEF Good, PoolInv, PoolTypeOK
    <3>3. \A q \in Requests : AwaitsSpawn(q) => AwaitsSpawn(q)'
      BY <1>2, <1>3 DEF AwaitsSpawn
    <3>4. QED
      BY <1>1, <2>2, <3>1, <3>2, <3>3, StartsLossless
  <2>3. QED
    BY <2>1, <2>2 DEF RouteSwapped
<1>5. SwapsOK'
  BY <1>1, <1>3, <1>4, AwaitedSwapOver DEF KeepsHeld, SameForOthers, r
<1>6. HoldersOK'
  <2>1. SameForOthers(r) /\ SameQueueSwaps /\ Holds(r) /\ Holds(r)'
    BY <1>1, <1>2, <1>3 DEF SameForOthers, SameQueueSwaps, ForQueue, Holds, HoldingPC
  <2>2. QED
    BY <1>1, <1>4, <2>1, HolderStays DEF Good, RequestInv, RequestsLossless
<1>7. QED
  BY <1>4, <1>5, <1>6 DEF RequestsLossless

LEMMA RouteSwapFailedLossless ==
  ASSUME Good, NEW t \in swaps, RouteSwapFailed(t)
  PROVE  PoolLossless' /\ RequestsLossless'
<1> DEFINE r == t.entry.r
<1>1. /\ t.for = "route" /\ swaps' = swaps \ {t}
      /\ status' = [status EXCEPT ![t.w] = "ready"]
      /\ Unreserve(t.w)
      /\ \E pc \in {"spawn1", "respawn"} : rpc' = [rpc EXCEPT ![r] = pc]
      /\ UNCHANGED <<workers, stops, check, proc, rworker, attempt>>
  BY DEF RouteSwapFailed, SwapFailed, checks, processes
<1>2. r \in Requests /\ rpc[r] = "swap" /\ rworker[r] = t.w /\ spawn[t.w] = "done"
  BY <1>1 DEF Good, RequestInv, ReferencesOK, Entry, RequestsLossless, SwapsOK
<1>3. \/ UNCHANGED <<wid, gpu_count, spawning>>
      \/ StartSpawn(want[r], r) /\ rpc' = [rpc EXCEPT ![r] = "spawn1"]
  BY DEF RouteSwapFailed
<1> HIDE DEF r
<1>4. /\ \A q \in Requests : q # r => rpc'[q] = rpc[q] /\ rworker'[q] = rworker[q]
      /\ rpc'[r] \in {"spawn1", "respawn"}
  BY <1>1, <1>2 DEF Good, RequestInv, RequestTypeOK
<1>5. PoolLossless' /\ KeepsHeld /\ SpawnsOK' /\ FirstTry'
  <2>1. CASE UNCHANGED <<wid, gpu_count, spawning>>
    <3>1. UNCHANGED <<wid, spawn, owner>>
      BY <2>1 DEF spawning
    <3>2. PoolLossless' /\ KeepsHeld /\ Tracked' = Tracked
      BY <1>1, <3>1, SwapStatus
    <3>3. SpawnsOK'
      BY <1>2, <1>4, <3>1, SpawnsKept DEF Good, RequestsLossless, Pending, AwaitsSpawn
    <3>4. QED
      BY <1>1, <3>2, <3>3 DEF Good, RequestsLossless, FirstTry
  <2>2. CASE StartSpawn(want[r], r) /\ rpc' = [rpc EXCEPT ![r] = "spawn1"]
    <3>1. \A w \in Objs : spawn[w] = "poll" => status'[w] = status[w]
      BY <1>1, <1>2 DEF Good, PoolInv, PoolTypeOK
    <3>2. rpc'[r] = "spawn1"
      BY <1>2, <2>2 DEF Good, RequestInv, RequestTypeOK
    <3>3. \A q \in Requests : AwaitsSpawn(q) => AwaitsSpawn(q)'
      BY <1>2, <1>4 DEF AwaitsSpawn
    <3>4. QED
      BY <1>1, <1>2, <2>2, <3>1, <3>2, <3>3, StartsLossless
  <2>3. QED
    BY <1>3, <2>1, <2>2
<1>6. SwapsOK'
  BY <1>1, <1>4, <1>5, AwaitedSwapOver DEF KeepsHeld, SameForOthers, r
<1>7. HoldersOK'
  <2>1. SameForOthers(r) /\ SameQueueSwaps /\ Holds(r) /\ ~Holds(r)'
    BY <1>1, <1>2, <1>4 DEF SameForOthers, SameQueueSwaps, ForQueue, Holds, HoldingPC
  <2>2. QED
    BY <1>1, <1>2, <1>5, <2>1, HolderGives DEF Good, RequestInv, RequestsLossless, Unreserve
<1>8. QED
  BY <1>5, <1>6, <1>7 DEF RequestsLossless

\* The end of a swap that no request awaits; nothing is spawned.
LEMMA OtherSwapOver ==
  ASSUME Good, NEW t \in swaps, t.for # "route", swaps' = swaps \ {t},
         \E s : status' = [status EXCEPT ![t.w] = s],
         NEW r, SameForOthers(r),
         \/ rpc' = rpc /\ rworker' = rworker
         \/ r \in Requests /\ rpc[r] = "queued",
         UNCHANGED <<wid, workers, spawn, owner, check, proc, stops, attempt>>
  PROVE  PoolLossless' /\ KeepsHeld /\ Tracked' = Tracked /\ SwapsOK' /\ SpawnsOK' /\ FirstTry'
<1>1. PoolLossless' /\ KeepsHeld /\ Tracked' = Tracked
  BY SwapStatus
<1>2. SwapsOK'
  BY <1>1, SwapsKept DEF Good, RequestsLossless, KeepsHeld, SameForOthers
<1>3. SpawnsOK'
  BY SpawnsKept DEF Good, RequestsLossless, SameForOthers, AwaitsSpawn, Pending
<1>4. QED
  BY <1>1, <1>2, <1>3 DEF Good, RequestsLossless, FirstTry

LEMMA DispatchSwappedLossless ==
  ASSUME Good, NEW t \in swaps, DispatchSwapped(t) \/ DispatchSwapFailed(t)
  PROVE  PoolLossless' /\ RequestsLossless'
<1> DEFINE r == t.entry.r
<1>1. /\ ForQueue(t) /\ swaps' = swaps \ {t} /\ t.for # "route"
      /\ status' = [status EXCEPT ![t.w] = "ready"]
      /\ UNCHANGED <<wid, workers, spawn, owner, check, proc, stops, attempt>>
  BY DEF DispatchSwapped, DispatchSwapFailed, SwapSucceeded, SwapFailed, ForQueue,
     pool, spawning, checks, processes, requests
<1>2. r \in Requests
  BY <1>1 DEF Good, RequestInv, ReferencesOK, Entry, ForQueue
<1>3. CASE Unreserve(t.w) /\ rpc' = rpc /\ rworker' = rworker
  <2>1. SameForOthers(r)
    BY <1>3 DEF SameForOthers
  <2>2. /\ PoolLossless' /\ KeepsHeld /\ Tracked' = Tracked
        /\ SwapsOK' /\ SpawnsOK' /\ FirstTry'
    BY <1>1, <1>3, <2>1, OtherSwapOver
  <2>3. HoldersOK'
    BY <1>1, <1>3, <2>2, QueueGives DEF Good, RequestInv, RequestsLossless, Unreserve
  <2>4. QED
    BY <2>2, <2>3 DEF RequestsLossless
<1>4. CASE /\ Live(t.entry) /\ active' = active
           /\ rworker' = [rworker EXCEPT ![r] = t.w]
           /\ rpc' = [rpc EXCEPT ![r] = "granted"]
  <2>1. rpc[r] = "queued"
    BY <1>4 DEF Live
  <2> HIDE DEF r
  <2>2. /\ SameForOthers(r)
        /\ rpc'[r] = "granted" /\ rworker'[r] = t.w
    BY <1>2, <1>4 DEF SameForOthers, Good, RequestInv, RequestTypeOK
  <2>3. /\ PoolLossless' /\ KeepsHeld /\ Tracked' = Tracked
        /\ SwapsOK' /\ SpawnsOK' /\ FirstTry'
    BY <1>1, <1>2, <2>1, <2>2, OtherSwapOver
  <2>4. spawn'[t.w] = "done" /\ ~Holds(r) /\ Holds(r)'
    BY <1>1, <2>1, <2>2 DEF Good, RequestsLossless, SwapsOK, Holds, HoldingPC
  <2>5. HoldersOK'
    BY <1>1, <1>2, <1>4, <2>2, <2>3, <2>4, QueueHandsOver DEF Good, RequestInv, RequestsLossless
  <2>6. QED
    BY <2>3, <2>5 DEF RequestsLossless
<1>5. QED
  BY <1>3, <1>4 DEF DispatchSwapped, DispatchSwapFailed, requests

LEMMA RebalanceEndsLossless ==
  ASSUME Good, NEW t \in swaps, RebalanceEnds(t)
  PROVE  PoolLossless' /\ RequestsLossless'
<1>1. /\ t.for = "rebalance" /\ swaps' = swaps \ {t}
      /\ status' = [status EXCEPT ![t.w] = "ready"]
      /\ UNCHANGED <<wid, active, workers, spawn, owner, check, proc, stops, rpc,
                     rworker, attempt>>
  BY DEF RebalanceEnds, SwapSucceeded, SwapFailed, pool, spawning, checks, processes,
     requests
<1>2. \A r : SameForOthers(r)
  BY <1>1 DEF SameForOthers
<1>3. /\ PoolLossless' /\ KeepsHeld /\ Tracked' = Tracked
      /\ SwapsOK' /\ SpawnsOK' /\ FirstTry'
  BY <1>1, <1>2, OtherSwapOver
<1>4. HoldersOK'
  BY <1>1, <1>2, <1>3, HolderStays
     DEF Good, RequestInv, RequestsLossless, Holds, SameQueueSwaps, ForQueue
<1>5. QED
  BY <1>3, <1>4 DEF RequestsLossless
----------------------------------------------------------------------------
LEMMA InitLossless == Init => PoolLossless /\ RequestsLossless
<1> SUFFICES ASSUME Init PROVE PoolLossless /\ RequestsLossless
  OBVIOUS
<1>1. PICK n \in Warm, a \in [Objs -> Adapters] :
        /\ wid = [w \in Objs |-> IF w <= n THEN w - 1 ELSE NoId]
        /\ status = [w \in Objs |-> IF w <= n THEN "ready" ELSE "none"]
        /\ proc = [w \in Objs |-> IF w <= n THEN "up" ELSE "none"]
        /\ spawn = [w \in Objs |-> IF w <= n THEN "done" ELSE "none"]
        /\ workers = [i \in Ids |-> IF i < n THEN i + 1 ELSE NoObj]
        /\ active = [w \in Objs |-> 0]
        /\ owner = [w \in Objs |-> NoOwner]
        /\ stops = {}
        /\ check = [w \in Objs |-> "none"]
  BY DEF Init, PoolInit
<1>2. /\ n \in 0 .. MaxObjs /\ n <= MaxWorkers
      /\ MaxWorkers \in Nat /\ MaxObjs \in Nat
  BY PoolConstantsOK
<1>3. \A w \in Objs : w <= n => w \in Tracked
  <2>1. ASSUME NEW w \in Objs, w <= n
        PROVE  w - 1 \in Ids /\ workers[w - 1] = w
    BY <1>1, <1>2, <2>1 DEF Ids, Objs
  <2>2. QED
    BY <2>1, NoObjIsNone DEF Tracked
<1>4. Tracked \subseteq Objs
  <2>1. \A i \in Ids : workers[i] = NoObj \/ workers[i] \in Objs
    BY <1>1, <1>2 DEF Ids, Objs
  <2>2. QED
    BY <2>1 DEF Tracked
<1>5. /\ rpc = [r \in Requests |-> "new"] /\ attempt = [r \in Requests |-> 0]
      /\ swaps = {}
  BY DEF Init
<1>6. ProcessesOK
  BY <1>1, <1>3, <1>4 DEF ProcessesOK
<1>7. PortsOK
  <2>1. ASSUME NEW p \in Objs, NEW q \in Objs, proc[p] \in Alive, proc[q] \in Alive,
               wid[p] = wid[q]
        PROVE  p = q
    <3>1. p <= n /\ q <= n
      BY <1>1, <2>1 DEF Alive
    <3>2. p - 1 = q - 1
      BY <1>1, <2>1, <3>1
    <3>3. QED
      BY <1>2, <3>2 DEF Objs
  <2>2. QED
    BY <2>1 DEF PortsOK
<1>8. ReapingOK /\ ChecksOK
  BY <1>1 DEF ReapingOK, ChecksOK
<1>9. SwapsOK /\ SpawnsOK /\ FirstTry
  BY <1>1, <1>5 DEF SwapsOK, SpawnsOK, FirstTry, Pending
<1>10. HoldersOK
  BY <1>1, <1>5 DEF HoldersOK, Holds, HoldingPC, Held
<1>11. QED
  BY <1>6, <1>7, <1>8, <1>9, <1>10 DEF PoolLossless, RequestsLossless

LEMMA NextLossless ==
  ASSUME NothingLost, LInv, [Next]_vars
  PROVE  PoolLossless' /\ RequestsLossless'
<1>1. Good
  BY DEF LInv, IInv, Good, RequestInv
<1>2. CASE UNCHANGED vars
  BY <1>1, <1>2, StillLossless DEF vars, requests
<1>3. ASSUME NEW r \in Requests,
             \/ RouteMatch(r) \/ RouteSwap(r) \/ RouteSpawn(r) \/ RouteQueue(r)
             \/ Respawn(r) \/ QueueTimeout(r) \/ TakeGrant(r)
             \/ Serve(r) \/ Reject(r) \/ Refused(r) \/ FinishServing(r)
      PROVE  PoolLossless' /\ RequestsLossless'
  BY <1>1, <1>3, RouteMatchLossless, RouteSwapLossless, CallSpawnLossless, QueueLossless,
     TakeGrantLossless, AnswerLossless, NeverRefused
<1>4. CASE StartPass \/ DispatchDrop \/ DispatchMatch \/ DispatchSwap
             \/ DispatchSpawn \/ DispatchKeep
  BY <1>1, <1>4, PassLossless, DispatchMatchLossless, DispatchSwapLossless,
     DispatchSpawnLossless
<1>5. ASSUME NEW w \in Objs,
             \/ SpawnReady(w) \/ RefuseSpawn(w) \/ AnswerInfo(w) \/ FinishCheck(w)
             \/ CheckAtOnce(w) \/ Exit(w) \/ PoolStep(w)
             \/ \E a \in Adapters : Rebalance(w, a)
      PROVE  PoolLossless' /\ RequestsLossless'
  BY <1>1, <1>5, SpawnReadyLossless, RefuseLossless, CheckLossless, PoolStepLossless,
     RebalanceLossless
<1>6. ASSUME NEW t \in stops, Shutdown(t) \/ EndStop(t)
      PROVE  PoolLossless' /\ RequestsLossless'
  BY <1>1, <1>6, StopLossless, EndStopLossless
<1>7. ASSUME NEW t \in swaps,
             \/ SwapBegins(t) \/ WorkerSwaps(t) \/ WorkerCannotSwap(t) \/ WorkerHalfSwaps(t)
             \/ RouteSwapped(t) \/ RouteSwapFailed(t)
             \/ DispatchSwapped(t) \/ DispatchSwapFailed(t) \/ RebalanceEnds(t)
      PROVE  PoolLossless' /\ RequestsLossless'
  BY <1>1, <1>7, SwapMovesLossless, RouteSwappedLossless, RouteSwapFailedLossless,
     DispatchSwappedLossless, RebalanceEndsLossless
<1>8. CASE \E a \in Adapters : SpawnAhead(a)
  BY <1>1, <1>8, DispatchSpawnLossless
<1>9. QED
  BY <1>2, <1>3, <1>4, <1>5, <1>6, <1>7, <1>8 DEF Next

LEMMA Lossless == NothingLost => (Spec => []LInv)
<1> SUFFICES ASSUME NothingLost PROVE Spec => []LInv
  OBVIOUS
<1>1. Init => LInv
  BY InitOK, InitLossless DEF LInv
<1>2. LInv /\ [Next]_vars => LInv'
  BY NextOK, NextLossless DEF LInv
<1>3. QED
  BY <1>1, <1>2, PTL DEF Spec

\* active_requests of every worker is the number of requests and queue swaps that
\* hold it, however matches, swaps, spawns, timeouts and health checks overlap
\* (_reserve_worker and its releases in route_request and _send_inference).
THEOREM HoldersCounted == NothingLost => (Spec => []CountsHolders)
<1>1. LInv => CountsHolders
  BY HeldByIs DEF LInv, RequestsLossless, HoldersOK, CountsHolders
<1>2. QED
  BY <1>1, Lossless, PTL

\* So nobody is ever given a worker that another request holds (WorkerInfo:
\* "N=1: always 0 or 1").
THEOREM WorkerExclusive == NothingLost => (Spec => []OneAtATime)
<1>1. LInv => OneAtATime
  BY DEF LInv, RequestsLossless, HoldersOK, OneAtATime
<1>2. QED
  BY <1>1, Lossless, PTL

\* A worker that the reaper stops is held by nobody until its process is gone
\* (_reap_idle_workers, _stop_worker_process).
THEOREM HoldersSpared == NothingLost => (Spec => []ReaperSparesHolders)
<1>1. LInv => ReaperSparesHolders
  <2> SUFFICES ASSUME LInv, NEW t \in stops PROVE HeldBy(t.w) = 0
    BY DEF ReaperSparesHolders
  <2>1. t.w \in Objs /\ t.w \notin Tracked
    BY DEF LInv, IInv, PoolInv, PoolTypeOK, Stop, PoolLossless, ReapingOK
  <2>2. ~Held(t.w)
    BY <2>1 DEF LInv, RequestsLossless, HoldersOK, Held
  <2>3. QED
    BY <2>1, <2>2, HeldByIs DEF LInv, RequestsLossless
<1>2. QED
  BY <1>1, Lossless, PTL
----------------------------------------------------------------------------
(* The weights that serve a request. A proactive swap takes no reservation, and *)
(* a late reply to a health check names an adapter that may be gone; without   *)
(* them the registry is right about every worker that can be given away. It    *)
(* does not know whether a swap replaced all weights: NoAdapter stands for     *)
(* those it left.                                                              *)

Undisturbed == Faults \subseteq {"slow", "swapfail", "tornswap", "sparse", "noagg"}

\* What a worker holds is what its spawner asked for until it is ready. From then
\* on the registry says what it holds, or nothing, but while the controller has
\* yet to hear of a swap that was done.
WeightsOK ==
  /\ \A w \in Objs : check[w] = "none"
  /\ \A w \in Objs : spawn[w] = "poll" =>
       loaded[w] = owner[w].adapter /\ adapter[w] = owner[w].adapter
  /\ \A w \in Tracked : spawn[w] = "done" =>
       \/ registry[wid[w]] \in {loaded[w], NoAdapter}
       \/ \E t \in swaps : t.w = w /\ t.phase = "ok"

\* Swaps and spawns are for the adapter of the request they are made for.
SwapsServe ==
  \A t \in swaps :
    /\ t.for # "rebalance" /\ t.to = want[t.entry.r]
    /\ t.phase = "ok" => loaded[t.w] = t.to

SpawnsServe ==
  \A w \in Objs : Pending(w) /\ owner[w].by \in Requests =>
    owner[w].adapter = want[owner[w].by]

\* A request that was given a worker finds its weights there.
GivenPC == {"granted", "sent", "serving"}
ServedOK ==
  /\ \A r \in Requests : rpc[r] \in GivenPC => loaded[rworker[r]] = want[r]
  /\ \A r \in Requests : rpc[r] = "serving" => server[r] = rworker[r]
  /\ \A r \in Requests : rpc[r] \in {"serving", "done"} =>
       used[r] \ {NoAdapter} = {want[r]}
  /\ \A r \in Requests : server[r] # NoObj => rpc[r] = "serving"

AdaptersOK == WeightsOK /\ SwapsServe /\ SpawnsServe /\ ServedOK
AInv == LInv /\ AdaptersOK

Fed == Good /\ AdaptersOK

\* Who is swapped is held, by one swap, and listens on its own port.
LEMMA SwapAlone ==
  ASSUME Fed, NEW t \in swaps
  PROVE  /\ t.w \in Objs /\ t.w \in Tracked /\ spawn[t.w] = "done" /\ Held(t.w)
         /\ t.entry.r \in Requests
         /\ \A u \in swaps : u.w = t.w => u = t
         /\ Listening(wid[t.w]) = {t.w}
<1>1. \A u \in swaps : u.for \in {"route", "dispatch"} /\ u.entry.r \in Requests
  BY DEF Fed, AdaptersOK, SwapsServe, Good, RequestInv, RequestTypeOK, ReferencesOK, Swap,
         Entry
<1>2. \A u \in swaps : u.for = "route" =>
        Holds(u.entry.r) /\ rworker[u.entry.r] = u.w
  BY DEF Fed, Good, RequestsLossless, SwapsOK, Holds, HoldingPC
<1>3. Held(t.w) /\ t.w \in Tracked
  BY <1>1, <1>2 DEF Held, ForQueue, Fed, Good, RequestsLossless, HoldersOK
<1>4. spawn[t.w] = "done" /\ t.w \in Objs
  BY <1>3, TrackedPast DEF Fed, Good, RequestsLossless, SwapsOK
<1>5. \A u \in swaps : u.w = t.w => u = t
  <2>1. ASSUME NEW u \in swaps, u.w = t.w, t.for = "route", u.for = "route"
        PROVE  u = t
    BY <1>1, <1>2, <2>1 DEF Fed, Good, RequestsLossless, SwapsOK, HoldersOK
  <2>2. ASSUME NEW u \in swaps, u.w = t.w, t.for = "dispatch" \/ u.for = "dispatch"
        PROVE  u = t
    BY <1>1, <1>2, <2>2 DEF Fed, Good, RequestsLossless, HoldersOK, ForQueue
  <2>3. QED
    BY <1>1, <2>1, <2>2
<1>6. Listening(wid[t.w]) = {t.w}
  BY <1>3, <1>4, OwnPort DEF Fed, Good, PoolLossless, ProcessesOK
<1>7. QED
  BY <1>1, <1>3, <1>4, <1>5, <1>6

\* The registry is right about a worker that can be given away.
LEMMA MatchLoaded ==
  ASSUME Fed, NEW a \in Adapters, NEW w \in Matching(a)
  PROVE  w \in Objs /\ w \in Free /\ loaded[w] = a
<1>1. w \in Free /\ registry[wid[w]] = a
  BY DEF Matching
<1>2. w \in Tracked /\ w \in Objs /\ spawn[w] = "done" /\ ~Held(w)
  BY <1>1, FreeIsFree DEF Fed, Good, RequestsLossless
<1>3. \A t \in swaps : t.w # w
  BY <1>2, SwapAlone
<1>4. QED
  BY <1>1, <1>2, <1>3, PoolConstantsOK DEF Fed, AdaptersOK, WeightsOK

\* What the steps leave of the invariant: a worker, a swap, a spawn and a request.
LEMMA WeightsKept ==
  ASSUME Fed, Tracked' \subseteq Tracked,
         \A w \in Objs : check'[w] = "none",
         \A w \in Objs : spawn'[w] = "poll" =>
           /\ spawn[w] = "poll" /\ loaded'[w] = loaded[w]
           /\ owner'[w] = owner[w] /\ adapter'[w] = adapter[w],
         \A w \in Tracked' : spawn'[w] = "done" =>
           \/ registry'[wid'[w]] \in {loaded'[w], NoAdapter}
           \/ \E t \in swaps' : t.w = w /\ t.phase = "ok"
           \/ /\ spawn[w] = "done" /\ loaded'[w] = loaded[w]
              /\ registry'[wid'[w]] = registry[wid[w]]
              /\ \A t \in swaps : t.w = w /\ t.phase = "ok" => t \in swaps'
  PROVE  WeightsOK'
<1>1. \A w \in Tracked' : spawn'[w] = "done" =>
        \/ registry'[wid'[w]] \in {loaded'[w], NoAdapter}
        \/ \E t \in swaps' : t.w = w /\ t.phase = "ok"
  BY DEF Fed, AdaptersOK, WeightsOK
<1>2. QED
  BY <1>1 DEF Fed, AdaptersOK, WeightsOK

NewSwap(t) ==
  /\ t.for # "rebalance" /\ t.to = want[t.entry.r]
  /\ t.phase = "ok" => loaded'[t.w] = t.to

LEMMA SwapsServeKept ==
  ASSUME Fed, want' = want,
         \A t \in swaps' : (t \in swaps /\ loaded'[t.w] = loaded[t.w]) \/ NewSwap(t)
  PROVE  SwapsServe'
  BY DEF Fed, AdaptersOK, SwapsServe, NewSwap

LEMMA SpawnsServeKept ==
  ASSUME Fed, want' = want,
         \A w \in Objs : Pending(w)' /\ owner'[w].by \in Requests =>
           \/ Pending(w) /\ owner'[w] = owner[w]
           \/ owner'[w].adapter = want[owner'[w].by]
  PROVE  SpawnsServe'
  BY DEF Fed, AdaptersOK, SpawnsServe

SameRequest(r) ==
  /\ rpc'[r] = rpc[r] /\ rworker'[r] = rworker[r]
  /\ server'[r] = server[r] /\ used'[r] = used[r]
  /\ rpc[r] \in GivenPC => loaded'[rworker[r]] = loaded[rworker[r]]
MovedRequest(r) ==
  /\ rpc[r] # "serving" /\ rpc'[r] \notin {"serving", "done"}
  /\ server'[r] = server[r]
  /\ rpc'[r] \in GivenPC => loaded'[rworker'[r]] = want[r]

LEMMA ServedKept ==
  ASSUME Fed, want' = want,
         \A r \in Requests : SameRequest(r) \/ MovedRequest(r)
  PROVE  ServedOK'
<1>1. \A r \in Requests : rpc'[r] \in GivenPC => loaded'[rworker'[r]] = want'[r]
  BY DEF Fed, AdaptersOK, ServedOK, SameRequest, MovedRequest
<1>2. \A r \in Requests : rpc'[r] = "serving" => server'[r] = rworker'[r]
  BY DEF Fed, AdaptersOK, ServedOK, SameRequest, MovedRequest
<1>3. \A r \in Requests : rpc'[r] \in {"serving", "done"} =>
        used'[r] \ {NoAdapter} = {want'[r]}
  BY DEF Fed, AdaptersOK, ServedOK, SameRequest, MovedRequest
<1>4. \A r \in Requests : server'[r] # NoObj => rpc'[r] = "serving"
  BY DEF Fed, AdaptersOK, ServedOK, SameRequest, MovedRequest
<1>5. QED
  BY <1>1, <1>2, <1>3, <1>4 DEF ServedOK

\* A step of requests, which leaves the pool as it is.
PoolRests ==
  /\ UNCHANGED <<wid, workers, spawn, owner, check, loaded, adapter, registry, want>>
  /\ \A t \in swaps : t.phase = "ok" => t \in swaps'
  /\ \A t \in swaps' : t \in swaps \/ NewSwap(t)

LEMMA PoolAlone ==
  ASSUME Fed, PoolRests
  PROVE  WeightsOK' /\ SwapsServe' /\ SpawnsServe'
<1>1. Tracked' = Tracked
  BY DEF Tracked, PoolRests
<1>2. WeightsOK'
  BY <1>1, WeightsKept DEF Fed, AdaptersOK, WeightsOK, PoolRests
<1>3. SwapsServe'
  BY SwapsServeKept DEF PoolRests
<1>4. SpawnsServe'
  BY SpawnsServeKept DEF PoolRests, Pending
<1>5. QED
  BY <1>2, <1>3, <1>4

LEMMA StillFed ==
  ASSUME Fed, UNCHANGED <<poolVars, rpc, want, rworker, server, used, swaps>>
  PROVE  AdaptersOK'
<1>1. PoolRests
  BY DEF PoolRests, poolVars, fields, pool, spawning, checks, processes
<1>2. \A r \in Requests : SameRequest(r)
  BY <1>1 DEF SameRequest, PoolRests
<1>3. QED
  BY <1>1, <1>2, PoolAlone, ServedKept DEF AdaptersOK, PoolRests

\* One request goes on.
LEMMA GoesOnFed ==
  ASSUME Fed, PoolRests, UNCHANGED <<server, used>>,
         NEW r \in Requests, SameForOthers(r), MovedRequest(r)
  PROVE  AdaptersOK'
<1>1. \A q \in Requests : SameRequest(q) \/ MovedRequest(q)
  BY DEF SameRequest, SameForOthers, PoolRests
<1>2. QED
  BY <1>1, PoolAlone, ServedKept DEF AdaptersOK, PoolRests
----------------------------------------------------------------------------
LEMMA RouteFed ==
  ASSUME Fed, NEW r \in Requests,
         RouteMatch(r) \/ RouteSwap(r) \/ RouteQueue(r) \/ QueueTimeout(r) \/ TakeGrant(r)
  PROVE  AdaptersOK'
<1>1. UNCHANGED <<wid, workers, spawn, owner, check, loaded, adapter, registry,
                  want, server, used>>
  BY DEF RouteMatch, RouteSwap, RouteQueue, QueueTimeout, TakeGrant, poolVars, fields,
     pool, spawning, checks, processes
<1>2. /\ want[r] \in Adapters
      /\ rpc \in [Requests -> RequestPC] /\ rworker \in [Requests -> Objs \union {NoObj}]
  BY DEF Fed, Good, RequestInv, RequestTypeOK
<1>3. SameForOthers(r)
  BY <1>2 DEF SameForOthers, RouteMatch, RouteSwap, RouteQueue, QueueTimeout, TakeGrant
<1>4. PoolRests
  <2>1. CASE RouteSwap(r)
    <3>1. PICK w : swaps' = swaps \union
                     {[w |-> w, to |-> want[r], for |-> "route",
                       entry |-> [r |-> r, n |-> 0], grow |-> NeedsGrow,
                       phase |-> "posted"]}
      BY <2>1 DEF RouteSwap
    <3>2. \A t \in swaps' : t \in swaps \/ NewSwap(t)
      BY <3>1 DEF NewSwap
    <3>3. QED
      BY <1>1, <3>1, <3>2 DEF PoolRests
  <2>2. CASE ~RouteSwap(r)
    BY <1>1, <2>2 DEF PoolRests, RouteMatch, RouteQueue, QueueTimeout, TakeGrant
  <2>3. QED
    BY <2>1, <2>2
<1>5. MovedRequest(r)
  <2>1. CASE RouteMatch(r)
    <3>1. PICK w \in Matching(want[r]) : rworker' = [rworker EXCEPT ![r] = w]
      BY <2>1 DEF RouteMatch
    <3>2. loaded[w] = want[r] /\ rworker'[r] = w
      BY <1>2, <3>1, MatchLoaded
    <3>3. rpc[r] = "new" /\ rpc'[r] = "sent"
      BY <1>2, <2>1 DEF RouteMatch
    <3>4. QED
      BY <1>1, <3>2, <3>3 DEF MovedRequest
  <2>2. CASE RouteSwap(r) \/ RouteQueue(r) \/ QueueTimeout(r)
    <3>1. rpc[r] \in {"new", "queued"} /\ rpc'[r] \in {"swap", "queued", "failed"}
      BY <1>2, <2>2 DEF RouteSwap, RouteQueue, QueueTimeout
    <3>2. QED
      BY <1>1, <3>1 DEF MovedRequest, GivenPC
  <2>3. CASE TakeGrant(r)
    <3>1. rpc[r] = "granted" /\ rpc'[r] \in {"sent", "failed"} /\ rworker' = rworker
      BY <1>2, <2>3 DEF TakeGrant
    <3>2. loaded[rworker[r]] = want[r]
      BY <3>1 DEF Fed, AdaptersOK, ServedOK, GivenPC
    <3>3. QED
      BY <1>1, <3>1, <3>2 DEF MovedRequest
  <2>4. QED
    BY <2>1, <2>2, <2>3
<1>6. QED
  BY <1>1, <1>3, <1>4, <1>5, GoesOnFed

\* The process that serves a request is the worker it was given.
LEMMA ServeFed ==
  ASSUME Fed, NEW r \in Requests, Serve(r)
  PROVE  AdaptersOK'
<1>1. /\ rpc[r] = "sent" /\ rpc' = [rpc EXCEPT ![r] = "serving"]
      /\ UNCHANGED <<poolVars, want, rworker, swaps>>
  BY DEF Serve
<1>2. PICK p \in Listening(wid[rworker[r]]) :
        /\ server' = [server EXCEPT ![r] = p]
        /\ used' = [used EXCEPT ![r] = WeightsOf(p)]
  BY DEF Serve
<1>3. p = rworker[r]
  BY <1>1, <1>2, HolderServed DEF Fed, Good, RequestsLossless, Holds, HoldingPC
<1>4. loaded[p] = want[r]
  BY <1>1, <1>3 DEF Fed, AdaptersOK, ServedOK, GivenPC
<1>5. UNCHANGED <<wid, workers, spawn, owner, check, loaded, adapter, registry>>
  BY <1>1 DEF poolVars, fields, pool, spawning, checks, processes
<1>6. WeightsOK' /\ SwapsServe' /\ SpawnsServe'
  BY <1>1, <1>5, PoolAlone DEF PoolRests
<1>7. /\ \A q \in Requests : q # r =>
           rpc'[q] = rpc[q] /\ server'[q] = server[q] /\ used'[q] = used[q]
      /\ rpc'[r] = "serving" /\ server'[r] = p /\ used'[r] \ {NoAdapter} = {want[r]}
  <2>1. want[r] # NoAdapter
    BY PoolConstantsOK DEF Fed, Good, RequestInv, RequestTypeOK
  <2>2. WeightsOf(p) \ {NoAdapter} = {want[r]}
    BY <1>4, <2>1 DEF WeightsOf
  <2>3. QED
    BY <1>1, <1>2, <2>2 DEF Fed, Good, RequestInv, RequestTypeOK
<1>8. ServedOK'
  BY <1>1, <1>3, <1>4, <1>5, <1>7 DEF Fed, AdaptersOK, ServedOK
<1>9. QED
  BY <1>6, <1>8 DEF AdaptersOK

LEMMA AnswerFed ==
  ASSUME Fed, NEW r \in Requests, Reject(r) \/ FinishServing(r)
  PROVE  AdaptersOK'
<1>1. PoolRests /\ UNCHANGED <<loaded, want, rworker, used>>
  BY DEF Reject, FinishServing, pool, spawning, checks, processes, PoolRests
<1>2. /\ rpc \in [Requests -> RequestPC]
      /\ server \in [Requests -> Objs \union {NoObj}]
  BY DEF Fed, Good, RequestInv, RequestTypeOK
<1>3. CASE Reject(r)
  <2>1. /\ \A q \in Requests : q # r => rpc'[q] = rpc[q]
        /\ rpc[r] = "sent" /\ rpc'[r] = "failed" /\ server' = server
    BY <1>2, <1>3 DEF Reject
  <2>2. SameForOthers(r) /\ MovedRequest(r)
    BY <1>1, <2>1 DEF SameForOthers, MovedRequest, GivenPC
  <2>3. QED
    BY <1>1, <2>1, <2>2, GoesOnFed
<1>4. CASE FinishServing(r)
  <2>1. /\ \A q \in Requests : q # r => rpc'[q] = rpc[q] /\ server'[q] = server[q]
        /\ rpc[r] = "serving" /\ rpc'[r] \in {"done", "failed"} /\ server'[r] = NoObj
    BY <1>2, <1>4 DEF FinishServing
  <2>2. ServedOK'
    BY <1>1, <2>1 DEF Fed, AdaptersOK, ServedOK, GivenPC
  <2>3. QED
    BY <1>1, <2>2, PoolAlone DEF AdaptersOK
<1>5. QED
  BY <1>3, <1>4

LEMMA PassFed ==
  ASSUME Fed, StartPass \/ DispatchDrop \/ DispatchMatch \/ DispatchSwap \/ DispatchKeep
  PROVE  AdaptersOK'
<1>1. UNCHANGED <<wid, workers, spawn, owner, check, loaded, adapter, registry,
                  want, server, used>>
  BY DEF StartPass, DispatchDrop, DispatchMatch, DispatchSwap, DispatchKeep, poolVars,
     fields, pool, spawning, checks, processes, requests
<1>2. /\ rpc \in [Requests -> RequestPC] /\ want \in [Requests -> Adapters]
      /\ rworker \in [Requests -> Objs \union {NoObj}]
  BY DEF Fed, Good, RequestInv, RequestTypeOK
<1>3. CASE StartPass \/ DispatchKeep \/ (DispatchDrop /\ ~Live(Current))
  BY <1>3, StillFed DEF StartPass, DispatchKeep, DispatchDrop, requests
<1>4. CASE (DispatchDrop /\ Live(Current)) \/ DispatchMatch
  <2>1. PICK r \in Requests : r = Current.r
    BY <1>4, CurrentIsEntry DEF DispatchDrop, DispatchMatch, Fed, Good, RequestInv
  <2>2. SameForOthers(r)
    BY <1>2, <1>4, <2>1 DEF SameForOthers, DispatchDrop, DispatchMatch
  <2>3. PoolRests
    BY <1>1, <1>4 DEF PoolRests, DispatchDrop, DispatchMatch
  <2>4. MovedRequest(r)
    <3>1. CASE DispatchDrop /\ Live(Current)
      <4>1. rpc[r] = "queued" /\ rpc'[r] = "failed"
        BY <1>2, <2>1, <3>1 DEF DispatchDrop, Live
      <4>2. QED
        BY <1>1, <4>1 DEF MovedRequest, GivenPC
    <3>2. CASE DispatchMatch
      <4>1. rpc[r] = "queued" /\ rpc'[r] = "granted"
        BY <1>2, <2>1, <3>2 DEF DispatchMatch, Live
      <4>2. PICK w \in Matching(want[r]) : rworker' = [rworker EXCEPT ![r] = w]
        BY <2>1, <3>2 DEF DispatchMatch
      <4>3. loaded[w] = want[r] /\ rworker'[r] = w
        BY <1>2, <4>2, MatchLoaded
      <4>4. QED
        BY <1>1, <4>1, <4>3 DEF MovedRequest
    <3>3. QED
      BY <1>4, <3>1, <3>2
  <2>5. QED
    BY <1>1, <2>2, <2>3, <2>4, GoesOnFed
<1>5. CASE DispatchSwap
  <2>1. PICK w : swaps' = swaps \union
                   {[w |-> w, to |-> want[Current.r], for |-> "dispatch",
                     entry |-> Current, grow |-> FALSE, phase |-> "created"]}
    BY <1>5 DEF DispatchSwap
  <2>2. \A t \in swaps' : t \in swaps \/ NewSwap(t)
    BY <2>1 DEF NewSwap
  <2>3. PoolRests
    BY <1>1, <2>1, <2>2 DEF PoolRests
  <2>4. \A q \in Requests : SameRequest(q)
    BY <1>1, <1>5 DEF DispatchSwap, requests, SameRequest
  <2>5. QED
    BY <1>1, <2>3, <2>4, PoolAlone, ServedKept DEF AdaptersOK
<1>6. QED
  BY <1>3, <1>4, <1>5
----------------------------------------------------------------------------
(* Spawns. *)

\* What a call of spawn_worker leaves alone.
SpawnRests ==
  /\ \A w \in Objs : spawn'[w] = "poll" => spawn[w] = "poll" /\ owner'[w] = owner[w]
  /\ \A w \in Tracked : spawn'[w] = spawn[w] /\ wid'[w] = wid[w]

LEMMA StartFed ==
  ASSUME Fed, NEW a, NEW who, StartSpawn(a, who), who \in Requests => a = want[who],
         want' = want
  PROVE  SpawnRests /\ SpawnsServe'
<1>1. /\ nextObj \in Objs
      /\ wid' = [wid EXCEPT ![nextObj] = NextId]
      /\ owner' = [owner EXCEPT ![nextObj] = [by |-> who, adapter |-> a]]
      /\ spawn' = [spawn EXCEPT ![nextObj] = "aggregator"]
  BY PoolConstantsOK DEF StartSpawn, CanSpawn, Fed, Good, PoolInv, PoolTypeOK, Objs
<1>2. spawn[nextObj] = "none"
  BY <1>1 DEF Fed, Good, PoolInv, ObjectsOK, Objs
<1>3. \A w \in Objs :
        /\ w # nextObj => /\ spawn'[w] = spawn[w] /\ wid'[w] = wid[w]
                          /\ owner'[w] = owner[w]
        /\ spawn'[nextObj] = "aggregator"
        /\ owner'[nextObj].by = who /\ owner'[nextObj].adapter = a
  BY <1>1 DEF Fed, Good, PoolInv, PoolTypeOK
<1>4. \A w \in Tracked : w \in Objs /\ w # nextObj
  BY <1>2, TrackedPast DEF Past, Begun, Fed, Good
<1>5. SpawnRests
  BY <1>3, <1>4 DEF SpawnRests
<1>6. SpawnsServe'
  BY <1>1, <1>3, SpawnsServeKept DEF Pending
<1>7. QED
  BY <1>5, <1>6

LEMMA SpawnFed ==
  ASSUME Fed,
         \/ DispatchSpawn \/ \E a \in Adapters : SpawnAhead(a)
         \/ \E r \in Requests : RouteSpawn(r) \/ Respawn(r)
  PROVE  AdaptersOK'
<1>1. UNCHANGED <<workers, adapter, registry, check, loaded, want, rworker, server,
                  used, swaps>>
  BY DEF DispatchSpawn, SpawnAhead, RouteSpawn, Respawn, CallSpawn, fields, pool, checks,
     processes, requests
<1>2. Tracked' = Tracked
  BY <1>1 DEF Tracked
<1>3. SpawnRests /\ SpawnsServe'
  <2>1. CASE UNCHANGED <<wid, spawn, owner>>
    BY <1>1, <2>1, SpawnsServeKept DEF SpawnRests, Pending
  <2>2. CASE \E a, who : StartSpawn(a, who) /\ (who \in Requests => a = want[who])
    BY <1>1, <2>2, StartFed
  <2>3. "dispatch" \notin Requests
    BY PoolConstantsOK
  <2>4. QED
    BY <2>1, <2>2, <2>3 DEF DispatchSpawn, SpawnAhead, RouteSpawn, Respawn, CallSpawn,
       fields, spawning
<1>4. WeightsOK'
  BY <1>1, <1>2, <1>3, WeightsKept DEF Fed, AdaptersOK, WeightsOK, SpawnRests
<1>5. SwapsServe'
  BY <1>1, SwapsServeKept
<1>6. ServedOK'
  <2>1. \A q \in Requests :
          \/ rpc'[q] = rpc[q]
          \/ /\ rpc[q] \in {"new", "respawn"}
             /\ rpc'[q] \in {"spawn1", "spawn2", "respawn", "queued"}
    BY DEF DispatchSpawn, SpawnAhead, requests, RouteSpawn, Respawn, CallSpawn, Fed, Good,
       RequestInv, RequestTypeOK
  <2>2. \A q \in Requests : SameRequest(q) \/ MovedRequest(q)
    BY <1>1, <2>1 DEF SameRequest, MovedRequest, GivenPC
  <2>3. QED
    BY <1>1, <2>2, ServedKept
<1>7. QED
  BY <1>3, <1>4, <1>5, <1>6 DEF AdaptersOK

\* Two workers of the dictionary have different ids.
LEMMA OtherId ==
  ASSUME PoolInv, NEW v \in Tracked, NEW w \in Tracked, wid[v] = wid[w]
  PROVE  v = w
  BY TrackedAt

LEMMA SpawnReadyFed ==
  ASSUME Fed, NEW w \in Objs, SpawnReady(w)
  PROVE  AdaptersOK'
<1> DEFINE receiver == IF owner[w].by \in Requests THEN {owner[w].by}
                       ELSE IF owner[w].by = "dispatch" /\ Candidates(w) # {}
                       THEN {pending[First(Candidates(w))].r}
                       ELSE {}
<1>1. /\ BecomeReady(w)
      /\ rworker' = [r \in Requests |-> IF r \in receiver THEN w ELSE rworker[r]]
      /\ rpc' = [r \in Requests |->
           IF r \notin receiver THEN rpc[r]
           ELSE IF r = owner[w].by THEN "sent" ELSE "granted"]
      /\ registry' = [registry EXCEPT ![wid[w]] = owner[w].adapter]
      /\ UNCHANGED <<wid, adapter, workers, owner, stops, check, proc, loaded, want,
                     server, used, swaps>>
  BY DEF SpawnReady, BecomeReady, checks, processes
<1>2. /\ Tracked' = Tracked
      /\ w \in Tracked /\ spawn[w] = "poll" /\ spawn' = [spawn EXCEPT ![w] = "done"]
  BY <1>1, ReadyLossless DEF Fed, Good
<1>3. loaded[w] = owner[w].adapter /\ adapter[w] = owner[w].adapter
  BY <1>2 DEF Fed, AdaptersOK, WeightsOK
<1>4. \A v \in Objs : spawn'[v] = IF v = w THEN "done" ELSE spawn[v]
  BY <1>2 DEF Fed, Good, PoolInv, PoolTypeOK
<1>5. \A v \in Tracked :
        /\ v \in Objs
        /\ registry'[wid[v]] = IF v = w THEN loaded[w] ELSE registry[wid[v]]
  BY <1>1, <1>2, <1>3, TrackedAt, OtherId DEF Fed, Good, PoolInv, PoolTypeOK
<1>6. WeightsOK'
  BY <1>1, <1>2, <1>4, <1>5, WeightsKept DEF Fed, AdaptersOK, WeightsOK
<1>7. SwapsServe' /\ SpawnsServe'
  BY <1>1, <1>4, SwapsServeKept, SpawnsServeKept DEF Pending
<1>8. \A r \in receiver :
        /\ r \in Requests /\ rpc[r] \in {"spawn1", "spawn2", "queued"}
        /\ want[r] = loaded[w]
  <2>1. CASE owner[w].by \in Requests
    <3>1. rpc[owner[w].by] \in {"spawn1", "spawn2"}
      BY <1>2, <2>1 DEF Fed, Good, RequestsLossless, SpawnsOK, Pending
    <3>2. owner[w].adapter = want[owner[w].by]
      BY <1>2, <2>1 DEF Fed, AdaptersOK, SpawnsServe, Pending
    <3>3. QED
      BY <1>3, <2>1, <3>1, <3>2
  <2>2. CASE owner[w].by \notin Requests /\ receiver # {}
    <3> DEFINE k == First(Candidates(w))
    <3>1. Candidates(w) # {} /\ receiver = {pending[k].r}
      BY <2>2
    <3>2. k \in Candidates(w)
      BY <3>1, FirstIsCandidate DEF Fed, Good, RequestInv
    <3>3. /\ k \in 1 .. Len(pending) /\ rpc[pending[k].r] = "queued"
          /\ want[pending[k].r] \in {owner[w].adapter, adapter[w]}
      BY <3>2 DEF Candidates, Live
    <3> HIDE DEF k, receiver
    <3>4. pending[k].r \in Requests
      BY <3>3, EntryAt DEF Fed, Good, RequestInv
    <3>5. QED
      BY <1>3, <3>1, <3>3, <3>4
  <2>3. QED
    BY <2>1, <2>2
<1> HIDE DEF receiver
<1>9. \A q \in Requests : SameRequest(q) \/ MovedRequest(q)
  <2>1. TAKE q \in Requests
  <2>2. CASE q \in receiver
    <3>1. rpc'[q] \in {"sent", "granted"} /\ rworker'[q] = w
      BY <1>1, <2>2
    <3>2. QED
      BY <1>1, <1>8, <2>2, <3>1 DEF MovedRequest
  <2>3. CASE q \notin receiver
    BY <1>1, <2>3 DEF SameRequest
  <2>4. QED
    BY <2>2, <2>3
<1>10. ServedOK'
  BY <1>1, <1>9, ServedKept
<1>11. QED
  BY <1>6, <1>7, <1>10 DEF AdaptersOK

LEMMA RefuseFed ==
  ASSUME Fed, NEW w \in Objs, RefuseSpawn(w)
  PROVE  AdaptersOK'
<1>1. /\ SpawnRefused(w) /\ spawn[w] = "aggregator"
      /\ spawn' = [spawn EXCEPT ![w] = "done"]
      /\ UNCHANGED <<wid, adapter, workers, registry, owner, check, loaded, want,
                     rworker, server, used, swaps>>
  BY DEF RefuseSpawn, SpawnRefused, fields, checks, processes
<1>2. Tracked' = Tracked /\ \A v \in Tracked : v \in Objs /\ v # w
  BY <1>1, TrackedPast DEF Tracked, Past, Begun, Fed, Good
<1>3. \A v \in Objs : spawn'[v] = IF v = w THEN "done" ELSE spawn[v]
  BY <1>1 DEF Fed, Good, PoolInv, PoolTypeOK
<1>4. WeightsOK'
  BY <1>1, <1>2, <1>3, WeightsKept DEF Fed, AdaptersOK, WeightsOK
<1>5. SwapsServe' /\ SpawnsServe'
  BY <1>1, <1>3, SwapsServeKept, SpawnsServeKept DEF Pending
<1>6. owner[w].by \in Requests => rpc[owner[w].by] \in {"spawn1", "spawn2"}
  BY <1>1 DEF Fed, Good, RequestsLossless, SpawnsOK, Pending
<1>7. \A q \in Requests :
        \/ rpc'[q] = rpc[q]
        \/ rpc[q] \in {"spawn1", "spawn2"} /\ rpc'[q] \in {"respawn", "queued"}
  <2>1. \/ rpc' = rpc
        \/ /\ owner[w].by \in Requests
           /\ \E pc \in {"respawn", "queued"} : rpc' = [rpc EXCEPT ![owner[w].by] = pc]
    BY DEF RefuseSpawn, SpawnReturnsNone
  <2>2. rpc \in [Requests -> RequestPC]
    BY DEF Fed, Good, RequestInv, RequestTypeOK
  <2>3. QED
    BY <1>6, <2>1, <2>2
<1>8. \A q \in Requests : SameRequest(q) \/ MovedRequest(q)
  BY <1>1, <1>7 DEF SameRequest, MovedRequest, GivenPC
<1>9. ServedOK'
  BY <1>1, <1>8, ServedKept
<1>10. QED
  BY <1>4, <1>5, <1>9 DEF AdaptersOK
----------------------------------------------------------------------------
(* The pool. *)

\* What requests were given has no swap under way.
LEMMA NotSwapped ==
  ASSUME Fed, NEW t \in swaps, NEW r \in Requests
  PROVE  /\ rpc[r] \in GivenPC => rworker[r] # t.w
         /\ server[r] # t.w
<1>1. rpc[r] \in GivenPC => rworker[r] # t.w
  <2>1. SUFFICES ASSUME rpc[r] \in GivenPC PROVE rworker[r] # t.w
    OBVIOUS
  <2>2. Holds(r)
    BY <2>1 DEF GivenPC, Holds, HoldingPC
  <2>3. CASE t.for = "route"
    <3>1. t.entry.r \in Requests /\ rpc[t.entry.r] = "swap" /\ rworker[t.entry.r] = t.w
      BY <2>3, SwapAlone DEF Fed, Good, RequestsLossless, SwapsOK
    <3>2. Holds(t.entry.r) /\ t.entry.r # r
      BY <2>1, <3>1 DEF Holds, HoldingPC, GivenPC
    <3>3. QED
      BY <2>2, <3>1, <3>2 DEF Fed, Good, RequestsLossless, HoldersOK
  <2>4. CASE t.for # "route"
    <3>1. ForQueue(t)
      BY <2>4 DEF ForQueue, Fed, AdaptersOK, SwapsServe, Good, RequestInv, RequestTypeOK,
         Swap
    <3>2. QED
      BY <2>2, <3>1 DEF Fed, Good, RequestsLossless, HoldersOK
  <2>5. QED
    BY <2>3, <2>4
<1>2. server[r] # t.w
  <2>1. t.w # NoObj
    BY SwapAlone, NoObjIsNone
  <2>2. server[r] # NoObj => rpc[r] \in GivenPC /\ server[r] = rworker[r]
    BY DEF Fed, AdaptersOK, ServedOK, GivenPC
  <2>3. QED
    BY <1>1, <2>1, <2>2
<1>3. QED
  BY <1>1, <1>2

\* A launched worker builds the model with the adapter it was spawned for.
LEMMA LaunchFed ==
  ASSUME Fed, Undisturbed, NEW w \in Objs, Launch(w) \/ LaunchTwins(w),
         UNCHANGED <<requests, swaps>>
  PROVE  AdaptersOK'
<1>1. LaunchAs(w, {w})
  BY DEF Undisturbed, LaunchTwins, Launch
<1>2. /\ wid' = [p \in Objs |-> IF p \in {w} THEN LaunchId(w) ELSE wid[p]]
      /\ adapter' = [adapter EXCEPT ![w] = owner[w].adapter]
      /\ loaded' = [p \in Objs |-> IF p \in {w} THEN owner[w].adapter ELSE loaded[p]]
      /\ UNCHANGED <<registry, owner, check>>
  BY <1>1 DEF LaunchAs, checks
<1>3. /\ Tracked' = Tracked \union {w}
      /\ spawn[w] = "aggregator" /\ spawn' = [spawn EXCEPT ![w] = "poll"]
  BY LaunchLossless DEF Fed, Good, Undisturbed, NothingLost
<1>4. /\ \A p \in Objs : spawn'[p] = IF p = w THEN "poll" ELSE spawn[p]
      /\ \A p \in Objs : wid'[p] = IF p = w THEN LaunchId(w) ELSE wid[p]
      /\ \A p \in Objs : adapter'[p] = IF p = w THEN owner[w].adapter ELSE adapter[p]
      /\ \A p \in Objs : loaded'[p] = IF p = w THEN owner[w].adapter ELSE loaded[p]
  BY <1>2, <1>3 DEF Fed, Good, PoolInv, PoolTypeOK
<1>5. UNCHANGED <<rpc, want, rworker, server, used>>
  BY DEF requests
<1>6. \A v \in Tracked : v \in Objs /\ v # w
  BY <1>3, TrackedPast DEF Past, Begun, Fed, Good
<1>7. WeightsOK'
  <2>1. \A v \in Objs : spawn'[v] = "poll" =>
          loaded'[v] = owner'[v].adapter /\ adapter'[v] = owner'[v].adapter
    BY <1>2, <1>4 DEF Fed, AdaptersOK, WeightsOK
  <2>2. \A v \in Tracked' : spawn'[v] = "done" =>
          \/ registry'[wid'[v]] \in {loaded'[v], NoAdapter}
          \/ \E t \in swaps' : t.w = v /\ t.phase = "ok"
    BY <1>2, <1>3, <1>4, <1>6 DEF Fed, AdaptersOK, WeightsOK
  <2>3. QED
    BY <1>2, <2>1, <2>2 DEF Fed, AdaptersOK, WeightsOK
<1>8. SwapsServe'
  <2>1. \A t \in swaps : loaded'[t.w] = loaded[t.w]
    BY <1>4, <1>6, SwapAlone
  <2>2. QED
    BY <1>5, <2>1, SwapsServeKept
<1>9. SpawnsServe'
  BY <1>2, <1>3, <1>4, <1>5, SpawnsServeKept DEF Pending
<1>10. ServedOK'
  <2>1. \A q \in Requests : rpc[q] \in GivenPC => rworker[q] \in Tracked
    BY DEF GivenPC, Holds, HoldingPC, Fed, Good, RequestsLossless, HoldersOK
  <2>2. \A q \in Requests : SameRequest(q)
    BY <1>4, <1>5, <1>6, <2>1 DEF SameRequest
  <2>3. QED
    BY <1>5, <2>2, ServedKept
<1>11. QED
  BY <1>7, <1>8, <1>9, <1>10 DEF AdaptersOK

\* Forgetting what was registered for ids of no worker of the dictionary.
LEMMA ForgetsFed ==
  ASSUME Fed, Tracked' \subseteq Tracked,
         \A v \in Tracked' : registry'[wid[v]] \in {registry[wid[v]], NoAdapter},
         UNCHANGED <<wid, adapter, spawn, owner, check, loaded, rpc, want, rworker,
                     server, used, swaps>>
  PROVE  AdaptersOK'
<1>1. WeightsOK'
  BY WeightsKept DEF Fed, AdaptersOK, WeightsOK
<1>2. SwapsServe' /\ SpawnsServe'
  BY SwapsServeKept, SpawnsServeKept DEF Pending
<1>3. \A q \in Requests : SameRequest(q)
  BY DEF SameRequest
<1>4. ServedOK'
  BY <1>3, ServedKept
<1>5. QED
  BY <1>1, <1>2, <1>4 DEF AdaptersOK

LEMMA ReapFed ==
  ASSUME Fed, NEW w \in Objs, Reap(w), UNCHANGED <<requests, swaps>>
  PROVE  AdaptersOK'
<1>1. Tracked' = Tracked \ {w}
  BY ReapLossless DEF Fed, Good
<1>2. /\ registry' = [registry EXCEPT ![wid[w]] = NoAdapter]
      /\ UNCHANGED <<wid, adapter, spawn, owner, check, loaded, rpc, want, rworker,
                     server, used, swaps>>
  BY DEF Reap, Remove, spawning, checks, processes, requests
<1>3. \A v \in Tracked' : registry'[wid[v]] \in {registry[wid[v]], NoAdapter}
  BY <1>1, <1>2, TrackedAt DEF Fed, Good, PoolInv, PoolTypeOK
<1>4. QED
  BY <1>1, <1>2, <1>3, ForgetsFed

LEMMA EndStopFed ==
  ASSUME Fed, NEW t \in stops, EndStop(t)
  PROVE  AdaptersOK'
<1>1. Tracked' = Tracked /\ spawn' = spawn /\ t.by = "reaper"
  BY FinishStopLossless DEF EndStop, Fed, Good
<1>2. /\ registry' = [registry EXCEPT ![wid[t.w]] = NoAdapter]
      /\ UNCHANGED <<wid, adapter, owner, check, loaded, rpc, want, rworker,
                     server, used, swaps>>
  BY <1>1 DEF EndStop, FinishStop, fields, checks
<1>3. \A v \in Tracked' : registry'[wid[v]] \in {registry[wid[v]], NoAdapter}
  BY <1>1, <1>2, TrackedAt DEF Fed, Good, PoolInv, PoolTypeOK
<1>4. QED
  BY <1>1, <1>2, <1>3, ForgetsFed

\* A health check that is one step sets the registry right.
LEMMA CheckFed ==
  ASSUME Fed, Undisturbed, NEW w \in Objs, CheckAtOnce(w)
  PROVE  AdaptersOK'
<1>1. /\ w \in Tracked /\ ~NobodyListens(w) /\ spawn[w] # "poll"
      /\ UNCHANGED <<wid, workers, spawn, owner, check, loaded, rpc, want,
                     rworker, server, used, swaps>>
  BY DEF CheckAtOnce, Healthy, Checked, Undisturbed, spawning, checks, processes, requests
<1>2. spawn[w] = "done" /\ wid[w] \in Ids
  BY <1>1, TrackedPast DEF Fed, Good, Past, Begun, PoolLossless, ProcessesOK
<1>3. Listening(wid[w]) = {w}
  BY <1>1, <1>2, OwnPort DEF Fed, Good, PoolLossless, ProcessesOK
<1>4. PICK said \in Replies(w) : Apply(w, said, Recovered(w))
  BY DEF CheckAtOnce
<1>5. said.adapter = loaded[w]
  BY <1>1, <1>3, <1>4 DEF Replies
<1>6. /\ adapter' = adapter \/ adapter' = [adapter EXCEPT ![w] = loaded[w]]
      /\ registry' = registry \/ registry' = [registry EXCEPT ![wid[w]] = loaded[w]]
  BY <1>4, <1>5 DEF Apply
<1>7. Tracked' = Tracked
  BY <1>1 DEF Tracked
<1>8. \A v \in Objs : v # w => adapter'[v] = adapter[v]
  BY <1>6 DEF Fed, Good, PoolInv, PoolTypeOK
<1>9. \A v \in Tracked : /\ v \in Objs
                         /\ registry'[wid[v]] = registry[wid[v]]
                              \/ registry'[wid[v]] = loaded[v]
  BY <1>1, <1>2, <1>6, TrackedAt, OtherId DEF Fed, Good, PoolInv, PoolTypeOK
<1>10. WeightsOK'
  BY <1>1, <1>7, <1>8, <1>9, WeightsKept DEF Fed, AdaptersOK, WeightsOK
<1>11. SwapsServe' /\ SpawnsServe'
  BY <1>1, SwapsServeKept, SpawnsServeKept DEF Pending
<1>12. \A q \in Requests : SameRequest(q)
  BY <1>1 DEF SameRequest
<1>13. ServedOK'
  BY <1>1, <1>12, ServedKept
<1>14. QED
  BY <1>10, <1>11, <1>13 DEF AdaptersOK

\* Steps of the pool that touch no weights and no registry.
LEMMA QuietFed ==
  ASSUME Fed, UNCHANGED <<wid, workers, spawn, owner, check, loaded, adapter, registry>>,
         UNCHANGED <<requests, swaps>>
  PROVE  AdaptersOK'
<1>1. UNCHANGED <<rpc, want, rworker, server, used>>
  BY DEF requests
<1>2. PoolRests /\ \A q \in Requests : SameRequest(q)
  BY <1>1 DEF PoolRests, SameRequest
<1>3. QED
  BY <1>1, <1>2, PoolAlone, ServedKept DEF AdaptersOK

LEMMA PoolStepFed ==
  ASSUME Fed, Undisturbed, NEW w \in Objs, PoolStep(w) \/ Exit(w)
  PROVE  AdaptersOK'
<1>1. UNCHANGED <<requests, swaps>> /\ NothingLost
  BY DEF PoolStep, Exit, Undisturbed, NothingLost
<1>2. CASE Launch(w) \/ LaunchTwins(w)
  BY <1>1, <1>2, LaunchFed
<1>3. CASE Reap(w)
  BY <1>1, <1>3, ReapFed
<1>4. CASE HealthFails(w)
  <2>1. proc[w] # "dead"
    <3>1. w \in Tracked
      BY <1>1, <1>4 DEF HealthFails, Checked, NothingLost
    <3>2. spawn[w] \in {"poll", "done"}
      BY <3>1, TrackedPast DEF Fed, Good, Past, Begun, PoolLossless, ProcessesOK
    <3>3. QED
      BY <3>1, <3>2 DEF Fed, Good, PoolLossless, ProcessesOK
  <2>2. UNCHANGED <<wid, workers, spawn, owner, loaded, adapter, registry>>
    BY <1>4, <2>1 DEF HealthFails, pool, spawning, processes
  <2>3. check' = check
    BY <1>4 DEF HealthFails, Fed, Good, PoolInv, PoolTypeOK, AdaptersOK, WeightsOK
  <2>4. QED
    BY <1>1, <2>2, <2>3, QuietFed
<1>5. CASE Bind(w) \/ Exit(w)
  <2>1. UNCHANGED <<wid, workers, spawn, owner, check, loaded, adapter, registry>>
    BY <1>5 DEF Bind, Exit, fields, pool, spawning, checks
  <2>2. QED
    BY <1>1, <2>1, QuietFed
<1>6. ~BeginCheck(w) /\ ~HealthOk(w)
  BY <1>1, ChecksAtOnce
<1>7. ~StartFails(w) /\ ~OperatorStop(w) /\ ~Die(w)
  BY <1>1, NoStartFails DEF Fed
<1>8. QED
  BY <1>2, <1>3, <1>4, <1>5, <1>6, <1>7 DEF PoolStep

LEMMA ShutdownFed ==
  ASSUME Fed, NEW t \in stops, Shutdown(t)
  PROVE  AdaptersOK'
<1>1. /\ UNCHANGED <<wid, workers, spawn, owner, check, loaded, adapter, registry>>
      /\ UNCHANGED <<requests, swaps>>
  BY DEF Shutdown, PostShutdown, fields, pool, spawning, checks
<1>2. QED
  BY <1>1, QuietFed

\* Replies are not delayed and no swap is proactive.
LEMMA Impossible ==
  ASSUME Fed, Undisturbed
  PROVE  /\ \A w \in Objs : ~AnswerInfo(w) /\ ~FinishCheck(w)
         /\ \A w \in Objs, a \in Adapters : ~Rebalance(w, a)
         /\ \A t \in swaps : ~RebalanceEnds(t)
<1>1. \A w \in Objs : ~AnswerInfo(w) /\ ~FinishCheck(w)
  BY DEF AnswerInfo, FinishCheck, ApplyInfo, Fed, AdaptersOK, WeightsOK
<1>2. \A w \in Objs, a \in Adapters : ~Rebalance(w, a)
  BY DEF Rebalance, Undisturbed
<1>3. \A t \in swaps : ~RebalanceEnds(t)
  BY DEF RebalanceEnds, Fed, AdaptersOK, SwapsServe
<1>4. QED
  BY <1>1, <1>2, <1>3
----------------------------------------------------------------------------
(* Swaps. *)

\* A swap goes on to another phase; the worker has not done it, or not to the end.
LEMMA SwapMovesFed ==
  ASSUME Fed, NEW t \in swaps,
         SwapBegins(t) \/ WorkerCannotSwap(t) \/ WorkerHalfSwaps(t)
  PROVE  AdaptersOK'
<1>1. PICK phase \in {"posted", "failed"} : ToPhase(t, phase)
  BY DEF SwapBegins, WorkerCannotSwap, WorkerHalfSwaps
<1> DEFINE u == [t EXCEPT !.phase = phase]
<1>2. /\ u.w = t.w /\ u.for = t.for /\ u.to = t.to /\ u.entry = t.entry
      /\ u.phase = phase /\ swaps' = (swaps \ {t}) \union {u}
  BY <1>1, PhaseTyped DEF Fed, Good, RequestInv, RequestTypeOK, ToPhase, Swap
<1> HIDE DEF u
<1>3. /\ t.phase # "ok"
      /\ UNCHANGED <<wid, workers, spawn, owner, check, loaded, adapter, registry, rpc,
                     want, rworker, server>>
  BY DEF SwapBegins, WorkerCannotSwap, WorkerHalfSwaps, poolVars, fields, pool, spawning,
     checks, processes, requests
<1>4. \A q \in Requests : used'[q] = used[q]
  <2>1. Listening(wid[t.w]) = {t.w} /\ \A q \in Requests : server[q] # t.w
    BY SwapAlone, NotSwapped
  <2>2. CASE WorkerHalfSwaps(t)
    BY <2>1, <2>2 DEF WorkerHalfSwaps, ServesWith
  <2>3. CASE SwapBegins(t) \/ WorkerCannotSwap(t)
    BY <2>3 DEF SwapBegins, WorkerCannotSwap, requests
  <2>4. QED
    BY <2>2, <2>3
<1>5. NewSwap(u)
  BY <1>2 DEF NewSwap, Fed, AdaptersOK, SwapsServe
<1>6. PoolRests /\ \A q \in Requests : SameRequest(q)
  BY <1>2, <1>3, <1>4, <1>5 DEF PoolRests, SameRequest
<1>7. QED
  BY <1>3, <1>6, PoolAlone, ServedKept DEF AdaptersOK

\* The worker puts the new weights in place; nobody is served by it.
LEMMA WorkerSwapsFed ==
  ASSUME Fed, NEW t \in swaps, WorkerSwaps(t)
  PROVE  AdaptersOK'
<1>1. /\ t.w \in Objs /\ t.w \in Tracked /\ spawn[t.w] = "done"
      /\ \A s \in swaps : s.w = t.w => s = t
      /\ Listening(wid[t.w]) = {t.w}
  BY SwapAlone
<1>2. /\ loaded' = [loaded EXCEPT ![t.w] = t.to]
      /\ \A r \in Requests : server[r] # t.w => used'[r] = used[r]
      /\ UNCHANGED <<wid, workers, spawn, owner, check, adapter, registry, rpc, want,
                     rworker, server>>
  <2>1. loaded \in [Objs -> Adapters \union {NoAdapter}]
    BY DEF Fed, Good, PoolInv, PoolTypeOK
  <2>2. QED
    BY <1>1, <2>1 DEF WorkerSwaps, ServesWith, fields, pool, spawning, checks
<1>3. \A w \in Objs : loaded'[w] = IF w = t.w THEN t.to ELSE loaded[w]
  BY <1>1, <1>2 DEF Fed, Good, PoolInv, PoolTypeOK
<1> DEFINE u == [t EXCEPT !.phase = "ok"]
<1>4. /\ u.w = t.w /\ u.for = t.for /\ u.to = t.to /\ u.entry = t.entry
      /\ u.phase = "ok" /\ swaps' = (swaps \ {t}) \union {u}
  BY PhaseTyped DEF Fed, Good, RequestInv, RequestTypeOK, WorkerSwaps, ToPhase, Swap
<1> HIDE DEF u
<1>5. Tracked' = Tracked /\ Tracked \subseteq Objs
  BY <1>2, TrackedAt DEF Tracked, Fed, Good
<1>6. WeightsOK'
  <2>1. \A w \in Tracked' : spawn'[w] = "done" =>
          \/ \E s \in swaps' : s.w = w /\ s.phase = "ok"
          \/ /\ spawn[w] = "done" /\ loaded'[w] = loaded[w]
             /\ registry'[wid'[w]] = registry[wid[w]]
             /\ \A s \in swaps : s.w = w /\ s.phase = "ok" => s \in swaps'
    BY <1>2, <1>3, <1>4, <1>5
  <2>2. \A w \in Objs : spawn'[w] = "poll" =>
          /\ spawn[w] = "poll" /\ loaded'[w] = loaded[w]
          /\ owner'[w] = owner[w] /\ adapter'[w] = adapter[w]
    BY <1>1, <1>2, <1>3
  <2>3. \A w \in Objs : check'[w] = "none"
    BY <1>2 DEF Fed, AdaptersOK, WeightsOK
  <2>4. QED
    BY <1>5, <2>1, <2>2, <2>3, WeightsKept
<1>7. SwapsServe'
  <2>1. \A s \in swaps : s # t => loaded'[s.w] = loaded[s.w]
    BY <1>1, <1>3, SwapAlone
  <2>2. NewSwap(u)
    BY <1>1, <1>3, <1>4 DEF NewSwap, Fed, AdaptersOK, SwapsServe
  <2>3. QED
    BY <1>2, <1>4, <2>1, <2>2, SwapsServeKept
<1>8. SpawnsServe'
  BY <1>2, SpawnsServeKept DEF Pending
<1>9. \A q \in Requests : SameRequest(q)
  <2>1. TAKE q \in Requests
  <2>2. server[q] # t.w /\ (rpc[q] \in GivenPC => rworker[q] # t.w)
    BY NotSwapped
  <2>3. used'[q] = used[q]
    BY <1>2, <2>2
  <2>4. rpc[q] \in GivenPC => rworker[q] \in Objs
    BY TrackedAt DEF GivenPC, Holds, HoldingPC, Fed, Good, RequestsLossless, HoldersOK
  <2>5. QED
    BY <1>2, <1>3, <2>2, <2>3, <2>4 DEF SameRequest
<1>10. QED
  BY <1>2, <1>6, <1>7, <1>8, <1>9, ServedKept DEF AdaptersOK

\* The controller hears how a swap went; it may start a spawn besides.
LEMMA SwapEndsFed ==
  ASSUME Fed, NEW t \in swaps,
         SwapSucceeded(t) \/ (SwapFailed(t) /\ UNCHANGED <<adapter, registry>>),
         SpawnRests, UNCHANGED <<workers, check, loaded, want>>
  PROVE  /\ WeightsOK' /\ SwapsServe'
         /\ t.entry.r \in Requests
         /\ t.phase = "ok" => loaded[t.w] = want[t.entry.r]
<1>1. /\ t.w \in Objs /\ t.w \in Tracked /\ spawn[t.w] = "done"
      /\ t.entry.r \in Requests
      /\ \A s \in swaps : s.w = t.w => s = t
      /\ swaps' = swaps \ {t}
  BY SwapAlone DEF SwapSucceeded, SwapFailed
<1>2. t.to = want[t.entry.r] /\ (t.phase = "ok" => loaded[t.w] = t.to)
  BY DEF Fed, AdaptersOK, SwapsServe
<1>3. Tracked' = Tracked
  BY DEF Tracked
<1>4. /\ \A w \in Objs : w # t.w => adapter'[w] = adapter[w]
      /\ \A w \in Tracked : w # t.w => registry'[wid[w]] = registry[wid[w]]
  BY <1>1, TrackedAt, OtherId
     DEF SwapSucceeded, SwapFailed, Fed, Good, PoolInv, PoolTypeOK
<1>5. \/ t.phase = "ok" /\ registry'[wid[t.w]] = loaded[t.w]
      \/ t.phase # "ok" /\ registry'[wid[t.w]] = registry[wid[t.w]]
  BY <1>1, <1>2, TrackedAt DEF SwapSucceeded, SwapFailed, Fed, Good, PoolInv, PoolTypeOK
<1>6. WeightsOK'
  <2>1. \A w \in Tracked' : spawn'[w] = "done" =>
          \/ registry'[wid'[w]] \in {loaded'[w], NoAdapter}
          \/ /\ spawn[w] = "done" /\ loaded'[w] = loaded[w]
             /\ registry'[wid'[w]] = registry[wid[w]]
             /\ \A s \in swaps : s.w = w /\ s.phase = "ok" => s \in swaps'
    BY <1>1, <1>3, <1>4, <1>5 DEF SpawnRests
  <2>2. \A w \in Objs : spawn'[w] = "poll" =>
          /\ spawn[w] = "poll" /\ loaded'[w] = loaded[w]
          /\ owner'[w] = owner[w] /\ adapter'[w] = adapter[w]
    BY <1>1, <1>4 DEF SpawnRests
  <2>3. \A w \in Objs : check'[w] = "none"
    BY DEF Fed, AdaptersOK, WeightsOK
  <2>4. QED
    BY <1>3, <2>1, <2>2, <2>3, WeightsKept
<1>7. SwapsServe'
  BY <1>1, SwapsServeKept
<1>8. QED
  BY <1>1, <1>2, <1>6, <1>7

LEMMA RouteSwapOverFed ==
  ASSUME Fed, NEW t \in swaps, RouteSwapped(t) \/ RouteSwapFailed(t)
  PROVE  AdaptersOK'
<1>1. /\ t.for = "route"
      /\ SwapSucceeded(t) \/ (SwapFailed(t) /\ UNCHANGED <<adapter, registry>>)
      /\ UNCHANGED <<workers, check, loaded, want, rworker, server, used>>
  BY DEF RouteSwapped, RouteSwapFailed, checks, processes
<1>2. /\ t.entry.r \in Requests /\ rpc[t.entry.r] = "swap"
      /\ rworker[t.entry.r] = t.w
  BY <1>1, SwapAlone DEF Fed, Good, RequestsLossless, SwapsOK
<1>3. SpawnRests /\ SpawnsServe'
  <2>1. CASE UNCHANGED <<wid, spawn, owner>>
    BY <1>1, <2>1, SpawnsServeKept DEF SpawnRests, Pending
  <2>2. CASE \E a, who : StartSpawn(a, who) /\ (who \in Requests => a = want[who])
    BY <1>1, <2>2, StartFed
  <2>3. "grow" \notin Requests
    BY PoolConstantsOK
  <2>4. QED
    BY <2>1, <2>2, <2>3 DEF RouteSwapped, RouteSwapFailed, spawning
<1>4. /\ WeightsOK' /\ SwapsServe'
      /\ t.phase = "ok" => loaded[t.w] = want[t.entry.r]
  BY <1>1, <1>3, SwapEndsFed
<1> DEFINE r == t.entry.r
<1>5. /\ \A q \in Requests : q # r => rpc'[q] = rpc[q]
      /\ \/ t.phase = "ok" /\ rpc'[r] = "sent"
         \/ rpc'[r] \in {"spawn1", "respawn"}
  BY <1>2 DEF RouteSwapped, RouteSwapFailed, SwapSucceeded, Fed, Good, RequestInv,
     RequestTypeOK
<1>6. \A q \in Requests : q # r => SameRequest(q)
  BY <1>1, <1>5 DEF SameRequest
<1>7. MovedRequest(r)
  BY <1>1, <1>2, <1>4, <1>5 DEF MovedRequest, GivenPC
<1> HIDE DEF r
<1>8. ServedOK'
  BY <1>1, <1>6, <1>7, ServedKept
<1>9. QED
  BY <1>3, <1>4, <1>8 DEF AdaptersOK

LEMMA DispatchSwapOverFed ==
  ASSUME Fed, NEW t \in swaps, DispatchSwapped(t) \/ DispatchSwapFailed(t)
  PROVE  AdaptersOK'
<1>1. /\ SwapSucceeded(t) \/ (SwapFailed(t) /\ UNCHANGED <<adapter, registry>>)
      /\ UNCHANGED <<wid, spawn, owner, workers, check, loaded, want, server, used>>
  BY DEF DispatchSwapped, DispatchSwapFailed, spawning, pool, checks, processes, requests
<1>2. SpawnRests /\ SpawnsServe'
  BY <1>1, SpawnsServeKept DEF SpawnRests, Pending
<1>3. /\ WeightsOK' /\ SwapsServe'
      /\ t.entry.r \in Requests
      /\ t.phase = "ok" => loaded[t.w] = want[t.entry.r]
  BY <1>1, <1>2, SwapEndsFed
<1>4. CASE rpc' = rpc /\ rworker' = rworker
  <2>1. \A q \in Requests : SameRequest(q)
    BY <1>1, <1>4 DEF SameRequest
  <2>2. QED
    BY <1>1, <1>2, <1>3, <2>1, ServedKept DEF AdaptersOK
<1>5. CASE /\ SwapSucceeded(t) /\ Live(t.entry)
           /\ rworker' = [rworker EXCEPT ![t.entry.r] = t.w]
           /\ rpc' = [rpc EXCEPT ![t.entry.r] = "granted"]
  <2> DEFINE r == t.entry.r
  <2>1. /\ \A q \in Requests : q # r => rpc'[q] = rpc[q] /\ rworker'[q] = rworker[q]
        /\ rpc[r] = "queued" /\ rpc'[r] = "granted" /\ rworker'[r] = t.w
        /\ loaded[t.w] = want[r]
    BY <1>3, <1>5 DEF SwapSucceeded, Live, Fed, Good, RequestInv, RequestTypeOK
  <2>2. \A q \in Requests : q # r => SameRequest(q)
    BY <1>1, <2>1 DEF SameRequest
  <2>3. MovedRequest(r)
    BY <1>1, <2>1 DEF MovedRequest
  <2> HIDE DEF r
  <2>4. ServedOK'
    BY <1>1, <2>2, <2>3, ServedKept
  <2>5. QED
    BY <1>2, <1>3, <2>4 DEF AdaptersOK
<1>6. QED
  BY <1>4, <1>5 DEF DispatchSwapped, DispatchSwapFailed, requests
----------------------------------------------------------------------------
LEMMA InitFed == Init => AdaptersOK
<1> SUFFICES ASSUME Init PROVE AdaptersOK
  OBVIOUS
<1>1. PICK n \in Warm, a \in [Objs -> Adapters] :
        /\ wid = [w \in Objs |-> IF w <= n THEN w - 1 ELSE NoId]
        /\ adapter = [w \in Objs |-> IF w <= n THEN a[w] ELSE NoAdapter]
        /\ loaded = adapter
        /\ spawn = [w \in Objs |-> IF w <= n THEN "done" ELSE "none"]
        /\ workers = [i \in Ids |-> IF i < n THEN i + 1 ELSE NoObj]
        /\ registry = [i \in Ids |-> IF i < n THEN a[i + 1] ELSE NoAdapter]
        /\ check = [w \in Objs |-> "none"]
  BY DEF Init, PoolInit
<1>2. /\ n \in 0 .. MaxObjs /\ n <= MaxWorkers
      /\ MaxWorkers \in Nat /\ MaxObjs \in Nat
  BY PoolConstantsOK
<1>3. /\ rpc = [r \in Requests |-> "new"] /\ swaps = {}
      /\ server = [r \in Requests |-> NoObj]
  BY DEF Init
<1>4. \A w \in Objs : w <= n => registry[wid[w]] = loaded[w]
  <2>1. ASSUME NEW w \in Objs, w <= n
        PROVE  w - 1 \in Ids /\ w - 1 < n /\ (w - 1) + 1 = w
    BY <1>2, <2>1 DEF Ids, Objs
  <2>2. QED
    BY <1>1, <2>1
<1>5. Tracked \subseteq Objs
  <2>1. \A i \in Ids : workers[i] = NoObj \/ workers[i] \in Objs
    BY <1>1, <1>2 DEF Ids, Objs
  <2>2. QED
    BY <2>1 DEF Tracked
<1>6. WeightsOK
  BY <1>1, <1>4, <1>5 DEF WeightsOK
<1>7. SwapsServe /\ SpawnsServe /\ ServedOK
  BY <1>1, <1>3 DEF SwapsServe, SpawnsServe, ServedOK, Pending, GivenPC
<1>8. QED
  BY <1>6, <1>7 DEF AdaptersOK

LEMMA NextFed ==
  ASSUME Undisturbed, AInv, [Next]_vars
  PROVE  AdaptersOK'
<1>1. Fed
  BY DEF AInv, LInv, IInv, Fed, Good, RequestInv
<1>2. CASE UNCHANGED vars
  BY <1>1, <1>2, StillFed DEF vars, requests
<1>3. ASSUME NEW r \in Requests,
             \/ RouteMatch(r) \/ RouteSwap(r) \/ RouteSpawn(r) \/ RouteQueue(r)
             \/ Respawn(r) \/ QueueTimeout(r) \/ TakeGrant(r)
             \/ Serve(r) \/ Reject(r) \/ Refused(r) \/ FinishServing(r)
      PROVE  AdaptersOK'
  BY <1>1, <1>3, RouteFed, SpawnFed, ServeFed, AnswerFed, NeverRefused DEF Fed
<1>4. CASE StartPass \/ DispatchDrop \/ DispatchMatch \/ DispatchSwap
             \/ DispatchSpawn \/ DispatchKeep
  BY <1>1, <1>4, PassFed, SpawnFed
<1>5. ASSUME NEW w \in Objs,
             \/ SpawnReady(w) \/ RefuseSpawn(w) \/ AnswerInfo(w) \/ FinishCheck(w)
             \/ CheckAtOnce(w) \/ Exit(w) \/ PoolStep(w)
             \/ \E a \in Adapters : Rebalance(w, a)
      PROVE  AdaptersOK'
  BY <1>1, <1>5, SpawnReadyFed, RefuseFed, CheckFed, PoolStepFed, Impossible
<1>6. ASSUME NEW t \in stops, Shutdown(t) \/ EndStop(t)
      PROVE  AdaptersOK'
  BY <1>1, <1>6, ShutdownFed, EndStopFed
<1>7. ASSUME NEW t \in swaps,
             \/ SwapBegins(t) \/ WorkerSwaps(t) \/ WorkerCannotSwap(t) \/ WorkerHalfSwaps(t)
             \/ RouteSwapped(t) \/ RouteSwapFailed(t)
             \/ DispatchSwapped(t) \/ DispatchSwapFailed(t) \/ RebalanceEnds(t)
      PROVE  AdaptersOK'
  BY <1>1, <1>7, SwapMovesFed, WorkerSwapsFed, RouteSwapOverFed, DispatchSwapOverFed,
     Impossible
<1>8. CASE \E a \in Adapters : SpawnAhead(a)
  BY <1>1, <1>8, SpawnFed
<1>9. QED
  BY <1>2, <1>3, <1>4, <1>5, <1>6, <1>7, <1>8 DEF Next

LEMMA Adapted == Undisturbed => (Spec => []AInv)
<1> SUFFICES ASSUME Undisturbed PROVE Spec => []AInv
  OBVIOUS
<1>1. NothingLost
  BY DEF Undisturbed, NothingLost
<1>2. Init => AInv
  BY InitOK, InitLossless, InitFed DEF AInv, LInv
<1>3. AInv /\ [Next]_vars => AInv'
  BY <1>1, NextOK, NextLossless, NextFed DEF AInv, LInv
<1>4. QED
  BY <1>2, <1>3, PTL DEF Spec

\* No request is answered with the weights of another adapter than its own, although
\* route_request, the dispatcher and spawn_worker decide on the registry's word and
\* the POST /inference follows some steps later: _swap_worker_adapter holds the worker
\* it swaps. What a swap left of earlier weights does take part.
THEOREM RightAdapter == Undisturbed => (Spec => []ServedByItsAdapter)
<1>1. AInv => ServedByItsAdapter
  BY DEF AInv, AdaptersOK, ServedOK, ServedByItsAdapter
<1>2. QED
  BY <1>1, Adapted, PTL
----------------------------------------------------------------------------
(* Where every swap replaces all weights or none, nothing else takes part. *)

Intact == Faults \subseteq {"slow", "swapfail", "noagg"}

Unmixed == mixed = {} /\ \A r \in Requests : NoAdapter \notin used[r]

\* Only swaps mix weights, and only with the faults left out here.
LEMMA NothingMixed ==
  ASSUME Intact, mixed = {}, [Next]_vars
  PROVE  mixed' = {}
<1>1. CASE UNCHANGED vars
  BY <1>1 DEF vars, poolVars, processes
<1>2. ASSUME NEW r \in Requests,
             \/ RouteMatch(r) \/ RouteSwap(r) \/ RouteSpawn(r) \/ RouteQueue(r)
             \/ Respawn(r) \/ QueueTimeout(r) \/ TakeGrant(r)
             \/ Serve(r) \/ Reject(r) \/ Refused(r) \/ FinishServing(r)
      PROVE  mixed' = {}
  BY <1>2 DEF RouteMatch, RouteSwap, RouteSpawn, RouteQueue, Respawn, QueueTimeout,
     TakeGrant, Serve, Reject, Refused, FinishServing, poolVars, processes
<1>3. CASE StartPass \/ DispatchDrop \/ DispatchMatch \/ DispatchSwap
             \/ DispatchSpawn \/ DispatchKeep \/ \E a \in Adapters : SpawnAhead(a)
  BY <1>3 DEF StartPass, DispatchDrop, DispatchMatch, DispatchSwap, DispatchSpawn,
     DispatchKeep, SpawnAhead, poolVars, processes
<1>4. ASSUME NEW w \in Objs,
             \/ SpawnReady(w) \/ RefuseSpawn(w) \/ AnswerInfo(w) \/ FinishCheck(w)
             \/ CheckAtOnce(w) \/ Exit(w) \/ \E a \in Adapters : Rebalance(w, a)
      PROVE  mixed' = {}
  BY <1>4 DEF SpawnReady, RefuseSpawn, SpawnRefused, AnswerInfo, FinishCheck, ApplyInfo,
     CheckAtOnce, Exit, Rebalance, poolVars, processes
<1>5. ASSUME NEW w \in Objs, PoolStep(w)
      PROVE  mixed' = {}
  BY <1>5 DEF PoolStep, Launch, LaunchTwins, LaunchAs, StartFails, OperatorStop, Reap,
     BeginCheck, HealthOk, HealthFails, Bind, Die, processes
<1>6. ASSUME NEW t \in stops, Shutdown(t) \/ EndStop(t)
      PROVE  mixed' = {}
  BY <1>6 DEF Shutdown, PostShutdown, EndStop, FinishStop, processes
<1>7. ASSUME NEW t \in swaps,
             \/ SwapBegins(t) \/ WorkerSwaps(t) \/ WorkerCannotSwap(t) \/ WorkerHalfSwaps(t)
             \/ RouteSwapped(t) \/ RouteSwapFailed(t)
             \/ DispatchSwapped(t) \/ DispatchSwapFailed(t) \/ RebalanceEnds(t)
      PROVE  mixed' = {}
  BY <1>7 DEF Intact, SwapBegins, WorkerSwaps, WorkerCannotSwap, WorkerHalfSwaps,
     RouteSwapped, RouteSwapFailed, DispatchSwapped, DispatchSwapFailed, RebalanceEnds,
     poolVars, processes
<1>8. QED
  BY <1>1, <1>2, <1>3, <1>4, <1>5, <1>6, <1>7 DEF Next

\* So what a request meets is an adapter that is loaded.
LEMMA NothingMixedUsed ==
  ASSUME Intact, AInv, Unmixed, [Next]_vars
  PROVE  \A r \in Requests : NoAdapter \notin used'[r]
<1>1. \A a \in Adapters : a # NoAdapter
  BY PoolConstantsOK
<1>2. CASE used' = used
  BY <1>2 DEF Unmixed
<1>3. ASSUME NEW r \in Requests, Serve(r)
      PROVE  \A q \in Requests : NoAdapter \notin used'[q]
  <2>1. /\ rpc[r] = "sent" /\ want[r] \in Adapters
        /\ used \in [Requests -> SUBSET (Adapters \union {NoAdapter})]
    BY <1>3 DEF Serve, AInv, LInv, IInv, RequestTypeOK
  <2>2. PICK p \in Listening(wid[rworker[r]]) : used' = [used EXCEPT ![r] = WeightsOf(p)]
    BY <1>3 DEF Serve
  <2>3. p = rworker[r]
    BY <2>1, <2>2, HolderServed
       DEF AInv, LInv, IInv, RequestsLossless, Holds, HoldingPC
  <2>4. loaded[p] = want[r]
    BY <2>1, <2>3 DEF AInv, AdaptersOK, ServedOK, GivenPC
  <2>5. WeightsOf(p) = {want[r]}
    BY <2>4 DEF WeightsOf, Unmixed
  <2>6. QED
    BY <1>1, <2>1, <2>2, <2>5 DEF Unmixed
<1>4. ASSUME NEW t \in swaps, WorkerSwaps(t)
      PROVE  \A q \in Requests : NoAdapter \notin used'[q]
  <2>1. t.to \in Adapters
    BY DEF AInv, LInv, IInv, RequestTypeOK, Swap
  <2>2. \A q \in Requests : used'[q] \in {used[q], used[q] \union {t.to}}
    BY <1>4 DEF WorkerSwaps, ServesWith
  <2>3. QED
    BY <1>1, <2>1, <2>2 DEF Unmixed
<1>5. \/ used' = used
      \/ \E r \in Requests : Serve(r)
      \/ \E t \in swaps : WorkerSwaps(t)
  <2>1. CASE UNCHANGED vars
    BY <2>1 DEF vars, requests
  <2>2. ASSUME NEW r \in Requests,
               \/ RouteMatch(r) \/ RouteSwap(r) \/ RouteSpawn(r) \/ RouteQueue(r)
               \/ Respawn(r) \/ QueueTimeout(r) \/ TakeGrant(r)
               \/ Reject(r) \/ Refused(r) \/ FinishServing(r)
        PROVE  used' = used
    BY <2>2 DEF RouteMatch, RouteSwap, RouteSpawn, RouteQueue, Respawn, QueueTimeout,
       TakeGrant, Reject, Refused, FinishServing
  <2>3. CASE StartPass \/ DispatchDrop \/ DispatchMatch \/ DispatchSwap
               \/ DispatchSpawn \/ DispatchKeep \/ \E a \in Adapters : SpawnAhead(a)
    BY <2>3 DEF StartPass, DispatchDrop, DispatchMatch, DispatchSwap, DispatchSpawn,
       DispatchKeep, SpawnAhead, requests
  <2>4. ASSUME NEW w \in Objs,
               \/ SpawnReady(w) \/ RefuseSpawn(w) \/ AnswerInfo(w) \/ FinishCheck(w)
               \/ CheckAtOnce(w) \/ Exit(w) \/ PoolStep(w)
               \/ \E a \in Adapters : Rebalance(w, a)
        PROVE  used' = used
    BY <2>4 DEF SpawnReady, RefuseSpawn, AnswerInfo, FinishCheck, CheckAtOnce, Exit,
       PoolStep, Rebalance, requests
  <2>5. ASSUME NEW t \in stops, Shutdown(t) \/ EndStop(t)
        PROVE  used' = used
    BY <2>5 DEF Shutdown, EndStop, requests
  <2>6. ASSUME NEW t \in swaps,
               \/ SwapBegins(t) \/ WorkerCannotSwap(t)
               \/ RouteSwapped(t) \/ RouteSwapFailed(t)
               \/ DispatchSwapped(t) \/ DispatchSwapFailed(t) \/ RebalanceEnds(t)
        PROVE  used' = used
    BY <2>6 DEF SwapBegins, WorkerCannotSwap, RouteSwapped, RouteSwapFailed,
       DispatchSwapped, DispatchSwapFailed, RebalanceEnds, requests
  <2>7. \A t \in swaps : ~WorkerHalfSwaps(t)
    BY DEF WorkerHalfSwaps, Intact
  <2>8. QED
    BY <2>1, <2>2, <2>3, <2>4, <2>5, <2>6, <2>7 DEF Next
<1>6. QED
  BY <1>2, <1>3, <1>4, <1>5

\* Then a request that is answered was served by its own adapter's weights and no
\* other, from beginning to end ("Atomically swap to a new LoRA adapter", swap_adapter).
THEOREM WholeAdapter == Intact => (Spec => []ServedWhole)
<1> SUFFICES ASSUME Intact PROVE Spec => []ServedWhole
  OBVIOUS
<1>1. Undisturbed
  BY DEF Intact, Undisturbed
<1>2. Init => Unmixed
  BY DEF Init, PoolInit, Unmixed
<1>3. AInv /\ Unmixed /\ [Next]_vars => Unmixed'
  BY NothingMixed, NothingMixedUsed DEF Unmixed
<1>4. AInv /\ Unmixed => ServedWhole
  BY DEF AInv, AdaptersOK, ServedOK, Unmixed, ServedWhole
<1>5. QED
  BY <1>1, <1>2, <1>3, <1>4, Adapted, PTL DEF Spec
=============================================================================

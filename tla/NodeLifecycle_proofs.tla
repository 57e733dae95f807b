------------------------ MODULE NodeLifecycle_proofs ------------------------
(***************************************************************************)
(* The type of NodeLifecycle, and how far the crash monitor ever counts,   *)
(* for any number of tasks that launch and any max_retries.                *)
(***************************************************************************)
EXTENDS NodeLifecycle, TLAPS

PC == {"off", "sent", "waiting", "killing", "settling", "stopping_ctl",
       "stopping_agg", "ok", "failed"}

\* A failure is counted only while the monitor deals with it.
CountedInRestart ==
  /\ agg_failures <= 1
  /\ agg_failures = 1 => mon \in {"agg_backoff", "agg_restart"}

IInv == TypeOK /\ CountedInRestart

HandlersOK == agg \in {"none", "loading", "ready", "exited"} /\ pc \in [Handlers -> PC]

\* What a handler is left at.
LEMMA EndedOK ==
  ASSUME NEW h, NEW r \in {"ok", "failed"}
  PROVE  Ended(h, r) \in PC
  BY DEF Ended, PC

\* Starting a launch and stopping the aggregator keep process and handlers.
LEMMA BeginLaunchOK ==
  ASSUME HandlersOK, NEW h \in Handlers, BeginLaunch(h)
  PROVE  HandlersOK'
  BY EndedOK DEF HandlersOK, BeginLaunch, PC

\* Stopping the aggregator leaves the handlers of the agent in step.
LEMMA StopAggOK ==
  ASSUME HandlersOK, NEW h \in Handlers, StopAgg(h)
  PROVE  HandlersOK'
  BY EndedOK DEF HandlersOK, StopAgg, PC

\* An agent that just started has no handler running.
LEMMA InitIInv == Init => IInv
<1> SUFFICES ASSUME Init PROVE IInv
  OBVIOUS
<1>1. recent \in BOOLEAN /\ has_pid \in BOOLEAN /\ linked \in BOOLEAN
  BY DEF Init
<1>2. status \in NodeStatus /\ agg_failures = 0 /\ beat \in NodeStatus \union {NoBeat}
  BY DEF Init, NodeStatus
<1>3. QED
  BY <1>1, <1>2 DEF Init, IInv, TypeOK, CountedInRestart

\* The global controller's steps write the entry, a call and its handler.
LEMMA ControllerStep ==
  ASSUME IInv, NEW t \in Callers,
         ScaleUp(t) \/ Decide \/ ScaleDown \/ Answer(t) \/ CallFails(t)
  PROVE  IInv'
<1>0. Callers \subseteq Handlers /\ Scaler \in Callers
  BY DEF Callers, Handlers
<1> USE <1>0 DEF IInv, TypeOK, CountedInRestart, watcher, UpdateStatus
<1>1. CASE ScaleUp(t)
  BY <1>1 DEF ScaleUp, NodeStatus
<1>2. CASE Decide
  BY <1>2 DEF Decide, entry, agent
<1>3. CASE ScaleDown
  BY <1>3 DEF ScaleDown, NodeStatus
<1>4. CASE Answer(t)
  BY <1>4 DEF Answer, NodeStatus
<1>5. CASE CallFails(t)
  BY <1>5 DEF CallFails, NodeStatus
<1>6. QED
  BY <1>1, <1>2, <1>3, <1>4, <1>5

\* Time and heartbeats write the entry.
LEMMA HeartbeatStep ==
  ASSUME IInv, Silence \/ HealthPass \/ Beat
  PROVE  IInv'
<1> USE DEF IInv, TypeOK, CountedInRestart, watcher, agent
<1>1. CASE Silence
  BY <1>1 DEF Silence
<1>2. CASE HealthPass
  BY <1>2 DEF HealthPass, Stale, NodeStatus
<1>3. CASE BeginBeat
  BY <1>3 DEF BeginBeat, Reported, NodeStatus, entry
<1>4. CASE Heartbeat
  BY <1>4 DEF Heartbeat
<1>5. CASE BeatLost
  BY <1>5 DEF BeatLost, entry
<1>6. QED
  BY <1>1, <1>2, <1>3, <1>4, <1>5 DEF Beat

\* The agent's handlers write the processes and where they are.
LEMMA HandlerStep ==
  ASSUME IInv, NEW h \in Handlers,
         LaunchArrives(h) \/ StopArrives \/ Handle(h) \/ Stopping
  PROVE  IInv'
<1>0. Scaler \in Handlers
  BY DEF Handlers
<1> USE <1>0 DEF IInv, TypeOK, CountedInRestart, HandlersOK, PC, watcher, entry
<1>1. CASE LaunchArrives(h)
  BY <1>1, BeginLaunchOK DEF LaunchArrives
<1>2. CASE StopArrives
  <2>1. HandlersOK' /\ ctl' \in {"none", "up", "exited"}
    BY <1>2, StopAggOK DEF StopArrives
  <2>2. QED
    BY <1>2, <2>1 DEF StopArrives
<1>3. CASE Ready(h)
  BY <1>3, EndedOK DEF Ready
<1>4. CASE NotReady(h)
  <2>1. HandlersOK'
    BY <1>4, EndedOK DEF NotReady
  <2>2. QED
    BY <1>4, <2>1 DEF NotReady
<1>5. CASE Killed(h)
  BY <1>5, EndedOK DEF Killed
<1>6. CASE Settled(h)
  BY <1>6, EndedOK DEF Settled
<1>7. CASE CtlStopped
  BY <1>7, StopAggOK DEF CtlStopped
<1>8. CASE AggStopped
  BY <1>8, EndedOK DEF AggStopped
<1>9. QED
  BY <1>1, <1>2, <1>3, <1>4, <1>5, <1>6, <1>7, <1>8 DEF Handle, Stopping

\* The monitor counts from 0 to 1 and back; processes exit, the link changes.
LEMMA WatchStep ==
  ASSUME IInv, Watch \/ AggLoads \/ AggExits \/ CtlExits \/ LinkChanges
  PROVE  IInv'
<1>0. Monitor \in Handlers
  BY DEF Handlers
<1> USE <1>0 DEF IInv, TypeOK, CountedInRestart, HandlersOK, PC, watcher, entry
<1>1. CASE NoticeAgg
  <2>1. agg_failures = 0 /\ agg_failures' = 1 /\ mon' = "agg_backoff"
    BY <1>1, TasksDiffer DEF NoticeAgg
  <2>2. QED
    BY <1>1, <2>1 DEF NoticeAgg
<1>2. CASE RestartAgg
  BY <1>2, BeginLaunchOK DEF RestartAgg
<1>3. CASE RestartedAgg
  BY <1>3 DEF RestartedAgg
<1>4. CASE NoticeCtl
  BY <1>4 DEF NoticeCtl
<1>5. CASE RestartCtl
  BY <1>5 DEF RestartCtl
<1>6. CASE RestartedCtl
  BY <1>6 DEF RestartedCtl
<1>7. CASE AggLoads \/ AggExits \/ CtlExits
  BY <1>7 DEF AggLoads, AggExits, CtlExits
<1>8. CASE LinkChanges
  BY <1>8 DEF LinkChanges, agent
<1>9. QED
  BY <1>1, <1>2, <1>3, <1>4, <1>5, <1>6, <1>7, <1>8 DEF Watch

\* The invariant is inductive.
LEMMA Step == IInv /\ [Next]_vars => IInv'
<1> SUFFICES ASSUME IInv, [Next]_vars PROVE IInv'
  OBVIOUS
<1>0. Launchers \subseteq Callers /\ Callers \subseteq Handlers /\ Scaler \in Callers
  BY DEF Callers, Handlers
<1>1. CASE \E t \in Launchers : ScaleUp(t)
  BY <1>0, <1>1, ControllerStep
<1>2. ASSUME NEW t \in Callers, Delivery(t) PROVE IInv'
  BY <1>0, <1>2, ControllerStep, HandlerStep DEF Delivery, CallEnds
<1>3. ASSUME NEW h \in Handlers, Handle(h) PROVE IInv'
  BY <1>3, HandlerStep
<1>4. CASE Decide \/ ScaleDown
  BY <1>0, <1>4, ControllerStep
<1>5. CASE Silence \/ HealthPass \/ Beat
  BY <1>5, HeartbeatStep
<1>6. CASE Stopping
  BY <1>0, <1>6, HandlerStep
<1>7. CASE Watch \/ AggLoads \/ AggExits \/ CtlExits \/ LinkChanges
  BY <1>7, WatchStep
<1>8. CASE UNCHANGED vars
  BY <1>8 DEF vars, entry, agent, watcher, IInv, TypeOK, CountedInRestart
<1>9. QED
  BY <1>1, <1>2, <1>3, <1>4, <1>5, <1>6, <1>7, <1>8 DEF Next

\* TypeOK, for any number of launching tasks, whatever crashes, overlaps or is lost.
THEOREM TypeCorrect == Spec => []TypeOK
<1>1. IInv => TypeOK
  BY DEF IInv
<1>2. QED
  BY <1>1, InitIInv, Step, PTL DEF Spec

\* Where ResetOnSuccess fails: whatever max_retries is, no second failure in a row
\* is ever counted, as _launch_aggregator reports a failed restart by a result that
\* the monitor does not look at (node_agent.py:448). The back-off never grows.
THEOREM BackoffNeverGrows == Spec => [](agg_failures <= 1)
<1>1. IInv => agg_failures <= 1
  BY DEF IInv, CountedInRestart
<1>2. QED
  BY <1>1, InitIInv, Step, PTL DEF Spec
=============================================================================

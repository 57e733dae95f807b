--------------------------- MODULE NodeLifecycle ---------------------------
(***************************************************************************)
(* One node of the cluster: its entry in the global controller's registry  *)
(* (registry.py, global_controller.py) and its node agent, which launches, *)
(* stops and restarts the aggregator and the local controller and sends    *)
(* heartbeats (node_agent.py).                                             *)
(*                                                                         *)
(* Both programs are asyncio: a step runs from one suspension to the next. *)
(* The registry's locks are never held across one, so a heartbeat and a    *)
(* whole pass of the health monitor are steps.                             *)
(***************************************************************************)
EXTENDS Integers

CONSTANTS
  Launchers,  \* tasks that may scale up: client requests and the auto-scaler
  Scaler,     \* the auto-scaler's task, which alone scales down
  Monitor,    \* the agent's _process_monitor_loop
  MaxRetries  \* max_retries of the monitor (5)

Callers == Launchers \union {Scaler}
Handlers == Launchers \union {Scaler, Monitor}

ASSUME TasksDiffer ==
  /\ Scaler \notin Launchers /\ Monitor \notin Launchers /\ Scaler # Monitor
  /\ MaxRetries \in Nat \ {0}

NodeStatus == {"idle", "starting", "active", "draining", "failed"}
NoBeat == "none"

VARIABLES
  \* NodeInfo in the registry; recent is now - last_heartbeat < heartbeat_timeout
  status, recent, has_pid,
  \* what each task of the global controller waits for
  call,
  \* the agent: its two processes, its request handlers, its monitor, and the
  \* status in the heartbeat that is being put together
  agg, ctl, pc, mon, agg_failures, beat,
  linked  \* the global controller and the agent reach each other

entry == <<status, recent, has_pid>>
watcher == <<mon, agg_failures>>
agent == <<agg, ctl, pc, watcher, beat>>
vars == <<entry, call, agent, linked>>

Running == agg \in {"loading", "ready"}

\* _get_status.
Reported ==
  IF ~Running THEN "idle" ELSE IF ctl = "up" THEN "active" ELSE "starting"

\* The agent has just registered.
Init ==
  /\ status = "idle"
  /\ recent = TRUE
  /\ has_pid = FALSE
  /\ call = [t \in Callers |-> "none"]
  /\ agg = "none"
  /\ ctl = "none"
  /\ pc = [h \in Handlers |-> "off"]
  /\ mon = "watch"
  /\ agg_failures = 0
  /\ beat = NoBeat
  /\ linked = TRUE

\* update_node_status: it counts as a sign of life, whoever calls it.
UpdateStatus(s) ==
  /\ status' = s
  /\ recent' = TRUE
  /\ UNCHANGED has_pid
----------------------------------------------------------------------------
(* The global controller. *)

Free(t) == call[t] = "none" /\ pc[t] = "off"

\* _scale_up_node: an idle node is chosen, and asked to launch.
ScaleUp(t) ==
  /\ t \in Launchers /\ Free(t)
  /\ status = "idle"
  /\ UpdateStatus("starting")
  /\ call' = [call EXCEPT ![t] = "launch"]
  /\ pc' = [pc EXCEPT ![t] = "sent"]
  /\ UNCHANGED <<agg, ctl, watcher, beat, linked>>

\* _make_scaling_decision: the node is drainable. It is drained later, after
\* the scale-ups of the same decision.
Decide ==
  /\ Free(Scaler)
  /\ status = "active"
  /\ call' = [call EXCEPT ![Scaler] = "drain"]
  /\ UNCHANGED <<entry, agent, linked>>

\* _scale_down_node, whatever has become of the node.
ScaleDown ==
  /\ call[Scaler] = "drain"
  /\ UpdateStatus("draining")
  /\ call' = [call EXCEPT ![Scaler] = "stop"]
  /\ pc' = [pc EXCEPT ![Scaler] = "sent"]
  /\ UNCHANGED <<agg, ctl, watcher, beat, linked>>

\* The answer of the agent.
Answer(t) ==
  /\ linked
  /\ call[t] \in {"launch", "stop"}
  /\ pc[t] \in {"ok", "failed"}
  /\ UpdateStatus(IF pc[t] = "failed" THEN "failed"
                  ELSE IF call[t] = "launch" THEN "active" ELSE "idle")
  /\ call' = [call EXCEPT ![t] = "none"]
  /\ pc' = [pc EXCEPT ![t] = "off"]
  /\ UNCHANGED <<agg, ctl, watcher, beat, linked>>

\* The call fails: no connection, or a launch that takes longer than
\* node_startup_timeout (120 s; the agent waits 600 s). Stopping takes at most
\* 40 s of the 60 s it has. The agent's handler goes on.
CallFails(t) ==
  /\ \/ ~linked /\ call[t] \in {"launch", "stop"}
     \/ call[t] = "launch" /\ pc[t] \in {"waiting", "killing", "settling"}
  /\ UpdateStatus("failed")
  /\ call' = [call EXCEPT ![t] = "none"]
  /\ pc' = [pc EXCEPT ![t] = IF @ \in {"sent", "ok", "failed"} THEN "off" ELSE @]
  /\ UNCHANGED <<agg, ctl, watcher, beat, linked>>

\* heartbeat_timeout passes without a heartbeat.
Silence ==
  /\ ~linked
  /\ recent
  /\ recent' = FALSE
  /\ UNCHANGED <<status, has_pid, call, agent, linked>>

Stale == status \in {"active", "draining"} /\ ~recent

\* _health_monitor_loop, one pass: stale nodes fail, then _recover_failed_nodes.
HealthPass ==
  LET failed == Stale \/ status = "failed"
      heard == Stale \/ recent IN
  /\ failed
  /\ status' = IF ~heard THEN "failed" ELSE IF has_pid THEN "active" ELSE "idle"
  /\ recent' = heard
  /\ UNCHANGED <<has_pid, call, agent, linked>>
----------------------------------------------------------------------------
(* Heartbeats. *)

\* _send_heartbeat: the status is taken, then the workers are asked for.
BeginBeat ==
  /\ beat = NoBeat
  /\ beat' = Reported
  /\ UNCHANGED <<entry, call, agg, ctl, pc, watcher, linked>>

\* Mutants of Heartbeat: it is sent before the status is taken; it leaves the
\* status alone.
HeartbeatUntaken ==
  /\ linked
  /\ status' = beat
  /\ recent' = TRUE
  /\ has_pid' = (agg # "none")
  /\ beat' = NoBeat
  /\ UNCHANGED <<call, agg, ctl, pc, watcher, linked>>
HeartbeatKeepsStatus ==
  /\ linked /\ beat # NoBeat
  /\ recent' = TRUE
  /\ has_pid' = (agg # "none")
  /\ beat' = NoBeat
  /\ UNCHANGED <<status, call, agg, ctl, pc, watcher, linked>>

\* /nodes/heartbeat: the status, whatever it was, and the pid, which is there
\* as long as the agent has not noticed that the process exited.
Heartbeat ==
  /\ linked /\ beat # NoBeat
  /\ status' = beat
  /\ recent' = TRUE
  /\ has_pid' = (agg # "none")
  /\ beat' = NoBeat
  /\ UNCHANGED <<call, agg, ctl, pc, watcher, linked>>

BeatLost ==
  /\ ~linked /\ beat # NoBeat
  /\ beat' = NoBeat
  /\ UNCHANGED <<entry, call, agg, ctl, pc, watcher, linked>>
----------------------------------------------------------------------------
(* The agent's handlers of /aggregator/launch and /aggregator/stop. *)

\* A handler ends. Its answer is lost when nobody waits for it any more.
Ended(h, result) == IF h # Monitor /\ call[h] = "none" THEN "off" ELSE result

\* _launch_aggregator up to its first suspension.
BeginLaunch(h) ==
  IF Running THEN pc' = [pc EXCEPT ![h] = Ended(h, "ok")] /\ UNCHANGED agg
             ELSE pc' = [pc EXCEPT ![h] = "waiting"] /\ agg' = "loading"

LaunchArrives(t) ==
  /\ linked
  /\ t \in Launchers /\ pc[t] = "sent"
  /\ BeginLaunch(t)
  /\ UNCHANGED <<entry, call, ctl, watcher, beat, linked>>

\* _wait_for_aggregator_ready returns True; _launch_controller.
Ready(h) ==
  /\ pc[h] = "waiting"
  /\ agg = "ready"
  /\ ctl' = "up"
  /\ pc' = [pc EXCEPT ![h] = IF ctl = "up" THEN Ended(h, "ok") ELSE "settling"]
  /\ UNCHANGED <<entry, call, agg, watcher, beat, linked>>

\* _wait_for_aggregator_ready returns False: the process is not running, or
\* aggregator_startup_timeout is over. Whatever process there is now is killed,
\* and waited for.
NotReady(h) ==
  /\ pc[h] = "waiting"
  /\ agg # "ready"
  /\ IF Running THEN agg' = "exited" /\ pc' = [pc EXCEPT ![h] = "killing"]
                ELSE agg' = "none" /\ pc' = [pc EXCEPT ![h] = Ended(h, "failed")]
  /\ UNCHANGED <<entry, call, ctl, watcher, beat, linked>>

\* _kill_process returned. The agent forgets the process it has by now.
Killed(h) ==
  /\ pc[h] = "killing"
  /\ agg' = "none"
  /\ pc' = [pc EXCEPT ![h] = Ended(h, "failed")]
  /\ UNCHANGED <<entry, call, ctl, watcher, beat, linked>>

\* Two seconds later. A process that was stopped or given up meanwhile is None:
\* it cannot be polled and has no pid, and the launch fails.
Settled(h) ==
  /\ pc[h] = "settling"
  /\ pc' = [pc EXCEPT ![h] =
             Ended(h, IF "none" \in {agg, ctl} THEN "failed" ELSE "ok")]
  /\ UNCHANGED <<entry, call, agg, ctl, watcher, beat, linked>>

\* _stop_aggregator, its second half.
StopAgg(h) ==
  IF Running THEN pc' = [pc EXCEPT ![h] = "stopping_agg"] /\ UNCHANGED agg
             ELSE pc' = [pc EXCEPT ![h] = Ended(h, "ok")] /\ agg' = "none"

\* _stop_aggregator: the controller first.
StopArrives ==
  /\ linked
  /\ pc[Scaler] = "sent"
  /\ IF ctl = "up"
     THEN pc' = [pc EXCEPT ![Scaler] = "stopping_ctl"] /\ UNCHANGED <<agg, ctl>>
     ELSE ctl' = "none" /\ StopAgg(Scaler)
  /\ UNCHANGED <<entry, call, watcher, beat, linked>>

\* _stop_process has returned: the controller has exited or was killed.
CtlStopped ==
  /\ pc[Scaler] = "stopping_ctl"
  /\ ctl' = "none"
  /\ StopAgg(Scaler)
  /\ UNCHANGED <<entry, call, watcher, beat, linked>>

AggStopped ==
  /\ pc[Scaler] = "stopping_agg"
  /\ agg' = "none"
  /\ pc' = [pc EXCEPT ![Scaler] = Ended(Scaler, "ok")]
  /\ UNCHANGED <<entry, call, ctl, watcher, beat, linked>>
----------------------------------------------------------------------------
(* The agent's _process_monitor_loop. *)

NoticeAgg ==
  /\ mon = "watch"
  /\ agg = "exited"
  /\ agg' = "none"
  /\ agg_failures' = agg_failures + 1
  /\ mon' = IF agg_failures' > MaxRetries THEN "watch" ELSE "agg_backoff"
  /\ UNCHANGED <<entry, call, ctl, pc, beat, linked>>

\* The back-off is over. It lasts 5 s and more: a handler that waited for the
\* process has found it gone by then (it looks every 3 s).
RestartAgg ==
  /\ mon = "agg_backoff"
  /\ \A t \in Launchers : pc[t] = "waiting" => Running
  /\ mon' = "agg_restart"
  /\ BeginLaunch(Monitor)
  /\ UNCHANGED <<entry, call, ctl, agg_failures, beat, linked>>

\* _launch_aggregator returned, which it does on a failure as well.
RestartedAgg ==
  /\ mon = "agg_restart"
  /\ pc[Monitor] \in {"ok", "failed"}
  /\ pc' = [pc EXCEPT ![Monitor] = "off"]
  /\ mon' = "watch"
  /\ agg_failures' = 0
  /\ UNCHANGED <<entry, call, agg, ctl, beat, linked>>

\* It gives up after max_retries failures in a row; the count is left out.
NoticeCtl ==
  /\ mon = "watch"
  /\ ctl = "exited"
  /\ ctl' = "none"
  /\ mon' \in {"ctl_backoff", "watch"}
  /\ UNCHANGED <<entry, call, agg, pc, agg_failures, beat, linked>>

\* The back-off is over: _launch_controller, which waits two seconds.
RestartCtl ==
  /\ mon = "ctl_backoff"
  /\ ctl' = "up"
  /\ mon' = IF ctl = "up" THEN "watch" ELSE "ctl_settling"
  /\ UNCHANGED <<entry, call, agg, pc, agg_failures, beat, linked>>

\* _launch_controller returned, or raised: the process was stopped meanwhile.
RestartedCtl ==
  /\ mon = "ctl_settling"
  /\ mon' = "watch"
  /\ UNCHANGED <<entry, call, agg, ctl, pc, agg_failures, beat, linked>>
----------------------------------------------------------------------------
(* The processes and the network. A process that is being stopped exits in   *)
(* CtlStopped and AggStopped, which follow its exit at once.                  *)

AggLoads ==
  /\ agg = "loading"
  /\ agg' = "ready"
  /\ UNCHANGED <<entry, call, ctl, pc, watcher, beat, linked>>

AggExits ==
  /\ Running /\ pc[Scaler] # "stopping_agg"
  /\ agg' = "exited"
  /\ UNCHANGED <<entry, call, ctl, pc, watcher, beat, linked>>

CtlExits ==
  /\ ctl = "up" /\ pc[Scaler] # "stopping_ctl"
  /\ ctl' = "exited"
  /\ UNCHANGED <<entry, call, agg, pc, watcher, beat, linked>>

LinkChanges ==
  /\ linked' = ~linked
  /\ UNCHANGED <<entry, call, agent>>
----------------------------------------------------------------------------
\* A call comes to its end one way or the other.
CallEnds(t) == Answer(t) \/ CallFails(t)
Delivery(t) == LaunchArrives(t) \/ (t = Scaler /\ StopArrives) \/ CallEnds(t)

Handle(h) == Ready(h) \/ NotReady(h) \/ Killed(h) \/ Settled(h)
Stopping == CtlStopped \/ AggStopped
Watch == \/ NoticeAgg \/ RestartAgg \/ RestartedAgg
         \/ NoticeCtl \/ RestartCtl \/ RestartedCtl
Beat == BeginBeat \/ Heartbeat \/ BeatLost

Next ==
  \/ \E t \in Launchers : ScaleUp(t)
  \/ \E t \in Callers : Delivery(t)
  \/ \E h \in Handlers : Handle(h)
  \/ Decide \/ ScaleDown \/ Silence \/ HealthPass \/ Beat \/ Stopping \/ Watch
  \/ AggLoads \/ AggExits \/ CtlExits \/ LinkChanges

\* Every loop and every handler keeps running and every timeout expires.
\* Processes load or not and exit or not, the link may change or not.
Fairness ==
  /\ WF_vars(Silence) /\ WF_vars(HealthPass) /\ WF_vars(Beat)
  /\ WF_vars(Stopping) /\ WF_vars(Watch) /\ WF_vars(ScaleDown)
  /\ \A t \in Callers : WF_vars(Delivery(t))
  /\ \A h \in Handlers : WF_vars(Handle(h))

Spec == Init /\ [][Next]_vars
FairSpec == Spec /\ Fairness
----------------------------------------------------------------------------
\* One type invariant: the shape of every variable; the registry only ever holds
\* one of the five states of a node (NodeStatus).
TypeOK ==
  /\ status \in NodeStatus
  /\ recent \in BOOLEAN /\ has_pid \in BOOLEAN /\ linked \in BOOLEAN
  /\ call \in [Callers -> {"none", "launch", "drain", "stop"}]
  /\ agg \in {"none", "loading", "ready", "exited"}
  /\ ctl \in {"none", "up", "exited"}
  /\ pc \in [Handlers -> {"off", "sent", "waiting", "killing", "settling",
                          "stopping_ctl", "stopping_agg", "ok", "failed"}]
  /\ mon \in {"watch", "agg_backoff", "agg_restart", "ctl_backoff",
              "ctl_settling"}
  /\ agg_failures \in Nat
  /\ beat \in NodeStatus \union {NoBeat}

\* Nothing is going on but heartbeats.
Quiet ==
  /\ linked
  /\ \A t \in Callers : Free(t)
  /\ mon = "watch"
  /\ agg # "exited" /\ ctl # "exited"

\* When a node is left alone the registry comes to agree with it for good,
\* whatever answers, heartbeats and recoveries were lost or crossed before.
Converges == <>[]Quiet => <>[](status = Reported)

\* The crash monitor forgets its failures only when a restart succeeded: "Reset on
\* success" (node_agent.py:448), for the sake of "exponential backoff" (423). A
\* restart that failed is not one of those it gives up on after max_retries.
ResetOnSuccess ==
  [][agg_failures' < agg_failures => pc[Monitor] = "ok"]_vars

\* The health monitor fails a node that stops heartbeating and takes it back
\* only if it "resumed heartbeating": a node that is gone for good does not stay
\* in service.
DeadNodesDropped == <>[](~linked) => <>[](status # "active")
=============================================================================

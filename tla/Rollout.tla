------------------------------- MODULE Rollout -------------------------------
(***************************************************************************)
(* `nodary model restart`: a model's replicas are cycled one node at a     *)
(* time.  The control plane writes one row per replica, offers a node its  *)
(* row only when no earlier row of the roll is left, and deletes a row     *)
(* when the node reports the restart done (internal/fleet/transition.go,   *)
(* internal/api/agent.go, internal/observed/observed.go).  The agent polls *)
(* and reconciles in one goroutine and samples health and reports in       *)
(* another (internal/agent/run.go, health.go); its unit is systemd's.      *)
(*                                                                         *)
(* There is one replica per node, so a node names its replica too.  A tick *)
(* of a node is 15 seconds: one beat, at least one health sample.          *)
(***************************************************************************)
EXTENDS Integers, FiniteSets

CONSTANTS
  Nodes,        \* integers, ordered as ORDER BY node_name orders the names
  Flags,        \* which values of --allow-downtime the operator uses
  Window,       \* ticks a poll is held open; 0: the configuration is moving
                \* and every poll is answered at once
  LoadTicks,    \* ticks a model server takes to load its weights
  FreshHealth,  \* assume a health sample falls between a restart and a beat
  FreshOffer,   \* assume no beat falls between a poll's answer and its effect
  MaxRolls,     \* bound: operator requests
  MaxCrashes,   \* bound: agent restarts
  MaxLosses,    \* bound: reports that never reach the control plane
  MaxDeaths     \* bound: units that die or fail to load

ASSUME RolloutAssumption ==
  /\ Nodes \subseteq Int /\ IsFiniteSet(Nodes)
  /\ Flags \subseteq BOOLEAN
  /\ FreshHealth \in BOOLEAN /\ FreshOffer \in BOOLEAN
  /\ {Window, LoadTicks, MaxRolls, MaxCrashes, MaxLosses, MaxDeaths} \subseteq Nat

VARIABLES
  state,       \* deployment.state, as last reported
  row,         \* deployment_restart: the roll and the place in it, or NoRow
  pc,          \* the poll loop: "poll", or "act" with a document in hand
  offered,     \* whether that document asks for a restart
  restarting,  \* Daemon.restarting
  latest,      \* the health the beat will use
  msg,         \* a status report under way
  unit,        \* what the unit is really doing
  t, up, due,  \* ticks since the poll began and the unit started, and what
               \* this tick still owes
  used,        \* how much of each bound is spent
  sampled,     \* history: health sampled since the unit was last cycled
  served,      \* history: the unit served since it was last cycled
  cycled       \* history: the unit was cycled since its restart was requested

cpVars == <<state, row>>
agentVars == <<pc, offered, restarting, latest, msg, t, due>>
unitVars == <<unit, up, sampled, served>>
vars == <<cpVars, agentVars, unitVars, used, cycled>>

NoRow == [roll |-> 0, seq |-> 0]
NoMsg == [sent |-> FALSE, state |-> "starting", done |-> FALSE]

TypeOK ==
  /\ state \in [Nodes -> {"ready", "starting", "failed"}]
  /\ row \in [Nodes -> [roll : 0..MaxRolls, seq : 0..Cardinality(Nodes)]]
  /\ pc \in [Nodes -> {"poll", "act"}]
  /\ offered \in [Nodes -> BOOLEAN]
  /\ restarting \in [Nodes -> BOOLEAN]
  /\ latest \in [Nodes -> {"none", "healthy", "unknown"}]
  /\ msg \in [Nodes -> [sent : BOOLEAN, state : {"ready", "starting", "failed"},
                        done : BOOLEAN]]
  /\ unit \in [Nodes -> {"serving", "loading", "failed"}]
  /\ t \in [Nodes -> 0..Window]
  /\ up \in [Nodes -> 0..LoadTicks]
  /\ due \in [Nodes -> SUBSET {"health", "beat"}]
  /\ used \in [rolls : 0..MaxRolls, crashes : 0..MaxCrashes,
               losses : 0..MaxLosses, deaths : 0..MaxDeaths]
  /\ sampled \in [Nodes -> BOOLEAN]
  /\ served \in [Nodes -> BOOLEAN]
  /\ cycled \in [Nodes -> BOOLEAN]

(* Every replica is serving and has been reported ready.                   *)
Init ==
  /\ state = [n \in Nodes |-> "ready"]
  /\ row = [n \in Nodes |-> NoRow]
  /\ pc = [n \in Nodes |-> "poll"]
  /\ offered = [n \in Nodes |-> FALSE]
  /\ restarting = [n \in Nodes |-> FALSE]
  /\ latest = [n \in Nodes |-> "healthy"]
  /\ msg = [n \in Nodes |-> NoMsg]
  /\ unit = [n \in Nodes |-> "serving"]
  /\ t = [n \in Nodes |-> 0]
  /\ up = [n \in Nodes |-> LoadTicks]
  /\ due = [n \in Nodes |-> {}]
  /\ used = [rolls |-> 0, crashes |-> 0, losses |-> 0, deaths |-> 0]
  /\ sampled = [n \in Nodes |-> TRUE]
  /\ served = [n \in Nodes |-> TRUE]
  /\ cycled = [n \in Nodes |-> TRUE]

-----------------------------------------------------------------------------
(* The control plane.                                                      *)

(* ReadyReplicas counts the model's, whatever --node narrows.              *)
ReadyReplicas == Cardinality({n \in Nodes : state[n] = "ready"})

AllowRoll(allow) == allow \/ ReadyReplicas >= 2 \/ ReadyReplicas = 0

(* The place of n in a roll over targets.                                  *)
Sequence(targets, n) == Cardinality({m \in targets : m < n})

(* `model restart`, for every replica or narrowed to one node: one         *)
(* transaction plans, asks AllowRoll and upserts a row per replica.        *)
RequestRestart(targets, allow) ==
  /\ used.rolls < MaxRolls
  /\ AllowRoll(allow)
  /\ used' = [used EXCEPT !.rolls = @ + 1]
  /\ row' = [n \in Nodes |->
               IF n \in targets
               THEN [roll |-> used.rolls + 1, seq |-> Sequence(targets, n)]
               ELSE row[n]]
  /\ cycled' = [n \in Nodes |-> cycled[n] /\ n \notin targets]
  /\ UNCHANGED <<state, agentVars, unitVars>>

(* Mutant: every outstanding restart is offered.                           *)
OfferedRestartAll(n) == row[n] # NoRow

(* OfferedRestarts: n's row, unless an earlier one of its roll is left.    *)
OfferedRestart(n) ==
  /\ row[n] # NoRow
  /\ ~\E m \in Nodes : row[m].roll = row[n].roll /\ row[m].seq < row[n].seq

(* Mutant: the row is left for the next request to overwrite.              *)
HeartbeatKeepsRow(n) ==
  /\ msg[n].sent
  /\ state' = [state EXCEPT ![n] = msg[n].state]
  /\ msg' = [msg EXCEPT ![n] = NoMsg]
  /\ UNCHANGED <<row, pc, offered, restarting, latest, t, due, unitVars, used, cycled>>

(* observed.Heartbeat: the reported state, and a restart reported as done  *)
(* is no longer asked for, whichever roll it belongs to by now.            *)
Heartbeat(n) ==
  /\ msg[n].sent
  /\ state' = [state EXCEPT ![n] = msg[n].state]
  /\ row' = IF msg[n].done THEN [row EXCEPT ![n] = NoRow] ELSE row
  /\ msg' = [msg EXCEPT ![n] = NoMsg]
  /\ UNCHANGED <<pc, offered, restarting, latest, t, due, unitVars, used, cycled>>

-----------------------------------------------------------------------------
(* The agent's poll loop.                                                  *)

(* The long poll is answered: its window closed, or the configuration has  *)
(* moved.  What it offers is read now and acted on later.                  *)
Poll(n) ==
  /\ pc[n] = "poll"
  /\ t[n] >= Window
  /\ FreshOffer => ~msg[n].sent
  /\ offered' = [offered EXCEPT ![n] = OfferedRestart(n)]
  /\ pc' = [pc EXCEPT ![n] = "act"]
  /\ UNCHANGED <<cpVars, restarting, latest, msg, t, due, unitVars, used, cycled>>

(* The document's restarts are done with and the next poll begins.         *)
NextPoll(n) ==
  /\ pc' = [pc EXCEPT ![n] = "poll"]
  /\ offered' = [offered EXCEPT ![n] = FALSE]
  /\ t' = [t EXCEPT ![n] = 0]

(* reconcileUnit with a restart forced: `systemctl restart`, after clearing*)
(* a failure if there is one, and Daemon.reconcile notes it.               *)
Cycle(n) ==
  /\ pc[n] = "act"
  /\ offered[n]
  /\ NextPoll(n)
  /\ unit' = [unit EXCEPT ![n] = "loading"]
  /\ up' = [up EXCEPT ![n] = 0]
  /\ restarting' = [restarting EXCEPT ![n] = TRUE]
  /\ sampled' = [sampled EXCEPT ![n] = FALSE]
  /\ served' = [served EXCEPT ![n] = FALSE]
  /\ cycled' = [cycled EXCEPT ![n] = TRUE]
  /\ UNCHANGED <<cpVars, latest, msg, due, used>>

(* Mutant: a restart systemctl refused counts as landed.                   *)
CycleErrsNoted(n) ==
  /\ pc[n] = "act"
  /\ offered[n]
  /\ used.deaths < MaxDeaths
  /\ NextPoll(n)
  /\ restarting' = [restarting EXCEPT ![n] = TRUE]
  /\ used' = [used EXCEPT !.deaths = @ + 1]
  /\ UNCHANGED <<cpVars, latest, msg, due, unitVars, cycled>>

(* systemctl answers with an error: the unit is as it was, or failed, and  *)
(* the restart has not landed.                                             *)
CycleErrs(n) ==
  /\ pc[n] = "act"
  /\ offered[n]
  /\ used.deaths < MaxDeaths
  /\ NextPoll(n)
  /\ unit' \in {unit, [unit EXCEPT ![n] = "failed"]}
  /\ used' = [used EXCEPT !.deaths = @ + 1]
  /\ UNCHANGED <<cpVars, restarting, latest, msg, due, up, sampled, served, cycled>>

(* reconcileUnit with nothing asked: an active unit is left alone, and so  *)
(* is one that systemd has given up on.                                    *)
LeaveAlone(n) ==
  /\ pc[n] = "act"
  /\ ~offered[n]
  /\ NextPoll(n)
  /\ UNCHANGED <<cpVars, restarting, latest, msg, due, unitVars, used, cycled>>

-----------------------------------------------------------------------------
(* The agent's heartbeat loop.                                             *)

(* Health.Poll: a probe that was answered is healthy.                      *)
HealthPoll(n) ==
  /\ latest' = [latest EXCEPT ![n] =
                  IF unit[n] = "serving" THEN "healthy" ELSE "unknown"]
  /\ sampled' = [sampled EXCEPT ![n] = TRUE]
  /\ due' = [due EXCEPT ![n] = @ \ {"health"}]
  /\ UNCHANGED <<cpVars, pc, offered, restarting, msg, t, unit, up, served,
                 used, cycled>>

(* observedState: systemd's word first, then the health last sampled; an   *)
(* active unit that does not answer is starting, or failed once it has had *)
(* its backend's ready_timeout_s.                                          *)
ObservedStates(n) ==
  CASE unit[n] = "failed" -> {"failed"}
    [] unit[n] # "failed" /\ latest[n] = "healthy" -> {"ready"}
    [] OTHER -> {"starting", "failed"}

(* Mutant: a restart is done once the unit has been cycled.                *)
RestartDoneOnCycle(n, s) == restarting[n]

(* Mutant: every ready report says the restart is done.                    *)
RestartDoneIfReady(n, s) == s = "ready"

(* restartFinished.                                                        *)
RestartFinished(n, s) == restarting[n] /\ s = "ready"

(* Daemon.report builds the report, forgetting the restart it reports, and *)
(* sends it.                                                               *)
Report(n) ==
  /\ ~msg[n].sent
  /\ "beat" \in due[n]
  /\ FreshHealth => sampled[n]
  /\ FreshOffer => pc[n] = "poll"
  /\ \E s \in ObservedStates(n) :
       /\ msg' = [msg EXCEPT ![n] =
                    [sent |-> TRUE, state |-> s, done |-> RestartFinished(n, s)]]
       /\ restarting' = [restarting EXCEPT ![n] = @ /\ ~RestartFinished(n, s)]
  /\ due' = [due EXCEPT ![n] = @ \ {"beat"}]
  /\ UNCHANGED <<cpVars, pc, offered, latest, t, unitVars, used, cycled>>

(* The report does not arrive; the next beat sends another.                *)
LoseReport(n) ==
  /\ msg[n].sent
  /\ used.losses < MaxLosses
  /\ msg' = [msg EXCEPT ![n] = NoMsg]
  /\ used' = [used EXCEPT !.losses = @ + 1]
  /\ UNCHANGED <<cpVars, pc, offered, restarting, latest, t, due, unitVars, cycled>>

(* The agent is restarted: what it kept in memory is gone, and its first   *)
(* poll names no revision and is answered at once.                         *)
AgentCrash(n) ==
  /\ used.crashes < MaxCrashes
  /\ used' = [used EXCEPT !.crashes = @ + 1]
  /\ pc' = [pc EXCEPT ![n] = "poll"]
  /\ offered' = [offered EXCEPT ![n] = FALSE]
  /\ restarting' = [restarting EXCEPT ![n] = FALSE]
  /\ latest' = [latest EXCEPT ![n] = "none"]
  /\ t' = [t EXCEPT ![n] = Window]
  /\ UNCHANGED <<cpVars, msg, due, unitVars, cycled>>

-----------------------------------------------------------------------------
(* The unit and time.                                                      *)

Loaded(n) == unit[n] = "loading" /\ up[n] >= LoadTicks

Load(n) ==
  /\ Loaded(n)
  /\ unit' = [unit EXCEPT ![n] = "serving"]
  /\ served' = [served EXCEPT ![n] = TRUE]
  /\ UNCHANGED <<cpVars, agentVars, up, sampled, used, cycled>>

(* The model server exits for good, serving or not: systemd gives up.      *)
Die(n) ==
  /\ unit[n] # "failed"
  /\ used.deaths < MaxDeaths
  /\ unit' = [unit EXCEPT ![n] = "failed"]
  /\ used' = [used EXCEPT !.deaths = @ + 1]
  /\ UNCHANGED <<cpVars, agentVars, up, sampled, served, cycled>>

(* Fifteen seconds pass on a node that has done what the last ones owed: a *)
(* beat sent and answered, a health sample taken, and the server loaded    *)
(* when its time has come.                                                 *)
Tick(n) ==
  /\ due[n] = {} /\ ~msg[n].sent
  /\ ~Loaded(n)
  /\ pc[n] = "poll"
  /\ t[n] < Window \/ Window = 0
  /\ due' = [due EXCEPT ![n] = {"health", "beat"}]
  /\ t' = [t EXCEPT ![n] = IF @ < Window THEN @ + 1 ELSE @]
  /\ up' = [up EXCEPT ![n] = IF @ < LoadTicks THEN @ + 1 ELSE @]
  /\ UNCHANGED <<cpVars, pc, offered, restarting, latest, msg, unit, sampled,
                 served, used, cycled>>

NodeStep(n) ==
  \/ Heartbeat(n) \/ Poll(n) \/ Cycle(n) \/ CycleErrs(n) \/ LeaveAlone(n)
  \/ HealthPoll(n) \/ Report(n) \/ LoseReport(n) \/ AgentCrash(n)
  \/ Load(n) \/ Die(n) \/ Tick(n)

Operator ==
  \E targets \in {Nodes} \cup {{n} : n \in Nodes}, allow \in Flags :
    RequestRestart(targets, allow)

Next == (\E n \in Nodes : NodeStep(n)) \/ Operator

Spec == Init /\ [][Next]_vars

(* Both goroutines of every agent keep running, the control plane answers, *)
(* and a model server that is left alone loads.                            *)
Fairness ==
  \A n \in Nodes :
    /\ WF_vars(Heartbeat(n))
    /\ WF_vars(Poll(n)) /\ WF_vars(Cycle(n)) /\ WF_vars(LeaveAlone(n))
    /\ WF_vars("health" \in due[n] /\ HealthPoll(n)) /\ WF_vars(Report(n))
    /\ WF_vars(Load(n)) /\ WF_vars(Tick(n))

FairSpec == Spec /\ Fairness

-----------------------------------------------------------------------------
(* A rolling restart never drops the last ready replica (transition.go,    *)
(* ReadyReplicas): as long as no model server fails on its own and nobody  *)
(* accepted downtime, some replica serves at all times.                    *)
KeepsServing == \E n \in Nodes : unit[n] = "serving"

(* "Done means serving, not cycled" (run.go, restartFinished): a report    *)
(* says a restart is done only if the unit has served since it was last    *)
(* cycled.                                                                 *)
DoneMeansServing ==
  [][\A n \in Nodes : ~msg[n].sent /\ msg'[n].done => served[n]]_vars

(* A restart the operator asked for is not forgotten: its row goes only    *)
(* when the unit has been cycled since the request, whatever reports were  *)
(* lost, whichever restarts failed and whenever the agent was restarted.   *)
RequestedIsCycled ==
  [][\A n \in Nodes : row[n] # NoRow /\ row'[n] = NoRow => cycled[n]]_vars

(* A requested restart completes: the unit is cycled, serves again, and    *)
(* the row goes, which is what lets the next replica of the roll be        *)
(* offered.                                                                *)
RollCompletes == \A n \in Nodes : row[n] # NoRow ~> row[n] = NoRow
=============================================================================

------------------------------ MODULE Reconcile ------------------------------
(***************************************************************************)
(* One node: the control plane's document becomes a plan, the plan becomes *)
(* systemd units, and the heartbeat tells the control plane what it sees.  *)
(* Models internal/agent/plan.go (Build), reconcile.go (Reconcile) and     *)
(* run.go (reconcile, report), with the document of internal/api/agent.go  *)
(* and the rows internal/observed/observed.go writes.                      *)
(*                                                                         *)
(* A deployment binds one card.  What else its unit is rendered from       *)
(* (image, arguments, port) is a version number, so an environment file is *)
(* a card and a version.  Restarts an operator forces are Rollout's.       *)
(***************************************************************************)
EXTENDS Integers, FiniteSets, FiniteSetsExt

CONSTANTS
  N,           \* deployments are 1..N, in the document's order
  Cards,
  Policies,    \* the node.toml contents an operator may write
  Initial,     \* the one the agent was started with
  Changes,     \* the kinds of change that happen around the agent
  Prompt,      \* assume a changed environment file is followed by its restart
  MaxChanges,  \* bound: changes around the agent
  MaxFaults    \* bound: failed commands, agent restarts, dying model servers

Deps == 1..N
Kinds == {"config", "approval", "node.toml", "window", "card", "weights"}
Policy == [deny : SUBSET Deps, max : Nat, cards : SUBSET Cards]

ASSUME ReconcileAssumption ==
  /\ N \in Nat \ {0} /\ IsFiniteSet(Cards) /\ Cards # {}
  /\ Policies \subseteq Policy /\ Initial \in Policies
  /\ Changes \subseteq Kinds /\ Prompt \in BOOLEAN
  /\ MaxChanges \in Nat /\ MaxFaults \in Nat

VARIABLES
  conf,      \* the deployment rows' configuration columns
  obs,       \* deployment.state, and "none" where there is no row
  refusal,   \* the refusal table
  approved,  \* the node is approved or ready
  toml,      \* node.toml as it is on disk
  bus,       \* the cards the driver reports
  weights,   \* what verifying a deployment's weights finds
  open,      \* the maintenance window
  env,       \* the environment files
  unit,      \* systemd's units
  runs,      \* the environment a unit's container was started with
  policy,    \* Daemon.Node: node.toml as the agent read it when it started
  seen,      \* the node's approval as the poll under way read it
  pc,        \* where the poll loop is
  plan,      \* Daemon.last
  todo,      \* the units Reconcile has still to look at
  changed,   \* what writeEnvFile answered
  found,     \* the out-of-policy deployments found running
  doomed,    \* the units the stop loop has still to stop
  said,      \* Daemon.lastRefused and lastOutOfPolicy
  asserted,  \* Host.Asserted: deployments with a conclusive egress verdict
  used,      \* how much of each bound is spent
  probed,    \* history: probed since the agent last started the unit
  steady     \* history: active when the plan was made, and ever since

cpVars == <<conf, obs, refusal, approved>>
hostVars == <<toml, bus, weights, open>>
unitVars == <<env, unit, runs, probed, steady>>
passVars == <<pc, todo, changed, found, doomed>>
agentVars == <<policy, seen, plan, said, asserted>>
vars == <<cpVars, hostVars, unitVars, passVars, agentVars, used>>

Conf == [in : BOOLEAN, off : BOOLEAN, card : Cards, ver : 0..MaxChanges]
EnvFile == [card : Cards, ver : 0..MaxChanges]
NoEnv == [card |-> CHOOSE c \in Cards : TRUE, ver |-> -1]
Verdicts == {"none", "disabled", "failed", "out", "refused", "unit"}
Weights == {"absent", "staged", "corrupt"}
UnitStates == {"inactive", "loading", "serving", "activating", "failed"}
Plans == [doc : [Deps -> Conf], verdict : [Deps -> Verdicts], bus : SUBSET Cards,
          weights : [Deps -> Weights], open : BOOLEAN]

TypeOK ==
  /\ conf \in [Deps -> Conf]
  /\ obs \in [Deps -> {"none", "defined", "ready", "starting", "stopped", "failed"}]
  /\ refusal \in [Deps -> {"none", "refused", "out_of_policy"}]
  /\ said \in [Deps -> {"none", "refused", "out_of_policy"}]
  /\ {approved, seen, open, changed} \subseteq BOOLEAN
  /\ {toml, policy} \subseteq Policies
  /\ bus \subseteq Cards
  /\ weights \in [Deps -> Weights]
  /\ env \in [Deps -> EnvFile \cup {NoEnv}]
  /\ runs \in [Deps -> EnvFile \cup {NoEnv}]
  /\ unit \in [Deps -> UnitStates]
  /\ pc \in {"poll", "unit", "start", "list", "stop"}
  /\ plan \in Plans
  /\ {todo, found, doomed, asserted, probed, steady} \subseteq SUBSET Deps
  /\ used \in [changes : 0..MaxChanges, faults : 0..MaxFaults]

Active(d) == unit[d] \in {"loading", "serving"}

(* Something that goes wrong, within the bound.                            *)
Fault == used.faults < MaxFaults /\ used' = [used EXCEPT !.faults = @ + 1]

-----------------------------------------------------------------------------
(* Build.                                                                  *)

(* missing: the deployment's card has left the bus.  A driver that reports *)
(* no card at all counts as one nobody asked.                              *)
Missing(cards, c) == cards # {} /\ c \notin cards

(* outsideLimits: the backend, the VRAM ceiling (deny) and the count.      *)
OutsideLimits(p, d, placed) == d \in p.deny \/ placed >= p.max

(* Advertise narrows the cards to gpu_indices; unitFor refuses a card that *)
(* is not on offer, and weights that are corrupt.                          *)
CannotRender(p, cards, w, d, c) == c \notin cards \cap p.cards \/ w[d] = "corrupt"

(* The verdict on one deployment, beside the units there are already: they *)
(* hold a slot and a card each.                                            *)
VerdictOn(doc, p, cards, w, d, units) ==
  CASE ~doc[d].in -> "none"
    [] doc[d].in /\ doc[d].off -> "disabled"
    [] OTHER ->
         IF Missing(cards, doc[d].card) THEN "failed"
         ELSE IF OutsideLimits(p, d, Cardinality(units)) THEN "out"
         ELSE IF \/ CannotRender(p, cards, w, d, doc[d].card)
                 \/ \E e \in units : doc[e].card = doc[d].card
         THEN "refused"
         ELSE "unit"

(* The verdict on each deployment of a document, in its order.             *)
Judge(doc, p, cards, w) ==
  LET verdict[d \in Deps] ==
        VerdictOn(doc, p, cards, w, d, {e \in 1..(d - 1) : verdict[e] = "unit"})
  IN  verdict

(* desiredFor: a node that is not approved gets an empty document.         *)
Document(ok) == [d \in Deps |-> IF ok THEN conf[d] ELSE [conf[d] EXCEPT !.in = FALSE]]

NoPlan == [doc |-> [d \in Deps |-> [in |-> FALSE, off |-> FALSE,
                                    card |-> NoEnv.card, ver |-> 0]],
           verdict |-> [d \in Deps |-> "none"],
           bus |-> {}, weights |-> [d \in Deps |-> "absent"], open |-> FALSE]

Units == {d \in Deps : plan.verdict[d] = "unit"}
EnvOf(c) == [card |-> c.card, ver |-> c.ver]

-----------------------------------------------------------------------------
(* One deployment is placed, its weights staged, and serves.               *)
Init ==
  /\ conf = [d \in Deps |-> [in |-> d = 1, off |-> FALSE,
                             card |-> NoEnv.card, ver |-> 0]]
  /\ obs = [d \in Deps |-> IF conf[d].in THEN "ready" ELSE "none"]
  /\ refusal = [d \in Deps |-> "none"]
  /\ said = refusal
  /\ approved = TRUE /\ seen = TRUE /\ open = FALSE /\ changed = FALSE
  /\ toml = Initial /\ policy = Initial
  /\ bus = Cards
  /\ weights = [d \in Deps |-> "staged"]
  /\ env = [d \in Deps |-> IF conf[d].in THEN EnvOf(conf[d]) ELSE NoEnv]
  /\ runs = env
  /\ unit = [d \in Deps |-> IF conf[d].in THEN "serving" ELSE "inactive"]
  /\ pc = "poll"
  /\ plan = [doc |-> conf, verdict |-> Judge(conf, policy, bus, weights),
             bus |-> bus, weights |-> weights, open |-> FALSE]
  /\ todo = {} /\ found = {} /\ doomed = {}
  /\ steady = {d \in Deps : Active(d)} /\ asserted = steady /\ probed = steady
  /\ used = [changes |-> 0, faults |-> 0]

-----------------------------------------------------------------------------
(* What changes around the agent.                                          *)

Change(kind) ==
  /\ kind \in Changes
  /\ used.changes < MaxChanges
  /\ used' = [used EXCEPT !.changes = @ + 1]
  /\ UNCHANGED <<unitVars, passVars, agentVars>>

(* What a verb of the operator can make of a deployment: registered or     *)
(* removed, disabled or enabled, moved, or rendered differently.           *)
NewConfs(c) ==
  IF c.in THEN {[c EXCEPT !.in = FALSE], [c EXCEPT !.off = ~@],
                [c EXCEPT !.ver = used.changes + 1]}
               \cup {[c EXCEPT !.card = k] : k \in Cards \ {c.card}}
          ELSE {[c EXCEPT !.in = TRUE, !.card = k] : k \in Cards}

(* `config apply` and the verbs that write through it: a card is claimed   *)
(* by one deployment (deployment_gpu's unique index), a new row starts     *)
(* as defined and an old one keeps what was observed of it.                *)
Configure(d) ==
  /\ Change("config")
  /\ conf' \in {[conf EXCEPT ![d] = c] : c \in NewConfs(conf[d])}
  /\ \A e, f \in Deps : conf'[e].in /\ conf'[f].in /\ conf'[e].card = conf'[f].card => e = f
  /\ obs' = [obs EXCEPT ![d] = CASE ~conf'[d].in -> "none"
                                 [] conf'[d].in /\ ~conf[d].in -> "defined"
                                 [] OTHER -> @]
  /\ refusal' = [refusal EXCEPT ![d] = IF conf'[d].in THEN @ ELSE "none"]
  /\ UNCHANGED <<approved, hostVars>>

(* `node drain` and `node approve`.                                        *)
SetApproval ==
  /\ Change("approval")
  /\ approved' = ~approved
  /\ UNCHANGED <<conf, obs, refusal, hostVars>>

EditNodeConfig ==
  /\ Change("node.toml")
  /\ toml' \in Policies \ {toml}
  /\ UNCHANGED <<cpVars, bus, weights, open>>

(* The window opens or closes.                                             *)
MaintenanceWindow ==
  /\ Change("window")
  /\ open' = ~open
  /\ UNCHANGED <<cpVars, toml, bus, weights>>

(* A card falls off the bus, or is back after a reboot of the host.        *)
CardChanges(c) ==
  /\ Change("card")
  /\ bus' = IF c \in bus THEN bus \ {c} ELSE bus \cup {c}
  /\ UNCHANGED <<cpVars, toml, weights, open>>

WeightsChange(d) ==
  /\ Change("weights")
  /\ \E w \in Weights \ {weights[d]} : weights' = [weights EXCEPT ![d] = w]
  /\ UNCHANGED <<cpVars, toml, bus, open>>

-----------------------------------------------------------------------------
(* The agent's poll loop.                                                  *)

(* The poll is answered with the configuration as it is now, under the     *)
(* approval read when the poll came in, and Build plans it.                *)
Plan ==
  /\ pc = "poll"
  /\ LET doc == Document(seen)
         verdict == Judge(doc, policy, bus, weights)
     IN  /\ plan' = [doc |-> doc, verdict |-> verdict, bus |-> bus,
                     weights |-> weights, open |-> open]
         /\ todo' = {d \in Deps : verdict[d] = "unit"}
  /\ steady' = {d \in Deps : Active(d)}
  /\ pc' = "unit"
  /\ UNCHANGED <<cpVars, hostVars, env, unit, runs, probed, changed, found, doomed,
                 policy, seen, said, asserted, used>>

(* The next unit waits for its weights, or for an image that could not be  *)
(* fetched.                                                                *)
Wait(d) ==
  /\ pc = "unit" /\ todo # {} /\ d = Min(todo)
  /\ \/ plan.weights[d] # "staged" /\ UNCHANGED used
     \/ Fault
  /\ todo' = todo \ {d}
  /\ UNCHANGED <<cpVars, hostVars, unitVars, pc, changed, found, doomed, agentVars>>

(* Mutant: a deployment moved to another card is not seen as changed.      *)
WriteEnvIgnoringCard(d) ==
  /\ pc = "unit" /\ todo # {} /\ d = Min(todo)
  /\ plan.weights[d] = "staged"
  /\ changed' = (env[d].ver # plan.doc[d].ver)
  /\ env' = [env EXCEPT ![d] = EnvOf(plan.doc[d])]
  /\ pc' = "start"
  /\ UNCHANGED <<cpVars, hostVars, unit, runs, probed, steady, todo, found, doomed,
                 agentVars, used>>

(* writeEnvFile.                                                           *)
WriteEnv(d) ==
  /\ pc = "unit" /\ todo # {} /\ d = Min(todo)
  /\ plan.weights[d] = "staged"
  /\ changed' = (env[d] # EnvOf(plan.doc[d]))
  /\ env' = [env EXCEPT ![d] = EnvOf(plan.doc[d])]
  /\ pc' = "start"
  /\ UNCHANGED <<cpVars, hostVars, unit, runs, probed, steady, todo, found, doomed,
                 agentVars, used>>

NextUnit(d) == todo' = todo \ {d} /\ pc' = "unit"

(* The egress assertion that follows, unless a conclusive verdict is held; *)
(* it may be inconclusive.                                                 *)
Assert(d, held, since) ==
  \/ d \notin held /\ asserted' = held \cup {d} /\ probed' = since \cup {d}
  \/ asserted' = held /\ probed' = since

(* Mutant: a verdict about the previous container is kept.                 *)
StartUnitKeepsVerdict(d) ==
  /\ pc = "start" /\ d = Min(todo)
  /\ unit[d] # "failed"
  /\ changed \/ ~Active(d)
  /\ unit' = [unit EXCEPT ![d] = "loading"]
  /\ runs' = [runs EXCEPT ![d] = env[d]]
  /\ Assert(d, asserted, probed \ {d})
  /\ NextUnit(d)
  /\ UNCHANGED <<cpVars, hostVars, env, steady, changed, found, doomed,
                 policy, seen, plan, said, used>>

(* `systemctl start` or `restart`: a new container, of which nothing is    *)
(* known yet.                                                              *)
StartUnit(d) ==
  /\ pc = "start" /\ d = Min(todo)
  /\ unit[d] # "failed"
  /\ changed \/ ~Active(d)
  /\ unit' = [unit EXCEPT ![d] = "loading"]
  /\ runs' = [runs EXCEPT ![d] = env[d]]
  /\ Assert(d, asserted \ {d}, probed \ {d})
  /\ NextUnit(d)
  /\ UNCHANGED <<cpVars, hostVars, env, steady, changed, found, doomed,
                 policy, seen, plan, said, used>>

(* systemctl fails: the unit is as it was, or stopped, or failed.          *)
StartErrs(d) ==
  /\ pc = "start" /\ d = Min(todo)
  /\ unit[d] # "failed"
  /\ changed \/ ~Active(d)
  /\ Prompt => ~(changed /\ Active(d))
  /\ Fault
  /\ unit' \in {unit, [unit EXCEPT ![d] = "inactive"], [unit EXCEPT ![d] = "failed"]}
  /\ NextUnit(d)
  /\ UNCHANGED <<cpVars, hostVars, env, runs, probed, steady, changed, found, doomed,
                 agentVars>>

(* A unit systemd has given up on is left alone, and so is one that runs   *)
(* what it should; the latter is asserted until that is conclusive.        *)
KeepUnit(d) ==
  /\ pc = "start" /\ d = Min(todo)
  /\ \/ unit[d] = "failed" /\ UNCHANGED <<asserted, probed>>
     \/ Active(d) /\ ~changed /\ Assert(d, asserted, probed)
  /\ NextUnit(d)
  /\ UNCHANGED <<cpVars, hostVars, env, unit, runs, steady, changed, found, doomed,
                 policy, seen, plan, said, used>>

(* The out-of-policy deployments that are running are found.               *)
FindOutOfPolicy ==
  /\ pc = "unit" /\ todo = {}
  /\ found' = {d \in Deps : plan.verdict[d] = "out" /\ Active(d)}
  /\ pc' = "list"
  /\ UNCHANGED <<cpVars, hostVars, unitVars, todo, changed, doomed, agentVars, used>>

(* Mutant: what runs out of policy is not wanted.                          *)
WantedPlanned == Units

(* What the stop loop must spare.                                          *)
Wanted == Units \cup IF plan.open THEN {} ELSE found

(* runningInstances: the units that are active and not wanted; or nothing  *)
(* is stopped because they cannot be listed.                               *)
List ==
  /\ pc = "list"
  /\ \/ doomed' = {d \in Deps : Active(d)} \ Wanted /\ UNCHANGED used
     \/ doomed' = {} /\ Fault
  /\ pc' = "stop"
  /\ UNCHANGED <<cpVars, hostVars, unitVars, todo, changed, found, agentVars>>

StopUnit(d) ==
  /\ pc = "stop" /\ d \in doomed
  /\ unit' = [unit EXCEPT ![d] = IF @ = "failed" THEN @ ELSE "inactive"]
  /\ doomed' = doomed \ {d}
  /\ steady' = steady \ {d}
  /\ UNCHANGED <<cpVars, hostVars, env, runs, probed, pc, todo, changed, found,
                 agentVars, used>>

StopErrs(d) ==
  /\ pc = "stop" /\ d \in doomed
  /\ Fault
  /\ doomed' = doomed \ {d}
  /\ UNCHANGED <<cpVars, hostVars, unitVars, pc, todo, changed, found, agentVars>>

(* The pass ends; what it refused is the next heartbeats' to say, and the  *)
(* next poll reads the node's approval.                                    *)
Finish ==
  /\ pc = "stop" /\ doomed = {}
  /\ said' = [d \in Deps |->
                CASE plan.verdict[d] = "refused" -> "refused"
                  [] plan.verdict[d] = "out" ->
                       IF d \in found THEN "out_of_policy" ELSE "refused"
                  [] OTHER -> "none"]
  /\ pc' = "poll" /\ changed' = FALSE /\ found' = {}
  /\ seen' = approved
  /\ UNCHANGED <<cpVars, hostVars, unitVars, todo, doomed, policy, plan, asserted, used>>

(* The agent is restarted and reads node.toml.                             *)
AgentRestart ==
  /\ Fault
  /\ Prompt => ~(pc = "start" /\ changed)
  /\ policy' = toml /\ seen' = approved
  /\ pc' = "poll" /\ plan' = NoPlan
  /\ todo' = {} /\ found' = {} /\ doomed' = {} /\ changed' = FALSE
  /\ said' = [d \in Deps |-> "none"] /\ asserted' = {}
  /\ UNCHANGED <<cpVars, hostVars, unitVars>>

-----------------------------------------------------------------------------
(* The heartbeat.                                                          *)

(* Mutant: a deployment that builds no unit is not reported.               *)
ReportedUnits(d, late) ==
  CASE plan.verdict[d] # "unit" -> obs[d]
    [] plan.verdict[d] = "unit" /\ unit[d] = "serving" -> "ready"
    [] OTHER -> "starting"

(* What report says of a deployment: a unit's observed state, a disabled   *)
(* one's, the failure of one whose card is gone, and nothing of the others.*)
(* An active unit that has not answered within ready_timeout_s is late.    *)
Reported(d, late) ==
  CASE plan.verdict[d] = "unit" ->
         (CASE unit[d] = "serving" -> "ready"
            [] unit[d] = "loading" -> IF late THEN "failed" ELSE "starting"
            [] unit[d] = "failed" -> "failed"
            [] OTHER -> "stopped")
    [] plan.verdict[d] = "disabled" -> IF Active(d) THEN "starting" ELSE "stopped"
    [] plan.verdict[d] = "failed" -> "failed"
    [] OTHER -> obs[d]

(* One beat that arrives.  Heartbeat updates rows and creates none, and    *)
(* replaces the refusals wholesale.                                        *)
Report ==
  /\ \E late \in SUBSET {d \in Deps : unit[d] = "loading"} :
       obs' = [d \in Deps |->
                 IF conf[d].in THEN Reported(d, d \in late) ELSE "none"]
  /\ refusal' = [d \in Deps |-> IF conf[d].in THEN said[d] ELSE "none"]
  /\ UNCHANGED <<conf, approved, hostVars, unitVars, passVars, agentVars, used>>

-----------------------------------------------------------------------------
(* systemd and the model servers.                                          *)

Load(d) ==
  /\ unit[d] = "loading"
  /\ unit' = [unit EXCEPT ![d] = "serving"]
  /\ UNCHANGED <<cpVars, hostVars, env, runs, probed, steady, passVars, agentVars, used>>

(* The server exits; Restart=always has systemd wait RestartSec.           *)
Die(d) ==
  /\ Active(d)
  /\ Fault
  /\ unit' = [unit EXCEPT ![d] = "activating"]
  /\ steady' = steady \ {d}
  /\ UNCHANGED <<cpVars, hostVars, env, runs, probed, passVars, agentVars>>

(* systemd starts it again, with the environment file as it is by then.    *)
AutoRestart(d) ==
  /\ unit[d] = "activating"
  /\ unit' = [unit EXCEPT ![d] = "loading"]
  /\ runs' = [runs EXCEPT ![d] = env[d]]
  /\ UNCHANGED <<cpVars, hostVars, env, probed, steady, passVars, agentVars, used>>

(* Or its start limit is reached.                                          *)
GiveUp(d) ==
  /\ unit[d] = "activating"
  /\ unit' = [unit EXCEPT ![d] = "failed"]
  /\ UNCHANGED <<cpVars, hostVars, env, runs, probed, steady, passVars, agentVars, used>>

AgentStep ==
  \/ Plan \/ FindOutOfPolicy \/ List \/ Finish
  \/ \E d \in Deps : Wait(d) \/ WriteEnv(d) \/ StartUnit(d) \/ StartErrs(d)
                     \/ KeepUnit(d) \/ StopUnit(d) \/ StopErrs(d)

Environment ==
  \/ SetApproval \/ EditNodeConfig \/ MaintenanceWindow
  \/ \E c \in Cards : CardChanges(c)
  \/ \E d \in Deps : Configure(d) \/ WeightsChange(d) \/ Die(d) \/ GiveUp(d)

Next ==
  \/ AgentStep \/ Report \/ AgentRestart \/ Environment
  \/ \E d \in Deps : Load(d) \/ AutoRestart(d)

Spec == Init /\ [][Next]_vars

(* The poll loop and the heartbeat run for as long as the agent does, and  *)
(* systemd is restarted by nobody.                                         *)
Fairness ==
  /\ WF_vars(AgentStep) /\ WF_vars(Report)
  /\ \A d \in Deps : WF_vars(Load(d)) /\ WF_vars(AutoRestart(d))

FairSpec == Spec /\ Fairness

-----------------------------------------------------------------------------
Permissive == [deny |-> {}, max |-> N, cards |-> Cards]

(* A guardrail narrowed under a serving deployment does not kill it        *)
(* (reconcile.go, 12 section 3): a unit the node could run but for         *)
(* node.toml, active since before this pass, is not stopped outside the    *)
(* maintenance window.                                                     *)
NarrowingSparesServing ==
  [][\A d \in Deps :
       Active(d) /\ unit'[d] = "inactive" /\ d \in steady /\ pc = "stop" =>
         \/ plan.open
         \/ Judge(plan.doc, Permissive, plan.bus, plan.weights)[d] # "unit"]_vars

(* Two deployments on one card is a failure mode the agent double-checks   *)
(* against (plan.go, R4-23): a handover ends with the pass, so between     *)
(* passes no two units of the plan run on one card, except beside one that *)
(* still waits for what its new configuration needs.                       *)
CardsHandedOver ==
  LET settled == {d \in Units : Active(d) /\ env[d] = EnvOf(plan.doc[d])}
  IN  pc = "poll" => \A d, e \in settled : runs[d].card = runs[e].card => d = e

(* "A new start needs a new answer" (reconcileUnit): a conclusive egress   *)
(* verdict is never one from before the agent's last start of the unit.    *)
AssertedSinceStart == asserted \subseteq probed

(* What the starts of a pass leave behind: no two units on one card, and   *)
(* no verdict about a container that is gone.                              *)
StartsAreSound == CardsHandedOver /\ AssertedSinceStart

(* Reconciling converges (reconcile.go: "every iteration is idempotent and *)
(* converges"): once things stop changing, every unit serves what its      *)
(* deployment asks for or has failed, and nothing else is running, save    *)
(* what was found out of policy outside the window.                        *)
Converged ==
  LET verdict == Judge(Document(approved), policy, bus, weights)
  IN  \A d \in Deps :
        CASE verdict[d] = "unit" ->
               \/ weights[d] # "staged" \/ unit[d] = "failed"
               \/ unit[d] = "serving" /\ runs[d] = EnvOf(conf[d])
          [] verdict[d] = "out" -> open => ~Active(d)
          [] OTHER -> ~Active(d)
Converges == <>[]Converged

(* What the control plane shows comes true: once things stop changing, a   *)
(* deployment of an approved node that is shown as ready serves, or a      *)
(* refusal is shown beside it.                                             *)
RowsComeTrue ==
  <>[](\A d \in Deps : approved /\ obs[d] = "ready" =>
                         unit[d] = "serving" \/ refusal[d] # "none")

(* No deployment freezes at ready (run.go, report: a row would "freeze at  *)
(* whatever it last reported ... forever"): once things stop changing, a   *)
(* deployment shown as ready serves.                                       *)
ReadyServes == <>[](\A d \in Deps : obs[d] = "ready" => unit[d] = "serving")
=============================================================================

-------------------------- MODULE ReconcileProofs --------------------------
(***************************************************************************)
(* Proofs about the agent on its node: what a pass starts and what it      *)
(* stops (Reconcile), what is built and what the agent replaces itself     *)
(* with (Prepare), and the copies of remote models (Staging); for every    *)
(* number of deployments, cards, builds and files, every node.toml and any *)
(* number of changes, deaths, resets and faults.                           *)
(***************************************************************************)
EXTENDS Reconcile, Prepare, Staging, WellFoundedInduction, TLAPS

-----------------------------------------------------------------------------
(* Facts about the plan.                                                   *)

(* The least of some deployments is one of them.                           *)
LEMMA MinIsMember ==
  ASSUME NEW S \in SUBSET Deps, S # {}
  PROVE  Min(S) \in S
<1>1. S \subseteq Nat
  BY DEF Deps
<1>2. PICK x \in S : \A y \in S : ~(<<y, x>> \in OpToRel(<, Nat))
  BY <1>1, NatLessThanWellFounded, WFMin
<1>3. \A y \in S : ~(y < x)
  BY <1>1, <1>2 DEF OpToRel
<1>4. \A y \in S : x <= y
  BY <1>1, <1>3
<1> QED
  BY <1>4 DEF Min

(* A verdict is one of the six there are.                                  *)
LEMMA VerdictType ==
  ASSUME NEW doc, NEW p, NEW cards, NEW w, NEW d, NEW units
  PROVE  VerdictOn(doc, p, cards, w, d, units) \in Verdicts
BY DEF VerdictOn, Verdicts

(* f holds the verdicts on the first n deployments.                        *)
Judges(doc, p, cards, w, n, f) ==
  f = [d \in 1..n |-> VerdictOn(doc, p, cards, w, d, {e \in 1..(d - 1) : f[e] = "unit"})]

(* The verdicts on a shorter document say how to go on: there is always    *)
(* a function as the definition of Judge asks for.                         *)
LEMMA JudgeExists ==
  ASSUME NEW doc, NEW p, NEW cards, NEW w
  PROVE  \A n \in Nat : \E f : Judges(doc, p, cards, w, n, f)
<1> DEFINE Bad == {n \in Nat : ~\E f : Judges(doc, p, cards, w, n, f)}
<1> SUFFICES ASSUME Bad # {} PROVE FALSE
  OBVIOUS
<1>1. PICK n \in Bad : \A m \in Bad : ~(<<m, n>> \in OpToRel(<, Nat))
  <2> HIDE DEF Bad
  <2>1. Bad \subseteq Nat
    BY DEF Bad
  <2> QED
    BY <2>1, NatLessThanWellFounded, WFMin
<1>2. n \in Nat /\ \A m \in Nat : m < n => \E f : Judges(doc, p, cards, w, m, f)
  BY <1>1 DEF OpToRel
<1>3. n # 0
  <2>1. Judges(doc, p, cards, w, 0, [d \in {} |-> "none"])
    BY DEF Judges
  <2> QED
    BY <2>1, <1>1
<1>4. n - 1 \in Nat /\ n - 1 < n
  BY <1>2, <1>3
<1>5. PICK f : Judges(doc, p, cards, w, n - 1, f)
  BY <1>2, <1>4
<1> DEFINE g == [d \in 1..n |->
                   IF d < n THEN f[d]
                   ELSE VerdictOn(doc, p, cards, w, d, {e \in 1..(d - 1) : f[e] = "unit"})]
<1>6. Judges(doc, p, cards, w, n, g)
  <2>1. \A d \in 1..n : \A e \in 1..(d - 1) : g[e] = f[e]
    BY <1>2
  <2>2. \A d \in 1..n : {e \in 1..(d - 1) : g[e] = "unit"}
                          = {e \in 1..(d - 1) : f[e] = "unit"}
    BY <2>1
  <2>3. \A d \in 1..n : d < n =>
           f[d] = VerdictOn(doc, p, cards, w, d, {e \in 1..(d - 1) : f[e] = "unit"})
    <3>1. \A d \in 1..n : d < n => d \in 1..(n - 1)
      BY <1>2
    <3> QED
      BY <3>1, <1>5 DEF Judges
  <2>4. \A d \in 1..n :
           g[d] = VerdictOn(doc, p, cards, w, d, {e \in 1..(d - 1) : f[e] = "unit"})
    BY <2>3
  <2>5. \A d \in 1..n :
           g[d] = VerdictOn(doc, p, cards, w, d, {e \in 1..(d - 1) : g[e] = "unit"})
    BY <2>2, <2>4
  <2>6. g = [d \in 1..n |-> g[d]]
    OBVIOUS
  <2> HIDE DEF g
  <2> QED
    BY <2>5, <2>6 DEF Judges
<1> QED
  BY <1>1, <1>6

(* Judge gives each deployment the verdict beside the units before it.     *)
LEMMA JudgeIs ==
  ASSUME NEW doc, NEW p, NEW cards, NEW w
  PROVE  /\ Judge(doc, p, cards, w) \in [Deps -> Verdicts]
         /\ \A d \in Deps :
              Judge(doc, p, cards, w)[d] =
                VerdictOn(doc, p, cards, w, d,
                          {e \in 1..(d - 1) : Judge(doc, p, cards, w)[e] = "unit"})
<1>1. N \in Nat
  BY ReconcileAssumption
<1>2. \E f : Judges(doc, p, cards, w, N, f)
  BY <1>1, JudgeExists
<1>3. Judge(doc, p, cards, w) = CHOOSE f : Judges(doc, p, cards, w, N, f)
  BY DEF Judge, Judges, Deps
<1>4. Judges(doc, p, cards, w, N, Judge(doc, p, cards, w))
  BY <1>2, <1>3
<1> QED
  <2> SUFFICES ASSUME NEW f, Judges(doc, p, cards, w, N, f)
               PROVE  /\ f \in [Deps -> Verdicts]
                      /\ \A d \in Deps :
                           f[d] = VerdictOn(doc, p, cards, w, d,
                                            {e \in 1..(d - 1) : f[e] = "unit"})
    BY <1>4
  <2> DEFINE V(d) == VerdictOn(doc, p, cards, w, d, {e \in 1..(d - 1) : f[e] = "unit"})
  <2>1. \A d \in Deps : V(d) \in Verdicts
    BY VerdictType
  <2>2. f = [d \in Deps |-> V(d)]
    BY DEF Judges, Deps
  <2>3. (\A d \in Deps : f[d] = V(d)) /\ f \in [Deps -> Verdicts]
    <3> HIDE DEF V
    <3>1. DOMAIN f = Deps /\ \A d \in Deps : f[d] = V(d)
      BY <2>2, Zenon
    <3> QED
      BY <2>1, <2>2, <3>1
  <2> QED
    BY <2>3

(* What a deployment that becomes a unit has going for it.                 *)
LEMMA UnitMeans ==
  ASSUME NEW doc, NEW p, NEW cards, NEW w, NEW d \in Deps,
         Judge(doc, p, cards, w)[d] = "unit"
  PROVE  /\ doc[d].in /\ ~doc[d].off /\ ~Missing(cards, doc[d].card)
         /\ doc[d].card \in cards \cap p.cards /\ w[d] # "corrupt"
         /\ \A e \in 1..(d - 1) : Judge(doc, p, cards, w)[e] = "unit"
                                      => doc[e].card # doc[d].card
<1> DEFINE J == Judge(doc, p, cards, w)
           U == {e \in 1..(d - 1) : J[e] = "unit"}
<1>1. VerdictOn(doc, p, cards, w, d, U) = "unit"
  BY JudgeIs
<1>2. /\ doc[d].in /\ ~doc[d].off /\ ~Missing(cards, doc[d].card)
      /\ ~CannotRender(p, cards, w, d, doc[d].card)
      /\ ~\E e \in U : doc[e].card = doc[d].card
  <2> HIDE DEF U
  <2> QED
    BY <1>1 DEF VerdictOn
<1> QED
  BY <1>2 DEF CannotRender

(* Whatever the document says, no two units are planned on one card.       *)
LEMMA UnitsApart ==
  ASSUME NEW doc, NEW p, NEW cards, NEW w, NEW d \in Deps, NEW e \in Deps,
         Judge(doc, p, cards, w)[d] = "unit", Judge(doc, p, cards, w)[e] = "unit",
         doc[d].card = doc[e].card
  PROVE  d = e
<1>1. N \in Nat
  BY ReconcileAssumption
<1>2. ~(d < e)
  <2> SUFFICES ASSUME d < e PROVE FALSE
    OBVIOUS
  <2>1. d \in 1..(e - 1)
    BY <1>1 DEF Deps
  <2> QED
    BY <2>1, UnitMeans
<1>3. ~(e < d)
  <2> SUFFICES ASSUME e < d PROVE FALSE
    OBVIOUS
  <2>1. e \in 1..(d - 1)
    BY <1>1 DEF Deps
  <2> QED
    BY <2>1, UnitMeans
<1> QED
  BY <1>1, <1>2, <1>3 DEF Deps

(* No two deployments of a document claim one card.                        *)
Apart(doc) == \A d, e \in Deps : doc[d].in /\ doc[e].in /\ doc[d].card = doc[e].card => d = e

(* A deployment the node could run but for its node.toml is a unit, or is  *)
(* out of policy, or its card is withheld: it is never refused otherwise.  *)
LEMMA NarrowedIsOut ==
  ASSUME NEW doc, NEW p, NEW cards, NEW w, NEW d \in Deps, Apart(doc),
         Judge(doc, Permissive, cards, w)[d] = "unit", doc[d].card \in p.cards
  PROVE  Judge(doc, p, cards, w)[d] \in {"unit", "out"}
<1> DEFINE J == Judge(doc, p, cards, w)
           U == {e \in 1..(d - 1) : J[e] = "unit"}
<1>1. /\ doc[d].in /\ ~doc[d].off /\ ~Missing(cards, doc[d].card)
      /\ doc[d].card \in cards /\ w[d] # "corrupt"
  BY UnitMeans
<1>2. ~\E e \in U : doc[e].card = doc[d].card
  <2>1. N \in Nat
    BY ReconcileAssumption
  <2>2. \A e \in U : e \in Deps /\ e # d /\ J[e] = "unit"
    BY <2>1 DEF Deps
  <2>3. \A e \in U : doc[e].in
    BY <2>2, UnitMeans
  <2> HIDE DEF U
  <2> QED
    BY <1>1, <2>2, <2>3 DEF Apart
<1>3. J[d] = VerdictOn(doc, p, cards, w, d, U)
  BY JudgeIs
<1>4. VerdictOn(doc, p, cards, w, d, U) \in {"unit", "out"}
  <2> HIDE DEF U
  <2> QED
    BY <1>1, <1>2 DEF VerdictOn, CannotRender
<1> QED
  BY <1>3, <1>4

-----------------------------------------------------------------------------
(* Type correctness.                                                       *)

(* The card NoEnv names exists.                                            *)
LEMMA SomeCard == NoEnv.card \in Cards
BY ReconcileAssumption DEF NoEnv

(* What an environment file holds of a deployment.                         *)
LEMMA EnvOfType ==
  ASSUME NEW c \in Conf
  PROVE  EnvOf(c) \in EnvFile
BY DEF EnvOf, Conf, EnvFile

(* The document of a node that is not approved holds nothing.              *)
LEMMA DocumentType ==
  ASSUME NEW ok \in BOOLEAN, conf \in [Deps -> Conf]
  PROVE  Document(ok) \in [Deps -> Conf]
<1>1. \A d \in Deps : [conf[d] EXCEPT !.in = FALSE] \in Conf
  BY DEF Conf
<1> QED
  BY <1>1 DEF Document

(* Type correctness: the state an agent, its units and the control plane's *)
(* rows start in.                                                          *)
LEMMA TypeInit == Init => TypeOK
<1> SUFFICES ASSUME Init PROVE TypeOK
  OBVIOUS
<1>1. conf \in [Deps -> Conf]
  BY SomeCard, ReconcileAssumption DEF Init, Conf
<1>2. env \in [Deps -> EnvFile \cup {NoEnv}] /\ runs \in [Deps -> EnvFile \cup {NoEnv}]
  BY <1>1, EnvOfType DEF Init
<1>3. plan \in Plans
  BY <1>1, JudgeIs DEF Init, Plans, Weights
<1>4. unit \in [Deps -> UnitStates]
  BY DEF Init, UnitStates
<1>5. {todo, found, doomed, asserted, probed, steady} \subseteq SUBSET Deps
  BY DEF Init
<1>6. used \in [changes : 0..MaxChanges, faults : 0..MaxFaults]
  BY ReconcileAssumption DEF Init
<1>7. {toml, policy} \subseteq Policies
  BY ReconcileAssumption DEF Init
<1>8. /\ weights \in [Deps -> Weights] /\ bus \subseteq Cards
      /\ {approved, seen, open, changed} \subseteq BOOLEAN
      /\ pc \in {"poll", "unit", "start", "list", "stop"}
  BY DEF Init, Weights
<1>9. /\ obs \in [Deps -> {"none", "defined", "ready", "starting", "stopped", "failed"}]
      /\ refusal \in [Deps -> {"none", "refused", "out_of_policy"}]
      /\ said \in [Deps -> {"none", "refused", "out_of_policy"}]
  BY DEF Init
<1> QED
  BY <1>1, <1>2, <1>3, <1>4, <1>5, <1>6, <1>7, <1>8, <1>9 DEF TypeOK

(* A fault and a change are within their bounds.                           *)
Spent == used \in [changes : 0..MaxChanges, faults : 0..MaxFaults]

LEMMA FaultType ==
  ASSUME Spent, Fault
  PROVE  Spent'
BY ReconcileAssumption DEF Spent, Fault

LEMMA ChangeType ==
  ASSUME Spent, NEW kind, Change(kind)
  PROVE  Spent'
BY ReconcileAssumption DEF Spent, Change

(* What an operator makes of a deployment is a deployment.                 *)
LEMMA NewConfsType ==
  ASSUME NEW c \in Conf, Spent, used.changes < MaxChanges
  PROVE  NewConfs(c) \subseteq Conf
<1>1. used.changes + 1 \in 0..MaxChanges
  BY ReconcileAssumption DEF Spent
<1>2. [c EXCEPT !.in = FALSE] \in Conf /\ [c EXCEPT !.off = ~@] \in Conf
  BY DEF Conf
<1>3. [c EXCEPT !.ver = used.changes + 1] \in Conf
  BY <1>1 DEF Conf
<1>4. \A k \in Cards : [c EXCEPT !.card = k] \in Conf /\ [c EXCEPT !.in = TRUE, !.card = k] \in Conf
  BY DEF Conf
<1> QED
  BY <1>2, <1>3, <1>4 DEF NewConfs

(* The types, one by one.                                                  *)
ObsStates == {"none", "defined", "ready", "starting", "stopped", "failed"}
Refusals == {"none", "refused", "out_of_policy"}

CPTyped ==
  /\ conf \in [Deps -> Conf]
  /\ obs \in [Deps -> ObsStates]
  /\ refusal \in [Deps -> Refusals]
  /\ approved \in BOOLEAN

HostTyped ==
  /\ toml \in Policies
  /\ bus \subseteq Cards
  /\ weights \in [Deps -> Weights]
  /\ open \in BOOLEAN

UnitTyped ==
  /\ env \in [Deps -> EnvFile \cup {NoEnv}]
  /\ unit \in [Deps -> UnitStates]
  /\ runs \in [Deps -> EnvFile \cup {NoEnv}]
  /\ probed \subseteq Deps
  /\ steady \subseteq Deps

PassTyped ==
  /\ pc \in {"poll", "unit", "start", "list", "stop"}
  /\ changed \in BOOLEAN
  /\ todo \subseteq Deps /\ found \subseteq Deps /\ doomed \subseteq Deps

AgentTyped ==
  /\ policy \in Policies
  /\ seen \in BOOLEAN
  /\ plan \in Plans
  /\ said \in [Deps -> Refusals]
  /\ asserted \subseteq Deps

Typed == CPTyped /\ HostTyped /\ UnitTyped /\ PassTyped /\ AgentTyped /\ Spent

LEMMA TypedIsTypeOK == TypeOK <=> Typed
BY DEF TypeOK, Typed, CPTyped, HostTyped, UnitTyped, PassTyped, AgentTyped, Spent,
       ObsStates, Refusals

(* A change around the agent.                                              *)
LEMMA TypeChange ==
  ASSUME Typed, NEW d \in Deps, NEW c \in Cards,
         Configure(d) \/ SetApproval \/ EditNodeConfig \/ MaintenanceWindow
           \/ CardChanges(c) \/ WeightsChange(d)
  PROVE  Typed'
<1>1. Spent'
  BY ChangeType DEF Typed, Configure, SetApproval, EditNodeConfig, MaintenanceWindow,
     CardChanges, WeightsChange
<1>2. UNCHANGED <<unitVars, passVars, agentVars>>
  BY DEF Configure, SetApproval, EditNodeConfig, MaintenanceWindow,
     CardChanges, WeightsChange, Change
<1>3. UnitTyped' /\ PassTyped' /\ AgentTyped'
  BY <1>2 DEF Typed, UnitTyped, PassTyped, AgentTyped, unitVars, passVars, agentVars
<1>4. CPTyped'
  <2>1. CASE Configure(d)
    <3>1. conf[d] \in Conf /\ used.changes < MaxChanges
      BY <2>1 DEF Typed, CPTyped, Configure, Change
    <3>2. PICK k \in NewConfs(conf[d]) : conf' = [conf EXCEPT ![d] = k]
      BY <2>1 DEF Configure
    <3>3. k \in Conf
      BY <3>1, <3>2, NewConfsType DEF Typed
    <3>4. conf' \in [Deps -> Conf]
      BY <3>2, <3>3 DEF Typed, CPTyped
    <3>5. obs' \in [Deps -> ObsStates] /\ refusal' \in [Deps -> Refusals]
      BY <2>1 DEF Typed, CPTyped, Configure, ObsStates, Refusals
    <3>6. approved' = approved
      BY <2>1 DEF Configure
    <3> QED
      BY <3>4, <3>5, <3>6 DEF Typed, CPTyped
  <2>2. CASE SetApproval
    BY <2>2 DEF Typed, CPTyped, SetApproval
  <2>3. CASE UNCHANGED cpVars
    BY <2>3 DEF Typed, CPTyped, cpVars
  <2> QED
    BY <2>1, <2>2, <2>3 DEF EditNodeConfig, MaintenanceWindow, CardChanges, WeightsChange
<1>5. HostTyped'
  <2>1. CASE UNCHANGED hostVars
    BY <2>1 DEF Typed, HostTyped, hostVars
  <2>2. CASE EditNodeConfig
    BY <2>2 DEF Typed, HostTyped, EditNodeConfig
  <2>3. CASE MaintenanceWindow
    BY <2>3 DEF Typed, HostTyped, MaintenanceWindow
  <2>4. CASE CardChanges(c)
    BY <2>4 DEF Typed, HostTyped, CardChanges
  <2>5. CASE WeightsChange(d)
    BY <2>5 DEF Typed, HostTyped, WeightsChange
  <2> QED
    BY <2>1, <2>2, <2>3, <2>4, <2>5 DEF Configure, SetApproval
<1> QED
  BY <1>1, <1>3, <1>4, <1>5 DEF Typed

(* The steps of a pass that plan and take note, and touch no unit.         *)
LEMMA TypePass ==
  ASSUME Typed, NEW d \in Deps,
         Plan \/ Wait(d) \/ FindOutOfPolicy \/ List \/ StopErrs(d) \/ Finish \/ AgentRestart
  PROVE  Typed'
<1>1. Spent'
  BY FaultType DEF Typed, Spent, Plan, Wait, FindOutOfPolicy, List, StopErrs, Finish, AgentRestart
<1>2. UNCHANGED <<conf, obs, refusal, approved, toml, bus, weights, open,
                  env, unit, runs, probed>>
  BY DEF Plan, Wait, FindOutOfPolicy, List, StopErrs, Finish, AgentRestart,
     cpVars, hostVars, unitVars
<1>3. CPTyped' /\ HostTyped'
  BY <1>2 DEF Typed, CPTyped, HostTyped
<1>4. steady' \subseteq Deps
  BY DEF Typed, UnitTyped, Plan, Wait, FindOutOfPolicy, List, StopErrs, Finish, AgentRestart,
     unitVars
<1>5. UnitTyped'
  BY <1>2, <1>4 DEF Typed, UnitTyped
<1>6. PassTyped'
  <2> USE DEF Typed, PassTyped
  <2>1. CASE Plan
    BY <2>1 DEF Plan
  <2>2. CASE Wait(d)
    BY <2>2 DEF Wait
  <2>3. CASE FindOutOfPolicy
    BY <2>3 DEF FindOutOfPolicy
  <2>4. CASE List
    BY <2>4 DEF List
  <2>5. CASE StopErrs(d)
    BY <2>5 DEF StopErrs
  <2>6. CASE Finish
    BY <2>6 DEF Finish
  <2>7. CASE AgentRestart
    BY <2>7 DEF AgentRestart
  <2> QED
    BY <2>1, <2>2, <2>3, <2>4, <2>5, <2>6, <2>7
<1>7. AgentTyped'
  <2>1. CASE UNCHANGED agentVars
    BY <2>1 DEF Typed, AgentTyped, agentVars
  <2>2. CASE Plan
    <3>1. Document(seen) \in [Deps -> Conf]
      BY DocumentType DEF Typed, CPTyped, AgentTyped
    <3>2. plan' \in Plans
      BY <2>2, <3>1, JudgeIs DEF Plan, Typed, HostTyped, Plans
    <3> QED
      BY <2>2, <3>2 DEF Plan, Typed, AgentTyped
  <2>3. CASE Finish
    BY <2>3 DEF Finish, Typed, AgentTyped, CPTyped, Refusals
  <2>4. CASE AgentRestart
    <3>1. plan' \in Plans
      BY <2>4, SomeCard, ReconcileAssumption
      DEF AgentRestart, NoPlan, Plans, Conf, Verdicts, Weights
    <3> QED
      BY <2>4, <3>1 DEF AgentRestart, Typed, AgentTyped, CPTyped, HostTyped, Refusals
  <2> QED
    BY <2>1, <2>2, <2>3, <2>4 DEF Wait, FindOutOfPolicy, List, StopErrs
<1> QED
  BY <1>1, <1>3, <1>5, <1>6, <1>7 DEF Typed

(* The steps that write environment files and run units.                   *)
LEMMA TypeUnits ==
  ASSUME Typed, NEW d \in Deps,
         WriteEnv(d) \/ StartUnit(d) \/ StartErrs(d) \/ KeepUnit(d) \/ StopUnit(d)
           \/ Load(d) \/ Die(d) \/ AutoRestart(d) \/ GiveUp(d)
  PROVE  Typed'
<1>1. Spent'
  BY FaultType DEF Typed, Spent, WriteEnv, StartUnit, StartErrs, KeepUnit, StopUnit,
     Load, Die, AutoRestart, GiveUp
<1>2. UNCHANGED <<conf, obs, refusal, approved, toml, bus, weights, open,
                  policy, seen, plan, said>>
  BY DEF WriteEnv, StartUnit, StartErrs, KeepUnit, StopUnit, Load, Die, AutoRestart, GiveUp,
     cpVars, hostVars, agentVars
<1>3. asserted' \subseteq Deps /\ probed' \subseteq Deps
  BY DEF Typed, UnitTyped, AgentTyped, WriteEnv, StartUnit, StartErrs, KeepUnit, StopUnit,
     Load, Die, AutoRestart, GiveUp, agentVars, Assert
<1>4. CPTyped' /\ HostTyped' /\ AgentTyped'
  BY <1>2, <1>3 DEF Typed, CPTyped, HostTyped, AgentTyped
<1>5. PassTyped'
  BY DEF Typed, PassTyped, WriteEnv, StartUnit, StartErrs, KeepUnit, StopUnit,
     Load, Die, AutoRestart, GiveUp, passVars, NextUnit
<1>6. steady' \subseteq Deps
  BY DEF Typed, UnitTyped, WriteEnv, StartUnit, StartErrs, KeepUnit, StopUnit,
     Load, Die, AutoRestart, GiveUp
<1>7. env' \in [Deps -> EnvFile \cup {NoEnv}]
  <2>1. CASE WriteEnv(d)
    <3>1. EnvOf(plan.doc[d]) \in EnvFile
      BY EnvOfType DEF Typed, AgentTyped, Plans
    <3> QED
      BY <2>1, <3>1 DEF WriteEnv, Typed, UnitTyped
  <2>2. CASE UNCHANGED env
    BY <2>2 DEF Typed, UnitTyped
  <2> QED
    BY <2>1, <2>2 DEF StartUnit, StartErrs, KeepUnit, StopUnit, Load, Die, AutoRestart, GiveUp
<1>8. runs' \in [Deps -> EnvFile \cup {NoEnv}]
  BY DEF Typed, UnitTyped, WriteEnv, StartUnit, StartErrs, KeepUnit, StopUnit,
     Load, Die, AutoRestart, GiveUp
<1>9. unit' \in [Deps -> UnitStates]
  BY DEF Typed, UnitTyped, UnitStates, WriteEnv, StartUnit, StartErrs, KeepUnit, StopUnit,
     Load, Die, AutoRestart, GiveUp
<1>10. UnitTyped'
  BY <1>3, <1>6, <1>7, <1>8, <1>9 DEF UnitTyped
<1> QED
  BY <1>1, <1>4, <1>5, <1>10 DEF Typed

(* A heartbeat.                                                            *)
LEMMA TypeReport ==
  ASSUME Typed, Report
  PROVE  Typed'
<1>1. UNCHANGED <<conf, approved, hostVars, unitVars, passVars, agentVars, used>>
  BY DEF Report
<1>2. HostTyped' /\ UnitTyped' /\ PassTyped' /\ AgentTyped' /\ Spent'
  BY <1>1 DEF Typed, HostTyped, UnitTyped, PassTyped, AgentTyped, Spent,
     hostVars, unitVars, passVars, agentVars
<1>3. ASSUME NEW d \in Deps, NEW late PROVE Reported(d, late) \in ObsStates
  BY DEF Reported, ObsStates, Typed, CPTyped
<1>4. obs' \in [Deps -> ObsStates]
  <2>1. PICK late : obs' = [d \in Deps |->
                              IF conf[d].in THEN Reported(d, d \in late) ELSE "none"]
    BY DEF Report
  <2>2. \A d \in Deps : Reported(d, d \in late) \in ObsStates
    BY <1>3
  <2>3. "none" \in ObsStates
    BY DEF ObsStates
  <2> QED
    BY <2>1, <2>2, <2>3
<1>5. refusal' \in [Deps -> Refusals]
  BY DEF Report, Refusals, Typed, AgentTyped
<1> QED
  BY <1>1, <1>2, <1>4, <1>5 DEF Typed, CPTyped

LEMMA TypeStep == Typed /\ [Next]_vars => Typed'
<1> SUFFICES ASSUME Typed, [Next]_vars PROVE Typed'
  OBVIOUS
<1>1. CASE AgentStep
  <2>1. 1 \in Deps
    BY ReconcileAssumption DEF Deps
  <2> QED
    BY <1>1, <2>1, TypePass, TypeUnits DEF AgentStep
<1>2. CASE Environment
  <2>1. 1 \in Deps /\ Cards # {}
    BY ReconcileAssumption DEF Deps
  <2> QED
    BY <1>2, <2>1, TypeChange, TypeUnits DEF Environment
<1>3. CASE Report
  BY <1>3, TypeReport
<1>4. CASE AgentRestart
  <2>1. 1 \in Deps
    BY ReconcileAssumption DEF Deps
  <2> QED
    BY <1>4, <2>1, TypePass
<1>5. CASE \E d \in Deps : Load(d) \/ AutoRestart(d)
  BY <1>5, TypeUnits
<1>6. CASE UNCHANGED vars
  BY <1>6 DEF Typed, CPTyped, HostTyped, UnitTyped, PassTyped, AgentTyped, Spent,
     vars, cpVars, hostVars, unitVars, passVars, agentVars
<1> QED
  BY <1>1, <1>2, <1>3, <1>4, <1>5, <1>6 DEF Next

(* Type correctness of one node's reconciliation: the rows, the units, the *)
(* environment files and the agent's memory keep their types through every *)
(* change, fault, heartbeat and pass.                                      *)
THEOREM ReconcileTypeCorrect == Spec => []TypeOK
<1>1. Init => Typed
  BY TypeInit, TypedIsTypeOK
<1>2. Spec => []Typed
  BY <1>1, TypeStep, PTL DEF Spec
<1> QED
  BY <1>2, TypedIsTypeOK, PTL

-----------------------------------------------------------------------------
(* What a pass starts.                                                     *)

(* A container runs what its environment file says, or is the one unit     *)
(* whose file was just changed and which is about to be restarted.         *)
RunsItsFile ==
  \A d \in Deps :
    Active(d) => \/ runs[d] = env[d]
                 \/ pc = "start" /\ changed /\ d = Min(todo)

(* No two units of the plan are on one card.                               *)
PlanApart ==
  \A d, e \in Units : plan.doc[d].card = plan.doc[e].card => d = e

StartInv == Typed /\ RunsItsFile /\ PlanApart /\ AssertedSinceStart

LEMMA StartInit == Init => StartInv
<1> SUFFICES ASSUME Init PROVE StartInv
  OBVIOUS
<1>1. Typed
  BY TypeInit, TypedIsTypeOK
<1>2. RunsItsFile
  BY DEF Init, RunsItsFile
<1>3. PlanApart
  BY UnitsApart DEF Init, PlanApart, Units
<1> QED
  BY <1>1, <1>2, <1>3 DEF StartInv, Init, AssertedSinceStart

(* The plan and the verdicts of a pass need no assumption.                 *)
LEMMA AssertStep ==
  ASSUME PlanApart, AssertedSinceStart, [Next]_vars
  PROVE  PlanApart' /\ AssertedSinceStart'
<1>1. PlanApart'
  <2>1. CASE UNCHANGED plan
    BY <2>1 DEF PlanApart, Units
  <2>2. CASE Plan
    <3>1. /\ plan'.doc = Document(seen)
          /\ plan'.verdict = Judge(Document(seen), policy, bus, weights)
      BY <2>2 DEF Plan
    <3> QED
      BY <3>1, UnitsApart DEF PlanApart, Units
  <2>3. CASE AgentRestart
    BY <2>3 DEF AgentRestart, NoPlan, PlanApart, Units
  <2> QED
    BY <2>1, <2>2, <2>3 DEF Next, AgentStep, Environment, Report, Configure, SetApproval,
       EditNodeConfig, MaintenanceWindow, CardChanges, WeightsChange, Change,
       FindOutOfPolicy, List, Finish, Wait, WriteEnv, StartUnit, StartErrs, KeepUnit,
       StopUnit, StopErrs, Load, Die, AutoRestart, GiveUp, agentVars, vars
<1>2. AssertedSinceStart'
  <2>1. CASE UNCHANGED <<asserted, probed>>
    BY <2>1 DEF AssertedSinceStart
  <2>2. ASSUME NEW d \in Deps, StartUnit(d) PROVE AssertedSinceStart'
    BY <2>2 DEF StartUnit, Assert, AssertedSinceStart
  <2>3. ASSUME NEW d \in Deps, KeepUnit(d) PROVE AssertedSinceStart'
    BY <2>3 DEF KeepUnit, Assert, AssertedSinceStart
  <2>4. CASE AgentRestart
    BY <2>4 DEF AgentRestart, AssertedSinceStart
  <2> QED
    BY <2>1, <2>2, <2>3, <2>4 DEF Next, AgentStep, Environment, Report, Configure,
       SetApproval, EditNodeConfig, MaintenanceWindow, CardChanges, WeightsChange, Change,
       Plan, FindOutOfPolicy, List, Finish, Wait, WriteEnv, StartErrs,
       StopUnit, StopErrs, Load, Die, AutoRestart, GiveUp, agentVars, unitVars, vars
<1> QED
  BY <1>1, <1>2

LEMMA StartStep ==
  ASSUME Prompt, StartInv, [Next]_vars
  PROVE  StartInv'
<1>1. Typed'
  BY TypeStep DEF StartInv
<1> USE DEF StartInv
<1>2. PlanApart' /\ AssertedSinceStart'
  BY AssertStep
<1>3. RunsItsFile'
  <2> USE DEF Typed, UnitTyped, RunsItsFile, Active
  <2>1. CASE UNCHANGED <<unitVars, passVars>>
    BY <2>1 DEF unitVars, passVars
  <2>2. CASE Plan
    BY <2>2 DEF Plan
  <2>3. CASE FindOutOfPolicy \/ List \/ Finish
    BY <2>3 DEF FindOutOfPolicy, List, Finish, unitVars
  <2>4. ASSUME NEW d \in Deps, Wait(d) \/ StopErrs(d) PROVE RunsItsFile'
    BY <2>4 DEF Wait, StopErrs, unitVars
  <2>5. ASSUME NEW d \in Deps, WriteEnv(d) PROVE RunsItsFile'
    BY <2>5 DEF WriteEnv
  <2>6. ASSUME NEW d \in Deps, StartUnit(d) PROVE RunsItsFile'
    BY <2>6 DEF StartUnit, NextUnit
  <2>7. ASSUME NEW d \in Deps, StartErrs(d) PROVE RunsItsFile'
    BY <2>7 DEF StartErrs, NextUnit
  <2>8. ASSUME NEW d \in Deps, KeepUnit(d) PROVE RunsItsFile'
    BY <2>8 DEF KeepUnit, NextUnit
  <2>9. ASSUME NEW d \in Deps, StopUnit(d) \/ Load(d) \/ Die(d) \/ AutoRestart(d) \/ GiveUp(d)
        PROVE  RunsItsFile'
    BY <2>9 DEF StopUnit, Load, Die, AutoRestart, GiveUp, passVars
  <2>10. CASE AgentRestart
    BY <2>10 DEF AgentRestart, unitVars
  <2> QED
    BY <2>1, <2>2, <2>3, <2>4, <2>5, <2>6, <2>7, <2>8, <2>9, <2>10
    DEF Next, AgentStep, Environment, Report, Configure, SetApproval,
        EditNodeConfig, MaintenanceWindow, CardChanges, WeightsChange, Change, vars
<1> QED
  BY <1>1, <1>2, <1>3

(* Whatever dies between a file and its restart: a pass plans no two units *)
(* on one card, whatever the document says, and no conclusive egress       *)
(* verdict outlives the container it is about (Build, VerifyEgress).       *)
THEOREM PlansAndVerdictsHold == Spec => [](PlanApart /\ AssertedSinceStart)
<1>1. Init => PlanApart /\ AssertedSinceStart
  BY StartInit DEF StartInv
<1>2. PlanApart /\ AssertedSinceStart /\ [Next]_vars => (PlanApart /\ AssertedSinceStart)'
  BY AssertStep
<1> QED
  BY <1>1, <1>2, PTL DEF Spec

(* What the starts of a pass leave behind is sound, as long as a unit      *)
(* whose file has changed is restarted before the agent or systemctl       *)
(* fails: no two units that have what they need run on one card between    *)
(* passes, and no conclusive egress verdict outlives the container it is   *)
(* about.  The cards stay apart because Build checks them itself: nothing  *)
(* is assumed about the document.                                          *)
THEOREM StartsCorrect ==
  ASSUME Prompt
  PROVE  Spec => []StartsAreSound
<1>1. Init => StartInv
  BY StartInit
<1>2. StartInv /\ [Next]_vars => StartInv'
  BY StartStep
<1>3. StartInv => StartsAreSound
  <2> SUFFICES ASSUME StartInv PROVE StartsAreSound
    OBVIOUS
  <2>1. CardsHandedOver
    <3> SUFFICES ASSUME pc = "poll", NEW d \in Units, NEW e \in Units, Active(d), Active(e),
                        env[d] = EnvOf(plan.doc[d]), env[e] = EnvOf(plan.doc[e]),
                        runs[d].card = runs[e].card
                 PROVE  d = e
      BY DEF CardsHandedOver
    <3>1. runs[d] = env[d] /\ runs[e] = env[e]
      BY DEF StartInv, RunsItsFile, Units
    <3>2. plan.doc[d].card = plan.doc[e].card
      BY <3>1 DEF EnvOf
    <3> QED
      BY <3>2 DEF StartInv, PlanApart
  <2> QED
    BY <2>1 DEF StartInv, StartsAreSound
<1> QED
  BY <1>1, <1>2, <1>3, PTL DEF Spec

-----------------------------------------------------------------------------
(* What a pass stops.                                                      *)

(* During a pass the plan is Build's, of a document in which no two        *)
(* deployments claim a card.                                               *)
PlanIsBuilds ==
  /\ Apart(conf)
  /\ pc # "poll" => /\ Apart(plan.doc)
                    /\ plan.verdict = Judge(plan.doc, policy, plan.bus, plan.weights)

(* What has been active since the plan was made is a unit, or is active    *)
(* still when the out-of-policy deployments are looked for, and is then    *)
(* one of them; the stop loop spares those outside the window.             *)
SteadyIsFound ==
  /\ todo \subseteq Units
  /\ pc = "start" => todo # {}
  /\ pc \in {"unit", "start"} => \A d \in steady \ Units : Active(d)
  /\ pc \in {"list", "stop"} => \A d \in steady : plan.verdict[d] = "out" => d \in found
  /\ pc = "stop" => doomed \cap Wanted = {}

StopInv == Typed /\ PlanIsBuilds /\ SteadyIsFound

LEMMA StopInit == Init => StopInv
<1> SUFFICES ASSUME Init PROVE StopInv
  OBVIOUS
<1>1. Typed
  BY TypeInit, TypedIsTypeOK
<1>2. PlanIsBuilds
  BY DEF Init, PlanIsBuilds, Apart
<1>3. SteadyIsFound
  BY DEF Init, SteadyIsFound
<1> QED
  BY <1>1, <1>2, <1>3 DEF StopInv

(* The plan is made of rows that are apart, and nothing replaces it or the *)
(* agent's node.toml within a pass.                                        *)
LEMMA PlanIsBuildsStep ==
  ASSUME StopInv, [Next]_vars
  PROVE  PlanIsBuilds'
<1> USE DEF StopInv, PlanIsBuilds
<1>1. Apart(conf)'
  <2>1. CASE UNCHANGED conf
    BY <2>1 DEF Apart
  <2>2. ASSUME NEW d \in Deps, Configure(d) PROVE Apart(conf)'
    BY <2>2 DEF Configure, Apart
  <2> QED
    BY <2>1, <2>2 DEF Next, AgentStep, Environment, Report, SetApproval,
       EditNodeConfig, MaintenanceWindow, CardChanges, WeightsChange, Plan, AgentRestart,
       FindOutOfPolicy, List, Finish, Wait, WriteEnv, StartUnit, StartErrs, KeepUnit,
       StopUnit, StopErrs, Load, Die, AutoRestart, GiveUp, cpVars, vars
<1>2. CASE /\ UNCHANGED <<plan, policy>>
           /\ pc = "poll" => pc' = "poll"
  BY <1>1, <1>2 DEF Apart
<1>3. CASE Plan
  <2>1. \A d \in Deps : Document(seen)[d].in => conf[d].in /\ Document(seen)[d] = conf[d]
    <3>1. \A d \in Deps : ~[conf[d] EXCEPT !.in = FALSE].in
      BY DEF Typed, CPTyped, Conf
    <3> QED
      BY <3>1 DEF Document
  <2>2. Apart(Document(seen))
    BY <2>1 DEF Apart
  <2>3. /\ plan'.doc = Document(seen) /\ plan'.bus = bus /\ plan'.weights = weights
        /\ plan'.verdict = Judge(Document(seen), policy, bus, weights)
        /\ policy' = policy
    BY <1>3 DEF Plan
  <2> QED
    BY <1>1, <2>2, <2>3
<1>4. CASE pc' = "poll"
  BY <1>1, <1>4
<1> QED
  BY <1>2, <1>3, <1>4 DEF Next, AgentStep, Environment, Report, Configure, SetApproval,
     EditNodeConfig, MaintenanceWindow, CardChanges, WeightsChange, Change, AgentRestart,
     FindOutOfPolicy, List, Finish, Wait, WriteEnv, StartUnit, StartErrs, KeepUnit, NextUnit,
     StopUnit, StopErrs, Load, Die, AutoRestart, GiveUp, agentVars, passVars, vars

LEMMA SteadyIsFoundStep ==
  ASSUME StopInv, [Next]_vars
  PROVE  SteadyIsFound'
<1> USE DEF StopInv, Typed, UnitTyped, PassTyped, SteadyIsFound, Active, Units
<1>1. CASE UNCHANGED <<unitVars, passVars, plan>>
  BY <1>1 DEF unitVars, passVars, Wanted
<1>2. CASE Plan
  <2>1. /\ plan'.verdict = Judge(Document(seen), policy, bus, weights)
        /\ todo' = {d \in Deps : Judge(Document(seen), policy, bus, weights)[d] = "unit"}
        /\ steady' = {d \in Deps : Active(d)} /\ unit' = unit /\ pc' = "unit"
    BY <1>2 DEF Plan
  <2> QED
    BY <2>1
<1>3. CASE FindOutOfPolicy
  BY <1>3 DEF FindOutOfPolicy, unitVars, agentVars
<1>4. CASE List
  BY <1>4 DEF List, unitVars, agentVars, Wanted
<1>5. CASE Finish
  BY <1>5 DEF Finish
<1>6. CASE AgentRestart
  BY <1>6 DEF AgentRestart
<1>7. ASSUME NEW d \in Deps, Wait(d) PROVE SteadyIsFound'
  BY <1>7 DEF Wait, unitVars, agentVars
<1>8. ASSUME NEW d \in Deps, WriteEnv(d) PROVE SteadyIsFound'
  BY <1>8 DEF WriteEnv, agentVars
<1>9. ASSUME NEW d \in Deps, pc = "start", d = Min(todo),
             NextUnit(d), UNCHANGED <<plan, steady>>,
             \A e \in Deps \ {d} : unit'[e] = unit[e]
      PROVE  SteadyIsFound'
  <2>1. d \in Units
    BY <1>9, MinIsMember
  <2>2. \A e \in steady \ Units : unit'[e] = unit[e]
    BY <1>9, <2>1
  <2> QED
    BY <1>9, <2>2 DEF NextUnit
<1>10. ASSUME NEW d \in Deps, StartUnit(d) \/ StartErrs(d) \/ KeepUnit(d)
       PROVE  SteadyIsFound'
  BY <1>9, <1>10 DEF StartUnit, StartErrs, KeepUnit, agentVars
<1>11. ASSUME NEW d \in Deps, StopUnit(d) PROVE SteadyIsFound'
  BY <1>11 DEF StopUnit, agentVars, Wanted
<1>12. ASSUME NEW d \in Deps, StopErrs(d) PROVE SteadyIsFound'
  BY <1>12 DEF StopErrs, unitVars, agentVars, Wanted
<1>13. ASSUME NEW d \in Deps, Load(d) \/ Die(d) \/ AutoRestart(d) \/ GiveUp(d)
       PROVE  SteadyIsFound'
  BY <1>13 DEF Load, Die, AutoRestart, GiveUp, passVars, agentVars, Wanted
<1> QED
  BY <1>1, <1>2, <1>3, <1>4, <1>5, <1>6, <1>7, <1>8, <1>10, <1>11, <1>12, <1>13
  DEF Next, AgentStep, Environment, Report, Configure, SetApproval,
      EditNodeConfig, MaintenanceWindow, CardChanges, WeightsChange, Change, agentVars, vars

LEMMA StopStep ==
  ASSUME StopInv, [Next]_vars
  PROVE  StopInv'
BY TypeStep, PlanIsBuildsStep, SteadyIsFoundStep DEF StopInv

(* What the stop loop may take of a deployment that was serving: outside   *)
(* the window, only one the node could not run anyhow, or whose card its   *)
(* node.toml withholds.                                                    *)
StopsOnlyWithheld ==
  [][\A d \in Deps :
       Active(d) /\ unit'[d] = "inactive" /\ d \in steady /\ pc = "stop" =>
         \/ plan.open
         \/ Judge(plan.doc, Permissive, plan.bus, plan.weights)[d] # "unit"
         \/ plan.doc[d].card \notin policy.cards]_vars

LEMMA StopsStep ==
  ASSUME StopInv, [Next]_vars, NEW d \in Deps, Active(d), unit'[d] = "inactive",
         d \in steady, pc = "stop", ~plan.open,
         Judge(plan.doc, Permissive, plan.bus, plan.weights)[d] = "unit"
  PROVE  plan.doc[d].card \notin policy.cards
<1>1. StopUnit(d)
  <2>1. unit'[d] # unit[d]
    BY DEF Active
  <2>2. ASSUME NEW e \in Deps, StopUnit(e) PROVE e = d
    BY <2>1, <2>2 DEF StopUnit, StopInv, Typed, UnitTyped
  <2>3. ~\E e \in Deps : Load(e) \/ AutoRestart(e) \/ Die(e) \/ GiveUp(e)
    BY <2>1 DEF Load, AutoRestart, Die, GiveUp, StopInv, Typed, UnitTyped
  <2> QED
    BY <2>1, <2>2, <2>3 DEF Next, AgentStep, Environment, Report, Configure, SetApproval,
       EditNodeConfig, MaintenanceWindow, CardChanges, WeightsChange, Change, AgentRestart,
       Plan, FindOutOfPolicy, List, Finish, Wait, WriteEnv, StartUnit, StartErrs, KeepUnit,
       StopErrs, unitVars, vars
<1>2. plan.verdict[d] # "unit" /\ d \notin found
  BY <1>1 DEF StopUnit, StopInv, SteadyIsFound, Wanted, Units
<1>3. plan.verdict[d] # "out"
  BY <1>2 DEF StopInv, SteadyIsFound
<1> QED
  BY <1>2, <1>3, NarrowedIsOut DEF StopInv, PlanIsBuilds

(* What a pass may stop, whatever the operator narrows: the rows are apart *)
(* by the control plane's unique index, so a unit that was serving loses   *)
(* its place to a guardrail alone, and a guardrail spares it.              *)
THEOREM OnlyWithheldIsStopped == Spec => StopsOnlyWithheld
<1>1. Init => StopInv
  BY StopInit
<1>2. StopInv /\ [Next]_vars => StopInv'
  BY StopStep
<1> DEFINE Spares == \A d \in Deps :
       Active(d) /\ unit'[d] = "inactive" /\ d \in steady /\ pc = "stop" =>
         \/ plan.open
         \/ Judge(plan.doc, Permissive, plan.bus, plan.weights)[d] # "unit"
         \/ plan.doc[d].card \notin policy.cards
<1>3. StopInv /\ [Next]_vars => [Spares]_vars
  BY StopsStep
<1> HIDE DEF Spares
<1>4. Spec => [][Spares]_vars
  BY <1>1, <1>2, <1>3, PTL DEF Spec
<1> USE DEF Spares
<1> QED
  BY <1>4 DEF StopsOnlyWithheld

(* A guardrail narrowed under a serving deployment does not kill it, in    *)
(* any pass of any agent whose operator withholds no card: for a withheld  *)
(* card this is false, as OnlyWithheldIsStopped says.                      *)
THEOREM NarrowingSpares ==
  ASSUME \A p \in Policies : p.cards = Cards
  PROVE  Spec => NarrowingSparesServing
<1>1. Init => StopInv
  BY StopInit
<1>2. StopInv /\ [Next]_vars => StopInv'
  BY StopStep
<1> DEFINE Spares == \A d \in Deps :
       Active(d) /\ unit'[d] = "inactive" /\ d \in steady /\ pc = "stop" =>
         \/ plan.open
         \/ Judge(plan.doc, Permissive, plan.bus, plan.weights)[d] # "unit"
<1>3. StopInv /\ [Next]_vars => [Spares]_vars
  <2> SUFFICES ASSUME StopInv, [Next]_vars, NEW d \in Deps, Active(d), unit'[d] = "inactive",
                      d \in steady, pc = "stop", ~plan.open,
                      Judge(plan.doc, Permissive, plan.bus, plan.weights)[d] = "unit"
               PROVE  FALSE
    OBVIOUS
  <2>1. plan.doc[d].card \notin policy.cards
    BY StopsStep
  <2>2. plan.doc[d].card \in Cards
    BY DEF StopInv, Typed, AgentTyped, Plans, Conf
  <2>3. policy.cards = Cards
    BY DEF StopInv, Typed, AgentTyped
  <2> QED
    BY <2>1, <2>2, <2>3
<1> HIDE DEF Spares
<1>4. Spec => [][Spares]_vars
  BY <1>1, <1>2, <1>3, PTL DEF Spec
<1> USE DEF Spares
<1> QED
  BY <1>4 DEF NarrowingSparesServing

-----------------------------------------------------------------------------
(* Preparation and the agent's own upgrade.                                *)

(* A build's unit is at work on the card of its inputs, where the output   *)
(* is not portable.                                                        *)
Builds == [at : {"start", "run", "clear", "place", "mark", "record"}, card : GpuNames]
Arts == [scratch : GpuNames \cup {"", "part"}, out : GpuNames \cup {"", "part"},
         marker : BOOLEAN, progress : {"none", "preparing", "failed", "prepared"}]

(* What one set of inputs has come to: a marker stands beside a whole      *)
(* output of the right card; a build that is under way has no marker yet   *)
(* and no recorded failure, and moves what it built whole.                 *)
BuiltOn(k, c) == c \in GpuNames /\ (ArchSpecific => c = k.card)

BuildOK(k, a, b) ==
  /\ a.marker => BuiltOn(k, a.out)
  /\ b.at # "none" => a.progress # "failed" /\ BuiltOn(k, b.card)
  /\ b.at \in {"start", "run", "clear", "place", "mark"} => ~a.marker
  /\ b.at \in {"clear", "place"} => BuiltOn(k, a.scratch)
  /\ b.at \in {"mark", "record"} => BuiltOn(k, a.out)

PrepareInv ==
  /\ want \in Inputs
  /\ art \in [Inputs -> Arts]
  /\ bunit \in [Inputs -> Builds \cup {NoBuild}]
  /\ \A k \in Inputs : BuildOK(k, art[k], bunit[k])
  /\ shown = "prepared" => art[prepareKey(want)].marker

(* The inputs a deployment is prepared under are inputs.                   *)
LEMMA KeyOfInputs ==
  ASSUME NEW i \in Inputs
  PROVE  /\ prepareKey(i) \in Inputs
         /\ ArchSpecific => prepareKey(i) = i
<1>1. CASE ArchSpecific
  BY <1>1 DEF prepareKey
<1>2. CASE ~ArchSpecific
  <2>1. i.card \in GpuNames
    BY DEF Inputs
  <2>2. (CHOOSE c \in GpuNames : TRUE) \in GpuNames
    BY <2>1
  <2> QED
    BY <1>2, <2>2 DEF prepareKey, Inputs
<1> QED
  BY <1>1, <1>2

LEMMA PrepareStart == PrepareInit => PrepareInv
<1> SUFFICES ASSUME PrepareInit PROVE PrepareInv
  OBVIOUS
<1>1. NoArt \in Arts /\ NoBuild \in Builds \cup {NoBuild}
  BY DEF NoArt, Arts
<1>2. art \in [Inputs -> Arts] /\ bunit \in [Inputs -> Builds \cup {NoBuild}]
  BY <1>1 DEF PrepareInit
<1>3. \A k \in Inputs : BuildOK(k, NoArt, NoBuild)
  BY DEF BuildOK, NoArt, NoBuild
<1> QED
  BY <1>2, <1>3 DEF PrepareInit, PrepareInv

(* One write of a build leaves of one set of inputs what it should, and    *)
(* the others alone.                                                       *)
BuildMoves(k) ==
  /\ art' \in [Inputs -> Arts] /\ bunit' \in [Inputs -> Builds \cup {NoBuild}]
  /\ \A j \in Inputs \ {k} : art'[j] = art[j] /\ bunit'[j] = bunit[j]
  /\ BuildOK(k, art'[k], bunit'[k])
  /\ art[k].progress = "failed" => art'[k].progress = "failed"
  /\ art[k].marker => art'[k].marker
  /\ want' = want /\ shown' = shown

LEMMA BuildStep ==
  ASSUME PrepareInv, NEW k \in Inputs,
         RunPrepare(k) \/ BuildEnds(k) \/ ClearOut(k) \/ PlaceOut(k) \/ Mark(k)
           \/ RecordPrepared(k) \/ BuildDies(k)
  PROVE  BuildMoves(k)
<1> USE DEF PrepareInv, BuildMoves
<1>1. art[k] \in Arts /\ bunit[k] \in Builds \cup {NoBuild} /\ BuildOK(k, art[k], bunit[k])
  OBVIOUS
<1>2. CASE RunPrepare(k)
  BY <1>1, <1>2 DEF RunPrepare, Arts, Builds, NoBuild, BuildOK, BuiltOn
<1>3. CASE BuildEnds(k)
  <2>1. CASE /\ art' = [art EXCEPT ![k].scratch = bunit[k].card]
             /\ bunit' = [bunit EXCEPT ![k].at = "clear"]
    BY <1>1, <1>3, <2>1 DEF BuildEnds, Arts, Builds, NoBuild, BuildOK, BuiltOn
  <2>2. CASE /\ art' = [art EXCEPT ![k].scratch = "", ![k].progress = "failed"]
             /\ bunit' = [bunit EXCEPT ![k] = NoBuild]
    BY <1>1, <1>3, <2>2 DEF BuildEnds, Arts, Builds, NoBuild, BuildOK, BuiltOn
  <2> QED
    BY <1>3, <2>1, <2>2 DEF BuildEnds
<1>4. CASE ClearOut(k)
  BY <1>1, <1>4 DEF ClearOut, Arts, Builds, NoBuild, BuildOK, BuiltOn
<1>5. CASE PlaceOut(k)
  BY <1>1, <1>5 DEF PlaceOut, Arts, Builds, NoBuild, BuildOK, BuiltOn
<1>6. CASE Mark(k)
  BY <1>1, <1>6 DEF Mark, Arts, Builds, NoBuild, BuildOK, BuiltOn
<1>7. CASE RecordPrepared(k)
  BY <1>1, <1>7 DEF RecordPrepared, Arts, Builds, NoBuild, BuildOK, BuiltOn
<1>8. CASE BuildDies(k)
  BY <1>1, <1>8 DEF BuildDies, Arts, Builds, NoBuild, BuildOK, BuiltOn
<1> QED
  BY <1>2, <1>3, <1>4, <1>5, <1>6, <1>7, <1>8

(* A build's step and a pass's look leave the invariant, and a failure     *)
(* stays.                                                                  *)
LEMMA BuildsStep ==
  ASSUME PrepareInv, BuildNext
  PROVE  /\ PrepareInv'
         /\ \A j \in Inputs : art[j].progress = "failed" => art'[j].progress = "failed"
<1>1. ASSUME NEW k \in Inputs, BuildMoves(k)
      PROVE  /\ PrepareInv'
             /\ \A j \in Inputs : art[j].progress = "failed" => art'[j].progress = "failed"
  BY <1>1, KeyOfInputs DEF BuildMoves, PrepareInv
<1>2. ASSUME NEW i \in Inputs, ChangeInputs(i)
      PROVE  PrepareInv' /\ art' = art
  BY <1>2 DEF ChangeInputs, PrepareInv
<1>3. CASE planPrepare
  <2> DEFINE k == prepareKey(want)
  <2>1. k \in Inputs /\ (ArchSpecific => k = want) /\ want \in Inputs
    BY KeyOfInputs DEF PrepareInv
  <2>2. UNCHANGED <<want, art>>
    BY <1>3 DEF planPrepare
  <2>3. CASE UNCHANGED bunit /\ (shown' = "prepared" => art[k].marker)
    BY <2>1, <2>2, <2>3 DEF PrepareInv
  <2>4. CASE /\ PrepareStatus(k) = "start" /\ shown' = "preparing"
             /\ bunit' = [bunit EXCEPT ![k] = [at |-> "start", card |-> want.card]]
    <3>1. ~art[k].marker /\ art[k].progress # "failed"
      BY <2>4 DEF PrepareStatus
    <3> DEFINE b == [at |-> "start", card |-> want.card]
    <3>2. b \in Builds /\ BuildOK(k, art[k], b)
      BY <2>1, <3>1 DEF Builds, BuildOK, BuiltOn, Inputs, PrepareInv
    <3> HIDE DEF k
    <3>3. /\ bunit' \in [Inputs -> Builds \cup {NoBuild}]
          /\ bunit'[k] = b /\ \A j \in Inputs \ {k} : bunit'[j] = bunit[j]
      BY <2>1, <2>4, <3>2 DEF PrepareInv
    <3> QED
      BY <2>1, <2>2, <2>4, <3>2, <3>3 DEF PrepareInv
  <2> QED
    BY <1>3, <2>2, <2>3, <2>4 DEF planPrepare, PrepareStatus
<1> QED
  BY <1>1, <1>2, <1>3, BuildStep DEF BuildNext

(* The agent's own upgrade: the link and the process name binaries that    *)
(* are there, and a target is linked only when it is.                      *)
Targets == Versions \cup {""}
Counts == Int
UpSteps == {"idle", "fetch", "link", "restart"}
Upgrades == [bins : SUBSET Versions, link : Versions, runs : Versions,
             target : Targets, tried : Targets, at : UpSteps, faults : Counts]

LinkInv ==
  /\ up \in Upgrades
  /\ up.link \in up.bins /\ up.runs \in up.bins
  /\ up.at \in {"fetch", "link", "restart"} => up.target \in Versions
  /\ up.at = "link" => up.target \in up.bins
  /\ up.target \notin Versions => up.tried = up.target

LEMMA UpValues ==
  /\ "" \in Targets /\ Versions \subseteq Targets
  /\ "idle" \in UpSteps /\ "fetch" \in UpSteps /\ "link" \in UpSteps /\ "restart" \in UpSteps
BY DEF Targets, UpSteps

LEMMA CountUp == 0 \in Counts /\ \A n \in Counts : n + 1 \in Counts
BY DEF Counts

LEMMA UpStart ==
  ASSUME PrepareInit
  PROVE  LinkInv
<1>1. FirstVersion \in Versions /\ {FirstVersion} \in SUBSET Versions
  BY PrepareAssumption
<1>2. up = [bins |-> {FirstVersion}, link |-> FirstVersion, runs |-> FirstVersion, target |-> "",
            tried |-> "", at |-> "idle", faults |-> 0]
  BY DEF PrepareInit
<1>3. "" \in Targets /\ "idle" \in UpSteps /\ 0 \in Counts
  BY UpValues, CountUp
<1>4. up \in Upgrades
  BY <1>1, <1>2, <1>3 DEF Upgrades
<1> QED
  BY <1>2, <1>4 DEF LinkInv

LEMMA RestartedIs ==
  ASSUME LinkInv
  PROVE  /\ Restarted \in Upgrades
         /\ Restarted.link = up.link /\ Restarted.runs = up.link /\ Restarted.bins = up.bins
         /\ Restarted.at = "idle" /\ Restarted.target = Restarted.tried
<1>1. Restarted \in Upgrades
  BY UpValues DEF Restarted, LinkInv, Upgrades
<1> QED
  BY <1>1 DEF Restarted, LinkInv, Upgrades

LEMMA UpgradeStep ==
  ASSUME LinkInv, UpgradeNext
  PROVE  LinkInv' /\ UNCHANGED <<want, art, bunit, shown>>
<1> USE DEF LinkInv, Upgrades
<1>1. ASSUME NEW v \in Versions, SetTarget(v)
      PROVE  LinkInv' /\ UNCHANGED <<want, art, bunit, shown>>
  <2>1. v \in Targets
    BY UpValues
  <2> QED
    BY <1>1, <2>1 DEF SetTarget
<1>2. CASE BeginUpgrade
  BY <1>2, UpValues DEF BeginUpgrade, Targets
<1>3. CASE UpgradeFails
  <2>1. "idle" \in UpSteps
    BY UpValues
  <2>2. up' = [up EXCEPT !.at = "idle", !.tried = up.target, !.faults = @ + 1]
    BY <1>3 DEF UpgradeFails
  <2>3. up.faults + 1 \in Counts
    BY CountUp
  <2>4. up' \in Upgrades
    BY <2>1, <2>2, <2>3
  <2> QED
    BY <1>3, <2>4 DEF UpgradeFails
<1>4. CASE upgradeTo
  <2>1. up.target \in Versions
    BY <1>4 DEF upgradeTo
  <2>2. up.bins \cup {up.target} \in SUBSET Versions
    BY <2>1
  <2>3. up' \in Upgrades
    BY <1>4, <2>1, <2>2, UpValues DEF upgradeTo
  <2>4. /\ up'.runs = up.runs /\ up'.target = up.target /\ up'.tried = up.tried
        /\ up'.link \in up'.bins /\ up.bins \subseteq up'.bins
        /\ up'.at = "link" => up.target \in up'.bins
    <3>1. CASE /\ up.at = "fetch"
               /\ up' = [up EXCEPT !.at = "link", !.bins = @ \cup {up.target}]
      BY <3>1
    <3>2. CASE up.at = "link" /\ up' = [up EXCEPT !.at = "restart", !.link = up.target]
      BY <3>2
    <3> QED
      BY <1>4, <3>1, <3>2 DEF upgradeTo
  <2>5. UNCHANGED <<want, art, bunit, shown>>
    BY <1>4 DEF upgradeTo
  <2> HIDE DEF Upgrades
  <2> QED
    BY <2>1, <2>3, <2>4, <2>5
<1>5. CASE RestartAgent
  <2> HIDE DEF Upgrades
  <2>1. up' = Restarted /\ UNCHANGED <<want, art, bunit, shown>>
    BY <1>5 DEF RestartAgent
  <2>2. /\ up' \in Upgrades /\ up'.at = "idle" /\ up'.target = up'.tried
        /\ up'.link = up.link /\ up'.runs = up.link /\ up'.bins = up.bins
    BY <2>1, RestartedIs
  <2> QED
    BY <2>1, <2>2
<1>6. CASE AgentProcessDies
  <2> HIDE DEF Upgrades
  <2>1. /\ up' = [Restarted EXCEPT !.faults = @ + 1] /\ Restarted \in Upgrades
        /\ UNCHANGED <<want, art, bunit, shown>>
    BY <1>6, RestartedIs DEF AgentProcessDies
  <2>2. up' \in Upgrades
    BY <2>1, CountUp DEF Upgrades
  <2>3. /\ up'.link = Restarted.link /\ up'.runs = Restarted.runs /\ up'.bins = Restarted.bins
        /\ up'.at = Restarted.at /\ up'.target = Restarted.target /\ up'.tried = Restarted.tried
    BY <2>1 DEF Upgrades
  <2> QED
    BY <2>1, <2>2, <2>3, RestartedIs
<1> QED
  BY <1>1, <1>2, <1>3, <1>4, <1>5, <1>6 DEF UpgradeNext

MadeInv == PrepareInv /\ LinkInv

LEMMA MadeStep ==
  ASSUME MadeInv, [BuildNext \/ UpgradeNext]_prepareVars
  PROVE  /\ MadeInv'
         /\ \A k \in Inputs : art[k].progress = "failed" => art'[k].progress = "failed"
<1>1. CASE BuildNext
  <2>1. up' = up
    BY <1>1 DEF BuildNext, planPrepare, ChangeInputs, RunPrepare, BuildEnds, ClearOut,
       PlaceOut, Mark, RecordPrepared, BuildDies
  <2> QED
    BY <1>1, <2>1, BuildsStep DEF MadeInv, LinkInv
<1>2. CASE UpgradeNext
  BY <1>2, UpgradeStep DEF MadeInv, PrepareInv
<1>3. CASE UNCHANGED prepareVars
  BY <1>3 DEF MadeInv, PrepareInv, LinkInv, prepareVars
<1> QED
  BY <1>1, <1>2, <1>3

(* What a node makes for itself can be run (the run's MadeIsRunnable): an  *)
(* engine is served only whole and on its card, a failed build is not run  *)
(* again, and the agent is started from a verified binary, wherever a      *)
(* build, the agent or its upgrade died (RunPrepare, Status, upgradeTo).   *)
THEOREM MadeCanRun == PrepareSpec => MadeIsRunnable
<1>1. PrepareInit => MadeInv
  <2> SUFFICES ASSUME PrepareInit PROVE LinkInv
    BY PrepareStart DEF MadeInv
  <2> QED BY UpStart
<1>2. MadeInv /\ [BuildNext \/ UpgradeNext]_prepareVars => MadeInv'
  BY MadeStep
<1>3. PrepareSpec => []MadeInv
  BY <1>1, <1>2, PTL DEF PrepareSpec
<1>4. MadeInv => EngineFits /\ LinkRunnable
  <2> SUFFICES ASSUME MadeInv PROVE EngineFits /\ LinkRunnable
    OBVIOUS
  <2>1. \A k \in Inputs : art[k].marker => BuiltOn(k, art[k].out)
    BY DEF MadeInv, PrepareInv, BuildOK
  <2>2. EngineFits
    BY <2>1, KeyOfInputs DEF EngineFits, MadeInv, PrepareInv, BuiltOn
  <2> QED
    BY <2>2 DEF LinkRunnable, MadeInv, LinkInv
<1> DEFINE Stays == \A k \in Inputs : art[k].progress = "failed" => art'[k].progress = "failed"
<1>5. MadeInv /\ [BuildNext \/ UpgradeNext]_prepareVars => [Stays]_prepareVars
  BY MadeStep
<1> HIDE DEF Stays
<1>6. PrepareSpec => [][Stays]_prepareVars
  BY <1>3, <1>5, PTL DEF PrepareSpec
<1> USE DEF Stays
<1>7. PrepareSpec => FailedStays
  BY <1>6 DEF FailedStays
<1>8. PrepareSpec => []EngineFits /\ []LinkRunnable
  BY <1>3, <1>4, PTL
<1> QED
  BY <1>7, <1>8 DEF MadeIsRunnable

-----------------------------------------------------------------------------
(* Staging.                                                                *)

Contents == [WFiles -> FileStates]
Dirs == [there : BOOLEAN, files : Contents, ver : Int]
Progresses == {"none", "staging", "verifying"} \cup Terminal
Disks == [dir : Dirs, tmp : Dirs, progress : Progresses]
UnitsAt == {"none", "start", "files", "fetching", "place", "record"}
StageUnits == [at : UnitsAt, done : SUBSET WFiles, ver : Int]
PassesAt == {"poll", "stop", "rmdir", "rmtmp", "rmprogress", "status"}
Passes == [at : PassesAt, reset : Nat, wanted : BOOLEAN, ver : Int]
Rows == {"none", "absent", "staging", "verifying"} \cup Terminal
Lasts == [state : Rows, done : BOOLEAN]
Planes == [ver : Int, deployed : BOOLEAN, reset : Nat, row : Rows]
Useds == [resets : Nat, deaths : Nat, harm : Nat]

LEMMA StageValues ==
  /\ \A s \in {"none", "part", "bad", "good"} : s \in FileStates
  /\ \A s \in {"none", "staging", "verifying", "staged", "corrupt"} : s \in Progresses /\ s \in Rows
  /\ \A s \in {"none", "start", "files", "fetching", "place", "record"} : s \in UnitsAt
  /\ \A s \in {"poll", "stop", "rmdir", "rmtmp", "rmprogress", "status"} : s \in PassesAt
BY DEF FileStates, Progresses, Terminal, Rows, UnitsAt, PassesAt

LEMMA Blank ==
  /\ NoDir \in Dirs /\ ~NoDir.there /\ NoDir.ver = 0 /\ \A f \in WFiles : NoDir.files[f] = "none"
  /\ NoUnit \in StageUnits /\ NoUnit.at = "none" /\ NoUnit.done = {}
  /\ NoPass \in Passes /\ NoPass.at = "poll"
  /\ NoLast \in Lasts /\ NoLast.state = "none" /\ ~NoLast.done
<1>1. NoFiles \in Contents /\ \A f \in WFiles : NoFiles[f] = "none"
  BY StageValues DEF NoFiles, Contents
<1>2. NoDir \in Dirs /\ ~NoDir.there /\ NoDir.ver = 0 /\ \A f \in WFiles : NoDir.files[f] = "none"
  BY <1>1 DEF NoDir, Dirs
<1>3. "none" \in UnitsAt /\ "poll" \in PassesAt /\ "none" \in Rows
  BY StageValues
<1>4. NoUnit \in StageUnits /\ NoUnit.at = "none" /\ NoUnit.done = {}
  BY <1>3 DEF NoUnit, StageUnits
<1>5. NoPass \in Passes /\ NoPass.at = "poll"
  BY <1>3 DEF NoPass, Passes
<1>6. NoLast \in Lasts /\ NoLast.state = "none" /\ ~NoLast.done
  BY <1>3 DEF NoLast, Lasts
<1> QED
  BY <1>2, <1>4, <1>5, <1>6

-----------------------------------------------------------------------------
StageTyped ==
  /\ disk \in Disks /\ sunit \in StageUnits /\ pass \in Passes
  /\ last \in Lasts /\ plane \in Planes /\ sused \in Useds

ResetOK ==
  /\ pass.at \in {"rmdir", "rmtmp", "rmprogress"} => sunit.at = "none"
  /\ pass.at \in {"rmtmp", "rmprogress"} => ~disk.dir.there
  /\ pass.at = "rmprogress" => ~disk.tmp.there
  /\ pass.at = "status" /\ pass.reset > 0 =>
       sunit.at = "none" /\ ~disk.dir.there /\ disk.progress = "none"

FirstManifest ==
  plane.ver = 1 /\ (pass.at # "poll" => pass.ver = 1) /\ (sunit.at # "none" => sunit.ver = 1)

DownloadOK ==
  /\ \A f \in WFiles : /\ disk.tmp.files[f] # "bad"
                       /\ disk.tmp.files[f] = "good" => disk.tmp.ver = 1
  /\ sunit.at = "start" => sunit.done = {}
  /\ sunit.at \in {"files", "fetching", "place"} => disk.tmp.ver = 1
  /\ sunit.at \in {"files", "place"} => \A f \in sunit.done : disk.tmp.files[f] = "good"
  /\ sunit.at = "fetching" =>
       \E g \in sunit.done : /\ disk.tmp.files[g] = "part"
                             /\ \A f \in sunit.done \ {g} : disk.tmp.files[f] = "good"
  /\ sunit.at = "place" => sunit.done = WFiles

DirOK ==
  /\ disk.dir.there => disk.dir.ver = 1 /\ \A f \in WFiles : disk.dir.files[f] \in {"good", "none"}
  /\ sunit.at \in {"start", "files", "fetching", "place"} /\ disk.dir.there => HalfRemoved

VerdictOK ==
  /\ last.done => ~HalfRemoved /\ disk.progress # "corrupt"
  /\ pass.at \in {"stop", "rmdir", "rmtmp", "rmprogress"} => last.done \/ plane.reset > 0
  /\ disk.progress = "corrupt" /\ ~HalfRemoved => plane.reset > 0 /\ pass.at # "status"

UnharmedOK == FirstManifest /\ DownloadOK /\ DirOK /\ VerdictOK

StageInv == StageTyped /\ ResetOK /\ (sused.harm = 0 => UnharmedOK)

LEMMA StageStart == StagingInit => StageInv
<1> SUFFICES ASSUME StagingInit PROVE StageInv
  OBVIOUS
<1>1. "none" \in Progresses /\ "absent" \in Rows
  BY DEF Progresses, Rows
<1>2. disk \in Disks /\ disk.dir = NoDir /\ disk.tmp = NoDir /\ disk.progress = "none"
  BY <1>1, Blank DEF StagingInit, Disks
<1>3. plane \in Planes /\ plane.ver = 1
  BY <1>1 DEF StagingInit, Planes
<1>4. sused \in Useds
  BY DEF StagingInit, Useds
<1>5. StageTyped
  BY <1>2, <1>3, <1>4, Blank DEF StagingInit, StageTyped
<1> QED
  BY <1>2, <1>3, <1>5, Blank DEF StagingInit, StageInv, ResetOK, UnharmedOK, FirstManifest, DownloadOK,
     DirOK, VerdictOK, HalfRemoved

LEMMA HarmDone ==
  ASSUME StageInv, Harm
  PROVE  sused' \in Useds /\ sused'.harm # 0
<1>1. sused \in Useds /\ sused' = [sused EXCEPT !.harm = @ + 1]
  BY DEF StageInv, StageTyped, Harm
<1>2. sused' \in Useds /\ sused'.harm = sused.harm + 1 /\ sused.harm \in Nat
  BY <1>1 DEF Useds
<1> QED
  BY <1>2

LEMMA DeathDone ==
  ASSUME StageInv, Death
  PROVE  sused' \in Useds /\ sused'.harm = sused.harm
BY DEF StageInv, StageTyped, Death, Useds

-----------------------------------------------------------------------------
LEMMA ProgressSet ==
  ASSUME disk \in Disks, NEW p \in Progresses, SetProgress(p)
  PROVE  disk' \in Disks /\ disk'.dir = disk.dir /\ disk'.tmp = disk.tmp /\ disk'.progress = p
BY DEF SetProgress, Disks

LEMMA CorruptIs ==
  ASSUME disk \in Disks, Corrupt
  PROVE  /\ disk' \in Disks /\ disk'.dir = disk.dir /\ disk'.tmp = disk.tmp
         /\ disk'.progress = "corrupt" /\ sunit' = NoUnit
<1>1. "corrupt" \in Progresses
  BY StageValues
<1> QED
  BY <1>1, ProgressSet DEF Corrupt

LEMMA RunStep ==
  ASSUME StageInv, RunStaging
  PROVE  StageInv'
<1> USE DEF StageInv, StageTyped
<1>1. CASE Harm /\ Corrupt
  <2>1. disk' \in Disks /\ disk'.dir = disk.dir /\ disk'.tmp = disk.tmp /\ sunit' = NoUnit
    BY <1>1, CorruptIs
  <2>2. ResetOK' /\ StageTyped'
    BY <1>1, <2>1, HarmDone, Blank DEF RunStaging, ResetOK
  <2> QED
    BY <1>1, <2>2, HarmDone
<1>2. CASE /\ disk' = [disk EXCEPT !.progress = "staging", !.tmp = Against(sunit.ver)]
           /\ sunit' = [sunit EXCEPT !.at = "files"] /\ UNCHANGED sused
  <2> DEFINE d == Against(sunit.ver)
  <2>1. /\ disk.tmp \in Dirs /\ disk.tmp.files \in Contents /\ sunit.ver \in Int
    BY DEF Disks, Dirs, StageUnits
  <2>2. /\ d \in Dirs /\ d.ver = sunit.ver
        /\ \A f \in WFiles : d.files[f] = IF disk.tmp.ver # sunit.ver /\ disk.tmp.files[f] = "good"
                                          THEN "bad" ELSE disk.tmp.files[f]
    BY <2>1, StageValues DEF Against, Dirs, Contents
  <2> HIDE DEF d
  <2>3. /\ disk' \in Disks /\ disk'.dir = disk.dir /\ disk'.tmp = d /\ disk'.progress = "staging"
    <3>1. disk' = [disk EXCEPT !.progress = "staging", !.tmp = d]
      BY <1>2 DEF d
    <3>2. "staging" \in Progresses
      BY StageValues
    <3> QED
      BY <2>2, <3>1, <3>2 DEF Disks
  <2>4. /\ sunit' \in StageUnits /\ sunit'.at = "files" /\ sunit'.done = sunit.done
        /\ sunit'.ver = sunit.ver
    <3>1. "files" \in UnitsAt
      BY StageValues
    <3> QED
      BY <1>2, <3>1 DEF StageUnits
  <2>5. UNCHANGED <<pass, last, plane, sused>> /\ sunit.at = "start"
    BY <1>2 DEF RunStaging
  <2>6. StageTyped' /\ ResetOK'
    BY <2>3, <2>4, <2>5 DEF ResetOK
  <2>7. UnharmedOK => UnharmedOK'
    BY <2>2, <2>3, <2>4, <2>5 DEF UnharmedOK, FirstManifest, DownloadOK, DirOK, VerdictOK, HalfRemoved
  <2> QED
    BY <2>5, <2>6, <2>7
<1> QED
  BY <1>1, <1>2 DEF RunStaging

LEMMA TakeStep ==
  ASSUME StageInv, NEW f \in WFiles, TakeFile(f)
  PROVE  StageInv'
<1>1. /\ disk \in Disks /\ disk.tmp \in Dirs /\ disk.tmp.files \in Contents
      /\ sunit \in StageUnits /\ sunit.done \in SUBSET WFiles
  BY DEF StageInv, StageTyped, Disks, Dirs, StageUnits
<1>2. UNCHANGED <<pass, last, plane, sused>> /\ sunit.at = "files" /\ f \notin sunit.done
  BY DEF TakeFile
<1>3. sunit.done \cup {f} \in SUBSET WFiles /\ "fetching" \in UnitsAt /\ "part" \in FileStates
  BY <1>1, StageValues
<1>4. CASE matchingSize(f)
  <2>1. "staging" \in Progresses
    BY StageValues
  <2>2. /\ disk' \in Disks /\ disk'.dir = disk.dir /\ disk'.tmp = disk.tmp
        /\ disk'.progress = "staging"
    BY <1>1, <1>4, <2>1, ProgressSet DEF TakeFile
  <2>3. sunit' = [sunit EXCEPT !.done = @ \cup {f}]
    BY <1>4 DEF TakeFile
  <2>4. /\ sunit' \in StageUnits /\ sunit'.at = "files" /\ sunit'.ver = sunit.ver
        /\ sunit'.done = sunit.done \cup {f}
    BY <1>1, <1>2, <1>3, <2>3 DEF StageUnits
  <2>5. StageTyped' /\ ResetOK'
    BY <1>2, <2>2, <2>4 DEF StageInv, StageTyped, ResetOK
  <2>6. UnharmedOK => UnharmedOK'
    BY <1>2, <1>4, <2>2, <2>4 DEF UnharmedOK, FirstManifest, DownloadOK, DirOK, VerdictOK, HalfRemoved,
       matchingSize
  <2> QED
    BY <1>2, <2>5, <2>6 DEF StageInv
<1>5. CASE ~matchingSize(f)
  <2>1. /\ disk' = [disk EXCEPT !.tmp.files[f] = "part"]
        /\ sunit' = [sunit EXCEPT !.at = "fetching", !.done = @ \cup {f}]
    BY <1>5 DEF TakeFile
  <2>2. /\ sunit' \in StageUnits /\ sunit'.at = "fetching" /\ sunit'.ver = sunit.ver
        /\ sunit'.done = sunit.done \cup {f}
    BY <1>1, <1>3, <2>1 DEF StageUnits
  <2>3. /\ disk' \in Disks /\ disk'.dir = disk.dir /\ disk'.progress = disk.progress
        /\ disk'.tmp = [disk.tmp EXCEPT !.files[f] = "part"]
    <3>1. [disk.tmp EXCEPT !.files[f] = "part"] \in Dirs
      BY <1>1, <1>3 DEF Dirs, Contents
    <3> QED
      BY <1>1, <2>1, <3>1 DEF Disks
  <2>4. /\ disk'.tmp.ver = disk.tmp.ver /\ disk'.tmp.there = disk.tmp.there
        /\ disk'.tmp.files[f] = "part"
        /\ \A g \in WFiles \ {f} : disk'.tmp.files[g] = disk.tmp.files[g]
    BY <1>1, <2>3 DEF Dirs, Contents
  <2>5. StageTyped' /\ ResetOK'
    BY <1>2, <2>2, <2>3, <2>4 DEF StageInv, StageTyped, ResetOK
  <2>6. UnharmedOK => DownloadOK'
    BY <1>1, <1>2, <2>2, <2>4 DEF UnharmedOK, DownloadOK
  <2>7. UnharmedOK => FirstManifest' /\ DirOK' /\ VerdictOK'
    BY <1>2, <2>2, <2>3 DEF UnharmedOK, FirstManifest, DirOK, VerdictOK, HalfRemoved
  <2> QED
    BY <1>2, <2>5, <2>6, <2>7 DEF StageInv, UnharmedOK
<1> QED
  BY <1>4, <1>5

LEMMA FetchStep ==
  ASSUME StageInv, NEW f \in WFiles, fetch(f)
  PROVE  StageInv'
<1>1. /\ disk \in Disks /\ disk.tmp \in Dirs /\ disk.tmp.files \in Contents
      /\ sunit \in StageUnits
  BY DEF StageInv, StageTyped, Disks, Dirs
<1>2. /\ UNCHANGED <<pass, last, plane>> /\ sunit.at = "fetching" /\ f \in sunit.done
      /\ disk.tmp.files[f] = "part"
  BY DEF fetch
<1>3. /\ "files" \in UnitsAt /\ "staging" \in Progresses /\ "corrupt" \in Progresses
      /\ "good" \in FileStates /\ {"part", "bad"} \subseteq FileStates
  BY StageValues
<1>4. ASSUME NEW got \in FileStates, NEW p \in Progresses,
             disk' = [disk EXCEPT !.tmp.files[f] = got, !.progress = p]
      PROVE  /\ disk' \in Disks /\ disk'.dir = disk.dir /\ disk'.progress = p
             /\ disk'.tmp.ver = disk.tmp.ver /\ disk'.tmp.there = disk.tmp.there
             /\ disk'.tmp.files[f] = got
             /\ \A g \in WFiles \ {f} : disk'.tmp.files[g] = disk.tmp.files[g]
  <2>1. [disk.tmp EXCEPT !.files[f] = got] \in Dirs
    BY <1>1 DEF Dirs, Contents
  <2>2. /\ disk' \in Disks /\ disk'.dir = disk.dir /\ disk'.progress = p
        /\ disk'.tmp = [disk.tmp EXCEPT !.files[f] = got]
    BY <1>1, <1>4, <2>1 DEF Disks
  <2> QED
    BY <1>1, <2>2 DEF Dirs, Contents
<1>5. CASE /\ disk' = [disk EXCEPT !.tmp.files[f] = "good", !.progress = "staging"]
           /\ sunit' = [sunit EXCEPT !.at = "files"] /\ UNCHANGED sused
  <2>1. /\ disk' \in Disks /\ disk'.dir = disk.dir /\ disk'.progress = "staging"
        /\ disk'.tmp.ver = disk.tmp.ver /\ disk'.tmp.there = disk.tmp.there
        /\ disk'.tmp.files[f] = "good"
        /\ \A g \in WFiles \ {f} : disk'.tmp.files[g] = disk.tmp.files[g]
    BY <1>3, <1>4, <1>5
  <2>2. /\ sunit' \in StageUnits /\ sunit'.at = "files" /\ sunit'.done = sunit.done
        /\ sunit'.ver = sunit.ver
    BY <1>1, <1>3, <1>5 DEF StageUnits
  <2>3. StageTyped' /\ ResetOK'
    BY <1>2, <1>5, <2>1, <2>2 DEF StageInv, StageTyped, ResetOK
  <2>4. sunit.done \in SUBSET WFiles
    BY <1>1 DEF StageUnits
  <2>5. UnharmedOK => DownloadOK'
    BY <1>2, <2>1, <2>2, <2>4 DEF UnharmedOK, DownloadOK
  <2>6. UnharmedOK => FirstManifest' /\ DirOK' /\ VerdictOK'
    BY <1>2, <2>1, <2>2 DEF UnharmedOK, FirstManifest, DirOK, VerdictOK, HalfRemoved
  <2> QED
    BY <1>5, <2>3, <2>5, <2>6 DEF StageInv, UnharmedOK
<1>6. CASE /\ Harm /\ sunit' = NoUnit
           /\ \E got \in {"part", "bad"} :
                disk' = [disk EXCEPT !.tmp.files[f] = got, !.progress = "corrupt"]
  <2>1. disk' \in Disks /\ disk'.dir = disk.dir /\ disk'.tmp.there = disk.tmp.there
    BY <1>3, <1>4, <1>6
  <2> QED
    BY <1>2, <1>6, <2>1, HarmDone, Blank DEF StageInv, StageTyped, ResetOK
<1> QED
  BY <1>5, <1>6 DEF fetch

LEMMA PlaceStep ==
  ASSUME StageInv, Verifying \/ Place \/ RecordStaged \/ UnitDies
  PROVE  StageInv'
<1>1. /\ disk \in Disks /\ disk.tmp \in Dirs /\ disk.dir \in Dirs /\ sunit \in StageUnits
  BY DEF StageInv, StageTyped, Disks
<1>2. UNCHANGED <<pass, last, plane>>
  BY DEF Verifying, Place, RecordStaged, UnitDies
<1>3. "verifying" \in Progresses /\ "staged" \in Progresses /\ "place" \in UnitsAt /\ "record" \in UnitsAt
  BY StageValues
<1>4. CASE Verifying
  <2>1. /\ disk' \in Disks /\ disk'.dir = disk.dir /\ disk'.tmp = disk.tmp
        /\ disk'.progress = "verifying"
    BY <1>1, <1>3, <1>4, ProgressSet DEF Verifying
  <2>2. /\ sunit' \in StageUnits /\ sunit'.at = "place" /\ sunit'.done = sunit.done
        /\ sunit'.ver = sunit.ver
    BY <1>1, <1>3, <1>4 DEF Verifying, StageUnits
  <2>3. sunit.at = "files" /\ sunit.done = WFiles /\ sused' = sused
    BY <1>4 DEF Verifying
  <2>4. StageTyped' /\ ResetOK'
    BY <1>2, <2>1, <2>2, <2>3 DEF StageInv, StageTyped, ResetOK
  <2>5. UnharmedOK => UnharmedOK'
    BY <1>2, <2>1, <2>2, <2>3 DEF UnharmedOK, FirstManifest, DownloadOK, DirOK, VerdictOK, HalfRemoved
  <2> QED
    BY <2>3, <2>4, <2>5 DEF StageInv
<1>5. CASE Place
  <2>1. sunit.at = "place" /\ sused' = sused
    BY <1>5 DEF Place
  <2>2. CASE disk.dir.there
    <3>1. /\ disk' \in Disks /\ disk'.dir = disk.dir /\ disk'.tmp = disk.tmp
          /\ disk'.progress = "corrupt" /\ sunit' = NoUnit
      BY <1>1, <1>5, <2>2, CorruptIs DEF Place
    <3>2. StageTyped' /\ ResetOK'
      BY <1>2, <2>1, <2>2, <3>1, Blank DEF StageInv, StageTyped, ResetOK
    <3>3. UnharmedOK => UnharmedOK'
      BY <1>2, <2>1, <2>2, <3>1, Blank DEF UnharmedOK, FirstManifest, DownloadOK, DirOK, VerdictOK, HalfRemoved
    <3> QED
      BY <2>1, <3>2, <3>3 DEF StageInv
  <2>3. CASE ~disk.dir.there
    <3>1. /\ disk' = [disk EXCEPT !.dir = disk.tmp, !.tmp = NoDir]
          /\ sunit' = [sunit EXCEPT !.at = "record"]
      BY <1>5, <2>3 DEF Place
    <3>2. /\ disk' \in Disks /\ disk'.dir = disk.tmp /\ disk'.tmp = NoDir
          /\ disk'.progress = disk.progress
      BY <1>1, <3>1, Blank DEF Disks
    <3>3. sunit' \in StageUnits /\ sunit'.at = "record" /\ sunit'.ver = sunit.ver
      BY <1>1, <1>3, <3>1 DEF StageUnits
    <3>4. pass.at \notin {"rmdir", "rmtmp", "rmprogress"} /\ ~(pass.at = "status" /\ pass.reset > 0)
      BY <2>1 DEF StageInv, ResetOK
    <3>5. StageTyped' /\ ResetOK'
      BY <1>2, <2>1, <3>2, <3>3, <3>4 DEF StageInv, StageTyped, ResetOK
    <3>6. UnharmedOK => FirstManifest' /\ DownloadOK'
      BY <1>2, <2>1, <3>2, <3>3, Blank DEF UnharmedOK, FirstManifest, DownloadOK
    <3>7. UnharmedOK => disk.tmp.ver = 1 /\ \A f \in WFiles : disk.tmp.files[f] = "good"
      BY <2>1 DEF UnharmedOK, DownloadOK
    <3>8. UnharmedOK => DirOK'
      BY <3>2, <3>3, <3>7 DEF DirOK
    <3>9. UnharmedOK => VerdictOK'
      BY <1>2, <2>3, <3>2, <3>7 DEF UnharmedOK, VerdictOK, HalfRemoved
    <3> QED
      BY <2>1, <3>5, <3>6, <3>8, <3>9 DEF StageInv, UnharmedOK
  <2> QED
    BY <2>2, <2>3
<1>6. CASE RecordStaged
  <2>1. /\ disk' \in Disks /\ disk'.dir = disk.dir /\ disk'.tmp = disk.tmp
        /\ disk'.progress = "staged" /\ sunit' = NoUnit /\ sused' = sused /\ sunit.at = "record"
    BY <1>1, <1>3, <1>6, ProgressSet DEF RecordStaged
  <2>2. StageTyped' /\ ResetOK'
    BY <1>2, <2>1, Blank DEF StageInv, StageTyped, ResetOK
  <2>3. UnharmedOK => UnharmedOK'
    BY <1>2, <2>1, Blank DEF UnharmedOK, FirstManifest, DownloadOK, DirOK, VerdictOK, HalfRemoved
  <2> QED
    BY <2>1, <2>2, <2>3 DEF StageInv
<1>7. CASE UnitDies
  <2>1. sunit' = NoUnit /\ disk' = disk /\ sused' \in Useds /\ sused'.harm = sused.harm
    BY <1>7, DeathDone DEF UnitDies
  <2>2. StageTyped' /\ ResetOK'
    BY <1>2, <2>1, Blank DEF StageInv, StageTyped, ResetOK
  <2>3. UnharmedOK => UnharmedOK'
    BY <1>2, <2>1, Blank DEF UnharmedOK, FirstManifest, DownloadOK, DirOK, VerdictOK, HalfRemoved
  <2> QED
    BY <2>1, <2>2, <2>3 DEF StageInv
<1> QED
  BY <1>4, <1>5, <1>6, <1>7

LEMMA ResetStep ==
  ASSUME StageInv,
         PollDesired \/ ResetStops \/ ResetRemovesDir \/ ResetRemovesTmp \/ ResetRemovesVerdict
  PROVE  StageInv'
<1>1. /\ disk \in Disks /\ disk.dir \in Dirs /\ disk.dir.files \in Contents
      /\ pass \in Passes /\ plane \in Planes
  BY DEF StageInv, StageTyped, Disks, Dirs
<1>2. {"stop", "rmdir", "rmtmp", "rmprogress", "status"} \subseteq PassesAt
      /\ "none" \in Progresses /\ "none" \in FileStates
  BY StageValues
<1>3. CASE PollDesired
  <2>1. /\ UNCHANGED <<disk, sunit, last, plane, sused>> /\ pass.at = "poll"
        /\ pass' = [at |-> IF plane.reset > 0 THEN "stop" ELSE "status", reset |-> plane.reset,
                    wanted |-> plane.deployed, ver |-> plane.ver]
    BY <1>3 DEF PollDesired
  <2>2. plane.reset \in Nat /\ plane.deployed \in BOOLEAN /\ plane.ver \in Int
    BY <1>1 DEF Planes
  <2>3. /\ pass'.at = IF plane.reset > 0 THEN "stop" ELSE "status"
        /\ pass'.reset = plane.reset /\ pass'.ver = plane.ver
    BY <2>1
  <2>4. pass' \in Passes
    <3>1. (IF plane.reset > 0 THEN "stop" ELSE "status") \in PassesAt
      BY <1>2
    <3> QED
      BY <2>1, <2>2, <3>1 DEF Passes
  <2>5. StageTyped' /\ ResetOK'
    BY <2>1, <2>3, <2>4 DEF StageInv, StageTyped, ResetOK
  <2>6. UnharmedOK => UnharmedOK'
    BY <2>1, <2>3 DEF UnharmedOK, FirstManifest, DownloadOK, DirOK, VerdictOK, HalfRemoved
  <2> QED
    BY <2>1, <2>5, <2>6 DEF StageInv
<1>4. CASE ResetStops
  <2>1. UNCHANGED <<disk, last, plane, sused>> /\ pass.at = "stop" /\ sunit' = NoUnit
    BY <1>4 DEF ResetStops
  <2>2. pass' \in Passes /\ pass'.at = "rmdir" /\ pass'.reset = pass.reset /\ pass'.ver = pass.ver
    BY <1>1, <1>2, <1>4 DEF ResetStops, Passes
  <2>3. StageTyped' /\ ResetOK'
    BY <2>1, <2>2, Blank DEF StageInv, StageTyped, ResetOK
  <2>4. UnharmedOK => UnharmedOK'
    BY <2>1, <2>2, Blank DEF UnharmedOK, FirstManifest, DownloadOK, DirOK, VerdictOK, HalfRemoved
  <2> QED
    BY <2>1, <2>3, <2>4 DEF StageInv
<1>5. CASE ResetRemovesDir
  <2>1. UNCHANGED <<sunit, plane>> /\ pass.at = "rmdir" /\ sunit.at = "none"
    BY <1>5 DEF ResetRemovesDir, StageInv, ResetOK
  <2>2. CASE /\ disk' = [disk EXCEPT !.dir = NoDir] /\ pass' = [pass EXCEPT !.at = "rmtmp"]
             /\ UNCHANGED <<last, sused>>
    <3>1. /\ disk' \in Disks /\ disk'.dir = NoDir /\ disk'.tmp = disk.tmp
          /\ disk'.progress = disk.progress
      BY <1>1, <2>2, Blank DEF Disks
    <3>2. pass' \in Passes /\ pass'.at = "rmtmp" /\ pass'.ver = pass.ver
      BY <1>1, <1>2, <2>2 DEF Passes
    <3>3. StageTyped' /\ ResetOK'
      BY <2>1, <2>2, <3>1, <3>2, Blank DEF StageInv, StageTyped, ResetOK
    <3>4. UnharmedOK => UnharmedOK'
      BY <2>1, <2>2, <3>1, <3>2, Blank
         DEF UnharmedOK, FirstManifest, DownloadOK, DirOK, VerdictOK, HalfRemoved
    <3> QED
      BY <2>2, <3>3, <3>4 DEF StageInv
  <2>3. ASSUME Death, disk.dir.there, pass' = NoPass, last' = NoLast,
               NEW f \in WFiles, disk' = [disk EXCEPT !.dir.files[f] = "none"]
        PROVE  StageInv'
    <3>1. [disk.dir EXCEPT !.files[f] = "none"] \in Dirs
      BY <1>1, <1>2 DEF Dirs, Contents
    <3>2. /\ disk' \in Disks /\ disk'.tmp = disk.tmp /\ disk'.progress = disk.progress
          /\ disk'.dir = [disk.dir EXCEPT !.files[f] = "none"]
      BY <1>1, <2>3, <3>1 DEF Disks
    <3>3. /\ disk'.dir.there /\ disk'.dir.ver = disk.dir.ver /\ disk'.dir.files[f] = "none"
          /\ \A g \in WFiles \ {f} : disk'.dir.files[g] = disk.dir.files[g]
      BY <1>1, <2>3, <3>2 DEF Dirs, Contents
    <3>4. HalfRemoved'
      BY <3>3 DEF HalfRemoved
    <3>5. sused' \in Useds /\ sused'.harm = sused.harm
      BY <2>3, DeathDone
    <3>6. StageTyped' /\ ResetOK'
      BY <2>1, <2>3, <3>2, <3>5, Blank DEF StageInv, StageTyped, ResetOK
    <3>7. UnharmedOK => FirstManifest' /\ DownloadOK' /\ DirOK'
      BY <2>1, <2>3, <3>2, <3>3, <3>4, Blank DEF UnharmedOK, FirstManifest, DownloadOK, DirOK
    <3>8. VerdictOK'
      BY <2>3, <3>4, Blank DEF VerdictOK
    <3> QED
      BY <3>5, <3>6, <3>7, <3>8 DEF StageInv, UnharmedOK
  <2> QED
    BY <1>5, <2>2, <2>3 DEF ResetRemovesDir
<1>6. CASE ResetRemovesTmp
  <2>1. UNCHANGED <<sunit, last, plane, sused>> /\ pass.at = "rmtmp" /\ sunit.at = "none"
        /\ ~disk.dir.there
    BY <1>6 DEF ResetRemovesTmp, StageInv, ResetOK
  <2>2. /\ disk' \in Disks /\ disk'.dir = disk.dir /\ disk'.tmp = NoDir
        /\ disk'.progress = disk.progress
    BY <1>1, <1>6, Blank DEF ResetRemovesTmp, Disks
  <2>3. pass' \in Passes /\ pass'.at = "rmprogress" /\ pass'.ver = pass.ver
    BY <1>1, <1>2, <1>6 DEF ResetRemovesTmp, Passes
  <2>4. StageTyped' /\ ResetOK'
    BY <2>1, <2>2, <2>3, Blank DEF StageInv, StageTyped, ResetOK
  <2>5. UnharmedOK => UnharmedOK'
    BY <2>1, <2>2, <2>3, Blank DEF UnharmedOK, FirstManifest, DownloadOK, DirOK, VerdictOK, HalfRemoved
  <2> QED
    BY <2>1, <2>4, <2>5 DEF StageInv
<1>7. CASE ResetRemovesVerdict
  <2>1. UNCHANGED <<sunit, last, plane, sused>> /\ pass.at = "rmprogress" /\ sunit.at = "none"
        /\ ~disk.dir.there
    BY <1>7 DEF ResetRemovesVerdict, StageInv, ResetOK
  <2>2. /\ disk' \in Disks /\ disk'.dir = disk.dir /\ disk'.tmp = disk.tmp
        /\ disk'.progress = "none"
    BY <1>1, <1>2, <1>7 DEF ResetRemovesVerdict, Disks
  <2>3. pass' \in Passes /\ pass'.at = "status" /\ pass'.ver = pass.ver
    BY <1>1, <1>2, <1>7 DEF ResetRemovesVerdict, Passes
  <2>4. StageTyped' /\ ResetOK'
    BY <2>1, <2>2, <2>3, Blank DEF StageInv, StageTyped, ResetOK
  <2>5. UnharmedOK => UnharmedOK'
    BY <2>1, <2>2, <2>3, Blank DEF UnharmedOK, FirstManifest, DownloadOK, DirOK, VerdictOK, HalfRemoved
  <2> QED
    BY <2>1, <2>4, <2>5 DEF StageInv
<1> QED
  BY <1>3, <1>4, <1>5, <1>6, <1>7

(* A pass starts the unit only for weights that do not verify.             *)
LEMMA BuildStarts ==
  ASSUME StageTyped, NEW ver \in Int, Build(ver) = "start"
  PROVE  /\ sunit.at = "none"
         /\ disk.dir.there /\ disk.dir.ver = ver /\ (\A f \in WFiles : disk.dir.files[f] \in {"good", "none"})
              => HalfRemoved
<1>1. VerifyStaged(ver) # "staged" /\ Status = "start"
  BY DEF Build
<1>2. sunit.at = "none"
  BY <1>1 DEF Status, Terminal, StageTyped, Disks, Progresses
<1> QED
  BY <1>1, <1>2 DEF VerifyStaged, HalfRemoved

LEMMA BuildType ==
  ASSUME StageTyped, NEW ver \in Int
  PROVE  /\ Build(ver) = "start" \/ Build(ver) \in Rows
         /\ Build(ver) = "corrupt" => disk.progress = "corrupt"
BY DEF StageTyped, Disks, Build, Status, Rows, Progresses, Terminal

LEMMA FinishStep ==
  ASSUME StageInv, FinishBuild
  PROVE  StageInv'
<1>1. /\ disk \in Disks /\ sunit \in StageUnits /\ pass \in Passes /\ pass.reset \in Nat
      /\ pass.ver \in Int /\ StageTyped
  BY DEF StageInv, StageTyped, Passes
<1>2. UNCHANGED <<disk, plane, sused>> /\ pass.at = "status" /\ pass' = NoPass
  BY DEF FinishBuild
<1>3. /\ "none" \in Rows /\ "staging" \in Rows /\ "start" \in UnitsAt
  BY StageValues
<1>4. last' \in Lasts /\ last'.done = (pass.reset > 0)
  <2>1. CASE last' = [state |-> "none", done |-> pass.reset > 0]
    BY <1>1, <1>3, <2>1 DEF Lasts
  <2>2. CASE last' = [state |-> IF Build(pass.ver) = "start" THEN "staging" ELSE Build(pass.ver),
                      done |-> pass.reset > 0]
    <3>1. (IF Build(pass.ver) = "start" THEN "staging" ELSE Build(pass.ver)) \in Rows
      BY <1>1, <1>3, BuildType
    <3> QED
      BY <1>1, <2>2, <3>1 DEF Lasts
  <2> QED
    BY <2>1, <2>2 DEF FinishBuild
<1>5. /\ pass.reset > 0 => ~disk.dir.there /\ disk.progress = "none" /\ sunit.at = "none"
  BY <1>2 DEF StageInv, ResetOK
<1>6. UnharmedOK => VerdictOK'
  BY <1>2, <1>4, <1>5, Blank DEF UnharmedOK, VerdictOK, HalfRemoved
<1>7. CASE sunit' = sunit
  <2>1. StageTyped' /\ ResetOK'
    BY <1>2, <1>4, <1>7, Blank DEF StageInv, StageTyped, ResetOK
  <2>2. UnharmedOK => FirstManifest' /\ DownloadOK' /\ DirOK'
    BY <1>2, <1>7, Blank DEF UnharmedOK, FirstManifest, DownloadOK, DirOK, HalfRemoved
  <2> QED
    BY <1>2, <1>6, <2>1, <2>2 DEF StageInv, UnharmedOK
<1>8. CASE /\ Build(pass.ver) = "start"
           /\ sunit' = [NoUnit EXCEPT !.at = "start", !.ver = pass.ver]
  <2>1. /\ sunit' \in StageUnits /\ sunit'.at = "start" /\ sunit'.done = {}
        /\ sunit'.ver = pass.ver
    BY <1>1, <1>3, <1>8, Blank DEF StageUnits
  <2>2. StageTyped' /\ ResetOK'
    BY <1>2, <1>4, <2>1, Blank DEF StageInv, StageTyped, ResetOK
  <2>3. UnharmedOK => FirstManifest' /\ DownloadOK'
    BY <1>2, <2>1, Blank DEF UnharmedOK, FirstManifest, DownloadOK
  <2>4. UnharmedOK => DirOK'
    <3>1. ASSUME UnharmedOK, disk.dir.there PROVE HalfRemoved
      BY <1>1, <1>2, <1>8, <3>1, BuildStarts DEF UnharmedOK, FirstManifest, DirOK
    <3> QED
      BY <1>2, <3>1 DEF UnharmedOK, DirOK, HalfRemoved
  <2> QED
    BY <1>2, <1>6, <2>2, <2>3, <2>4 DEF StageInv, UnharmedOK
<1> QED
  BY <1>7, <1>8 DEF FinishBuild

LEMMA AgentDiesStep ==
  ASSUME StageInv, AgentDies
  PROVE  StageInv'
<1>1. /\ UNCHANGED <<disk, sunit, plane>> /\ pass' = NoPass /\ last' = NoLast
      /\ sused' \in Useds /\ sused'.harm = sused.harm
  BY DeathDone DEF AgentDies
<1>2. StageTyped' /\ ResetOK'
  BY <1>1, Blank DEF StageInv, StageTyped, ResetOK
<1>3. UnharmedOK => FirstManifest' /\ DownloadOK' /\ DirOK'
  BY <1>1, Blank DEF UnharmedOK, FirstManifest, DownloadOK, DirOK, HalfRemoved
<1>4. UnharmedOK => VerdictOK'
  BY <1>1, Blank DEF UnharmedOK, VerdictOK, HalfRemoved
<1> QED
  BY <1>1, <1>2, <1>3, <1>4 DEF StageInv, UnharmedOK

(* The control plane's steps, and harm.                                    *)
LEMMA PlaneStep ==
  ASSUME StageInv,
         AckReset \/ RequestStageReset \/ Deploy \/ PinManifest \/ \E f \in WFiles : Rot(f)
  PROVE  StageInv'
<1>1. /\ plane \in Planes /\ sused \in Useds /\ last \in Lasts /\ disk \in Disks /\ disk.dir \in Dirs
      /\ disk.dir.files \in Contents
  BY DEF StageInv, StageTyped, Disks, Dirs
<1>2. UNCHANGED <<sunit, pass, last>>
  BY DEF AckReset, RequestStageReset, Deploy, PinManifest, Rot
<1>3. ASSUME disk' = disk, sused' \in Useds, sused'.harm = sused.harm, plane' \in Planes,
             plane'.ver = plane.ver, plane'.reset > 0 \/ plane'.reset = plane.reset \/ last.done
      PROVE  StageInv'
  <2>1. StageTyped' /\ ResetOK'
    BY <1>2, <1>3 DEF StageInv, StageTyped, ResetOK
  <2>2. UnharmedOK => UnharmedOK'
    BY <1>2, <1>3 DEF UnharmedOK, FirstManifest, DownloadOK, DirOK, VerdictOK, HalfRemoved
  <2> QED
    BY <1>3, <2>1, <2>2 DEF StageInv
<1>4. CASE AckReset
  <2> DEFINE r == IF last.state = "none" THEN plane.row ELSE last.state
             n == IF last.done THEN 0 ELSE plane.reset
  <2>1. plane' = [plane EXCEPT !.row = r, !.reset = n]
    BY <1>4 DEF AckReset
  <2>2. r \in Rows /\ n \in Nat /\ (n = plane.reset \/ last.done)
    BY <1>1 DEF Planes, Lasts
  <2> HIDE DEF r, n
  <2>3. plane' \in Planes /\ plane'.ver = plane.ver /\ plane'.reset = n
    BY <1>1, <2>1, <2>2 DEF Planes
  <2> QED
    BY <1>1, <1>3, <1>4, <2>2, <2>3 DEF AckReset
<1>5. CASE RequestStageReset
  <2>1. sused' \in Useds /\ sused'.harm = sused.harm /\ sused.resets \in Nat
    BY <1>1, <1>5 DEF RequestStageReset, Useds
  <2>2. plane' \in Planes /\ plane'.ver = plane.ver /\ plane'.reset = sused.resets + 1
    BY <1>1, <1>5, <2>1 DEF RequestStageReset, Planes
  <2> QED
    BY <1>3, <1>5, <2>1, <2>2 DEF RequestStageReset
<1>6. CASE Deploy
  <2>1. plane' = [plane EXCEPT !.deployed = ~@] /\ UNCHANGED <<disk, sused>>
    BY <1>6 DEF Deploy
  <2>2. (~plane.deployed) \in BOOLEAN
    OBVIOUS
  <2>3. plane' \in Planes /\ plane'.ver = plane.ver /\ plane'.reset = plane.reset
    BY <1>1, <2>1, <2>2 DEF Planes
  <2> QED
    BY <1>1, <1>3, <2>1, <2>3
<1>7. CASE PinManifest
  <2>1. plane' \in Planes
    BY <1>1, <1>7 DEF PinManifest, Planes
  <2> QED
    BY <1>2, <1>7, <2>1, HarmDone DEF PinManifest, StageInv, StageTyped, ResetOK
<1>8. ASSUME NEW f \in WFiles, Rot(f)
      PROVE  StageInv'
  <2>1. "bad" \in FileStates
    BY StageValues
  <2>2. [disk.dir EXCEPT !.files[f] = "bad"] \in Dirs
    BY <1>1, <2>1 DEF Dirs, Contents
  <2>3. /\ disk' \in Disks /\ disk'.dir = [disk.dir EXCEPT !.files[f] = "bad"]
        /\ disk'.tmp = disk.tmp /\ disk'.progress = disk.progress
    BY <1>1, <1>8, <2>2 DEF Rot, Disks
  <2>4. disk'.dir.there = disk.dir.there
    BY <1>1, <2>3 DEF Dirs
  <2> QED
    BY <1>2, <1>8, <2>3, <2>4, HarmDone DEF Rot, StageInv, StageTyped, ResetOK
<1> QED
  BY <1>4, <1>5, <1>6, <1>7, <1>8

LEMMA StageStep ==
  ASSUME StageInv, [StagingNext]_stagingVars
  PROVE  StageInv'
<1>1. CASE UNCHANGED stagingVars
  BY <1>1 DEF stagingVars, StageInv, StageTyped, ResetOK, UnharmedOK, FirstManifest, DownloadOK, DirOK,
     VerdictOK, HalfRemoved
<1>2. CASE UnitStep \/ UnitDies
  BY <1>2, RunStep, PlaceStep, TakeStep, FetchStep DEF UnitStep
<1>3. CASE PassStep \/ AgentDies
  BY <1>3, ResetStep, FinishStep, AgentDiesStep DEF PassStep
<1>4. CASE AckReset \/ RequestStageReset \/ Deploy \/ PinManifest \/ \E f \in WFiles : Rot(f)
  BY <1>4, PlaneStep
<1> QED
  BY <1>1, <1>2, <1>3, <1>4 DEF StagingNext

(* Weights survive (the run's WeightsSurvive), for any number of files,    *)
(* resets and deaths: what is in place is what the manifest pins, only a   *)
(* directory half removed is ever called corrupt without harm, and a reset *)
(* leaves nothing (Downloader.run, Status, Reset).                         *)
THEOREM WeightsAreKept == StagingSpec => WeightsSurvive
<1>1. StagingSpec => []StageInv
  BY StageStart, StageStep, PTL DEF StagingSpec
<1>2. StageInv => PlacedIsWhole
  BY DEF StageInv, UnharmedOK, DirOK, PlacedIsWhole
<1> DEFINE Corrupted == pass.at = "status" /\ pass'.at = "poll" /\ last'.state = "corrupt"
                          => sused.harm > 0 \/ HalfRemoved
           Cleared == pass.at = "rmprogress" /\ pass'.at = "status" =>
             /\ ~disk'.dir.there /\ ~disk'.tmp.there /\ disk'.progress = "none" /\ sunit'.at = "none"
<1>3. ASSUME StageInv, [StagingNext]_stagingVars PROVE Corrupted /\ Cleared
  <2>1. CASE FinishBuild
    <3>1. /\ StageTyped /\ pass.ver \in Int /\ sused.harm \in Nat /\ pass.at = "status"
      BY <1>3, <2>1 DEF StageInv, StageTyped, Passes, Useds, FinishBuild
    <3>2. last'.state = "corrupt" => Build(pass.ver) = "corrupt"
      BY <2>1 DEF FinishBuild
    <3>3. last'.state = "corrupt" => disk.progress = "corrupt"
      BY <3>1, <3>2, BuildType
    <3>4. sused.harm = 0 /\ disk.progress = "corrupt" => HalfRemoved
      BY <1>3, <3>1 DEF StageInv, UnharmedOK, VerdictOK
    <3> QED
      BY <3>1, <3>3, <3>4
  <2>2. CASE ResetRemovesVerdict
    <3>1. /\ disk \in Disks /\ ~disk.dir.there /\ ~disk.tmp.there /\ sunit' = sunit
          /\ sunit.at = "none" /\ pass.at = "rmprogress" /\ disk' = [disk EXCEPT !.progress = "none"]
      BY <1>3, <2>2 DEF StageInv, StageTyped, ResetOK, ResetRemovesVerdict
    <3> QED
      BY <3>1 DEF Disks
  <2>3. CASE pass' = pass \/ (last'.state = "none" /\ pass'.at = "poll")
    BY <2>3
  <2>4. CASE PollDesired \/ ResetStops \/ ResetRemovesTmp
    BY <2>4 DEF PollDesired, ResetStops, ResetRemovesTmp
  <2>5. CASE ResetRemovesDir \/ AgentDies
    BY <2>5, Blank DEF ResetRemovesDir, AgentDies
  <2>6. CASE UnitStep \/ UnitDies \/ AckReset \/ RequestStageReset \/ Deploy \/ PinManifest
             \/ (\E f \in WFiles : Rot(f)) \/ UNCHANGED stagingVars
    <3>1. pass' = pass
      BY <2>6 DEF UnitStep, UnitDies, AckReset, RequestStageReset, Deploy, PinManifest, Rot,
         stagingVars, RunStaging, TakeFile, fetch, Verifying, Place, RecordStaged
    <3> QED
      BY <2>3, <3>1
  <2> QED
    BY <1>3, <2>1, <2>2, <2>4, <2>5, <2>6 DEF StagingNext, PassStep
<1> HIDE DEF Corrupted, Cleared
<1>4. StageInv /\ [StagingNext]_stagingVars => [Corrupted /\ Cleared]_stagingVars
  BY <1>3
<1>5. StagingSpec => [][Corrupted /\ Cleared]_stagingVars
  BY <1>1, <1>4, PTL DEF StagingSpec
<1>6. StagingSpec => [][Corrupted]_stagingVars /\ [][Cleared]_stagingVars
  BY <1>5, PTL
<1> USE DEF Corrupted, Cleared
<1>7. StagingSpec => DeathsRecover
  BY <1>6 DEF DeathsRecover
<1>9. StagingSpec => ResetClears
  BY <1>6 DEF ResetClears
<1>8. StagingSpec => []PlacedIsWhole
  BY <1>1, <1>2, PTL
<1> QED
  BY <1>7, <1>8, <1>9 DEF WeightsSurvive
=============================================================================

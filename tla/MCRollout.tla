------------------------------ MODULE MCRollout ------------------------------
(* Instances of Rollout for TLC.                                           *)
EXTENDS Rollout

(* One run, two families of behaviours, chosen at the start.  "roll":      *)
(* agents die and reports are lost, the model servers do not fail, every   *)
(* beat carries a fresh sample.  "live": no agent dies and every report    *)
(* arrives, one unit dies or fails to load, samples and offers may be      *)
(* stale, and the schedule is fair.                                        *)
VARIABLE focus

Roll == INSTANCE Rollout WITH
          Window <- 0, FreshHealth <- TRUE, FreshOffer <- TRUE, MaxDeaths <- 0
Live == INSTANCE Rollout WITH
          FreshHealth <- FALSE, FreshOffer <- FALSE, MaxCrashes <- 0, MaxLosses <- 0

FocusInit == Init /\ focus \in {"roll", "live"}
FocusNext ==
  /\ UNCHANGED focus
  /\ \/ focus = "roll" /\ Roll!Next
     \/ focus = "live" /\ Live!Next

FocusSpec ==
  /\ FocusInit /\ [][FocusNext]_<<vars, focus>>
  /\ focus = "live" => Live!Fairness

(* A rolling restart never drops the last ready replica (transition.go,    *)
(* ReadyReplicas) as long as no model server fails on its own.             *)
RollKeepsServing == focus = "roll" => KeepsServing

(* "Done means serving, not cycled" (run.go, restartFinished), where every *)
(* beat carries a fresh sample (DoneMeansServing).                         *)
RollDoneMeansServing ==
  [][focus = "roll" => \A n \in Nodes : ~msg[n].sent /\ msg'[n].done => served[n]]_vars

(* What the control plane takes for a restart was one: a row goes only     *)
(* when its unit was cycled, and is reported done only when it serves.     *)
RestartsAreReal == RequestedIsCycled /\ RollDoneMeansServing

(* A roll of the family "live" comes to its end (RollCompletes).           *)
LiveRollCompletes == focus = "live" => RollCompletes
=============================================================================

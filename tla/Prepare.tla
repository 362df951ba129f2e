------------------------------ MODULE Prepare ------------------------------
(***************************************************************************)
(* Two slow jobs of a node that outlive a pass of its agent: the build of  *)
(* an engine out of staged weights, in a transient unit of its own         *)
(* (internal/agent prepare.go), and the agent's own upgrade to the version *)
(* the control plane names (selfupgrade.go).  Either may die between any   *)
(* two writes.  A build's inputs are its command and the card it runs on.  *)
(***************************************************************************)
EXTENDS Integers, FiniteSets

CONSTANTS
  Commands, GpuNames,
  ArchSpecific,   \* the descriptor's gpu_arch_specific
  Versions,       \* agent versions; the first is installed
  FirstVersion,
  MaxBuildDeaths, \* bound: deaths of the build's unit
  MaxUpgradeFaults \* bound: refused or failed upgrades and deaths of the agent

ASSUME PrepareAssumption ==
  /\ ArchSpecific \in BOOLEAN /\ FirstVersion \in Versions
  /\ {MaxBuildDeaths, MaxUpgradeFaults} \subseteq Nat

VARIABLES
  want,     \* what the deployment asks for now: command and card
  art,      \* by key: <dir>.building, <dir>, its marker and its progress file
  bunit,    \* by key: the step of RunPrepare
  shown,    \* what the last pass says of the deployment's artifact
  bdeaths,
  up        \* binaries in /opt, the link current, the process, the attempt under way

prepareVars == <<want, art, bunit, shown, bdeaths, up>>

Inputs == [cmd : Commands, card : GpuNames]

prepareKeyOfCommand(i) == [i EXCEPT !.card = CHOOSE c \in GpuNames : TRUE]

(* prepareKey: the card's name counts only where the output is not         *)
(* portable.                                                               *)
prepareKey(i) == IF ArchSpecific THEN i ELSE [i EXCEPT !.card = CHOOSE c \in GpuNames : TRUE]

NoBuild == [at |-> "none", card |-> ""]
NoArt == [scratch |-> "", out |-> "", marker |-> FALSE, progress |-> "none"]

PrepareTypeOK ==
  /\ want \in Inputs
  /\ art \in [Inputs -> [scratch : GpuNames \cup {"", "part"}, out : GpuNames \cup {"", "part"},
                         marker : BOOLEAN, progress : {"none", "preparing", "failed", "prepared"}]]
  /\ \A k \in Inputs : bunit[k].at \in {"none", "start", "run", "clear", "place", "mark", "record"}
  /\ shown \in {"none", "preparing", "failed", "prepared"}
  /\ up.link \in Versions /\ up.runs \in Versions

(* Preparer.Status: the marker, a unit at work, a recorded failure, and    *)
(* otherwise a unit is started.                                            *)
StatusForgives(k) ==
  IF art[k].marker THEN "prepared" ELSE IF bunit[k].at # "none" THEN "preparing" ELSE "start"

PrepareStatus(k) ==
  IF art[k].marker THEN "prepared"
  ELSE IF bunit[k].at # "none" THEN "preparing"
  ELSE IF art[k].progress = "failed" THEN "failed"
  ELSE "start"

(* planPrepare, once the weights are staged.  start may fail: the pass     *)
(* says so, and the next one tries again.                                  *)
planPrepare ==
  LET k == prepareKey(want)
      s == PrepareStatus(k)
  IN  /\ \/ /\ s # "start" /\ shown' = s /\ UNCHANGED bunit
         \/ /\ s = "start" /\ shown' = "failed" /\ UNCHANGED bunit
         \/ /\ s = "start" /\ shown' = "preparing"
            /\ bunit' = [bunit EXCEPT ![k] = [at |-> "start", card |-> want.card]]
      /\ UNCHANGED <<want, art, bdeaths, up>>

(* The operator edits the deployment, or a card is swapped.                *)
ChangeInputs(i) ==
  /\ i # want /\ want' = i /\ shown' = "none"
  /\ UNCHANGED <<art, bunit, bdeaths, up>>

(* RunPrepare, one write at a time.  Scratch is emptied first.             *)
RunPrepare(k) ==
  /\ bunit[k].at = "start"
  /\ art' = [art EXCEPT ![k].progress = "preparing", ![k].scratch = "part"]
  /\ bunit' = [bunit EXCEPT ![k].at = "run"]
  /\ UNCHANGED <<want, shown, bdeaths, up>>

(* nerdctl run, under the descriptor's timeout.                            *)
BuildEnds(k) ==
  /\ bunit[k].at = "run"
  /\ \/ /\ art' = [art EXCEPT ![k].scratch = bunit[k].card]
        /\ bunit' = [bunit EXCEPT ![k].at = "clear"]
     \/ /\ art' = [art EXCEPT ![k].scratch = "", ![k].progress = "failed"]
        /\ bunit' = [bunit EXCEPT ![k] = NoBuild]
  /\ UNCHANGED <<want, shown, bdeaths, up>>

ClearOut(k) ==
  /\ bunit[k].at = "clear" /\ art' = [art EXCEPT ![k].out = ""]
  /\ bunit' = [bunit EXCEPT ![k].at = "place"]
  /\ UNCHANGED <<want, shown, bdeaths, up>>

PlaceMarked(k) ==
  /\ bunit[k].at = "place" /\ art' = [art EXCEPT ![k].marker = TRUE]
  /\ bunit' = [bunit EXCEPT ![k].at = "mark"]
  /\ UNCHANGED <<want, shown, bdeaths, up>>

PlaceOut(k) ==
  /\ bunit[k].at = "place" /\ art' = [art EXCEPT ![k].out = art[k].scratch, ![k].scratch = ""]
  /\ bunit' = [bunit EXCEPT ![k].at = "mark"]
  /\ UNCHANGED <<want, shown, bdeaths, up>>

Mark(k) ==
  /\ bunit[k].at = "mark" /\ art' = [art EXCEPT ![k].marker = TRUE]
  /\ bunit' = [bunit EXCEPT ![k].at = "record"]
  /\ UNCHANGED <<want, shown, bdeaths, up>>

RecordPrepared(k) ==
  /\ bunit[k].at = "record" /\ art' = [art EXCEPT ![k].progress = "prepared"]
  /\ bunit' = [bunit EXCEPT ![k] = NoBuild]
  /\ UNCHANGED <<want, shown, bdeaths, up>>

(* TimeoutStartSec, an OOM kill, a reboot.                                 *)
BuildDies(k) ==
  /\ bunit[k].at # "none" /\ bdeaths < MaxBuildDeaths
  /\ bdeaths' = bdeaths + 1 /\ bunit' = [bunit EXCEPT ![k] = NoBuild]
  /\ UNCHANGED <<want, art, shown, up>>

-----------------------------------------------------------------------------
(* selfUpgrade.  A version is fetched and verified, placed, linked, and    *)
(* the unit restarted; one attempt at a target per process.                *)

SetTarget(v) ==
  /\ up.at = "idle" /\ v # up.target /\ up' = [up EXCEPT !.target = v]
  /\ UNCHANGED <<want, art, bunit, shown, bdeaths>>

BeginUpgrade ==
  /\ up.at = "idle" /\ up.target \notin {up.runs, up.tried}
  /\ up' = [up EXCEPT !.at = "fetch"]
  /\ UNCHANGED <<want, art, bunit, shown, bdeaths>>

(* upgradeTo fails: the mirror, the signature, the disk, systemctl.  The   *)
(* attempt is recorded, and what was done of it stays.                     *)
UpgradeFails ==
  /\ up.at # "idle" /\ up.faults < MaxUpgradeFaults
  /\ up' = [up EXCEPT !.at = "idle", !.tried = up.target, !.faults = @ + 1]
  /\ UNCHANGED <<want, art, bunit, shown, bdeaths>>

upgradeToLinkFirst ==
  /\ \/ up.at = "fetch" /\ up' = [up EXCEPT !.at = "link", !.link = up.target]
     \/ up.at = "link" /\ up' = [up EXCEPT !.at = "restart", !.bins = @ \cup {up.target}]
  /\ UNCHANGED <<want, art, bunit, shown, bdeaths>>

(* The binary is renamed into its directory only after release.Verify, and *)
(* current is replaced only after that.                                    *)
upgradeTo ==
  /\ \/ up.at = "fetch" /\ up' = [up EXCEPT !.at = "link", !.bins = @ \cup {up.target}]
     \/ up.at = "link" /\ up' = [up EXCEPT !.at = "restart", !.link = up.target]
  /\ UNCHANGED <<want, art, bunit, shown, bdeaths>>

(* systemctl restart, or a death and systemd's own restart: the process is *)
(* whatever current names, and remembers nothing.                          *)
Restarted == [up EXCEPT !.runs = up.link, !.at = "idle", !.tried = "", !.target = ""]

RestartAgent ==
  /\ up.at = "restart" /\ up' = Restarted
  /\ UNCHANGED <<want, art, bunit, shown, bdeaths>>

AgentProcessDies ==
  /\ up.faults < MaxUpgradeFaults /\ up' = [Restarted EXCEPT !.faults = @ + 1]
  /\ UNCHANGED <<want, art, bunit, shown, bdeaths>>

-----------------------------------------------------------------------------
PrepareInit ==
  /\ want \in Inputs /\ art = [k \in Inputs |-> NoArt] /\ bunit = [k \in Inputs |-> NoBuild]
  /\ shown = "none" /\ bdeaths = 0
  /\ up = [bins |-> {FirstVersion}, link |-> FirstVersion, runs |-> FirstVersion, target |-> "",
           tried |-> "", at |-> "idle", faults |-> 0]

BuildNext ==
  \/ planPrepare \/ \E i \in Inputs : ChangeInputs(i)
  \/ \E k \in Inputs :
       \/ RunPrepare(k) \/ BuildEnds(k) \/ ClearOut(k) \/ PlaceOut(k) \/ Mark(k)
       \/ RecordPrepared(k) \/ BuildDies(k)
UpgradeNext ==
  \/ \E v \in Versions : SetTarget(v)
  \/ BeginUpgrade \/ UpgradeFails \/ upgradeTo \/ RestartAgent \/ AgentProcessDies

PrepareSpec == PrepareInit /\ [][BuildNext \/ UpgradeNext]_prepareVars

-----------------------------------------------------------------------------
(* Properties.                                                             *)

(* An artifact is served for its marker alone: whatever died and was       *)
(* started again, a marker stands only beside a whole output, built on the *)
(* card that the deployment now has ("wrong numbers" otherwise; prepareKey).*)
EngineFits ==
  /\ \A k \in Inputs : art[k].marker => art[k].out \in GpuNames
  /\ shown = "prepared" => LET out == art[prepareKey(want)].out
                           IN  ArchSpecific => out = want.card

(* "Retrying it forever is six hours of GPU per cycle" (StateFailed): a    *)
(* build that failed is not run again on the same inputs, across deaths    *)
(* and passes, and an edit that is taken back.                             *)
FailedStays == [][\A k \in Inputs : art[k].progress = "failed" => art'[k].progress = "failed"]_prepareVars

(* The link systemd starts the agent from names a verified binary at every *)
(* instant at which the host could lose power (upgradeTo).                 *)
LinkRunnable == up.link \in up.bins /\ up.runs \in up.bins

(* What a node made for itself can be run: an engine only on its card, a   *)
(* failed build not again, an agent only from a verified binary.           *)
MadeIsRunnable == []EngineFits /\ FailedStays /\ []LinkRunnable
=============================================================================

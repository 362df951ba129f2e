------------------------------ MODULE Staging ------------------------------
(***************************************************************************)
(* A node's copy of a remote model: the transient unit that downloads it   *)
(* (internal/agent remote.go, stageunit.go), the agent's pass that reads,  *)
(* starts or discards it (plan.go), and the reset an operator asks for and *)
(* a heartbeat acknowledges (internal/fleet staging.go, internal/observed).*)
(*                                                                         *)
(* Agent, unit and control plane are three processes: the agent and the    *)
(* unit may die between any two writes, and a heartbeat carries the last   *)
(* finished pass while the next one is under way.  A file is absent, cut   *)
(* short, wrong or good against the manifest; a manifest is a version.     *)
(***************************************************************************)
EXTENDS Integers, FiniteSets

CONSTANTS
  WFiles,      \* the files the manifest lists
  MaxResets,   \* bound: restage and unstage requests
  MaxDeaths,   \* bound: deaths of the agent or of the unit
  MaxHarm      \* bound: failed transfers, rotten files, manifests pinned anew

ASSUME StagingAssumption == WFiles # {} /\ {MaxResets, MaxDeaths, MaxHarm} \subseteq Nat

VARIABLES
  disk,    \* the model's directory, <dir>.downloading, <dir>.progress.json
  sunit,   \* the transient unit: how far run has come, and with which files
  pass,    \* the agent's pass: its step and the document it was given
  last,    \* d.last: what the last finished pass says of the model
  plane,   \* the control plane: pinned manifest, deployment, row stage_reset, row staging
  sused,   \* what the bounds count
  acted    \* history: the requests whose reset ran to its end

stagingVars == <<disk, sunit, pass, last, plane, sused, acted>>

FileStates == {"none", "part", "bad", "good"}
Terminal == {"staged", "corrupt"}
NoFiles == [f \in WFiles |-> "none"]
NoDir == [there |-> FALSE, files |-> NoFiles, ver |-> 0]
NoUnit == [at |-> "none", done |-> {}, ver |-> 0]
NoPass == [at |-> "poll", reset |-> 0, wanted |-> FALSE, ver |-> 0]
NoLast == [state |-> "none", done |-> FALSE]

StagingTypeOK ==
  /\ disk.dir.there \in BOOLEAN /\ disk.dir.files \in [WFiles -> FileStates]
  /\ disk.tmp.there \in BOOLEAN /\ disk.tmp.files \in [WFiles -> FileStates]
  /\ disk.progress \in {"none", "staging", "verifying"} \cup Terminal
  /\ sunit.at \in {"none", "start", "files", "fetching", "verify", "place", "record"}
  /\ sunit.done \subseteq WFiles
  /\ pass.at \in {"poll", "stop", "rmdir", "rmtmp", "rmprogress", "status"}
  /\ last.state \in {"none", "absent", "staging", "verifying"} \cup Terminal
  /\ plane.reset \in 0..MaxResets /\ acted \subseteq 1..MaxResets

Harm == sused.harm < MaxHarm /\ sused' = [sused EXCEPT !.harm = @ + 1]
Death == sused.deaths < MaxDeaths /\ sused' = [sused EXCEPT !.deaths = @ + 1]

-----------------------------------------------------------------------------
(* The unit: Downloader.run.                                               *)

(* progress.set writes a file beside and renames it: it is never torn.     *)
SetProgress(s) == disk' = [disk EXCEPT !.progress = s]

(* A verdict of corrupt, and the unit is gone.                             *)
Corrupt == SetProgress("corrupt") /\ sunit' = NoUnit

(* What <dir>.downloading holds, against the manifest of this request.     *)
Against(ver) ==
  [there |-> TRUE, ver |-> ver,
   files |-> [f \in WFiles |-> IF disk.tmp.ver # ver /\ disk.tmp.files[f] = "good" THEN "bad"
                               ELSE disk.tmp.files[f]]]

(* RunStaging: the request's manifest is parsed and the sizes are asked    *)
(* for; whatever is in <dir>.downloading is kept.                          *)
RunStaging ==
  /\ sunit.at = "start"
  /\ \/ /\ disk' = [disk EXCEPT !.progress = "staging", !.tmp = Against(sunit.ver)]
        /\ sunit' = [sunit EXCEPT !.at = "files"] /\ UNCHANGED sused
     \/ Harm /\ Corrupt
  /\ UNCHANGED <<pass, last, plane, acted>>

matchingSizeOnly(f) == disk.tmp.files[f] \in {"part", "good"}

(* matchingSize: the whole file is hashed, so one cut short is no match.   *)
matchingSize(f) == disk.tmp.files[f] = "good"

(* What an interrupted run left and verifies is not fetched again; the     *)
(* rest is truncated and fetched.                                          *)
TakeFile(f) ==
  /\ sunit.at = "files" /\ f \notin sunit.done
  /\ IF matchingSize(f)
     THEN SetProgress("staging") /\ sunit' = [sunit EXCEPT !.done = @ \cup {f}]
     ELSE /\ disk' = [disk EXCEPT !.tmp.files[f] = "part"]
          /\ sunit' = [sunit EXCEPT !.at = "fetching", !.done = @ \cup {f}]
  /\ UNCHANGED <<pass, last, plane, sused, acted>>

(* fetch, and the digest of what came.                                     *)
fetch(f) ==
  /\ sunit.at = "fetching" /\ disk.tmp.files[f] = "part" /\ f \in sunit.done
  /\ \/ /\ disk' = [disk EXCEPT !.tmp.files[f] = "good", !.progress = "staging"]
        /\ sunit' = [sunit EXCEPT !.at = "files"] /\ UNCHANGED sused
     \/ /\ Harm /\ sunit' = NoUnit
        /\ \E got \in {"part", "bad"} :
             disk' = [disk EXCEPT !.tmp.files[f] = got, !.progress = "corrupt"]
  /\ UNCHANGED <<pass, last, plane, acted>>

Verifying ==
  /\ sunit.at = "files" /\ sunit.done = WFiles
  /\ SetProgress("verifying") /\ sunit' = [sunit EXCEPT !.at = "place"]
  /\ UNCHANGED <<pass, last, plane, sused, acted>>

(* The manifest is written, the directory renamed.  A rename onto one that *)
(* is there fails.                                                         *)
Place ==
  /\ sunit.at = "place"
  /\ IF disk.dir.there
     THEN Corrupt
     ELSE /\ disk' = [disk EXCEPT !.dir = disk.tmp, !.tmp = NoDir]
          /\ sunit' = [sunit EXCEPT !.at = "record"]
  /\ UNCHANGED <<pass, last, plane, sused, acted>>

RecordStaged ==
  /\ sunit.at = "record" /\ SetProgress("staged") /\ sunit' = NoUnit
  /\ UNCHANGED <<pass, last, plane, sused, acted>>

(* A reboot, an OOM kill: what is on disk stays.                           *)
UnitDies ==
  /\ sunit.at # "none" /\ Death /\ sunit' = NoUnit
  /\ UNCHANGED <<disk, pass, last, plane, acted>>

-----------------------------------------------------------------------------
(* The agent's pass.                                                       *)

(* VerifyStaged reads every byte against the manifest the catalog pins.    *)
VerifyStaged(ver) ==
  IF ~disk.dir.there \/ \E f \in WFiles : disk.dir.files[f] = "none" THEN "absent"
  ELSE IF disk.dir.ver = ver /\ \A f \in WFiles : disk.dir.files[f] = "good" THEN "staged"
  ELSE "corrupt"

(* poll: the document; a reset comes before anything is looked at.         *)
PollDesired ==
  /\ pass.at = "poll"
  /\ pass' = [at |-> IF plane.reset > 0 THEN "stop" ELSE "status", reset |-> plane.reset,
              wanted |-> plane.deployed, ver |-> plane.ver]
  /\ UNCHANGED <<disk, sunit, last, plane, sused, acted>>

(* Downloader.Reset, one removal at a time.                                *)
ResetStops ==
  /\ pass.at = "stop" /\ sunit' = NoUnit /\ pass' = [pass EXCEPT !.at = "rmdir"]
  /\ UNCHANGED <<disk, last, plane, sused, acted>>

(* RemoveAll of the weights: the agent may die with some of them gone.     *)
ResetRemovesDir ==
  /\ pass.at = "rmdir"
  /\ \/ /\ disk' = [disk EXCEPT !.dir = NoDir] /\ pass' = [pass EXCEPT !.at = "rmtmp"]
        /\ UNCHANGED <<last, sused>>
     \/ /\ Death /\ disk.dir.there /\ pass' = NoPass /\ last' = NoLast
        /\ \E f \in WFiles : disk' = [disk EXCEPT !.dir.files[f] = "none"]
  /\ UNCHANGED <<sunit, plane, acted>>

ResetRemovesTmp ==
  /\ pass.at = "rmtmp" /\ disk' = [disk EXCEPT !.tmp = NoDir]
  /\ pass' = [pass EXCEPT !.at = "rmprogress"]
  /\ UNCHANGED <<sunit, last, plane, sused, acted>>

ResetKeepsVerdict ==
  /\ pass.at = "rmprogress" /\ disk' = disk
  /\ pass' = [pass EXCEPT !.at = "status"] /\ acted' = acted \cup {pass.reset}
  /\ UNCHANGED <<sunit, last, plane, sused>>

ResetRemovesVerdict ==
  /\ pass.at = "rmprogress" /\ disk' = [disk EXCEPT !.progress = "none"]
  /\ pass' = [pass EXCEPT !.at = "status"] /\ acted' = acted \cup {pass.reset}
  /\ UNCHANGED <<sunit, last, plane, sused>>

(* Downloader.Status: a terminal verdict on disk is the answer; a unit at  *)
(* work is left to it; otherwise one is started.                           *)
Status ==
  IF disk.progress \in Terminal THEN disk.progress
  ELSE IF sunit.at # "none" THEN IF disk.progress = "none" THEN "staging" ELSE disk.progress
  ELSE "start"

BuildOfStatus(ver) == Status

(* Build asks the Downloader only of weights that do not verify.           *)
Build(ver) == IF VerifyStaged(ver) = "staged" THEN "staged" ELSE Status

(* The end of the pass: d.last is replaced.                                *)
FinishBuild ==
  /\ pass.at = "status"
  /\ IF ~pass.wanted
     THEN last' = [state |-> "none", done |-> pass.reset > 0] /\ UNCHANGED sunit
     ELSE LET s == Build(pass.ver)
          IN  /\ last' = [state |-> IF s = "start" THEN "staging" ELSE s, done |-> pass.reset > 0]
              /\ sunit' = IF s = "start" THEN [NoUnit EXCEPT !.at = "start", !.ver = pass.ver] ELSE sunit
  /\ pass' = NoPass
  /\ UNCHANGED <<disk, plane, sused, acted>>

AgentDies ==
  /\ Death /\ pass' = NoPass /\ last' = NoLast
  /\ UNCHANGED <<disk, sunit, plane, acted>>

-----------------------------------------------------------------------------
(* The control plane.                                                      *)

(* Heartbeat: the row of the model, and the acknowledged request.          *)
AckReset ==
  /\ last.state # "none" \/ last.done
  /\ plane' = [plane EXCEPT !.row = IF last.state = "none" THEN @ ELSE last.state,
                            !.reset = IF last.done THEN 0 ELSE @]
  /\ plane' # plane
  /\ UNCHANGED <<disk, sunit, pass, last, sused, acted>>

(* StageResetPreview: unstage what is not deployed, restage what is        *)
(* corrupt.  RequestStageReset: one row per model and node.                *)
StageResetPreview == ~plane.deployed \/ plane.row = "corrupt"

RequestStageReset ==
  /\ sused.resets < MaxResets /\ StageResetPreview
  /\ sused' = [sused EXCEPT !.resets = @ + 1]
  /\ plane' = [plane EXCEPT !.reset = sused.resets + 1]
  /\ UNCHANGED <<disk, sunit, pass, last, acted>>

(* An apply that adds or prunes the deployment, or registers the model     *)
(* again with another manifest.                                            *)
Deploy ==
  /\ plane' = [plane EXCEPT !.deployed = ~@]
  /\ UNCHANGED <<disk, sunit, pass, last, sused, acted>>

PinManifest ==
  /\ Harm /\ plane' = [plane EXCEPT !.ver = @ + 1]
  /\ UNCHANGED <<disk, sunit, pass, last, acted>>

Rot(f) ==
  /\ Harm /\ disk.dir.there /\ disk.dir.files[f] = "good"
  /\ disk' = [disk EXCEPT !.dir.files[f] = "bad"]
  /\ UNCHANGED <<sunit, pass, last, plane, acted>>

-----------------------------------------------------------------------------
StagingInit ==
  /\ disk = [dir |-> NoDir, tmp |-> NoDir, progress |-> "none"]
  /\ sunit = NoUnit /\ pass = NoPass /\ last = NoLast
  /\ plane = [ver |-> 1, deployed |-> TRUE, reset |-> 0, row |-> "absent"]
  /\ sused = [resets |-> 0, deaths |-> 0, harm |-> 0] /\ acted = {}

UnitStep ==
  \/ RunStaging \/ Verifying \/ Place \/ RecordStaged
  \/ \E f \in WFiles : TakeFile(f) \/ fetch(f)
PassStep ==
  \/ PollDesired \/ ResetStops \/ ResetRemovesDir \/ ResetRemovesTmp \/ ResetRemovesVerdict
  \/ FinishBuild

StagingNext ==
  \/ UnitStep \/ PassStep \/ UnitDies \/ AgentDies
  \/ AckReset \/ RequestStageReset \/ Deploy \/ PinManifest \/ \E f \in WFiles : Rot(f)

StagingSpec == StagingInit /\ [][StagingNext]_stagingVars

-----------------------------------------------------------------------------
(* Properties.                                                             *)

(* "Restarting it is how it recovers from a reboot, an OOM kill, or an     *)
(* agent that was replaced mid-transfer" (remote.go, Status): deaths alone *)
(* never make a pass report the verdict only an operator can clear,        *)
(* wherever they fall, the gap between the rename and its record included. *)
(* (An agent that dies while it removes a directory leaves half of one,    *)
(* and does it again only if a heartbeat of the pass before has not        *)
(* cleared the row.)                                                       *)
HalfRemoved == disk.dir.there /\ \E f \in WFiles : disk.dir.files[f] = "none"
DeathsRecover ==
  [][pass.at = "status" /\ pass'.at = "poll" /\ last'.state = "corrupt"
       => sused.harm > 0 \/ HalfRemoved]_stagingVars

(* Weights in place are those of the manifest, all of them, though a run   *)
(* was cut short and resumed any number of times; until a file rots or a   *)
(* reset removes them.                                                     *)
PlacedIsWhole ==
  disk.dir.there /\ sused.harm = 0 => \A f \in WFiles : disk.dir.files[f] \in {"good", "none"}

(* A reset acknowledged has left nothing on the node that a later pass     *)
(* could take for the model: what is there after it came after it.         *)
ResetClears ==
  [][pass.at = "rmprogress" /\ pass'.at = "status" =>
       /\ ~disk'.dir.there /\ ~disk'.tmp.there /\ disk'.progress = "none" /\ sunit'.at = "none"]_stagingVars

(* Deaths, resumed transfers and resets leave the weights of the manifest  *)
(* or nothing, and call nothing corrupt that is only unfinished.           *)
WeightsSurvive == DeathsRecover /\ []PlacedIsWhole /\ ResetClears

(* "staged means verified" (staging.go, VerifyStaged): a pass that reports *)
(* the model staged has weights that verify against the pinned manifest.   *)
StagedIsVerified ==
  [][pass.at = "status" /\ pass'.at = "poll" /\ last'.state = "staged" => VerifyStaged(pass.ver) = "staged"]_stagingVars
=============================================================================

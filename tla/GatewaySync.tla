---------------------------- MODULE GatewaySync ----------------------------
(***************************************************************************)
(* How routes reach the data plane: `gateway sync`                         *)
(* (internal/cli/gatewaysync.go), run by the minute's timer, by hand and   *)
(* by `config apply` (autoSync), possibly at once.  Each run reads the     *)
(* configuration and, separately, which deployments are ready; renders;    *)
(* compares with the file; writes it; and restarts the plane unless the    *)
(* file was right already and the marker in /run says the process was      *)
(* started with it.                                                        *)
(*                                                                         *)
(* Data abstraction.  A rendered configuration is the set of deployments   *)
(* in it (renderLiteLLM is a function of the members, and                  *)
(* assertLiteLLMLoggingOff accepts whatever it renders); its digest is the *)
(* same set.  A configuration file cut short by WriteFile is Torn.         *)
(***************************************************************************)
EXTENDS Integers, FiniteSets

CONSTANTS
  Deployments,    \* members of the routes
  Placements,     \* what the configuration may say of one, "served" among them
  Syncers,        \* runs of gateway sync that may overlap
  MaxMoves,       \* bound: changes of configuration and readiness
  MaxSyncFaults,  \* bound: restarts that fail and syncs that die
  MaxReboots      \* bound: reboots of the host and restarts of the plane by itself

ASSUME GatewaySyncAssumption ==
  /\ Placements \subseteq {"served", "noport", "nodeoff", "disabled", "remote"}
  /\ "served" \in Placements
  /\ {MaxMoves, MaxSyncFaults, MaxReboots} \subseteq Nat

VARIABLES
  gconf,    \* route members in the configuration
  gready,   \* deployments whose state is ready
  gfile,    \* the plane's configuration file
  gmark,    \* /run/nodary/<plane>.applied
  gplane,   \* what the running plane was started with
  gsync,    \* the runs
  gused     \* what the bounds count; history: two runs overlapped

syncVars == <<gconf, gready, gfile, gmark, gplane, gsync, gused>>

Torn == [torn |-> TRUE]
NoMark == [marked |-> FALSE]
Body(S) == [torn |-> FALSE, members |-> S]
Bodies == {Body(S) : S \in SUBSET Deployments}
NoSync == [at |-> "idle", conf |-> [d \in Deployments |-> "disabled"],
           body |-> Body({}), changed |-> FALSE]

SyncTypeOK ==
  /\ gconf \in [Deployments -> Placements] /\ gready \subseteq Deployments
  /\ gfile \in Bodies \cup {Torn}
  /\ gmark \in Bodies \cup {NoMark}
  /\ gplane \in Bodies \cup {Torn}        \* Torn: the plane is not up

(* Mutant: a deployment that was ready once stays in its route.            *)
routeModelsConfigured(conf, ready) == {d \in Deployments : conf[d] = "served"}

(* routeModels: a member is rendered if it has a port, its node serves, it *)
(* is not disabled, it is ready and it is on this host.                    *)
routeModels(conf, ready) == {d \in Deployments : conf[d] = "served" /\ d \in ready}

Run(s, r) == gsync' = [gsync EXCEPT ![s] = r]
Use(field) == gused' = [gused EXCEPT ![field] = @ + 1]

(* openForReading, config.Read: the snapshot.                              *)
ReadSnapshot(s) ==
  /\ gsync[s].at = "idle"
  /\ Run(s, [gsync[s] EXCEPT !.at = "ready", !.conf = gconf])
  /\ gused' = [gused EXCEPT !.overlap = @ \/ \E t \in Syncers \ {s} : gsync[t].at /= "idle"]
  /\ UNCHANGED <<gconf, gready, gfile, gmark, gplane>>

(* readyDeployments, routeModels, Render: a read of its own.               *)
readyDeployments(s) ==
  /\ gsync[s].at = "ready"
  /\ Run(s, [gsync[s] EXCEPT !.at = "look", !.body = Body(routeModels(gsync[s].conf, gready))])
  /\ UNCHANGED <<gconf, gready, gfile, gmark, gplane, gused>>

(* changed: the file is compared with what was rendered.                   *)
LookAtFile(s) ==
  /\ gsync[s].at = "look"
  /\ Run(s, [gsync[s] EXCEPT !.at = "write", !.changed = gfile /= gsync[s].body])
  /\ UNCHANGED <<gconf, gready, gfile, gmark, gplane, gused>>

(* writePlaneConfig compares again; WriteFile truncates and then writes.   *)
writePlaneConfig(s) ==
  /\ gsync[s].at = "write"
  /\ IF gfile = gsync[s].body
     THEN gfile' = gfile /\ Run(s, [gsync[s] EXCEPT !.at = "decide"])
     ELSE gfile' = Torn /\ Run(s, [gsync[s] EXCEPT !.at = "fill"])
  /\ UNCHANGED <<gconf, gready, gmark, gplane, gused>>

FillConfig(s) ==
  /\ gsync[s].at = "fill"
  /\ gfile' = gsync[s].body
  /\ Run(s, [gsync[s] EXCEPT !.at = "decide"])
  /\ UNCHANGED <<gconf, gready, gmark, gplane, gused>>

(* The plane is left alone only if the file was right and the marker says  *)
(* the process was started with it.                                        *)
NeedsRestart(s) == gsync[s].changed \/ gmark /= gsync[s].body

SkipRestart(s) ==
  /\ gsync[s].at = "decide"
  /\ ~NeedsRestart(s)
  /\ Run(s, NoSync)
  /\ UNCHANGED <<gconf, gready, gfile, gmark, gplane, gused>>

(* install.Restart: the plane comes up with the file as it is now; a file  *)
(* cut short leaves it down, to be started again by its unit.              *)
Restart(s) ==
  /\ gsync[s].at = "decide"
  /\ NeedsRestart(s)
  /\ gplane' = gfile
  /\ Run(s, [gsync[s] EXCEPT !.at = "mark"])
  /\ UNCHANGED <<gconf, gready, gfile, gmark, gused>>

(* Mutant: the marker is written although the restart failed.              *)
RestartFailsMarked(s) ==
  /\ gsync[s].at = "decide"
  /\ NeedsRestart(s)
  /\ gused.faults < MaxSyncFaults
  /\ Use("faults")
  /\ Run(s, [gsync[s] EXCEPT !.at = "mark"])
  /\ UNCHANGED <<gconf, gready, gfile, gmark, gplane>>

(* A restart that fails: said, and the command ends well.                  *)
RestartFails(s) ==
  /\ gsync[s].at = "decide"
  /\ NeedsRestart(s)
  /\ gused.faults < MaxSyncFaults
  /\ Use("faults")
  /\ Run(s, NoSync)
  /\ UNCHANGED <<gconf, gready, gfile, gmark, gplane>>

(* The marker holds the digest of what this run rendered.                  *)
MarkApplied(s) ==
  /\ gsync[s].at = "mark"
  /\ gmark' = gsync[s].body
  /\ Run(s, NoSync)
  /\ UNCHANGED <<gconf, gready, gfile, gplane, gused>>

SyncDies(s) ==
  /\ gsync[s].at /= "idle"
  /\ gused.faults < MaxSyncFaults
  /\ Use("faults")
  /\ Run(s, NoSync)
  /\ UNCHANGED <<gconf, gready, gfile, gmark, gplane>>

(* Restart=always: a plane that is down comes up again in ten seconds.     *)
PlaneComesUp ==
  /\ gplane = Torn
  /\ gfile /= Torn
  /\ gplane' = gfile
  /\ UNCHANGED <<gconf, gready, gfile, gmark, gsync, gused>>

(* The boot clears /run and starts the plane from the file.                *)
Reboot ==
  /\ gused.reboots < MaxReboots
  /\ Use("reboots")
  /\ gmark' = NoMark
  /\ gplane' = gfile
  /\ gsync' = [s \in Syncers |-> NoSync]
  /\ UNCHANGED <<gconf, gready, gfile>>

(* A revision of the configuration; a heartbeat that moves a state.        *)
ConfigMoves(d, p) ==
  /\ gused.moves < MaxMoves
  /\ gconf[d] /= p
  /\ Use("moves")
  /\ gconf' = [gconf EXCEPT ![d] = p]
  /\ UNCHANGED <<gready, gfile, gmark, gplane, gsync>>

ReadyMoves(d) ==
  /\ gused.moves < MaxMoves
  /\ Use("moves")
  /\ gready' = IF d \in gready THEN gready \ {d} ELSE gready \cup {d}
  /\ UNCHANGED <<gconf, gfile, gmark, gplane, gsync>>

(* `server install` writes the empty member list and starts the plane      *)
(* (writeDataPlane).                                                       *)
SyncInit ==
  /\ gconf = [d \in Deployments |-> "served"] /\ gready = {}
  /\ gfile = Body({}) /\ gplane = Body({}) /\ gmark = NoMark
  /\ gsync = [s \in Syncers |-> NoSync]
  /\ gused = [moves |-> 0, faults |-> 0, reboots |-> 0, overlap |-> FALSE]

SyncStep(s) ==
  \/ ReadSnapshot(s) \/ readyDeployments(s) \/ LookAtFile(s) \/ writePlaneConfig(s)
  \/ FillConfig(s) \/ SkipRestart(s) \/ Restart(s) \/ MarkApplied(s)

SyncNext ==
  \/ \E s \in Syncers : SyncStep(s) \/ RestartFails(s) \/ SyncDies(s)
  \/ PlaneComesUp \/ Reboot
  \/ \E d \in Deployments : ReadyMoves(d) \/ \E p \in Placements : ConfigMoves(d, p)

SyncSpec == SyncInit /\ [][SyncNext]_syncVars

-----------------------------------------------------------------------------
(* When no sync is under way, a file the marker vouches for is what the    *)
(* plane runs with, so the next sync never leaves alone a plane that was   *)
(* started with something else: after any overlapping of two syncs, or     *)
(* after a restart that failed or a sync that died.  (Not after both, two  *)
(* such faults, or with three syncs at once: the marker is not withdrawn   *)
(* before the file is written.)                                            *)
MarkerHonest ==
  (/\ \A s \in Syncers : gsync[s].at = "idle"
   /\ gfile = gmark /\ gfile /= Torn
   /\ gused.faults = 0 \/ (gused.faults = 1 /\ ~gused.overlap))
    => gplane = gfile

(* Where no two syncs overlapped and none failed, a sync that ends with    *)
(* its configuration still the current one leaves the plane running with   *)
(* exactly the ready members of the configuration, restarted or not.       *)
AloneSyncServes ==
  [][\A s \in Syncers :
       (/\ gsync[s].at \in {"decide", "mark"} /\ gsync'[s].at = "idle"
        /\ gused' = gused
        /\ ~gused.overlap /\ gused.faults = 0
        /\ gsync[s].body = gfile
        /\ gsync[s].body = Body(routeModels(gconf, gready)))
       => gplane' = Body({d \in gready : gconf[d] = "served"})]_syncVars

(* A sync that leaves the plane alone, and one that restarts it, are right *)
(* to.                                                                     *)
SyncIsRight == []MarkerHonest /\ AloneSyncServes
=============================================================================

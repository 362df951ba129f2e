-------------------------------- MODULE Host --------------------------------
(***************************************************************************)
(* What nodary does to the machine of a control plane: the pinned manifest *)
(* and its signed revisions (internal/components), the cache of artifacts  *)
(* and the offline bundle (internal/bundle), `server install`, `upgrade`   *)
(* and `uninstall` (internal/cli, internal/install).  Each verb is a run   *)
(* of steps on the disk; the process may die between any two and be run    *)
(* again, and a verb of another release may follow.                        *)
(*                                                                         *)
(* Data abstraction.  A manifest is its revision number, which a release   *)
(* shares with the manifest embedded in it; revision m pins version m of   *)
(* every component and of the plane's image, so an artifact's name in the  *)
(* cache is <<component, m>>.  Bytes are the pinned ones or others.  A     *)
(* signature is the revision it signs.  Two files that live at one path    *)
(* are one variable: OwnershipFile and RevisionName are both               *)
(* components.json of the configuration directory.                         *)
(***************************************************************************)
EXTENDS Integers, FiniteSets, FiniteSetsExt

CONSTANTS
  NComps,         \* components with an artifact and one binary on the host
  Releases,       \* releases of nodary, by the revision they embed
  Revisions,      \* revisions of the manifest
  NewText,        \* the first release whose unit files differ
  MaxVerbs,       \* bound: verbs run
  MaxHostFaults   \* bound: deaths, failed downloads, copies and restarts

ASSUME HostAssumption ==
  /\ {NComps, NewText, MaxVerbs, MaxHostFaults} \subseteq Nat
  /\ Releases \subseteq Revisions /\ Revisions \subseteq Nat \ {0}

VARIABLES
  hfile,   \* /etc/nodary/components.json
  hsig,    \* /etc/nodary/components.json.minisig
  hcache,  \* /var/lib/nodary/dist
  hbin,    \* the components' binaries in /usr/local/bin
  hdisk,   \* link: /opt/nodary/current; conf: server.toml, secret.key; db: the database;
           \* text, image: the unit files, the plane's environment file
  hproc,   \* what each running unit was started with, 0: it is not running
  hop,     \* the verb under way
  hused    \* what the bounds count

hostVars == <<hfile, hsig, hcache, hbin, hdisk, hproc, hop, hused>>

Comps == 1..NComps
Names == Comps \X Revisions
Units == {"plane", "server"}
NoBin == [by |-> "nobody", good |-> TRUE]
Nothing == [c \in Comps |-> "no"]
NoFile == [kind |-> "none", rev |-> 0, own |-> Nothing, cached |-> {}]
NoVerb == [verb |-> "none", at |-> "idle", rel |-> 0, man |-> 0, todo |-> {}, got |-> {},
           own |-> Nothing, moved |-> FALSE, skip |-> FALSE, purge |-> FALSE, restart |-> {},
           warned |-> FALSE]

HostTypeOK ==
  /\ hfile.kind \in {"none", "rev", "own"}
  /\ hfile.rev \in IF hfile.kind = "rev" THEN Revisions ELSE {0}
  /\ hfile.own \in [Comps -> {"no", "found", "placed"}] /\ hfile.cached \subseteq Names
  /\ hsig \in Revisions \cup {0}
  /\ hcache \in [Names -> {"absent", "pinned", "other"}]
  /\ \A c \in Comps : hbin[c] \in [by : {"nobody", "operator", "nodary"}, good : BOOLEAN]
  /\ hdisk \in [link : Releases \cup {0}, conf : BOOLEAN, db : BOOLEAN,
                text : 0..2, image : Revisions \cup {0}]
  /\ hproc \in [Units -> Revisions \cup {0}]
  /\ hop.verb \in {"none", "apply", "fetch", "open", "install", "upgrade", "uninstall"}
  /\ (hop.at = "idle") = (hop.verb = "none")
  /\ hop.todo \subseteq Comps /\ hop.got \subseteq Comps /\ hop.restart \subseteq Units

\* The text of the unit files a release writes.
TextOf(r) == IF r < NewText THEN 1 ELSE 2

Fault == hused.faults < MaxHostFaults
CountFault == hused' = [hused EXCEPT !.faults = @ + 1]
Begin(verb, at, rel, man) ==
  /\ hop.at = "idle" /\ hused.verbs < MaxVerbs
  /\ hop' = [NoVerb EXCEPT !.verb = verb, !.at = at, !.rel = rel, !.man = man, !.todo = Comps]
  /\ hused' = [hused EXCEPT !.verbs = @ + 1]
Ended == hop' = NoVerb

-----------------------------------------------------------------------------
(***************************************************************************)
(* The manifest in force.                                                  *)
(***************************************************************************)
\* VerifyRevision: the document is a manifest and the signature beside it is of it.
VerifyRevision == hfile.kind = "rev" /\ hsig = hfile.rev

\* Effective: the revision if it verifies and is newer than the floor, else the floor.
Effective(rel) == IF VerifyRevision /\ hfile.rev > rel THEN hfile.rev ELSE rel

\* cmdComponentsApply: a verified candidate newer than the floor begins to be written.
ComponentsApply(rel, rev) ==
  /\ rev > rel /\ Begin("apply", "signature", rel, rev)
  /\ UNCHANGED <<hfile, hsig, hcache, hbin, hdisk, hproc>>

\* writeRevision: the signature is replaced, then the document.
WriteSignature ==
  /\ hop.at = "signature" /\ hsig' = hop.man /\ hop' = [hop EXCEPT !.at = "document"]
  /\ UNCHANGED <<hfile, hcache, hbin, hdisk, hproc, hused>>

WriteDocument ==
  /\ hop.at = "document" /\ hfile' = [NoFile EXCEPT !.kind = "rev", !.rev = hop.man] /\ Ended
  /\ UNCHANGED <<hsig, hcache, hbin, hdisk, hproc, hused>>

-----------------------------------------------------------------------------
(***************************************************************************)
(* The ownership record.                                                   *)
(***************************************************************************)
\* LoadOwnership: a revision decodes as a record that names no path.
LoadOwnership == IF hfile.kind = "own" THEN hfile ELSE NoFile

(* Mutant: Record keeps an entry once it says placed.                      *)
RecordSticky(own, cached) ==
  [kind |-> "own", rev |-> 0, cached |-> LoadOwnership.cached \cup cached,
   own |-> [c \in Comps |-> IF own[c] # "no" THEN "placed" ELSE LoadOwnership.own[c]]]

\* Record: new entries replace those of the same path.
Record(own, cached) ==
  [kind |-> "own", rev |-> 0, cached |-> LoadOwnership.cached \cup cached,
   own |-> [c \in Comps |-> IF own[c] # "no" THEN own[c] ELSE LoadOwnership.own[c]]]

\* Removable
Removable == {c \in Comps : LoadOwnership.own[c] = "placed"}

-----------------------------------------------------------------------------
(***************************************************************************)
(* The cache: Fetch, one artifact after another, and the bundle.           *)
(***************************************************************************)
\* cmdComponentsFetch
ComponentsFetch(rel) ==
  /\ Begin("fetch", "fetch", rel, Effective(rel))
  /\ UNCHANGED <<hfile, hsig, hcache, hbin, hdisk, hproc>>

Name == <<Min(hop.todo), hop.man>>
Fetched == [hop EXCEPT !.todo = @ \ {Min(hop.todo)}, !.got = @ \cup {Min(hop.todo)}]

(* Mutant: what is in the cache is taken as it is.                         *)
fetchCachedTrusting == hcache[Name] # "absent" /\ hop' = Fetched /\ UNCHANGED hcache

\* fetchOne: in the cache with the pinned digest.
fetchCached == hcache[Name] = "pinned" /\ hop' = Fetched /\ UNCHANGED hcache

\* fetchOne: downloaded to a temporary name, hashed and renamed.
fetchDownloaded ==
  /\ hcache[Name] = "absent" /\ hcache' = [hcache EXCEPT ![Name] = "pinned"] /\ hop' = Fetched

FetchOne ==
  /\ hop.at = "fetch" /\ hop.todo # {} /\ (fetchCached \/ fetchDownloaded)
  /\ UNCHANGED <<hfile, hsig, hbin, hdisk, hproc, hused>>

\* After the binaries: `upgrade` has written the unit files, `server install` has not.
AfterPlace == IF hop.verb = "upgrade" THEN "image" ELSE "text"

\* After fetchIntoMirror: the binaries are placed, or none was fetched.
AfterFetch(got) ==
  hop' = [hop EXCEPT !.at = IF got = {} THEN AfterPlace ELSE "place", !.todo = got, !.got = got]

\* The first artifact that fails ends the fetch: a mismatch in the cache, bytes the
\* manifest does not pin, or no answer.  `components fetch` stops, having recorded
\* nothing; fetchIntoMirror warns and returns no artifact.
FetchFails ==
  /\ hop.at = "fetch" /\ hop.todo # {}
  /\ \/ hcache[Name] = "other" /\ UNCHANGED hused
     \/ hcache[Name] = "absent" /\ Fault /\ CountFault
  /\ IF hop.verb = "fetch" THEN Ended ELSE AfterFetch({})
  /\ UNCHANGED <<hfile, hsig, hcache, hbin, hdisk, hproc>>

\* `components fetch` records what it has in the cache, fetched now or before;
\* fetchIntoMirror hands it on.
FetchDone ==
  /\ hop.at = "fetch" /\ hop.todo = {}
  /\ IF hop.verb = "fetch"
     THEN hfile' = Record(Nothing, hop.got \X {hop.man}) /\ Ended
     ELSE AfterFetch(hop.got) /\ UNCHANGED hfile
  /\ UNCHANGED <<hsig, hcache, hbin, hdisk, hproc, hused>>

\* cmdBundleOpen: a bundle built with revision man, one member per component, and
\* the manifest in force here (rel is the running release).
BundleOpen(rel, man) ==
  /\ Begin("open", "extract", rel, man)
  /\ UNCHANGED <<hfile, hsig, hcache, hbin, hdisk, hproc>>

\* extract: the member is renamed into the cache, whatever it holds.
Extract ==
  /\ hop.at = "extract" /\ hop.todo # {}
  /\ \E bytes \in {"pinned", "other"} : hcache' = [hcache EXCEPT ![Name] = bytes]
  /\ hop' = [hop EXCEPT !.at = "check"]
  /\ UNCHANGED <<hfile, hsig, hbin, hdisk, hproc, hused>>

\* Open: a member that is not what the bundle records, or is but not what this
\* build pins for the name, is removed and ends the run; a name the manifest in
\* force does not pin is held to the bundle's own record only.
Check ==
  /\ hop.at = "check"
  /\ \/ /\ hcache[Name] = "other" /\ hcache' = [hcache EXCEPT ![Name] = "absent"] /\ Ended
     \/ /\ hcache[Name] = "other" /\ hop.man # Effective(hop.rel)     \* consistent, unpinned
        /\ hop' = [Fetched EXCEPT !.at = "extract"] /\ UNCHANGED hcache
     \/ /\ hcache[Name] = "pinned"
        /\ hop' = [Fetched EXCEPT !.at = "extract"] /\ UNCHANGED hcache
  /\ UNCHANGED <<hfile, hsig, hbin, hdisk, hproc, hused>>

\* Every member opened.
OpenDone ==
  /\ hop.at = "extract" /\ hop.todo = {} /\ Ended
  /\ UNCHANGED <<hfile, hsig, hcache, hbin, hdisk, hproc, hused>>

-----------------------------------------------------------------------------
(***************************************************************************)
(* install.sh, `server install` and `upgrade`.                             *)
(***************************************************************************)
\* install.sh: a release is placed and `current` repointed; no unit is touched.
InstallSh(rel) ==
  /\ hop.at = "idle" /\ hused.verbs < MaxVerbs /\ hdisk.link # rel
  /\ hdisk' = [hdisk EXCEPT !.link = rel] /\ hused' = [hused EXCEPT !.verbs = @ + 1]
  /\ UNCHANGED <<hfile, hsig, hcache, hbin, hproc, hop>>

\* cmdServerInstall: EnsureBinary repoints `current`.  A database bound to a sealing
\* key that is gone refuses the run.
ServerInstall(rel) ==
  /\ hdisk.db => hdisk.conf
  /\ Begin("install", "conf", rel, 0)
  /\ hdisk' = [hdisk EXCEPT !.link = rel]
  /\ UNCHANGED <<hfile, hsig, hcache, hbin, hproc>>

\* The database, the sealing key and server.toml; then the components, which
\* --offline skips.
InstallConfig ==
  /\ hop.at = "conf" /\ hdisk' = [hdisk EXCEPT !.conf = TRUE, !.db = TRUE]
  /\ \E offline \in BOOLEAN :
       hop' = [hop EXCEPT !.at = IF offline THEN "text" ELSE "fetch", !.man = Effective(hop.rel)]
  /\ UNCHANGED <<hfile, hsig, hcache, hbin, hproc, hused>>

\* cmdUpgrade: the manifest and the moves are read, the record and the backup made,
\* EnsureBinary repoints `current`.
Upgrade(rel) ==
  /\ hdisk.conf /\ hop.at = "idle" /\ hused.verbs < MaxVerbs
  /\ hdisk' = [hdisk EXCEPT !.link = rel]
  /\ \E offline \in BOOLEAN :
       hop' = [NoVerb EXCEPT !.verb = "upgrade", !.at = "text", !.rel = rel,
                             !.man = Effective(rel), !.todo = Comps,
                             !.moved = hdisk.link # rel, !.skip = offline]
  /\ hused' = [hused EXCEPT !.verbs = @ + 1]
  /\ UNCHANGED <<hfile, hsig, hcache, hbin, hproc>>

\* WriteUnits: of both verbs; `upgrade` goes on to the components unless --offline.
WriteUnits ==
  /\ hop.at = "text" /\ hdisk' = [hdisk EXCEPT !.text = TextOf(hop.rel)]
  /\ hop' = [hop EXCEPT !.at = IF hop.verb = "upgrade" /\ ~hop.skip THEN "fetch" ELSE "image",
                        !.restart = IF hdisk.text # TextOf(hop.rel) THEN Units ELSE {}]
  /\ UNCHANGED <<hfile, hsig, hcache, hbin, hproc, hused>>

(* Mutant: what was there already is recorded as placed.                   *)
placeComponentAll ==
  LET c == Min(hop.todo) IN
    /\ hop' = [hop EXCEPT !.todo = @ \ {c}, !.own[c] = "placed"]
    /\ hbin' = IF hbin[c].by = "nobody"
               THEN [hbin EXCEPT ![c] = [by |-> "nodary", good |-> hcache[Name] = "pinned"]]
               ELSE hbin

\* PlaceComponents: a binary that is present is left alone and noted as found;
\* one that is absent is copied and noted as placed.
placeComponent ==
  LET c == Min(hop.todo) IN
    IF hbin[c].by = "nobody"
    THEN /\ hbin' = [hbin EXCEPT ![c] = [by |-> "nodary", good |-> hcache[Name] = "pinned"]]
         /\ hop' = [hop EXCEPT !.todo = @ \ {c}, !.own[c] = "placed"]
    ELSE /\ hop' = [hop EXCEPT !.todo = @ \ {c}, !.own[c] = "found"]
         /\ UNCHANGED hbin

PlaceBinary ==
  /\ hop.at = "place" /\ hop.todo # {} /\ placeComponent
  /\ UNCHANGED <<hfile, hsig, hcache, hdisk, hproc, hused>>

\* A copy that fails is warned of and skips the record; the record is written once,
\* after the last binary.
PlaceFails ==
  /\ hop.at = "place" /\ hop.todo # {} /\ Fault /\ CountFault
  /\ hop' = [hop EXCEPT !.at = AfterPlace]
  /\ UNCHANGED <<hfile, hsig, hcache, hbin, hdisk, hproc>>
PlaceDone ==
  /\ hop.at = "place" /\ hop.todo = {}
  /\ hfile' = Record(hop.own, {}) /\ hop' = [hop EXCEPT !.at = AfterPlace]
  /\ UNCHANGED <<hsig, hcache, hbin, hdisk, hproc, hused>>

(* Mutant: only what the run itself rewrote is restarted.                  *)
restartSetRewritten(man) ==
  hop.restart \cup {u \in Units : u = "plane" /\ hdisk.image # man}

\* applyUpgrade: the units whose file or image changed and, if the release moved,
\* nodary's own.
restartSet(man) ==
  hop.restart \cup {u \in Units : \/ u = "plane" /\ hdisk.image # man
                                  \/ u = "server" /\ hop.moved}

\* writePlaneImage: `upgrade` pins what its manifest, read at the start, names;
\* `server install` reads the manifest again, and starts only what is not running.
WritePlaneImage ==
  /\ hop.at = "image"
  /\ LET man == IF hop.verb = "upgrade" THEN hop.man ELSE Effective(hop.rel) IN
       /\ hdisk' = [hdisk EXCEPT !.image = man]
       /\ hop' = [hop EXCEPT !.at = "start", !.todo = {}, !.restart =
                    IF hop.verb = "install" THEN {u \in Units : hproc[u] = 0} ELSE restartSet(man)]
  /\ UNCHANGED <<hfile, hsig, hcache, hbin, hproc, hused>>

Started(u) == IF u = "plane" THEN hdisk.image ELSE hdisk.link

\* restartUnits, Start: one unit after another; one that fails is warned of.
RestartUnit ==
  /\ hop.at = "start"
  /\ \E u \in hop.restart :
       /\ u = "plane" \/ "plane" \notin hop.restart
       /\ hproc' = [hproc EXCEPT ![u] = Started(u)]
       /\ hop' = [hop EXCEPT !.restart = @ \ {u}]
  /\ UNCHANGED <<hfile, hsig, hcache, hbin, hdisk, hused>>
RestartUnitFails ==
  /\ hop.at = "start" /\ Fault /\ CountFault
  /\ \E u \in hop.restart :
       /\ u = "plane" \/ "plane" \notin hop.restart
       /\ hop' = [hop EXCEPT !.restart = @ \ {u}, !.warned = TRUE]
  /\ UNCHANGED <<hfile, hsig, hcache, hbin, hdisk, hproc>>
StartDone ==
  /\ hop.at = "start" /\ hop.restart = {} /\ Ended
  /\ UNCHANGED <<hfile, hsig, hcache, hbin, hdisk, hproc, hused>>

-----------------------------------------------------------------------------
(***************************************************************************)
(* `uninstall`.                                                            *)
(***************************************************************************)
\* rolesOn: by server.toml, else by /opt/nodary.
rolesOn == hdisk.conf \/ hdisk.link # 0

\* cmdUninstall: refused without --purge while there is a database and its key;
\* then the units are stopped and their files removed.
Uninstall(purge) ==
  /\ rolesOn /\ (hdisk.db /\ hdisk.conf => purge)
  /\ hop.at = "idle" /\ hused.verbs < MaxVerbs
  /\ hop' = [NoVerb EXCEPT !.verb = "uninstall", !.at = "components", !.purge = purge]
  /\ hused' = [hused EXCEPT !.verbs = @ + 1]
  /\ hproc' = [u \in Units |-> 0] /\ hdisk' = [hdisk EXCEPT !.text = 0]
  /\ UNCHANGED <<hfile, hsig, hcache, hbin>>

\* removeComponents: what the record says was placed; a removal that fails is
\* reported and the run goes on.
RemoveComponents ==
  /\ hop.at = "components"
  /\ \E stuck \in SUBSET Removable :
       /\ IF stuck = {} THEN UNCHANGED hused ELSE Fault /\ CountFault
       /\ hbin' = [c \in Comps |-> IF c \in Removable \ stuck THEN NoBin ELSE hbin[c]]
  /\ hcache' = [n \in Names |-> IF n \in LoadOwnership.cached THEN "absent" ELSE hcache[n]]
  /\ hop' = [hop EXCEPT !.at = "opt"]
  /\ UNCHANGED <<hfile, hsig, hdisk, hproc>>

\* /opt/nodary, then the configuration directory.
RemoveOpt ==
  /\ hop.at = "opt" /\ hdisk' = [hdisk EXCEPT !.link = 0] /\ hop' = [hop EXCEPT !.at = "config"]
  /\ UNCHANGED <<hfile, hsig, hcache, hbin, hproc, hused>>
RemoveConfig ==
  /\ hop.at = "config" /\ (IF hop.purge THEN hop' = [hop EXCEPT !.at = "state"] ELSE Ended)
  /\ hdisk' = [hdisk EXCEPT !.conf = FALSE, !.image = 0] /\ hfile' = NoFile /\ hsig' = 0
  /\ UNCHANGED <<hcache, hbin, hproc, hused>>

\* purgeState: the database and the cache with the rest of the data directory.
PurgeState ==
  /\ hop.at = "state" /\ Ended
  /\ hdisk' = [hdisk EXCEPT !.db = FALSE] /\ hcache' = [n \in Names |-> "absent"]
  /\ UNCHANGED <<hfile, hsig, hbin, hproc, hused>>

-----------------------------------------------------------------------------
\* The process is killed, or the machine stops: the units come back as linked.
Killed ==
  /\ hop.at # "idle" /\ Fault /\ CountFault /\ Ended
  /\ hproc' \in {hproc, [u \in Units |-> IF hproc[u] = 0 THEN 0 ELSE Started(u)]}
  /\ UNCHANGED <<hfile, hsig, hcache, hbin, hdisk>>

\* The operator installs a component of their own, where nodary claims none.
OperatorPlaces(c) ==
  /\ hop.at = "idle" /\ hbin[c].by = "nobody" /\ LoadOwnership.own[c] # "placed"
  /\ hbin' = [hbin EXCEPT ![c] = [by |-> "operator", good |-> TRUE]]
  /\ UNCHANGED <<hfile, hsig, hcache, hdisk, hproc, hop, hused>>

HostInit ==
  /\ hfile = NoFile /\ hsig = 0 /\ hcache = [n \in Names |-> "absent"]
  /\ hbin = [c \in Comps |-> NoBin]
  /\ hdisk = [link |-> 0, conf |-> FALSE, db |-> FALSE, text |-> 0, image |-> 0]
  /\ hproc = [u \in Units |-> 0] /\ hop = NoVerb /\ hused = [verbs |-> 0, faults |-> 0]

HostNext ==
  \/ \E rel \in Releases :
       \/ ComponentsFetch(rel) \/ InstallSh(rel) \/ ServerInstall(rel) \/ Upgrade(rel)
       \/ \E rev \in Revisions : ComponentsApply(rel, rev) \/ BundleOpen(rel, rev)
  \/ WriteSignature \/ WriteDocument
  \/ FetchOne \/ FetchFails \/ FetchDone \/ Extract \/ Check \/ OpenDone
  \/ InstallConfig \/ WriteUnits \/ PlaceBinary \/ PlaceFails \/ PlaceDone \/ WritePlaneImage
  \/ RestartUnit \/ RestartUnitFails \/ StartDone
  \/ \E purge \in BOOLEAN : Uninstall(purge)
  \/ RemoveComponents \/ RemoveOpt \/ RemoveConfig \/ PurgeState
  \/ Killed \/ \E c \in Comps : OperatorPlaces(c)

HostSpec == HostInit /\ [][HostNext]_hostVars

-----------------------------------------------------------------------------
\* Whatever a bundle, a download or a death left in the cache, a binary nodary
\* puts on the host holds the bytes the manifest pins (fetchOne hashes the cached
\* file again, Open removes what it refuses; fetch.go:118-131, bundle.go:526-536).
PlacedIsPinned == \A c \in Comps : hbin[c].by = "nodary" => hbin[c].good

\* No verb replaces or removes a component the operator installed, on any path of
\* re-installs, upgrades, revisions and interrupted uninstalls ("Only what it placed
\* is ever removed", fetch.go:213).
TheirsUntouched == [][\A c \in Comps : hbin[c].by = "operator" => hbin'[c] = hbin[c]]_hostVars

\* An upgrade that found the host on another release, and ran to its end with no
\* restart warned of, leaves every unit it has running the release and the image
\* now on the disk, whatever earlier runs of it died or failed (upgrade.go:269).
UpgradeBouncesMoved ==
  [][hop.verb = "upgrade" /\ hop.at = "start" /\ hop'.at = "idle" /\ hused' = hused
       /\ hop.moved /\ ~hop.warned
     => hproc["server"] = hop.rel /\ hdisk.link = hop.rel]_hostVars

\* What the verbs leave on a host, cut short and run again in any order: nodary's
\* binaries as pinned, the operator's as they were, and no unit behind the disk.
VerbsAreSafe == []PlacedIsPinned /\ TheirsUntouched /\ UpgradeBouncesMoved

\* What the comment at upgrade.go:269 and docs/administering.md:881 promise of the
\* documented sequence: when `nodary upgrade` ends with nothing warned of, no unit
\* that runs is still the old binary.
UpgradedIsRunning ==
  [][hop.verb = "upgrade" /\ hop.at = "start" /\ hop'.at = "idle" /\ hused' = hused
       /\ ~hop.warned
     => hproc["server"] \in {0, hop.rel}]_hostVars
=============================================================================

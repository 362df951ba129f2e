------------------------------ MODULE Sealing ------------------------------
(***************************************************************************)
(* What a control plane must never lose or mix: the sealing key            *)
(* (internal/secret), the database it is bound to and that database's      *)
(* schema (internal/store/migrate.go, internal/identity/keybind.go), the   *)
(* agent CA (internal/api/pki.go), and the archives of them                *)
(* (internal/backup, internal/cli/backup.go).  Several processes open the  *)
(* database, migrate it, mint the key, bind and seal, or take a backup at  *)
(* once; each may die between any two steps; a restore may die half way.   *)
(*                                                                         *)
(* Data abstraction.  A key is the number of the call that generated it, 0 *)
(* is no key, and a ciphertext is the key that sealed it: Open succeeds    *)
(* exactly under that key.  A release is the set of migration versions     *)
(* embedded in it.  A transaction is one step, except a migration's.       *)
(***************************************************************************)
EXTENDS Integers, Sequences, FiniteSets, FiniteSetsExt

CONSTANTS
  KProcs,      \* processes that may run at once
  KReleases,   \* releases, each the set of its migrations' versions
  MaxKVerbs,   \* bound: verbs run
  MaxKFaults   \* bound: deaths, lost keys and lost hosts

NoBody == "nobody"

ASSUME SealingAssumption ==
  /\ NoBody \notin KProcs
  /\ KReleases \subseteq SUBSET (Nat \ {0}) /\ IsFiniteSet(KReleases)
  /\ MaxKVerbs \in Nat /\ MaxKFaults \in Nat

VARIABLES
  kfile,    \* secret.key
  ktemps,   \* the temporary names keys were written under, and whose they are
  kdb,      \* the database
  klock,    \* who holds its write lock
  kca,      \* the agent CA's certificate and the sealed half beside it
  karch,    \* the complete archives
  kproc,    \* the processes
  kused     \* what the bounds count; history: whether a restore mixed two installations

sealVars == <<kfile, ktemps, kdb, klock, kca, karch, kproc, kused>>

EmptyBase(file) ==
  [file |-> file, schema |-> <<>>, applied |-> {}, bound |-> 0, rows |-> {}, records |-> {}]
NoDB == EmptyBase("none")
NoCA == [cert |-> 0, sealed |-> 0, under |-> 0]
NoArchive == [db |-> NoDB, ca |-> NoCA, key |-> 0, id |-> 0]
VerbAt(verb, step, rel, id, a) ==
  [verb |-> verb, at |-> step, rel |-> rel, key |-> 0, tx |-> NoDB, id |-> id, listed |-> FALSE,
   arch |-> a]
NoProc == VerbAt("none", "idle", {}, 0, NoArchive)

SchemaVersions == UNION KReleases
KeyIds == 0..MaxKVerbs

Databases ==
  [file : {"none", "empty", "whole", "torn"}, schema : Seq(SchemaVersions),
   applied : SUBSET SchemaVersions, bound : KeyIds, rows : SUBSET KeyIds, records : SUBSET KeyIds]
AgentCAs == [cert : KeyIds, sealed : KeyIds, under : KeyIds]
Archives == [db : Databases, ca : AgentCAs, key : KeyIds, id : KeyIds]
SessionSteps == {"migrate", "migrating", "check", "key", "link", "unlink", "bind", "act", "ca",
                 "seal", "record", "snapshot", "root", "pki", "key in"}
RestoreSteps == {"db", "cert", "sealed", "put key"}
Works ==
  [verb : {"none", "install", "enroll", "backup", "restore"},
   at : {"idle"} \cup SessionSteps \cup RestoreSteps,
   rel : SUBSET SchemaVersions, key : KeyIds, tx : Databases, id : KeyIds, listed : BOOLEAN,
   arch : Archives]

SealTypeOK ==
  /\ kfile \in KeyIds /\ kdb \in Databases /\ kca \in AgentCAs /\ karch \subseteq Archives
  /\ kproc \in [KProcs -> Works] /\ ktemps \subseteq [key : KeyIds, live : BOOLEAN]
  /\ kused \in [verbs : KeyIds, faults : 0..MaxKFaults, mixed : BOOLEAN]
  /\ klock \in KProcs \cup {NoBody}
  /\ klock # NoBody => kproc[klock].at = "migrating"
  /\ \A p \in KProcs : kproc[p].at = "migrating" => klock = p

Proc(p, r) == kproc' = [kproc EXCEPT ![p] = r]
At(p, step) == Proc(p, [kproc[p] EXCEPT !.at = step])
Leave(p) == Proc(p, NoProc)
AllIdle == \A p \in KProcs : kproc[p].at = "idle"
KFault == kused.faults < MaxKFaults /\ kused' = [kused EXCEPT !.faults = @ + 1]
CountVerb == kused.verbs < MaxKVerbs /\ kused' = [kused EXCEPT !.verbs = @ + 1]

-----------------------------------------------------------------------------
(***************************************************************************)
(* openSession: Open, Migrate, checkKeyBinding.                            *)
(***************************************************************************)
(* store.Open stamps a database that is absent or empty, what a restore    *)
(* that died after truncating it left included; one cut short later is     *)
(* malformed.  Nobody works on a host while it is restored, and only one   *)
(* `server install` runs at a time.                                        *)
openSession(p, verb, rel) ==
  /\ kproc[p].at = "idle" /\ CountVerb
  /\ \A q \in KProcs : kproc[q].verb # "restore" /\ (verb = "install" => kproc[q].verb # verb)
  /\ kdb.file # "torn"
  /\ Proc(p, VerbAt(verb, "migrate", rel, kused.verbs + 1, NoArchive))
  /\ kdb' = [kdb EXCEPT !.file = "whole"]
  /\ UNCHANGED <<kfile, ktemps, klock, kca, karch>>

(* Mutant: a migration below the highest applied is applied late.          *)
reconcileGaps(want, applied) == applied \subseteq want

(* reconcile: every applied migration is known here, and none that is      *)
(* missing lies below the highest applied.                                 *)
reconcile(want, applied) ==
  /\ applied \subseteq want
  /\ \A v \in want \ applied : \A a \in applied : v > a

(* MigrateFS: the applied set is read under the write lock.                *)
MigrateFS(p) ==
  /\ kproc[p].at = "migrate" /\ klock = NoBody
  /\ IF reconcile(kproc[p].rel, kdb.applied)
     THEN klock' = p /\ Proc(p, [kproc[p] EXCEPT !.at = "migrating", !.tx = kdb])
     ELSE UNCHANGED klock /\ Leave(p)
  /\ UNCHANGED <<kfile, ktemps, kdb, kca, karch, kused>>

(* apply: one migration and its row, in the transaction.                   *)
applyMigration(p) ==
  LET todo == kproc[p].rel \ kproc[p].tx.applied IN
  /\ kproc[p].at = "migrating" /\ todo # {}
  /\ Proc(p, [kproc[p] EXCEPT !.tx.schema = Append(@, Min(todo)), !.tx.applied = @ \cup {Min(todo)}])
  /\ UNCHANGED <<kfile, ktemps, kdb, klock, kca, karch, kused>>

MigrateCommit(p) ==
  /\ kproc[p].at = "migrating" /\ kproc[p].rel = kproc[p].tx.applied
  /\ kdb' = kproc[p].tx /\ klock' = NoBody
  /\ Proc(p, [kproc[p] EXCEPT !.at = "check", !.tx = NoDB])
  /\ UNCHANGED <<kfile, ktemps, kca, karch, kused>>

(* CheckKey: nothing sealed yet, or sealed under this key.                 *)
CheckKey(key) == kdb.bound \in {0, key}

(* checkKeyBinding: a bound database needs its key; secret.Load and then   *)
(* CheckKey.                                                               *)
checkKeyBinding == kdb.bound # 0 => kfile # 0 /\ CheckKey(kfile)

SessionOpen(p) ==
  /\ kproc[p].at = "check"
  /\ IF ~checkKeyBinding THEN Leave(p)
     ELSE At(p, IF kproc[p].verb = "backup" THEN "record" ELSE "key")
  /\ UNCHANGED <<kfile, ktemps, kdb, klock, kca, karch, kused>>

-----------------------------------------------------------------------------
(***************************************************************************)
(* secret.Create.                                                          *)
(***************************************************************************)
(* Load, and if there is no key: generated and written under a temporary   *)
(* name.                                                                   *)
CreateKey(p) ==
  /\ kproc[p].at = "key"
  /\ IF kfile # 0
     THEN Proc(p, [kproc[p] EXCEPT !.at = "bind", !.key = kfile]) /\ UNCHANGED ktemps
     ELSE /\ Proc(p, [kproc[p] EXCEPT !.at = "link", !.key = kproc[p].id])
          /\ ktemps' = ktemps \cup {[key |-> kproc[p].id, live |-> TRUE]}
  /\ UNCHANGED <<kfile, kdb, klock, kca, karch, kused>>

(* sweepStaleTemps: what a dead process left, when it is old enough.       *)
sweepStaleTemps(temps) ==
  {S \in SUBSET temps : {t \in temps : t.live} \subseteq S}

(* Mutant: renamed into place.                                             *)
LinkRenames(p) ==
  /\ kproc[p].at = "link"
  /\ kfile' = kproc[p].key
  /\ At(p, "unlink")
  /\ UNCHANGED <<ktemps, kdb, klock, kca, karch, kused>>

(* link(2): the first to link has made the key, the others load it.        *)
LinkKey(p) ==
  /\ kproc[p].at = "link"
  /\ IF kfile = 0
     THEN /\ kfile' = kproc[p].key
          /\ ktemps' \in sweepStaleTemps(ktemps)
          /\ At(p, "unlink")
     ELSE /\ Proc(p, [kproc[p] EXCEPT !.at = "unlink", !.key = kfile])
          /\ UNCHANGED <<kfile, ktemps>>
  /\ UNCHANGED <<kdb, klock, kca, karch, kused>>

(* The deferred Remove of the temporary name.                              *)
UnlinkTemp(p) ==
  /\ kproc[p].at = "unlink"
  /\ ktemps' = {t \in ktemps : t.key # kproc[p].id}
  /\ At(p, "bind")
  /\ UNCHANGED <<kfile, kdb, klock, kca, karch, kused>>

-----------------------------------------------------------------------------
(***************************************************************************)
(* The first seal binds the database: TOTP enrollment, `server install`.   *)
(***************************************************************************)
(* BindKey: recorded once, never rewritten.                                *)
BindKey(db, key) == [db EXCEPT !.bound = IF @ = 0 THEN key ELSE @]

(* Mutant: the seed is sealed and nothing is bound.                        *)
EnrollUnbound(p) ==
  /\ kproc[p].at = "bind" /\ kproc[p].verb = "enroll" /\ klock = NoBody
  /\ kdb' = IF CheckKey(kproc[p].key) THEN [kdb EXCEPT !.rows = @ \cup {kproc[p].key}] ELSE kdb
  /\ Leave(p)
  /\ UNCHANGED <<kfile, ktemps, klock, kca, karch, kused>>

(* Enroll: CheckKey, BindKey and the sealed seed in one transaction.       *)
EnrollTOTP(p) ==
  /\ kproc[p].at = "bind" /\ kproc[p].verb = "enroll" /\ klock = NoBody
  /\ kdb' = IF CheckKey(kproc[p].key)
            THEN [BindKey(kdb, kproc[p].key) EXCEPT !.rows = @ \cup {kproc[p].key}]
            ELSE kdb
  /\ Leave(p)
  /\ UNCHANGED <<kfile, ktemps, klock, kca, karch, kused>>

(* cmdServerInstall: a database that is bound is left as it is.            *)
InstallReadsBinding(p) ==
  /\ kproc[p].at = "bind" /\ kproc[p].verb = "install"
  /\ At(p, IF kdb.bound = 0 THEN "act" ELSE "ca")
  /\ UNCHANGED <<kfile, ktemps, kdb, klock, kca, karch, kused>>

(* Mutant: an install binds nothing; the first TOTP seal will.             *)
InstallBindsLater(p) ==
  /\ kproc[p].at = "act" /\ At(p, "ca")
  /\ UNCHANGED <<kfile, ktemps, kdb, klock, kca, karch, kused>>

(* The key is bound before anything is sealed under it.                    *)
InstallBinds(p) ==
  /\ kproc[p].at = "act" /\ klock = NoBody
  /\ IF CheckKey(kproc[p].key)
     THEN kdb' = BindKey(kdb, kproc[p].key) /\ At(p, "ca")
     ELSE UNCHANGED kdb /\ Leave(p)
  /\ UNCHANGED <<kfile, ktemps, klock, kca, karch, kused>>

(* EnsureAgentCA: both halves are there, or the certificate alone, which   *)
(* is refused, or neither: the certificate is written, then the sealed     *)
(* key.                                                                    *)
EnsureAgentCA(p) ==
  /\ kproc[p].at = "ca"
  /\ IF kca.cert # 0 THEN Leave(p) /\ UNCHANGED kca
     ELSE At(p, "seal") /\ kca' = [kca EXCEPT !.cert = kproc[p].id]
  /\ UNCHANGED <<kfile, ktemps, kdb, klock, karch, kused>>

SealAgentCA(p) ==
  /\ kproc[p].at = "seal" /\ Leave(p)
  /\ kca' = [kca EXCEPT !.sealed = kproc[p].id, !.under = kproc[p].key]
  /\ UNCHANGED <<kfile, ktemps, kdb, klock, karch, kused>>

-----------------------------------------------------------------------------
(***************************************************************************)
(* Backup and restore.                                                     *)
(***************************************************************************)
(* cmdBackupCreate, createBackup: the record commits before the snapshot.  *)
RecordBackup(p) ==
  /\ kproc[p].at = "record" /\ klock = NoBody
  /\ kdb' = [kdb EXCEPT !.records = @ \cup {kproc[p].id}]
  /\ At(p, "snapshot")
  /\ UNCHANGED <<kfile, ktemps, klock, kca, karch, kused>>

(* Mutant: the snapshot leaves out what is newest.                         *)
SnapshotOfFile(db, id) == [db EXCEPT !.records = @ \ {id}]

(* Snapshot: VACUUM INTO, one transaction's view.                          *)
Snapshot(db, id) == db

CreateBackup(p) ==
  /\ kproc[p].at = "snapshot"
  /\ Proc(p, [kproc[p] EXCEPT !.at = "root", !.arch.db = Snapshot(kdb, kproc[p].id),
                              !.arch.id = kproc[p].id])
  /\ UNCHANGED <<kfile, ktemps, kdb, klock, kca, karch, kused>>

(* addTree: the configuration directory is listed, then pki/ with the      *)
(* certificate, the sealed half if it was listed, and last secret.key.     *)
(* A temporary key that was listed and is gone fails the walk.             *)
addRoot(p) ==
  /\ kproc[p].at = "root"
  /\ \/ Proc(p, [kproc[p] EXCEPT !.at = "pki", !.listed = kfile # 0])
     \/ (\E t \in ktemps : t.live) /\ Leave(p)
  /\ UNCHANGED <<kfile, ktemps, kdb, klock, kca, karch, kused>>

addPki(p) ==
  /\ kproc[p].at = "pki"
  /\ Proc(p, [kproc[p] EXCEPT !.at = "key in", !.arch.ca = kca])
  /\ UNCHANGED <<kfile, ktemps, kdb, klock, kca, karch, kused>>

addKey(p) ==
  /\ kproc[p].at = "key in" /\ Leave(p)
  /\ karch' = karch \cup {[kproc[p].arch EXCEPT !.key = IF kproc[p].listed THEN kfile ELSE 0]}
  /\ UNCHANGED <<kfile, ktemps, kdb, klock, kca, kused>>

(* readBackup: a database and its key, or it is refused.                   *)
readBackup(a) == a.db.file = "whole" /\ a.key # 0

(* cmdBackupRestore: refused over a database or a key without --force.     *)
(* The database is truncated first.  History: a restore mixes what was     *)
(* never one installation when it is forced over another one, or when the  *)
(* archive overlapped the first install (its snapshot is older than the    *)
(* binding, its walk newer than the CA).                                   *)
Restore(p, a, force) ==
  /\ AllIdle /\ kused.verbs < MaxKVerbs
  /\ readBackup(a)
  /\ force \/ (kdb.file = "none" /\ kfile = 0)
  /\ kused' = [kused EXCEPT !.verbs = @ + 1,
                           !.mixed = @ \/ force \/ (a.ca.sealed # 0 /\ a.db.bound = 0)]
  /\ Proc(p, VerbAt("restore", "db", {}, 0, a))
  /\ kdb' = EmptyBase("empty")
  /\ UNCHANGED <<kfile, ktemps, klock, kca, karch>>

(* The copy, of which a death may leave a part.                            *)
RestoreDatabase(p) ==
  /\ kproc[p].at = "db"
  /\ \/ At(p, "cert") /\ kdb' = kproc[p].arch.db
     \/ kdb.file = "empty" /\ kdb' = [kdb EXCEPT !.file = "torn"] /\ UNCHANGED kproc
  /\ UNCHANGED <<kfile, ktemps, klock, kca, karch, kused>>

(* Members the archive lacks are left as they are on the host.             *)
RestoreCert(p) ==
  /\ kproc[p].at = "cert" /\ At(p, "sealed")
  /\ kca' = IF kproc[p].arch.ca.cert = 0 THEN kca ELSE [kca EXCEPT !.cert = kproc[p].arch.ca.cert]
  /\ UNCHANGED <<kfile, ktemps, kdb, klock, karch, kused>>

RestoreSealed(p) ==
  LET ca == kproc[p].arch.ca IN
  /\ kproc[p].at = "sealed" /\ At(p, "put key")
  /\ kca' = IF ca.sealed = 0 THEN kca ELSE [kca EXCEPT !.sealed = ca.sealed, !.under = ca.under]
  /\ UNCHANGED <<kfile, ktemps, kdb, klock, karch, kused>>

RestoreKey(p) ==
  /\ kproc[p].at = "put key" /\ Leave(p)
  /\ kfile' = kproc[p].arch.key
  /\ UNCHANGED <<ktemps, kdb, klock, kca, karch, kused>>

-----------------------------------------------------------------------------
(* A process dies: its transaction is rolled back, its temporary file and  *)
(* a partial archive, which no one can read, stay.                         *)
SealProcDies(p) ==
  /\ kproc[p].at # "idle" /\ KFault /\ Leave(p)
  /\ ktemps' = {IF t.key = kproc[p].id THEN [t EXCEPT !.live = FALSE] ELSE t : t \in ktemps}
  /\ klock' = IF klock = p THEN NoBody ELSE klock
  /\ UNCHANGED <<kfile, kdb, kca, karch>>

(* The key is deleted; or the host is replaced and its disk is empty.      *)
LoseKey ==
  /\ AllIdle /\ kfile # 0 /\ KFault /\ kfile' = 0
  /\ UNCHANGED <<ktemps, kdb, klock, kca, karch, kproc>>

LoseHost ==
  /\ AllIdle /\ karch # {} /\ kdb.file # "none" /\ KFault
  /\ kfile' = 0 /\ ktemps' = {} /\ kdb' = NoDB /\ kca' = NoCA
  /\ UNCHANGED <<klock, karch, kproc>>

SealInit ==
  /\ kfile = 0 /\ ktemps = {} /\ kdb = NoDB /\ klock = NoBody /\ kca = NoCA /\ karch = {}
  /\ kproc = [p \in KProcs |-> NoProc]
  /\ kused = [verbs |-> 0, faults |-> 0, mixed |-> FALSE]

SessionStep(p) ==
  \/ \E verb \in {"install", "enroll", "backup"}, rel \in KReleases : openSession(p, verb, rel)
  \/ MigrateFS(p) \/ applyMigration(p) \/ MigrateCommit(p) \/ SessionOpen(p)
  \/ CreateKey(p) \/ LinkKey(p) \/ UnlinkTemp(p)
  \/ EnrollTOTP(p) \/ InstallReadsBinding(p) \/ InstallBinds(p) \/ EnsureAgentCA(p) \/ SealAgentCA(p)
  \/ RecordBackup(p) \/ CreateBackup(p) \/ addRoot(p) \/ addPki(p) \/ addKey(p)

RestoreStep(p) ==
  \/ \E a \in karch, force \in BOOLEAN : Restore(p, a, force)
  \/ RestoreDatabase(p) \/ RestoreCert(p) \/ RestoreSealed(p) \/ RestoreKey(p)

SealNext ==
  \/ \E p \in KProcs : SessionStep(p) \/ RestoreStep(p) \/ SealProcDies(p)
  \/ LoseKey \/ LoseHost

SealSpec == SealInit /\ [][SealNext]_sealVars

-----------------------------------------------------------------------------
(* Every value sealed in the database is sealed under the one key the      *)
(* database is bound to, through racing first seals, lost keys and         *)
(* restores that died between the database and the key (keybind.go:28-33,  *)
(* session.go:151-164).                                                    *)
OneSealingKey == kdb.rows \subseteq {kdb.bound} \ {0}

(* A key that is there opens what is there: the database's sealed values   *)
(* and the agent CA, after a restore that died half way too, unless one    *)
(* mixed two states of the host (secret.go:144-158, server.go:165).        *)
KeyOpensAll ==
  (kfile # 0 /\ ~kused.mixed) =>
    /\ kdb.bound \in {0, kfile}
    /\ kca.sealed # 0 => kca.under = kfile

(* An archive a restore accepts can be lived from: its key opens what its  *)
(* database holds and the CA beside it, however the backup interleaved     *)
(* with the install or the enrollment that first sealed (backup.go:29-36). *)
ArchiveRestores ==
  \A a \in karch : readBackup(a) =>
    /\ a.db.rows \subseteq {a.key}
    /\ a.db.bound \in {0, a.key}
    /\ (a.ca.sealed # 0 /\ ~kused.mixed) => a.ca.under = a.key

(* The record of a backup is inside the backup (backup.go:107-112).        *)
BackupHoldsItsRecord == \A a \in karch : a.id \in a.db.records

(* Everything sealed can be opened, on the host and from every archive     *)
(* that a restore accepts.                                                 *)
SealedOpens == OneSealingKey /\ KeyOpensAll /\ ArchiveRestores /\ BackupHoldsItsRecord

(* The schema is the recorded migrations, each applied once and in order,  *)
(* whoever raced, died or came from another branch (migrate.go:81-86,      *)
(* 214-217, 262-267).                                                      *)
SchemaSound ==
  /\ {kdb.schema[i] : i \in DOMAIN kdb.schema} = kdb.applied
  /\ \A i, j \in DOMAIN kdb.schema : i < j => kdb.schema[i] < kdb.schema[j]
=============================================================================

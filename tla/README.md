# nodary: TLA+ models and proofs

nodary runs large-language-model servers on an operator's own machines.  A
control plane (one Go process over one SQLite file) holds the configuration and
an audit chain; an agent on every GPU node polls it and turns a document into
systemd units; a gateway in front of the fleet admits and meters inference
requests.  This directory models the parts of it whose correctness depends on
order: what two processes, two goroutines, a message and a crash can do to each
other.  Every definition is translated from the Go code under `src/internal`;
`PROJECT.json` gives the lines for each.

- [Inventory](#inventory): the system's parts, their state and what makes them correct
- [Modules](#modules): what is modelled and how it corresponds to the code
- [Runs](#runs): what is checked, under which bounds and fairness
- [What the checks found](#what-the-checks-found)
- [Proofs](#proofs)
- [Not modelled](#not-modelled) and [Plan](#plan)

To repeat a check: `tlc -config MCAuditLog.cfg MCAuditLog`, and for the
proofs `tlapm AuditLogProofs.tla` (and so on for the other seven modules whose
names end in `Proofs`).

## Inventory

| Component | State it keeps | Operations | Correct when |
|---|---|---|---|
| Audit log and hash chain (`audit/log.go`, `chain.go`, `record.go`) | the `audit` and `installation` tables | `Log.Act`: refuse, run the mutation, append its record, commit, deliver; `Append` for failures and partial outcomes | a change and its record exist together; the chain always verifies; one installation identity |
| Audit sinks and posture (`audit/sink.go`) | per process, the set of failing sinks | `Delivery.Emit`, `Delivery.Blocked` | no mutation passes under `block` after a failed delivery, and the block lifts when the sinks are back |
| HTTP and syslog sinks (`audit/httpsink.go`, `syslogsink.go`) | a bounded queue, a drop counter | enqueue, batch, post, close | what is dropped is counted; what was accepted is posted or counted |
| Verification, export, query (`audit/verify.go`, `export.go`) | none | walk the table; compare a mirror with it | accepts exactly the chains and mirrors an honest history can leave |
| Retention (`retention/retention.go`) | the prune anchor | plan, prune | a prune removes a prefix, never a protected record, and leaves a chain that verifies |
| Store (`store/*.go`) | the SQLite file | write transactions with a lock budget, migrations | one writer at a time; all or nothing |
| Gateway admission and metering (`gateway/proxy.go`, `throttle.go`, `observed/usage.go`) | in-flight counters, rpm and tpm buckets, usage rows | admit, proxy, record, release | every slot comes back; rates hold; every answer is metered |
| Gateway configuration sync, data plane (`cli/gatewaysync.go`, `dataplane/*.go`) | the rendered LiteLLM configuration | render, compare, restart | the data plane ends at what the rows say |
| Rolling restart (`fleet/transition.go`, `api/agent.go`, `observed/observed.go`) | `deployment_restart` rows | request, offer, acknowledge | replicas go down one at a time; a request is carried out |
| Agent poll loop, heartbeat, health (`agent/run.go`, `health.go`) | last plan, last states, restarts under way | poll, reconcile, sample, report | two goroutines tell one story |
| Agent planning and reconciliation (`agent/plan.go`, `reconcile.go`, `guardrail.go`) | environment files, systemd units | plan, write, start, stop, assert egress | converges to the document; never two deployments on a card; a narrowed guardrail spares what serves |
| Staging (`agent/remote.go`, `stageunit.go`, `staging.go`, `fleet/staging.go`) | staged weights, a transient unit, its progress file, `stage_reset` rows | stage, resume, verify, reset, acknowledge | deaths recover by themselves; weights in place are the manifest's; corrupt is terminal until a reset, which clears all |
| Preparation, self-upgrade (`agent/prepare.go`, `selfupgrade.go`) | engines with their markers, versioned binaries and a link | build, mark, fetch, swap | a marker stands beside a whole engine for this card; a failed build is not repeated; the link is always runnable |
| Node events (`agent/events.go`, `api/agent.go`) | a queue, a spill file, a drop counter | add, spill, take, post, record | nothing is lost in silence; nothing leaves the queue before it is recorded |
| Enrollment and renewal (`api/enroll.go`, `api/renew.go`, `agent/agent.go`, `agent/renew.go`) | join tokens, node rows, a certificate and its key | join, approve, renew, revoke, leave | uses are accounted; a valid certificate holds its name; a node's state is what an administrator said |
| Mutation ceremony (`core/core.go`, `attest/attest.go`, `policy/*.go`) | policy profiles | preview, hash, require, bind, apply | what is applied is what was approved; a code is spent once |
| Idempotent replay (`api/idempotency.go`, `replay/replay.go`) | claimed keys and sealed answers | claim, finish, release, expire | a retry never applies twice |
| Identity (`identity/*.go`, `api/auth.go`, `api/logins.go`) | users, tokens, sessions, TOTP steps, lockouts | set up, log in, issue, use, revoke, suspend, delete | a deleted account holds nothing; a suspension reaches every later request; a link is spent once; a lockout covers the last failure |
| Configuration revisions, fleet rows (`config/*.go`, `fleet/*.go`) | revisions, nodes, models, deployments, routes, limits | apply, roll back, the fleet verbs | every change is a revision; no card, port or reference is given twice or left dangling; a rollback restores; no road past the profile |
| Components, bundles, host verbs (`components/*.go`, `bundle/*.go`, `install/*.go`, `cli/upgrade.go`, `uninstall.go`) | the pinned manifest and its revisions, a cache, ownership records, units, the release link | fetch, open, apply, install, upgrade, uninstall | what is placed is what is pinned; the operator's binaries are his; what runs is what was installed |
| Secrets, schema and backup (`secret/*.go`, `identity/keybind.go`, `store/migrate.go`, `backup/*.go`, `cli/backup.go`) | the sealing key, its binding, the agent CA, the schema, archives | create, bind, seal, migrate, back up, restore | one key opens everything; an archive can be lived from; each migration once and in order |
| Preflight, canonical encoding, CLI, paths, evidence | none of their own | probe, encode, parse, print | |

How they interact.  Every mutation of any component is a closure that `Log.Act`
runs inside one SQLite write transaction; processes (the server, each CLI
invocation, the gateway) share nothing but that file.  An agent long-polls
`GET /agent/v1/desired`, which carries its deployments and the restarts it is
offered, and reports with `POST /agent/v1/status`; both are idempotent and
repeated for ever, and nothing is pushed to a node.  Inside an agent the poll
loop and the heartbeat are two goroutines that share a few maps under a mutex.
The gateway reads limits and readiness from the database at every request and
keeps its counters in memory.

What is hard.  Decisions taken before a lock and used after it (the failing set,
the day's usage, an offered restart, health); work that is cut in two by a crash
(commit and delivery, environment file and restart, key and certificate, weights
and their record, a restored database and its key); messages that are lost or
late (status reports, acknowledgements, renewals, event batches); verbs that are
run again after half of them was done (upgrade, uninstall, restore); and ends
that must come back (slots, posture, rolls).  `PROJECT.json` lists these hazards with
their lines.

## Modules

`AuditLog` extends `Delivery` and composes its actions with the chain's.
Theorems and their proofs are in modules of their own, named in
[Proofs](#proofs).  `ConfigRevision` instantiates `Versioned`, the
abstract specification it implements.  `Rollout` and `Reconcile` are two views
of the agent: the first follows a restart across nodes, the second everything
else on one node, with `Staging` and `Prepare` behind the weights and engines it
waits for.  The `MC` modules name constants, and some of them choose a `focus`
(see [Runs](#runs)).  Operators whose comment begins with "Mutant", and the few
beside a definition that are named after it, are plausible mistakes in the code;
`PROJECT.json` says which property each of them breaks.

### Delivery (`audit/sink.go`, its callers in `audit/log.go`)

`failing[p]` is `Delivery.failing` of a process, `up` says whether a sink would
take a line now, and `pc`, `idx`, `err` are where a call of `Act` is in `Emit`'s
loop.  `Begin` is the `Blocked` check at the head of `Act`; `Deliver` is
`s.Emit`, outside the mutex, and `Mark` the locked half of the loop body, which
is why they are two actions.  A refused mutation is itself recorded and
delivered: that delivery is the only thing that can observe a sink's recovery
(`StartEmit` from `refused`).  `Crash` empties the failing set, as a new process
does.  `last` is a history variable.

### AuditLog (`audit/log.go`, `chain.go`, `retention/retention.go`, `store/store.go`)

`db` is the committed database and `work` what the open transaction sees;
`writer` is SQLite's write lock.  `Start` reads the clock and asks `Blocked`;
`Lock` and `LockTimeout` are `BEGIN IMMEDIATE` within its budget; `RunChange`,
`RunPrune` and `RunFails` are the closure; `AppendTx` reads the tail and the
installation inside the transaction and writes the record; `Commit` and
`CommitFails` end it.  A failed closure is recorded by a transaction of its own,
and so is a `Partial` whose commit failed; a success whose commit failed is not
recorded at all.  `DeliverRecord` writes the line to a sink: a sink that reports
an error may still have written it (a failed fsync).  `CrashProcess` may happen
anywhere.  `SetClock` steps forward or back, because timestamps are read before
the transaction.

Data: a mutation is the number of its act; `applied` is the set of acts whose
change is in the tables.  A hash is the identity of what it is taken over
(sequence, act and outcome determine a record), which is the injectivity the
chain asks of SHA-256.  `written` (every record ever committed) and `outside`
(acts whose effect left the database) are history variables.

### Gateway (`gateway/proxy.go`, `throttle.go`, `gateway.go`, `observed/usage.go`)

One request per member of `Requests`: `Arrive` reads the limits and the day's
usage outside the mutex, `Throttled` and `Admit` are `throttle.admit` under it
(same checks, same order, refilled buckets kept), `Inject` is the code between
the admission and `defer release`, `Respond` or `CopyFails` ends the proxied
response, `Record` writes the usage row and `Release` frees the slot and charges
tpm.  `HangUp` is a client, or the data plane, going away: from then on copying
the response may fail (which skips the usage row) and a row written under the
request's context may be lost.  A request that panicked in `Inject` is
`aborted`.  `SetLimits` changes the table under requests in flight.  Buckets count in
units of `1/Per` token so that refills are exact integers; the code uses floats.
`MaxCeiling` bounds the ceilings of a row.  `RpmBound` measures an interval
against `TopRate`, the highest of the rates a row is switched between: a bucket
filled under one rate is spent under the next.

### Ceremony (`core/core.go`, `attest/attest.go`, `policy/store.go`, `identity/totp.go`, `api/mutate.go`, `api/idempotency.go`, `replay/replay.go`)

An attempt is one HTTP request or one CLI invocation, and a retry is another
attempt that makes the same call.  `Send` chooses the call, a code and an intent
the caller can have seen; `Claim` and `ClaimTaken` are the transaction of
`Store.Claim`; `ReadProfile` and `Preview` are what `core.Act` does before its
transaction, `Act` and `ActFails` the transaction (`VerifyTOTP`, `Bind`,
`Apply`); `Succeed`, `SucceedUnstored` and `Fail` are what the wrapper does to
the key afterwards.  `Die` is a process that dies or a client that goes away
with the context of the final write: the key then stays in flight.  A write
transaction is one action here; `AuditLog` looks inside it.  `rev[o]` counts the
changes the target of `o` has seen, and the preview of a change shows that
number or, for changes in `Blind` (minting a token), nothing that moves.  A code
is the TOTP step it belongs to.  `DayPasses` is a replay window, with the
retention rule that removes the rows it leaves.  `applied` is a history variable.

### Rollout (`fleet/transition.go`, `cli/modelrestart.go`, `api/agent.go`, `observed/observed.go`, `agent/run.go`, `agent/health.go`)

`row[n]` is the `deployment_restart` row of the replica on node `n`.
`RequestRestart` is the verb with `AllowRoll`; `OfferedRestart` the query behind
the document; `Heartbeat` consumes a status report.  On the node, `Poll`,
`Cycle`, `CycleErrs` and `LeaveAlone` are the poll loop, `HealthPoll` and
`Report` the heartbeat goroutine, `LoseReport` the network and `AgentCrash` a
restart of the agent.  A tick is fifteen seconds: a node owes a beat and a
health sample per tick, and a poll is held for `Window` ticks.

### Reconcile (`agent/plan.go`, `reconcile.go`, `guardrail.go`, `run.go`, `api/agent.go`, `observed/observed.go`)

`Judge` is `Build`: per deployment, in the document's order, whether it is
disabled, has lost its card, is outside node.toml's limits, cannot be rendered,
or becomes a unit.  A pass is `Plan`, then per unit `Wait`, `WriteEnv` and one
of `StartUnit`, `StartErrs`, `KeepUnit`, then `FindOutOfPolicy`, `List`,
`StopUnit` / `StopErrs` and `Finish`, each its own step, with `Report` (the
other goroutine), `AgentRestart`, the operator (`Configure`, `SetApproval`,
`EditNodeConfig`), the host (`MaintenanceWindow`, `CardChanges`,
`WeightsChange`) and systemd (`Load`, `Die`, `AutoRestart`, `GiveUp`) free to
act in between.  A deployment binds one card; everything else that goes into an
environment file is a version number.  `Judge` gives each deployment the
`VerdictOn` it beside the units before it.

### Identity (`identity/*.go`, `api/auth.go`, `logins.go`, `setup.go`, `cli/user.go`, `token.go`, `session.go`)

`user`, `token` and `setup` are tables; `sessions` and `failed` live in the
server's memory and go with it (`RestartServer`).  A login is three steps:
`Login` asks `lockedFor`, `VerifyPassword` hashes for a while, `LoginFails`
counts under the time the attempt began, or `LoginSucceeds` re-reads the account
and makes a session.  A request is two: `BearerRequest`, `LocalRequest` or
`CookieRequest` decides who is asking, and one of the verbs (add, suspend,
delete, TOTP, mint, revoke, for the API and for the CLI) acts in a later
transaction, in which it reads the target again.  `redeemed` is a history
variable.

### Enrollment (`api/enroll.go`, `renew.go`, `pki.go`, `agent/agent.go`, `renew.go`, `fleet/transition.go`, `cli/node*.go`)

`row` is the `node` table, `join` the join tokens, `wire[h]` a host's request or
its answer, `disk[h]` the key, certificate and `agent.toml`, `agent[h]` the
process.  `ServerEnroll` is one transaction; a renewal is `ServerCheck`, which
authenticates, and `ServerRenew`, which writes by name later.  `WriteKey`,
`WriteCert` and `FinishPair` are the renames of a pair; `LoseAnswer`,
`HostCrash` and `cmdNodeLeave` (which may remove some of the files) fall between
any two.  A certificate is a number and an expiry.  A host that enrolls under a
second name gives up the certificate of the first (`Renamed`), which is the one
exception `NodesSound` makes.

### ConfigRevision (`config/*.go`, `api/config.go`, `routes.go`, `concurrency.go`, `cli/config.go`, `model*.go`, `route.go`, `limits.go`, `policy.go`) and Versioned

`cfg` is every table a document covers, `revs` the revisions, `draft[o]` what an
operator holds between an export and an apply.  `applySnapshot` is the
transaction: backends, models, deployments with their cards and ports, routes,
grants, limits, each with its checks and in the code's order, then the prune,
then the dialects, then `Record`.  Every verb (whole and partial documents,
rollback, policy, toggles, registration, route and limits, on the host and
behind `If-Match`) ends in it.  `EnrollNode` is the one change that is no
revision.  `Versioned` has a value and a history: a step appends the new value,
or a node joins.  The refinement maps `value` to `Read` and `history` to the
snapshots in `revs`.  `Documents`, `Snapshots` and `Drafts` are the types;
`DepEdits`, `ModelEdits`, `BackendEdits` and `OtherEdits` what an operator may
change in a document.  The first revision is of sound tables
(`FirstAssumption`).

### Staging (`agent/remote.go`, `stageunit.go`, `plan.go`, `fleet/staging.go`, `observed/observed.go`)

Three processes: the transient unit (`RunStaging`, `TakeFile`, `fetch`,
`Verifying`, `Place`, `RecordStaged`), the agent's pass (`PollDesired`, the four
steps of `Reset`, `FinishBuild`) and the control plane (`RequestStageReset`,
`AckReset`).  A file is absent, cut short, wrong or good; `UnitDies`,
`AgentDies`, `Rot` and `PinManifest` are free.  `DeathsRecover` speaks of the
step that reports: a verdict of corruption follows harm, or a directory of which
a reset removed half before it died.

### Prepare (`agent/prepare.go`, `selfupgrade.go`)

`art[k]` is the artifact of one set of inputs (scratch, output, marker, progress
file), `bunit[k]` the step of its build; `planPrepare` is the pass's look at it
and `ChangeInputs` an edit or another card.  `up` is the agent's own upgrade: the
binaries, the link, the process, the attempt; `upgradeTo` is the link swap.
`PrepareSpec` is the two together.

### NodeEvents (`agent/events.go`, `run.go`, `api/agent.go`)

`noteChange` adds to the queue, then to the spill, then to a count; `Take`
refills and posts; `agentEvents` records event by event and may stop; `Delivered`
removes what the answer says was accepted.  A report of a drop is the event 0.

### AuditVerify (`audit/verify.go`, `export.go`, `query.go`, `cli/audit.go`)

`cmdAuditVerify` starts the command, `verify` is one turn of the walk (pull lines
into the reorder window, take the next in sequence, or a verdict), `ChainDone`,
`FileDone`, `CompareDone` and `Exit` are the phases the command goes through.
Meanwhile the log commits, delivers late and twice, prunes and exports, and files
and rows are damaged.  The reference the walk is held to, `Intact`, is a
definition over the whole sequence of lines.  A hash is a pair that says who
wrote the record and for which place: the log (`Own`), someone rewriting it
(`RewrittenHash`), another log (`ForeignHash`).  `startAt` and `Compare` keep the
order in which the code asks.

### HttpSink (`audit/httpsink.go`)

`Emit` and `EmitReturns` are its two critical sections, `TakeBatch`, `TakeFinal`,
`PostSucceeds` and `PostFails` (which may have arrived all the same) the worker,
`Close` and `CloseReturns` the bounded shutdown.

### GatewaySync (`cli/gatewaysync.go`, `dataplane/*.go`)

A run reads the configuration, reads readiness, compares, writes (a write may be
torn), restarts, marks.  Two runs may overlap, one may die or fail to restart,
the host may reboot, and what they read moves.

### Host (`components/*.go`, `bundle/bundle.go`, `install/units.go`, `cli/components*.go`, `bundle.go`, `server.go`, `upgrade.go`, `uninstall.go`, `install.sh`)

`hop` is the verb under way and its next step; every write to the disk is a step,
`Killed` falls between any two, and the next verb may be of another release.
`OperatorPlaces` is the operator's own copy of a component.

### Sealing (`secret/secret.go`, `identity/keybind.go`, `store/store.go`, `migrate.go`, `api/pki.go`, `backup/backup.go`, `cli/backup.go`, `session.go`, `server.go`)

A process opens the database (stamp, migrate under the lock), checks the binding,
and then creates the key (temporary file, link, sweep), binds, enrolls TOTP,
creates the CA in two files, or takes a backup: a snapshot first and the
configuration directory after it, file by file.  A restore writes the database,
the CA and, last, the key.  `SealProcDies`, `LoseKey` and `LoseHost` are free.

## Runs

| Run | Instance | Shows |
|---|---|---|
| `delivery` | 2 processes, one act each at a time, 2 sinks that fail and recover at will, 1 crash | `BlockIsExact`, `BlockLifts` |
| `auditlog` | a server and a CLI process, 3 acts, 1 sink, `block`; `faults`: 1 crash anywhere, failed commits and sinks; `prunes`: both change and prune under a clock of 3 ticks that also steps back, a window of 1 | the chain verifies whole and cut, records tell the truth under one identity, no phantom in a mirror, only prunes remove and never a protected record, and the whole implements `Delivery` |
| `ceremony` | 3 attempts of 2 callers: one key for two changes and two callers, a dry run first, a change of profile on the host; 3 TOTP steps, 2 windows, 1 death; changes that may fail once committed | a key acts once (`ActsOnce`), replays its own answer and is freed by a refusal (`KeyIsOwn`); a preview and a code approve one change (`ApprovedOnce`) |
| `gateway_serve` | 3 requests of 2 users, 2 minutes, rpm of a role, tpm of everybody, a user's own ceiling that comes and goes under a global one, hang-ups and early panics | slots are exact and never above a ceiling, the rpm bound in every interval (`LimitsHold`), an answered request is metered once |
| `rollout` | 2 replicas, 1 roll; `roll`: 1 lost report, 1 agent restart, every poll answered at once; `live`: a poll window of 4 beats, a load of 1, 1 death or failed command, stale health and offers | some replica serves at all times; a row goes only when its unit was cycled, and done means serving (`RestartsAreReal`); a roll completes |
| `rollout_slow_load` | as `live` with a load longer than the window | a violation |
| `reconcile_node` | 2 deployments, 2 cards, any 2 of six kinds of change, 1 fault | converges, hands cards over and keeps no stale egress verdict (`StartsAreSound`), spares what serves, what is shown comes true |
| `access` | `lockout`: 2 slow logins, 4 ticks, 2 setup links; `accounts`: 2 requests over 2 user rows of one name, a token, sessions; `enroll`: 2 hosts, one name, one token of 2 uses, 4 certificates, 1 fault, 4 ticks; `rename`: 2 hosts, 2 names, 3 certificates, no fault, no administrator | a deleted account holds nothing, a name and a link make one account (`AccountsSound`); lockouts cover the last failure; suspensions reach every later request; uses, states and certificates are accounted for (`NodesSound`); a valid certificate holds its name |
| `revisions` | 2 nodes, 2 deployments of one model with 2 cards and 2 ports, a built-in and a registered backend, 2 profiles, 3 revisions; the verbs of the host and those of the API | one server per card and port, no dangling or foreign reference, a history that can be gone back to, no road past the profile, refinement of `Versioned` |
| `route_members` | the same | a violation |
| `jobs` | staging (2 files, 2 deaths, 1 harm, 1 reset), builds (2 cards, 2 deaths), self-upgrade (2 versions, 2 faults), events (a queue of 3 with a spill of 2, 6 events, 2 faults), verification (window 2, 3 records, 4 lines, 1 damage), HTTP sink (queue 3, batches of 2, 6 records, 2 failed posts), gateway sync (2 runs, 4 moves, 1 fault, 1 reboot), host verbs (2 components, 2 releases, 3 revisions, 3 verbs, 1 fault), sealing (2 processes, two releases of which one lacks a migration of the other, 3 verbs, 1 fault) | weights survive deaths and resets; what a node makes can be run; no event is lost in silence; `verify` accepts exactly the intact chains and its assessment is true; records arrive in order or a loss is reported; a sync leaves the plane alone only when that is right; host verbs leave the operator's binaries alone and no unit behind; everything sealed opens, on the host and from every archive; each migration is applied once and in order |
| `upgrade_running` | 1 component, no faults | a violation |

Focus.  `MCJobs` and `MCAccess` put modules side by side that share no variable;
the first state picks the one that moves (`focus`) and the others keep their
initial state.  A property of one module is a property of its own variables, so
nothing is lost: a behaviour of the product projects to one of the sum.
`MCAuditLog`, `MCRollout`, `MCConfig` and the two families each of `Identity`
and of `Enrollment` in `MCAccess` use it to split one specification into bounded families, each of
whose steps is a step of that specification; what is not explored there are
behaviours that need both families at once (a prune and a crash, say, which the
proofs of `AuditLog` do cover).

Properties with parts.  Where several statements say one thing about one
component they are one property whose parts are named (`SealedOpens` is
`OneSealingKey`, `KeyOpensAll`, `ArchiveRestores` and `BackupHoldsItsRecord`);
every part has a mutant of its own in `PROJECT.json`.  The type invariants of
the modules state what the variables hold; the runs check behaviour instead,
and the proofs of behaviour carry the types with them.

Bounds.  The chain's properties are about two writers, a rollback and a third
act after both; they are also proved without bounds.  A prune needs a record, a
pass that cuts and a second pass.  A slot is lost or freed twice by one request
against another, and needs a third to notice.  A bucket needs two admissions and
an idle period longer than a minute.  A key or a preview is contended by two
attempts, and the third is the dry run, the change of profile or the retry.  A
roll is about one replica waiting for another: two nodes are the smallest that
has an order.  For a node, every pair of changes is enumerated with a fault at
any point: a card changing hands is one change of each of two deployments, a
guardrail is narrowed by one and the second is a window, a restart or a
configuration.  An account needs a second row of its name to be confused with;
a node a second host that wants its name.  A configuration needs two
deployments to contend for a card, and three revisions for a rollback that is
followed by something.  A transfer is cut, resumed and cut again (2 deaths).
A queue of 3 with a spill of 2 overflows, is refilled and overflows again within
6 events.  A walk with a window of 2 sees a line displaced by more than that
among 4 lines.  A marker is wrong after one fault or one overlap.  Host and
sealing verbs come in threes: one that is cut, its repetition, and one of
another release or the restore that looks at the result.  `Sealing` was also
run with 4 verbs, and with 2 faults; `ConfigRevision` with 4 revisions.

Fairness.  `Delivery`: operators keep trying, and an act that has committed goes
on to deliver; a database that refuses some records does not refuse all of them
for ever (strong fairness of `StartEmit` against `Abandon`).  Nothing is assumed
of the sinks; `BlockLifts` speaks of the case where they come back for good.
`Rollout` and `Reconcile`: both goroutines of an agent loop for as long as it
lives, the control plane answers, systemd honours `Restart=always`, and a model
server that is left alone loads.  The other modules are safety only.  Nothing is
assumed of operators, losses, faults or crashes, which are bounded.
`CHECK_DEADLOCK FALSE` is set where the system may end: a gateway whose requests
are all answered, a node where nothing is left to do, attempts, verbs or edits
that have all been made.  Requests of `Gateway` and `Identity`, attempts of
`Ceremony` and hosts of `Enrollment` are interchangeable model values under
symmetry sets, which is sound because those runs check no liveness.

Assumptions in constants.  Five things hold only under an assumption, which is
then a constant of the module, and the counterexample without it is described
here so that it can be reproduced:

- `FreshHealth` (Rollout): a beat uses a health sample taken after the last
  restart.  Without it (`FreshHealth = FALSE`, `Window = 0`) `DoneMeansServing`
  fails: the heartbeat goroutine reports a restart as done on a sample from
  before it (`agent/run.go:348`).
- `FreshOffer` (Rollout): no beat falls between a poll's answer and its effect.
  Without it `KeepsServing` fails: the document still offers a restart whose row
  a report has just deleted, the next replica is offered too, and both go down
  (`agent/run.go:177`).
- `MaxRolls = 1` (Rollout; both theorems about it assume it): with a second request during a roll, the upsert
  re-keys rows of the first roll, so two replicas are first in their roll at
  once and `KeepsServing` fails (`fleet/transition.go:240`); and a late
  acknowledgement of the first deletes the second's row, so `RequestedIsCycled`
  fails (`observed/observed.go:223`).
- `Prompt` (Reconcile; `StartsCorrect` assumes it, `PlansAndVerdictsHold` does
  not): a changed environment file is followed by its restart.  Without it (`Prompt = FALSE`, configuration changes only) `Converges` fails:
  the agent dies, or `systemctl restart` fails, after the file was written; the
  next pass finds the file unchanged and the unit active, and leaves the old
  container running (`agent/reconcile.go:308`).
- `LateErrors` (Ceremony): the changes whose handler, or the sealing of whose
  answer, may fail once they are committed.  `ActsOnce` speaks of the others:
  for one of these `secret.key` cannot be read when the answer is to be sealed,
  or `onOK` returns an error, the key is released although the change happened,
  and a retry mints a second token (`api/idempotency.go:124`,
  `api/mutate.go:86`; 09-api §2 promises that a repeat "returns the original
  response rather than acting twice").

## What the checks found

Three runs end in a violation, and `PROJECT.json` quotes what each contradicts:

- **A slow model never restarts** (`rollout_slow_load`, `api/agent.go:322`).  A
  restart is offered in every document while its row is outstanding and each
  document restarts the unit again.
- **A member disappears from a route** (`route_members`, `api/routes.go:1250`).
  The ETag is read after the route it is sent with, so `If-Match` vouches for a
  revision the client never saw, and replaces another operator's change.
- **The documented upgrade leaves the old server running** (`upgrade_running`,
  `cli/upgrade.go:329`).  `install.sh` has repointed the link before `nodary
  upgrade` compares it with itself.

Definitions that state what the code does not give, kept beside the others and
listed by no run.  Each fails in the run's own instance unless another is named:

- `EmptyPassGoesThrough` (AuditLog, five acts of one process): on a chain that
  was cut before, a pass that finds nothing more to cut scans `min(seq)` over no
  rows into an integer and fails, with all the pass would have pruned
  (`retention/retention.go:260`).
- `SlotsComeBack` (Gateway): a panic or an error between the admission and
  `defer release` never frees the slot (`gateway/proxy.go:120`); `SlotsExact`
  holds with those slots counted.  `GlobalCeiling` (`OwnUnderGlobal`): a request
  counts under one subject only, so a user's own row takes him out of the global
  count.  `DailyExceededByOne` (`Budget`, three requests of cost 2): the day's
  usage is read before the mutex (`throttle.go:324`).  `AllIsMetered`: a client
  that hangs up is not metered, because `ReverseProxy` panics out of the handler
  and the usage row is written under the client's own context, while
  `gateway/proxy.go:172` says "Never silently dropped".
- `ReplayIsAlike` (Ceremony): the digest of a request covers its
  method, path and body but not its query, so after `?dry_run=true` the real
  request under the same key is answered with the preview
  (`api/idempotency.go:95`).  `AttestedUnderProfile`: the profile is read before
  the transaction (`core/core.go:84`).
- `BlockHolds` (Delivery, `OneServer`): two acts in one process; a success noted
  late hides a failure noted early (`audit/sink.go:230`).
- `NarrowingSparesServing` (Reconcile, `MCFewerCards`): a card withheld through
  `gpu_indices` stops what serves on it (`agent/plan.go:477`), although
  `reconcile.go:201` says a narrowed guardrail does not.  `ReadyServes`
  (`MCNodeAndWindow`): a deployment that is refused, out of policy or on a
  drained node is reported by nothing, and its row stays at `ready`.
- `NoneOnceRevoked` (Enrollment): a node revoked between the check and the
  transaction of its renewal is recorded a new certificate all the same
  (`api/renew.go:93`).
- `PrunedVerifies` (AuditVerify): after a prune, a mirror that still holds the
  pruned range compares as ahead of the database (`audit/verify.go:871`;
  `docs/administering.md:816` says the mirror goes on proving it).
- `StagedIsVerified` (Staging): a progress file that says staged is believed
  after the weights rotted or another manifest was pinned.
- `FinalFlushTakesAll` (HttpSink): the flush at Close takes one batch, and what
  is left in the queue is not posted (`audit/httpsink.go:137`).

Behaviour met while modelling that no definition states:

- Host.  The ownership record and the signed revision are one path
  (`components.json`): an apply overwrites what was placed, and the next install
  takes placed binaries for the operator's.  A rerun does not repair a restart
  that failed, or a death after the link moved.  `uninstall` that failed asks to
  be rerun (`cli/uninstall.go:340`) but its record went with the configuration
  directory.  A binary of nodary's that the operator replaced in place is removed
  with the rest.  A death between a revision's signature and its document
  unsigns the one before.  A purge cut short leaves a database without its key.
- Sealing.  A backup taken while the first install runs holds a snapshot older
  than the binding and a walk newer than the CA.  Two first installs at once
  could mix the halves of a CA; the model runs one at a time.  A death between
  the CA's certificate and its sealed key makes later installs refuse.  A
  restore that died must be rerun with `--force`, and one that died on its first
  write leaves an empty file that is opened as a fresh database.
- Configuration.  A rollback un-revokes a node (`config/apply.go:106`).  Once a
  profile forbids custom backends, later documents that restate one are refused.
  Grants go by user name and may reach the row of a deleted user.  Registering a
  model replaces its route's members.  A route created by two operators at once
  goes without `If-Match` (`cli/route.go:310`).
- Node.  An agent's death loses the queue it holds in memory.  A late
  acknowledgement of a reset and a death in the middle of `RemoveAll` leave half
  a directory.  A transient network error while sizes are asked for is a
  terminal verdict.  `replacePair`'s comment has the new certificate beside the
  old key; the code writes the key first.
- Sync.  The marker is not withdrawn before the file is written.  So two
  faults, one fault and an overlap, or three runs at once (`Syncers` of three,
  two moves, no fault) leave the file and the marker equal and the plane with
  something else, which no later sync repairs while the configuration stays
  (`cli/gatewaysync.go`); `MarkerHonest` is about the cases with fewer.
- Staging.  A second reset may remove the half-removed directory while the last
  report still calls it corrupt, so `DeathsRecover` is about the report, not
  about the state after it.
- Verification of a live log may report a gap, or a mirror ahead, for a record
  that is being delivered.

## Proofs

Eight modules hold the theorems, each about every value of the constants that
satisfies the named assumption of its module (`DeliveryAssumption`,
`GatewayAssumption` and so on, which every run evaluates).  Bounds such as
`MaxOps` are constants among the others, so nothing depends on their size; sets
of nodes, requests, processes or deployments are arbitrary unless a line below
says otherwise.  A theorem that needs more says so in an ASSUME, and is then
listed with it.

| Module | About | Theorems |
|---|---|---|
| `AuditLogProofs` | `AuditLog`, `Delivery` | `TypeCorrect`, `ChainAlwaysVerifies`, `NothingElseRemoves`, `RecordsAreTrue`, `WindowIsKept`, `MirrorsAreFaithful`, `FailingSetIsExact`, `ImplementsDelivery`; `PostureIsExact`, where every process runs one act at a time |
| `CeremonyProofs` | `Ceremony`, `AuditVerify` | `ActsOnceCorrect`, `ApprovedOnceCorrect`, `KeyIsOwnCorrect`; `VerdictIsExact`, `RefusalIsFinal`, `AssessmentHolds` |
| `GatewayProofs` | `Gateway`, `GatewaySync` | `LimitsAlwaysHold`, `AnsweredAreMetered`; `AloneSyncIsRight`, `MarkerIsHonestAlone`; `SyncIsRightForTwo`, where at most two runs overlap (`AtMostTwo`) |
| `RolloutProofs` | `Rollout`, by way of `MCRollout` | `OneAtATime`, `NoRestartIsFeigned`: one roll, with `MaxRolls <= 1`; the first with two nodes at least; `FreshDoneMeansServing` for any number of rolls, under `FreshHealth` |
| `ReconcileProofs` | `Reconcile`, `Prepare`, `Staging` | `ReconcileTypeCorrect`, `PlansAndVerdictsHold`, `OnlyWithheldIsStopped`; `StartsCorrect` under `Prompt`; `NarrowingSpares` where no card is withheld; `MadeCanRun`, `WeightsAreKept` |
| `AccessProofs` | `Identity`, `Enrollment` | `IdentityTypeCorrect`, `AccountsAreSound`, `LockoutReaches`, `SuspensionIsFinal`; `EnrollTypeCorrect`, `NodesAreSound`, `NamesAreHeld` |
| `ConfigRevisionProofs` | `ConfigRevision` | `ConfigTypeCorrect`, `RefinesVersioned`, `OneServerCorrect`, `ReferencesCorrect`, `HistoryCorrect`, `PostureCorrect` |
| `JobsProofs` | `HttpSink`, `NodeEvents`, `Sealing`, `Host` | `SinkInOrder`, `LossIsNeverSilent`, `SealedStaysOpen`, `SchemaStaysSound`, `VerbsKeepHost` |

`PROJECT.json` names the property of a run each of them states.  The arguments,
and why the property alone would not do as an induction hypothesis:

**The chain.**  `ChainVerifies` speaks of the committed database, and what is
committed next is the transaction's working copy.  `IInv` adds that the working
copy verifies too and has a tail (`Sound`), that without a writer it equals the
committed one and that who is inside a transaction is the writer (`LockAgrees`),
that it holds every record ever written past its own anchor plus the one being
appended (`WorkHistory`), and that sequence numbers are used once
(`WrittenOnce`).  `AppendSound` (a row that names the tail it read in the same
transaction extends a sound chain) and `PruneSound` (a pass that goes through
removes exactly the rows up to its new anchor) carry it.  That a nonempty table
has a last row comes with the invariant; that it has a first young row, which
the cut needs, from the well-foundedness of the naturals.
`TruthInv` ties each act's step to its record: an act that is still open has
none, and what it will commit is staged in the working copy.  `MirrorInv` says
what a delivery holds is committed and that no other delivery holds it.  The
refinement of `Delivery` goes action by action.

**The posture.**  `FailingIsExact` fails in the middle of a delivery, between
the write and its note; `Noted` says what is already known there.  It is an
invariant of a process that runs one act at a time and of no other, as
`BlockHolds` shows, hence the hypothesis `Sole`.

**The ceremony.**  That a key acts once follows from whose row it is: a claim in
flight belongs to an attempt that holds it or to one that died (`RowIsHeld`,
`ClaimedIsHeld`), an answered one to an attempt that is over, and what was
applied keeps its key in the window (`AppliedKeepsKey`).  A code and a preview
are spent in the transaction that applies (`CodesSpent`, `PreviewsSpent`).

**Verification.**  `VerdictIsIntact` speaks of a verdict, so the invariant says
what each turn of the walk knows before there is one.  `Underway`: what was
taken is one chain from the start, what waits in the window comes after it, no
line came after one that is already taken, and the window is no wider than it
may be; so at the end of the lines what was taken is all of them.  `Judged` adds
the other half: a refusal before the end has a reason in the lines already read
that no later line removes (`Hopeless`), which is also `RefusalIsFinal`.
`RowsSound`, `FileSound` and `SnapSound` say what the log, its mirror and a
transaction's snapshot may hold while records are delivered late and twice,
pruned and damaged.  `ChainKept`, `FileKept` and `Compared` carry a verdict from
the phase that reached it to the exit: for a database and a mirror that stood still
since the command started (`vdamage.still`) with what it means for them, and
in any case with what was compared.

**Limits.**  A slot's ceiling is that of the request which took it, and the
request with the highest one may leave first; so the invariant is about every
subset of the holders (`Covered`), of which the ceiling is the case of all.  The
rate bound is about pairs of admissions; inductive is that since every past
admission, what was admitted and what the bucket still holds came out of one
capacity and the refill (`Spent`).  Its arithmetic is nonlinear and is split
into lemmas on products.

**Gateway sync.**  `UnderWay` states what one run has made of file, marker and
plane at each step, while none overlapped and at most one thing failed;
`Vouched` is what remains when none is under way.  Where two runs overlap and
nothing fails (`SyncIsRightForTwo`) neither is enough: one run may be about to
write what the other has already replaced.  `Honest` relates the two: which of
file, marker and plane are of the newest configuration, for every pair of steps
and every pair of what the two have read.  It is the weakest inductive invariant
under the property and was computed as such, and `HalfHonest` is what one run
has to know of the other; a third run breaks it, as the definitions above say.

**Rolls.**  A unit is down only while its node is first in the roll
(`FirstInRoll`), which needs that offers, notes and reports under way belong to
rows that are still there (`OneRoll`).  Two rows cannot both be first because
their places differ.  With a second roll that argument is gone, and so are
`KeepsServing` and `RequestedIsCycled` (see above).  What a report says survives
any number of rolls and failures: a healthy sample taken since the unit was
cycled was of a unit that served (`SampleIsOfUnit`).

**A node.**  A container runs what its file says unless it is the unit whose
file was just changed (`RunsItsFile`, which is where `Prompt` is used); `Judge`
keeps the units of a plan apart by itself (`UnitsApart`), so nothing is assumed
of the document.  What may be stopped is traced from the plan to the stop loop
(`SteadyIsFound`).  `BuildOK` says at each step of a build what a death there
leaves: the marker is placed after the engine, and the verdict outlives the
scratch.  `LinkInv` is about the instant between fetching a binary and swapping
the link.  `UnharmedOK` follows a file through a transfer: whatever is in place
was verified first, and a directory that verifies badly is one that a reset has
begun to remove.

**Accounts and nodes.**  `AskOK` says what a request that was let in knows of
the account while the account may be suspended, deleted or named anew before its
second step; `RowsOK` that rows, names, tokens and seeds agree.  For nodes,
`Clean` follows the pair of files through each step of an enrollment and a
renewal: the holder of a row's certificate has it on disk or in memory unless
something failed.

**The configuration.**  `CInv` is the properties of the tables and the same of
every snapshot (`SnapsSound`), because a rollback makes tables of a snapshot.
`ApplyResult` states what `applySnapshot` leaves, and every verb is shown to end
in it or to change no table.

**Sealing.**  `HostOK` relates key, binding, CA and database of the host,
`ArchiveOK` the same of an archive, and `WorkOK` says for each of the nineteen
steps a process can be at what it may rely on; a death or a restore at any of
them must leave `HostOK`.

**Host.**  What is fetched is what is pinned (`PinnedOK`), what the record, or
a run that will write it, calls placed is not the operator's (`OwnedOK`), and an
upgrade that moved still has the server to restart or runs the link
(`BounceOK`).

**Queues.**  `InLine`: accepted, posted and waiting records are stretches of the
emitted ones, in this order.  `PostIsHead`: what a post under way carries is
still the head of the queue, so an answer removes only what it accepted.

Only model-checked:

- Liveness (`BlockLifts`, `LiveRollCompletes`, `Converges`, `RowsComeTrue`),
  which is outside the prover.
- `SyncIsRight` beyond two runs that overlap: with three it does not hold (see
  above).  `AloneSyncIsRight` and `MarkerIsHonestAlone` say what holds for any
  number.
- The type invariant of `Gateway`: the day's usage is a sum, that is a fold over
  a set, and that a fold of naturals is one needs an induction over data.
- What the three violation runs and the definitions listed above refute.

## Not modelled

- Cryptography, encodings and archives: a hash is injective, a certificate and
  a signature are taken at their word, a ciphertext is the key it was sealed
  under.
- The host: preflight, packages, docker builds and their proxy, GPU inventory,
  the egress probe itself.
- Formatting, flags, wizards, the web interface and every read-only report;
  advisories and evidence, which read other components' rows, or write one row
  in one transaction.
- In `AuditLog`: the other retention rules, which delete rows by age alone (the
  one for replay keys is in `Ceremony`), and the read-only opening of the store.
- In `Gateway`: authentication, the allowlist and the ready check, which can
  only refuse before anything is counted; the listing of models.
- In `Ceremony`: what each verb changes, beyond a counter (`Identity` and
  `ConfigRevision` have that); justifications, which can only refuse; and the
  prompt of an interactive CLI, which is another attempt with a code.
- In `Identity`: the credentials file of a CLI.  In `Enrollment`: two
  administrators' transactions at once, which the store serializes.
- In `ConfigRevision`: TOML, descriptors' bodies and rendered arguments.
- In `Reconcile`: staging and preparation, which are one state (`weights`) that
  changes by itself; image pulls, which may fail; more than one card per
  deployment.
- In `Sealing`: a stale `-wal` file beside a restored database, and a running
  server of an older release on a newer schema.  A migration's version stands
  for its text.
- systemd's own restart of a unit (`AutoRestart`) makes a container no egress
  assertion was made of; `AssertedSinceStart` is about the agent's starts.
- node.toml is read when the agent starts and not again, as in the code.

## Plan

What a next round would add.  In this order:

1. A second roll: how many replicas it may take down at most, now that one at a
   time is known to fail.
2. The type invariant of `Gateway`, once a fold can be reasoned about.
3. Preflight and the build proxy, whose rules are pure and have no model.

------------------------------ MODULE AuditLog ------------------------------
(***************************************************************************)
(* The audited-mutation seam: Log.Act (internal/audit/log.go) over the     *)
(* hash chain (internal/audit/chain.go), the single-writer transaction of  *)
(* internal/store, and the retention prune that cuts the chain             *)
(* (internal/retention/retention.go).  Delivery to the sinks is module     *)
(* Delivery, whose actions this one composes with the chain's.             *)
(*                                                                         *)
(* Data abstraction.  A mutation is the number of the act that makes it;   *)
(* a record is its sequence number, the act it describes, the outcome, the *)
(* timestamp, the installation and the predecessor's hash.  A hash is the  *)
(* identity of what it is taken over: no two records the system builds     *)
(* agree on sequence, act and outcome and differ elsewhere, so Hash is     *)
(* injective on them, which is all the chain asks of SHA-256.              *)
(***************************************************************************)
EXTENDS Delivery

CONSTANTS
  MaxOps,    \* bound: how many acts are attempted
  MaxClock,  \* bound: the wall clock runs over 0..MaxClock, and may step back
  Window,    \* audit_retention_days, in ticks of the clock
  Kinds      \* the acts attempted: a change of any table, a retention prune

ASSUME AuditLogAssumption ==
  /\ MaxOps \in Nat
  /\ MaxClock \in Nat
  /\ Window \in Nat \ {0}          \* retention.start refuses less than a day
  /\ Kinds \subseteq {"change", "prune"}
  /\ "none" \notin Actors

VARIABLES
  db,       \* the committed database
  work,     \* the database as the open write transaction sees it (db if none)
  writer,   \* the actor holding BEGIN IMMEDIATE's lock, or "none"
  act,      \* act[a]: the request an actor is running: id, kind, its `now`
  mode,     \* "act": the mutation's transaction; "record": Append's own
  step,     \* position inside the transaction
  res,      \* actErr: "ok" (nil), "partial", or "fail"
  rec,      \* `record`, the row this actor built
  mirror,   \* mirror[s]: the lines sink s holds
  clock,    \* the wall clock
  nextAct,  \* number of the next act
  written,  \* history: every record ever committed
  outside   \* history: acts whose effect reached outside the database

vars == <<dvars, db, work, writer, act, mode, step, res, rec, mirror, clock,
          nextAct, written, outside>>

Outcomes == {"success", "failure", "partial"}
Steps == {"none", "lock", "fn", "append", "commit"}
Acts == 1..MaxOps

Genesis == [seq |-> 0, act |-> 0, outcome |-> "genesis"]
Hashes == [seq : Nat, act : Nat, outcome : Outcomes \cup {"genesis"}]
Rows == [seq : Nat, act : Nat, outcome : Outcomes, ts : Nat, install : Nat,
         prev : Hashes]
NoRow == [seq |-> 0, act |-> 0, outcome |-> "failure", ts |-> 0,
          install |-> 0, prev |-> Genesis]

(* Record.Compute.                                                         *)
Hash(r) == [seq |-> r.seq, act |-> r.act, outcome |-> r.outcome]

(* audit and installation are the tables of those names: install 0 is the  *)
(* absent row, anchor is pruned_through_seq and pruned_through_hash.       *)
(* applied stands for every other table: the acts whose change is in them. *)
EmptyDB == [audit |-> {}, anchor |-> Genesis, install |-> 0, applied |-> {}]

DBs == [audit : SUBSET Rows, anchor : Hashes, install : Nat,
        applied : SUBSET Nat]

TypeOK ==
  /\ DTypeOK
  /\ db \in DBs
  /\ work \in DBs
  /\ writer \in Actors \cup {"none"}
  /\ act \in [Actors -> [id : Nat, kind : {"change", "prune"}, ts : Nat]]
  /\ mode \in [Actors -> {"act", "record"}]
  /\ step \in [Actors -> Steps]
  /\ res \in [Actors -> {"ok", "partial", "fail"}]
  /\ rec \in [Actors -> Rows]
  /\ mirror \in [Sinks -> Seq(Rows)]
  /\ clock \in 0..MaxClock
  /\ nextAct \in 1..(MaxOps + 1)
  /\ written \subseteq Rows
  /\ outside \subseteq Nat

Init ==
  /\ DInit
  /\ db = EmptyDB
  /\ work = EmptyDB
  /\ writer = "none"
  /\ act = [a \in Actors |-> [id |-> 0, kind |-> "change", ts |-> 0]]
  /\ mode = [a \in Actors |-> "act"]
  /\ step = [a \in Actors |-> "none"]
  /\ res = [a \in Actors |-> "ok"]
  /\ rec = [a \in Actors |-> NoRow]
  /\ mirror = [s \in Sinks |-> <<>>]
  /\ clock = 0
  /\ nextAct = 1
  /\ written = {}
  /\ outside = {}

-----------------------------------------------------------------------------
(* The chain.                                                              *)

IsTail(audit, t) == t \in audit /\ \A r \in audit : r.seq <= t.seq

(* Mutant: the tail is looked up by timestamp.                             *)
ChainTailByTime(audit) ==
  IF audit = {} THEN Genesis
  ELSE Hash(CHOOSE t \in audit : \A r \in audit : r.ts <= t.ts)

(* tail: the last row's hash, or genesis's when the table is empty.        *)
ChainTail(audit) ==
  IF audit = {} THEN Genesis
  ELSE Hash(CHOOSE t \in audit : IsTail(audit, t))

(* outcomeOf.                                                              *)
OutcomeOf(r) ==
  CASE r = "ok" -> "success"
    [] r = "partial" -> "partial"
    [] r = "fail" -> "failure"

(* Mutant: a process that mints its own identifier.                        *)
InstallMinted(d, a) == act[a].id

(* installID: read the row, or mint an identifier nobody has used.         *)
InstallOf(d, a) == IF d.install = 0 THEN act[a].id ELSE d.install

NewRow(d, a) ==
  [seq |-> ChainTail(d.audit).seq + 1, act |-> act[a].id,
   outcome |-> OutcomeOf(res[a]), ts |-> act[a].ts,
   install |-> InstallOf(d, a), prev |-> ChainTail(d.audit)]

-----------------------------------------------------------------------------
(* Retention.                                                              *)

(* Mutant: everything with an old stamp goes, up to the last of them.      *)
KeepFromLastOld(audit, cutoff) ==
  LET old == {r \in audit : r.ts < cutoff}
      after == {r \in audit : \A q \in old : q.seq < r.seq}
  IN  IF after # {}
      THEN CHOOSE r \in after : \A q \in after : r.seq <= q.seq
      ELSE CHOOSE r \in audit : IsTail(audit, r)

(* auditPrefix's keepFrom: the first row young enough, else the tail.      *)
KeepFrom(audit, cutoff) ==
  LET young == {r \in audit : r.ts >= cutoff}
  IN  IF young # {}
      THEN CHOOSE r \in young : \A q \in young : r.seq <= q.seq
      ELSE CHOOSE r \in audit : IsTail(audit, r)

(* The rows auditPrefix would remove.                                      *)
Prefix(audit, cutoff) ==
  {r \in audit : r.seq < KeepFrom(audit, cutoff).seq}

(* There is nothing to remove, and auditPrefix says so: an empty chain, or *)
(* one whose first record stays.                                           *)
NothingToPrune(audit, cutoff) ==
  audit = {} \/ KeepFrom(audit, cutoff).seq <= 1

(* The rest of the cases: an earlier pass has cut the chain and nothing    *)
(* more is old enough.  SELECT min(seq) over no rows is NULL, which Scan   *)
(* refuses to put in an int64, so the pass fails.                          *)
PruneErrs(audit, cutoff) ==
  ~NothingToPrune(audit, cutoff) /\ Prefix(audit, cutoff) = {}

(* Mutant: the cut is not written.                                         *)
PrunedUnanchored(d, cutoff) == [d EXCEPT !.audit = @ \ Prefix(@, cutoff)]

(* Mutant: the tail goes with the rest when all of it is old.              *)
PrunedEmptied(d, cutoff) ==
  LET old == {r \in d.audit : r.ts < cutoff}
  IN  IF old = {} THEN d
      ELSE [d EXCEPT !.audit = @ \ old,
                     !.anchor = Hash(CHOOSE t \in old : IsTail(old, t))]

(* pruneAudit: drop the prefix, anchor the rest on the last row removed.   *)
Pruned(d, cutoff) ==
  LET gone == Prefix(d.audit, cutoff)
  IN  IF NothingToPrune(d.audit, cutoff) THEN d
      ELSE [d EXCEPT !.audit = @ \ gone,
                     !.anchor = Hash(CHOOSE t \in gone : IsTail(gone, t))]

-----------------------------------------------------------------------------
(* Log.Act.                                                                *)

chainVars == <<db, work, writer, mirror, clock, written, outside>>

(* Mutant: Act goes ahead without asking Blocked.                          *)
StartUnchecked(a, k) ==
  /\ nextAct <= MaxOps
  /\ pc[a] = "idle"
  /\ pc' = [pc EXCEPT ![a] = "acting"]
  /\ act' = [act EXCEPT ![a] = [id |-> nextAct, kind |-> k, ts |-> clock]]
  /\ nextAct' = nextAct + 1
  /\ mode' = [mode EXCEPT ![a] = "act"]
  /\ res' = [res EXCEPT ![a] = "ok"]
  /\ step' = [step EXCEPT ![a] = "lock"]
  /\ rec' = [rec EXCEPT ![a] = NoRow]
  /\ UNCHANGED <<failing, up, idx, err, last, crashes, chainVars>>

(* Enter Act: read the clock, consult Blocked, and queue for the write     *)
(* lock, to run the mutation or to record that it was refused.             *)
Start(a, k) ==
  /\ nextAct <= MaxOps
  /\ Begin(a)
  /\ act' = [act EXCEPT ![a] = [id |-> nextAct, kind |-> k, ts |-> clock]]
  /\ nextAct' = nextAct + 1
  /\ mode' = [mode EXCEPT ![a] = IF Blocked(ProcOf[a]) THEN "record" ELSE "act"]
  /\ res' = [res EXCEPT ![a] = IF Blocked(ProcOf[a]) THEN "fail" ELSE "ok"]
  /\ step' = [step EXCEPT ![a] = "lock"]
  /\ rec' = [rec EXCEPT ![a] = NoRow]
  /\ UNCHANGED chainVars

(* WriteTx begins: one writer at a time, reading the committed state.      *)
Lock(a) ==
  /\ step[a] = "lock"
  /\ writer = "none"
  /\ writer' = a
  /\ step' = [step EXCEPT ![a] = IF mode[a] = "act" THEN "fn" ELSE "append"]
  /\ UNCHANGED <<dvars, db, work, act, mode, res, rec, mirror, clock, nextAct,
                 written, outside>>

(* Act returns without a record: the lock budget ran out, or the caller's  *)
(* context did, before the transaction began.                              *)
LockTimeout(a) ==
  /\ step[a] = "lock"
  /\ Abandon(a)
  /\ step' = [step EXCEPT ![a] = "none"]
  /\ UNCHANGED <<db, work, writer, act, mode, res, rec, mirror, clock,
                 nextAct, written, outside>>

(* fn succeeds, or reports Partial: the change is staged, and a Partial's  *)
(* effect has also reached something no rollback can undo.                 *)
RunChange(a) ==
  /\ step[a] = "fn"
  /\ act[a].kind = "change"
  /\ work' = [work EXCEPT !.applied = @ \cup {act[a].id}]
  /\ \E r \in {"ok", "partial"} :
       /\ res' = [res EXCEPT ![a] = r]
       /\ outside' = IF r = "partial" THEN outside \cup {act[a].id} ELSE outside
  /\ step' = [step EXCEPT ![a] = "append"]
  /\ UNCHANGED <<dvars, db, writer, act, mode, rec, mirror, clock, nextAct,
                 written>>

(* fn is retention.Prune and the pass goes through.                        *)
RunPrune(a) ==
  /\ step[a] = "fn"
  /\ act[a].kind = "prune"
  /\ ~PruneErrs(work.audit, act[a].ts - Window)
  /\ work' = [Pruned(work, act[a].ts - Window)
                EXCEPT !.applied = @ \cup {act[a].id}]
  /\ step' = [step EXCEPT ![a] = "append"]
  /\ UNCHANGED <<dvars, db, writer, act, mode, res, rec, mirror, clock,
                 nextAct, written, outside>>

(* fn fails, a prune also when auditPrefix errs: the transaction rolls     *)
(* back and the failure is to be recorded in a transaction of its own.     *)
RunFails(a) ==
  /\ step[a] = "fn"
  /\ writer' = "none"
  /\ work' = db
  /\ res' = [res EXCEPT ![a] = "fail"]
  /\ mode' = [mode EXCEPT ![a] = "record"]
  /\ step' = [step EXCEPT ![a] = "lock"]
  /\ UNCHANGED <<dvars, db, act, rec, mirror, clock, nextAct, written, outside>>

(* AppendTx: the tail and the installation are read inside the caller's    *)
(* transaction.                                                            *)
AppendTx(a) ==
  /\ step[a] = "append"
  /\ rec' = [rec EXCEPT ![a] = NewRow(work, a)]
  /\ work' = [work EXCEPT !.audit = @ \cup {NewRow(work, a)},
                          !.install = InstallOf(work, a)]
  /\ step' = [step EXCEPT ![a] = "commit"]
  /\ UNCHANGED <<dvars, db, writer, act, mode, res, mirror, clock, nextAct,
                 written, outside>>

(* The transaction commits and Act goes on to l.emit.                      *)
Commit(a) ==
  /\ step[a] = "commit"
  /\ StartEmit(a)
  /\ db' = work
  /\ writer' = "none"
  /\ written' = written \cup {rec[a]}
  /\ step' = [step EXCEPT ![a] = "none"]
  /\ UNCHANGED <<work, act, mode, res, rec, mirror, clock, nextAct, outside>>

(* Mutant: a record whose transaction was rolled back reaches the sinks.   *)
CommitFailsEmits(a) ==
  /\ step[a] \in {"append", "commit"}
  /\ writer' = "none"
  /\ work' = db
  /\ StartEmit(a)
  /\ step' = [step EXCEPT ![a] = "none"]
  /\ UNCHANGED <<db, act, mode, res, rec, mirror, clock, nextAct, written,
                 outside>>

(* Mutant: a Partial that could not commit is recorded as a failure.       *)
CommitFailsAsFailure(a) ==
  /\ step[a] \in {"append", "commit"}
  /\ writer' = "none"
  /\ work' = db
  /\ rec' = [rec EXCEPT ![a] = NoRow]
  /\ mode' = [mode EXCEPT ![a] = "record"]
  /\ res' = [res EXCEPT ![a] = "fail"]
  /\ step' = [step EXCEPT ![a] = "lock"]
  /\ UNCHANGED <<dvars, db, act, mirror, clock, nextAct, written, outside>>

(* The chain write or the commit fails and everything staged is undone.  A *)
(* Partial still owes its record, which is tried once more on its own;     *)
(* otherwise Act returns the error and no record exists.                   *)
CommitFails(a) ==
  /\ step[a] \in {"append", "commit"}
  /\ writer' = "none"
  /\ work' = db
  /\ rec' = [rec EXCEPT ![a] = NoRow]
  /\ IF mode[a] = "act" /\ res[a] = "partial"
     THEN /\ mode' = [mode EXCEPT ![a] = "record"]
          /\ step' = [step EXCEPT ![a] = "lock"]
          /\ UNCHANGED dvars
     ELSE /\ Abandon(a)
          /\ step' = [step EXCEPT ![a] = "none"]
          /\ UNCHANGED mode
  /\ UNCHANGED <<db, act, res, mirror, clock, nextAct, written, outside>>

(* One sink's Emit.  A refused write leaves no line; a failed fsync leaves *)
(* one and reports the error all the same.                                 *)
DeliverRecord(a) ==
  LET s == SinkList[idx[a]]
  IN  /\ Deliver(a)
      /\ \/ mirror' = [mirror EXCEPT ![s] = Append(@, rec[a])]
         \/ ~up[s] /\ mirror' = mirror
      /\ UNCHANGED <<db, work, writer, act, mode, step, res, rec, clock,
                     nextAct, written, outside>>

MarkDelivery(a) ==
  /\ Mark(a)
  /\ UNCHANGED <<db, work, writer, act, mode, step, res, rec, mirror, clock,
                 nextAct, written, outside>>

-----------------------------------------------------------------------------
(* The environment.                                                        *)

SinkChanges ==
  /\ \E s \in Sinks : SinkFails(s) \/ SinkRecovers(s)
  /\ UNCHANGED <<db, work, writer, act, mode, step, res, rec, mirror, clock,
                 nextAct, written, outside>>

(* A process dies: its transaction rolls back, its pending deliveries are  *)
(* lost, what was committed and what was mirrored stays.                   *)
CrashProcess(p) ==
  /\ Crash(p)
  /\ IF writer # "none" /\ ProcOf[writer] = p
     THEN writer' = "none" /\ work' = db
     ELSE UNCHANGED <<writer, work>>
  /\ step' = [a \in Actors |-> IF ProcOf[a] = p THEN "none" ELSE step[a]]
  /\ UNCHANGED <<db, act, mode, res, rec, mirror, clock, nextAct, written,
                 outside>>

(* Time passes, or NTP steps the clock back.                               *)
SetClock ==
  /\ \E t \in {clock + 1, clock - 1} : t \in 0..MaxClock /\ clock' = t
  /\ UNCHANGED <<dvars, db, work, writer, act, mode, step, res, rec, mirror,
                 nextAct, written, outside>>

ActorStep(a) ==
  \/ \E k \in Kinds : Start(a, k)
  \/ Lock(a) \/ LockTimeout(a)
  \/ RunChange(a) \/ RunPrune(a) \/ RunFails(a)
  \/ AppendTx(a) \/ Commit(a) \/ CommitFails(a)
  \/ DeliverRecord(a) \/ MarkDelivery(a)

Next ==
  \/ \E a \in Actors : ActorStep(a)
  \/ \E p \in Procs : CrashProcess(p)
  \/ SinkChanges
  \/ SetClock

Spec == Init /\ [][Next]_vars

-----------------------------------------------------------------------------
(* What must hold of the chain.                                            *)

(* The chain verifies (verify.go): no sequence number is used twice, every *)
(* row links by hash to the one before it, and the first to the recorded   *)
(* cut or to genesis, through concurrent writers, rollbacks, crashes and   *)
(* prunes.                                                                 *)
Verifies(d) ==
  /\ \A r, q \in d.audit : r.seq = q.seq => r = q
  /\ \A r \in d.audit :
       /\ r.seq > d.anchor.seq
       /\ \/ r.prev = d.anchor /\ r.seq = d.anchor.seq + 1
          \/ \E q \in d.audit : r.prev = Hash(q) /\ r.seq = q.seq + 1
  /\ d.audit = {} => d.anchor = Genesis

ChainVerifies == Verifies(db)

(* Nothing is lost but what a prune cut: the table holds every record ever *)
(* committed past the anchor and nothing else.                             *)
OnlyPrunesRemove ==
  db.audit = {r \in written : r.seq > db.anchor.seq}

(* A change and its record exist together (log.go, Act): a change in the   *)
(* database has one, of success or partial; a success record has its       *)
(* change; a failure record's act changed nothing, inside or outside; and  *)
(* an act is recorded at most once, whatever crashed or was retried.  All  *)
(* under one installation's identity: processes that reach a fresh         *)
(* database together do not mint two, and one rolled back is gone.         *)
RecordsTellTheTruth ==
  /\ \A i \in db.applied :
       \E r \in written : r.act = i /\ r.outcome \in {"success", "partial"}
  /\ \A r \in written :
       /\ r.outcome = "success" => r.act \in db.applied
       /\ r.outcome = "failure" => r.act \notin db.applied \cup outside
       /\ r.outcome = "partial" => r.act \in outside
  /\ \A r, q \in written : r.act = q.act => r = q
  /\ \A r \in written : r.install = db.install

(* No phantom reaches a mirror (log.go: "a phantom seq ... leaving the     *)
(* mirror permanently ahead of the database"): every line was committed,   *)
(* and no sequence number appears on two lines.                            *)
MirrorFaithful ==
  \A s \in Sinks :
    /\ \A i \in DOMAIN mirror[s] : mirror[s][i] \in written
    /\ \A i, j \in DOMAIN mirror[s] : mirror[s][i].seq = mirror[s][j].seq => i = j

(* A prune never takes a record its window protects, even when the clock   *)
(* has gone back and old stamps sit among young ones (retention.go,        *)
(* auditPrefix).                                                           *)
PruneKeepsWindow ==
  [][\A r \in db.audit \ db'.audit :
       \E w \in written' \ written : r.ts < w.ts - Window]_vars

(* A pass over a chain cut earlier goes through when there is nothing more *)
(* to cut (cli/prune.go: "A pass that removes nothing still writes its     *)
(* record"): the transaction that runs it meets no error of its own.       *)
EmptyPassGoesThrough ==
  \A a \in Actors :
    step[a] = "fn" /\ act[a].kind = "prune"
      => ~PruneErrs(work.audit, act[a].ts - Window)

(* AuditLog implements Delivery: whatever the chain and its transactions   *)
(* do, what the sinks and the posture see is a behaviour of Delivery.      *)
DeliverySpec == DSpec
=============================================================================

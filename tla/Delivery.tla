------------------------------ MODULE Delivery ------------------------------
(***************************************************************************)
(* Delivery of committed audit records to the configured sinks, and the    *)
(* posture that decides whether the next mutation proceeds.                *)
(*                                                                         *)
(* Models internal/audit/sink.go (Delivery.Emit, Delivery.Blocked) and the *)
(* parts of Log.Act (internal/audit/log.go) that call them.  An actor is   *)
(* one call of Log.Act; the actors of one process share its Delivery, and  *)
(* so its set of failing sinks.  What a record says, and the transaction   *)
(* that commits it, are AuditLog's business.                               *)
(***************************************************************************)
EXTENDS Integers, Sequences, FiniteSets

CONSTANTS
  Actors,     \* concurrent callers of Log.Act
  Procs,      \* operating-system processes: the server, each CLI invocation
  ProcOf,     \* the process an actor runs in
  SinkList,   \* the configured sinks, in the order ParseSinks built them
  Posture,    \* "warn" or "block"
  MaxCrashes  \* bound: how many times processes may die

ASSUME DeliveryAssumption ==
  /\ ProcOf \in [Actors -> Procs]
  /\ SinkList \in Seq(STRING)
  /\ \A i, j \in DOMAIN SinkList : SinkList[i] = SinkList[j] => i = j
  /\ Posture \in {"warn", "block"}
  /\ MaxCrashes \in Nat

Sinks == {SinkList[i] : i \in DOMAIN SinkList}

VARIABLES
  failing,  \* failing[p]: Delivery.failing of process p (sink names)
  up,       \* up[s]: whether a write to sink s succeeds just now (environment)
  pc,       \* where an actor is in Log.Act
  idx,      \* the actor's position in Emit's loop over d.sinks
  err,      \* what s.Emit returned to the actor, not yet noted under d.mu
  last,     \* history: last[p][s] is FALSE iff p's latest write to s failed
  crashes   \* how many processes have died, up to MaxCrashes

dvars == <<failing, up, pc, idx, err, last, crashes>>

(* idle     not in Act                                                     *)
(* acting   past the Blocked check, the mutation's transaction under way   *)
(* refused  Blocked said no, the refusal is being recorded                 *)
(* emit     the record is committed; about to write it to sink idx         *)
(* mark     sink idx has answered; about to take d.mu and note the answer  *)
Phases == {"idle", "acting", "refused", "emit", "mark"}

DTypeOK ==
  /\ failing \in [Procs -> SUBSET Sinks]
  /\ up \in [Sinks -> BOOLEAN]
  /\ pc \in [Actors -> Phases]
  /\ idx \in [Actors -> 1..(Len(SinkList) + 1)]
  /\ err \in [Actors -> BOOLEAN]
  /\ last \in [Procs -> [Sinks -> BOOLEAN]]
  /\ crashes \in 0..MaxCrashes

DInit ==
  /\ failing = [p \in Procs |-> {}]
  /\ up = [s \in Sinks |-> TRUE]
  /\ pc = [a \in Actors |-> "idle"]
  /\ idx = [a \in Actors |-> 1]
  /\ err = [a \in Actors |-> FALSE]
  /\ last = [p \in Procs |-> [s \in Sinks |-> TRUE]]
  /\ crashes = 0

(* Delivery.Blocked: only the block posture refuses, and only while the    *)
(* process remembers a failing sink.                                       *)
Blocked(p) == Posture = "block" /\ failing[p] # {}

(* Mutant: the check is skipped by an actor whose process failed before.    *)
BeginUnchecked(a) ==
  /\ pc[a] = "idle"
  /\ pc' = [pc EXCEPT ![a] = "acting"]
  /\ UNCHANGED <<failing, up, idx, err, last, crashes>>

(* The head of Log.Act: consult Blocked, then go one way or the other.     *)
Begin(a) ==
  /\ pc[a] = "idle"
  /\ pc' = [pc EXCEPT ![a] = IF Blocked(ProcOf[a]) THEN "refused" ELSE "acting"]
  /\ UNCHANGED <<failing, up, idx, err, last, crashes>>

(* Act returns with nothing to deliver: no record could be committed.      *)
Abandon(a) ==
  /\ pc[a] \in {"acting", "refused"}
  /\ pc' = [pc EXCEPT ![a] = "idle"]
  /\ UNCHANGED <<failing, up, idx, err, last, crashes>>

(* Mutant: a refusal that returns without delivering, so that nothing is   *)
(* left to observe the sink's recovery.                                    *)
StartEmitUnlessRefused(a) ==
  /\ pc[a] \in {"acting", "refused"}
  /\ pc' = [pc EXCEPT ![a] =
              IF SinkList = <<>> \/ pc[a] = "refused" THEN "idle" ELSE "emit"]
  /\ idx' = [idx EXCEPT ![a] = 1]
  /\ UNCHANGED <<failing, up, err, last, crashes>>

(* A record is committed and Act calls l.emit: the success and the failure *)
(* arms, and the refusal, whose delivery is also the probe.                *)
StartEmit(a) ==
  /\ pc[a] \in {"acting", "refused"}
  /\ pc' = [pc EXCEPT ![a] = IF SinkList = <<>> THEN "idle" ELSE "emit"]
  /\ idx' = [idx EXCEPT ![a] = 1]
  /\ UNCHANGED <<failing, up, err, last, crashes>>

(* s.Emit, outside d.mu.  A sink that is up takes the line; one that is    *)
(* not returns an error.                                                   *)
Deliver(a) ==
  LET s == SinkList[idx[a]]
      p == ProcOf[a]
  IN  /\ pc[a] = "emit"
      /\ err' = [err EXCEPT ![a] = ~up[s]]
      /\ last' = [last EXCEPT ![p] = [@ EXCEPT ![s] = up[s]]]
      /\ pc' = [pc EXCEPT ![a] = "mark"]
      /\ UNCHANGED <<failing, up, idx, crashes>>

(* Mutant: remembers failures and never forgets them.                      *)
MarkNeverForgets(a) ==
  LET s == SinkList[idx[a]]
      p == ProcOf[a]
  IN  /\ pc[a] = "mark"
      /\ failing' = [failing EXCEPT ![p] = IF err[a] THEN @ \cup {s} ELSE @]
      /\ pc' = [pc EXCEPT ![a] = IF idx[a] = Len(SinkList) THEN "idle" ELSE "emit"]
      /\ idx' = [idx EXCEPT ![a] = @ + 1]
      /\ err' = [err EXCEPT ![a] = FALSE]
      /\ UNCHANGED <<up, last, crashes>>

(* The locked half of the loop body: remember or forget the sink, go on to *)
(* the next one or return.                                                 *)
Mark(a) ==
  LET s == SinkList[idx[a]]
      p == ProcOf[a]
  IN  /\ pc[a] = "mark"
      /\ failing' = [failing EXCEPT ![p] = IF err[a] THEN @ \cup {s} ELSE @ \ {s}]
      /\ pc' = [pc EXCEPT ![a] = IF idx[a] = Len(SinkList) THEN "idle" ELSE "emit"]
      /\ idx' = [idx EXCEPT ![a] = @ + 1]
      /\ err' = [err EXCEPT ![a] = FALSE]
      /\ UNCHANGED <<up, last, crashes>>

(* The environment: a disk fills, a mount goes away, and comes back.       *)
SinkFails(s) ==
  /\ up[s]
  /\ up' = [up EXCEPT ![s] = FALSE]
  /\ UNCHANGED <<failing, pc, idx, err, last, crashes>>

SinkRecovers(s) ==
  /\ ~up[s]
  /\ up' = [up EXCEPT ![s] = TRUE]
  /\ UNCHANGED <<failing, pc, idx, err, last, crashes>>

(* A process dies and is started again: NewDelivery builds an empty        *)
(* failing set, and whatever its actors were doing is gone.                *)
Crash(p) ==
  /\ crashes < MaxCrashes
  /\ crashes' = crashes + 1
  /\ failing' = [failing EXCEPT ![p] = {}]
  /\ last' = [last EXCEPT ![p] = [s \in Sinks |-> TRUE]]
  /\ pc' = [a \in Actors |-> IF ProcOf[a] = p THEN "idle" ELSE pc[a]]
  /\ idx' = [a \in Actors |-> IF ProcOf[a] = p THEN 1 ELSE idx[a]]
  /\ err' = [a \in Actors |-> IF ProcOf[a] = p THEN FALSE ELSE err[a]]
  /\ UNCHANGED up

DNext ==
  \/ \E a \in Actors :
       Begin(a) \/ Abandon(a) \/ StartEmit(a) \/ Deliver(a) \/ Mark(a)
  \/ \E s \in Sinks : SinkFails(s) \/ SinkRecovers(s)
  \/ \E p \in Procs : Crash(p)

DSpec == DInit /\ [][DNext]_dvars

(* Operators keep trying (Begin), an act that has committed goes on to     *)
(* deliver (Deliver, Mark), and the database does not refuse every record  *)
(* for ever (strong fairness of StartEmit against Abandon).  The sinks owe *)
(* nothing.                                                                *)
DFairness ==
  \A a \in Actors :
    /\ WF_dvars(Begin(a))
    /\ SF_dvars(StartEmit(a))
    /\ WF_dvars(Deliver(a))
    /\ WF_dvars(Mark(a))

DFairSpec == DSpec /\ DFairness

-----------------------------------------------------------------------------
(* Liveness of the block posture (log.go: "the appliance comes back on the *)
(* attempt after the sink does rather than never"): once every sink has    *)
(* come back for good, no process stays blocked, whatever failures its     *)
(* actors still had to note when the sinks recovered.                      *)
BlockLifts ==
  <>[](\A s \in Sinks : up[s]) => <>[](\A p \in Procs : ~Blocked(p))

(* The promise of the block posture (sink.go: "Block refuses the next      *)
(* mutation while a sink is failing"): when no delivery of the process is  *)
(* half noted, a mutation is let through only if the process's latest      *)
(* write to every sink succeeded.                                          *)
BlockHolds ==
  [][\A a \in Actors :
       /\ pc[a] = "idle" /\ pc'[a] = "acting" /\ Posture = "block"
       /\ \A b \in Actors : ProcOf[b] = ProcOf[a] => pc[b] # "mark"
       => \A s \in Sinks : last[ProcOf[a]][s]]_dvars

(* The only act of its process.                                            *)
Sole(a) == \A b \in Actors : ProcOf[b] = ProcOf[a] => b = a

(* What the failing set may claim of a process that runs one act at a time *)
(* (every CLI invocation): outside the two steps of one delivery it names  *)
(* exactly the sinks whose latest write failed, so the posture is neither  *)
(* too strict nor too lax.                                                 *)
FailingIsExact ==
  \A a \in Actors :
    Sole(a) /\ pc[a] # "mark"
      => failing[ProcOf[a]] = {s \in Sinks : ~last[ProcOf[a]][s]}

(* The posture a process applies is the state of its sinks: BlockHolds and *)
(* FailingIsExact together.                                                *)
BlockIsExact == []FailingIsExact /\ BlockHolds

=============================================================================

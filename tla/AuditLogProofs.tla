--------------------------- MODULE AuditLogProofs ---------------------------
(***************************************************************************)
(* Proofs about AuditLog and Delivery, for every number of actors,         *)
(* processes, sinks and acts: the chain verifies and loses nothing but     *)
(* what a prune cut, records tell the truth, a prune keeps its window,     *)
(* mirrors are faithful, and the failing set says what the sinks answered. *)
(***************************************************************************)
EXTENDS AuditLog, WellFoundedInduction, TLAPS

-----------------------------------------------------------------------------
(* Facts about the chain.                                                  *)

(* Every nonempty set of naturals has a least member.                      *)
LEMMA LeastNatural ==
  ASSUME NEW S, S \subseteq Nat, S # {}
  PROVE  \E x \in S : \A y \in S : x <= y
<1>1. PICK x \in S : \A y \in S : ~(<<y, x>> \in OpToRel(<, Nat))
  BY NatLessThanWellFounded, WFMin
<1>2. \A y \in S : ~(y < x)
  BY <1>1 DEF OpToRel
<1> QED
  BY <1>2

(* A nonempty table of rows has a row of least sequence number.            *)
LEMMA LeastRow ==
  ASSUME NEW S \in SUBSET Rows, S # {}
  PROVE  \E r \in S : \A q \in S : r.seq <= q.seq
<1> DEFINE N == {r.seq : r \in S}
<1>1. N \subseteq Nat /\ N # {}
  BY DEF Rows
<1>2. PICK x \in N : \A y \in N : x <= y
  <2> HIDE DEF N
  <2> QED BY <1>1, LeastNatural
<1> QED
  BY <1>2

(* A table that is not empty has a tail.                                   *)
HasTail(d) == d.audit # {} => \E t \in d.audit : IsTail(d.audit, t)

(* What every database the system sees satisfies.                          *)
Sound(d) == Verifies(d) /\ HasTail(d)

(* The tail a writer reads is genesis on an empty chain, and the last      *)
(* row's hash otherwise.                                                   *)
LEMMA TailIsLast ==
  ASSUME NEW d \in DBs, Sound(d)
  PROVE  /\ ChainTail(d.audit) \in Hashes
         /\ d.audit = {} => ChainTail(d.audit) = Genesis
         /\ d.audit # {} => \E t \in d.audit :
                              /\ IsTail(d.audit, t)
                              /\ ChainTail(d.audit) = Hash(t)
                              /\ ChainTail(d.audit).seq = t.seq
<1>1. CASE d.audit = {}
  BY <1>1 DEF ChainTail, Genesis, Hashes
<1>2. CASE d.audit # {}
  <2> DEFINE t == CHOOSE x \in d.audit : IsTail(d.audit, x)
  <2>1. t \in d.audit /\ IsTail(d.audit, t)
    BY <1>2 DEF Sound, HasTail
  <2>2. t \in Rows
    BY <2>1 DEF DBs
  <2>3. ChainTail(d.audit) = Hash(t)
    BY <1>2 DEF ChainTail
  <2>4. Hash(t) \in Hashes /\ Hash(t).seq = t.seq
    BY <2>2 DEF Hash, Hashes, Rows
  <2> HIDE DEF t
  <2> QED BY <1>2, <2>1, <2>3, <2>4
<1> QED BY <1>1, <1>2

(* Appending a row that names the tail as its predecessor and takes the    *)
(* next number keeps the table sound, and the row is its new tail.         *)
LEMMA AppendSound ==
  ASSUME NEW d \in DBs, NEW e \in DBs, NEW r \in Rows, Sound(d),
         r.seq = ChainTail(d.audit).seq + 1, r.prev = ChainTail(d.audit),
         e.audit = d.audit \cup {r}, e.anchor = d.anchor
  PROVE  /\ Sound(e)
         /\ \A q \in d.audit : q.seq < r.seq
         /\ r.seq > d.anchor.seq
<1>1. CASE d.audit = {}
  <2>0. ChainTail(d.audit) = Genesis
    BY <1>1, TailIsLast
  <2>1. r.prev = Genesis /\ r.seq = 1 /\ d.anchor = Genesis
    BY <1>1, <2>0 DEF Genesis, Sound, Verifies
  <2>2. e.audit = {r}
    BY <1>1
  <2>3. Verifies(e)
    BY <2>1, <2>2 DEF Verifies, Genesis
  <2>4. HasTail(e)
    BY <2>2 DEF HasTail, IsTail, Rows
  <2> QED BY <1>1, <2>1, <2>3, <2>4 DEF Sound, Genesis
<1>2. CASE d.audit # {}
  <2>1. PICK t \in d.audit :
          IsTail(d.audit, t) /\ r.prev = Hash(t) /\ r.seq = t.seq + 1
    BY <1>2, TailIsLast
  <2>2. \A q \in d.audit : q \in Rows /\ q.seq \in Nat
    BY DEF DBs, Rows
  <2>3. \A q \in d.audit : q.seq < r.seq
    BY <2>1, <2>2 DEF IsTail
  <2>4. d.anchor.seq \in Nat /\ t.seq > d.anchor.seq
    BY <2>1 DEF Sound, Verifies, DBs, Hashes
  <2>5. r.seq > d.anchor.seq
    BY <2>1, <2>2, <2>4
  <2>6. \A p, q \in e.audit : p.seq = q.seq => p = q
    BY <2>2, <2>3 DEF Sound, Verifies
  <2>7. \A p \in e.audit :
          /\ p.seq > e.anchor.seq
          /\ \/ p.prev = e.anchor /\ p.seq = e.anchor.seq + 1
             \/ \E q \in e.audit : p.prev = Hash(q) /\ p.seq = q.seq + 1
    BY <2>1, <2>5 DEF Sound, Verifies
  <2>8. IsTail(e.audit, r)
    BY <2>2, <2>3 DEF IsTail, Rows
  <2>9. Verifies(e)
    BY <2>6, <2>7 DEF Verifies
  <2> QED BY <2>3, <2>5, <2>8, <2>9 DEF Sound, HasTail
<1> QED BY <1>1, <1>2

(* A prune that goes through keeps the table sound, moves the cut forward, *)
(* and removes exactly the rows up to the new cut.                         *)
LEMMA PruneSound ==
  ASSUME NEW d \in DBs, NEW c \in Int, Sound(d), ~PruneErrs(d.audit, c)
  PROVE  /\ Pruned(d, c) \in DBs
         /\ Sound(Pruned(d, c))
         /\ Pruned(d, c).anchor.seq >= d.anchor.seq
         /\ Pruned(d, c).audit = {r \in d.audit : r.seq > Pruned(d, c).anchor.seq}
         /\ Pruned(d, c).install = d.install
         /\ Pruned(d, c).applied = d.applied
<1> DEFINE e == Pruned(d, c)
           k == KeepFrom(d.audit, c)
           gone == Prefix(d.audit, c)
<1>0. /\ d.audit \in SUBSET Rows /\ d.anchor \in Hashes
      /\ \A r \in d.audit : r \in Rows /\ r.seq \in Nat /\ r.ts \in Nat
  BY DEF DBs, Rows
<1>1. CASE NothingToPrune(d.audit, c)
  <2>1. e = d
    BY <1>1 DEF Pruned
  <2>2. d.audit = {r \in d.audit : r.seq > d.anchor.seq}
    BY DEF Sound, Verifies
  <2>3. d.anchor.seq \in Nat
    BY <1>0 DEF Hashes
  <2> HIDE DEF e
  <2>4. e \in DBs /\ Sound(e) /\ e.anchor.seq >= d.anchor.seq
    BY <2>1, <2>3
  <2>5. e.audit = {r \in d.audit : r.seq > e.anchor.seq}
    BY <2>1, <2>2
  <2>6. e.install = d.install /\ e.applied = d.applied
    BY <2>1
  <2> QED BY <2>4, <2>5, <2>6 DEF e
<1>2. CASE ~NothingToPrune(d.audit, c)
  <2>1. d.audit # {} /\ gone # {}
    BY <1>2 DEF PruneErrs, NothingToPrune
  <2>2. k \in d.audit
    <3> DEFINE young == {r \in d.audit : r.ts >= c}
    <3>1. CASE young # {}
      <4>1. young \in SUBSET Rows
        BY <1>0
      <4>2. \E r \in young : \A q \in young : r.seq <= q.seq
        <5> HIDE DEF young
        <5> QED BY <3>1, <4>1, LeastRow
      <4>3. k = CHOOSE r \in young : \A q \in young : r.seq <= q.seq
        BY <3>1 DEF KeepFrom
      <4> QED BY <4>2, <4>3
    <3>2. CASE young = {}
      <4>1. k = CHOOSE r \in d.audit : IsTail(d.audit, r)
        BY <3>2 DEF KeepFrom
      <4> QED BY <4>1, <2>1 DEF Sound, HasTail
    <3> QED BY <3>1, <3>2
  <2>3. gone = {r \in d.audit : r.seq < k.seq}
    BY DEF Prefix
  <2> HIDE DEF k, gone
  <2>4. PICK g \in d.audit : k.prev = Hash(g) /\ k.seq = g.seq + 1
    <3>1. PICK x \in d.audit : x.seq < k.seq
      BY <2>1, <2>3
    <3>2. x.seq > d.anchor.seq /\ d.anchor.seq \in Nat
      BY <1>0 DEF Sound, Verifies, Hashes
    <3>3. k.seq # d.anchor.seq + 1
      BY <1>0, <2>2, <3>1, <3>2
    <3> QED BY <2>2, <3>3 DEF Sound, Verifies
  <2>5. IsTail(gone, g) /\ g \in gone
    BY <1>0, <2>2, <2>3, <2>4 DEF IsTail
  <2>6. \A t \in gone : IsTail(gone, t) => t = g
    BY <1>0, <2>3, <2>4, <2>5 DEF IsTail, Sound, Verifies
  <2>7. (CHOOSE t \in gone : IsTail(gone, t)) = g
    BY <2>5, <2>6
  <2>8. e = [d EXCEPT !.audit = @ \ gone, !.anchor = Hash(g)]
    BY <1>2, <2>7 DEF Pruned, gone
  <2>9. Hash(g) \in Hashes /\ Hash(g).seq = g.seq
    BY <1>0, <2>4 DEF Hash, Hashes, Rows
  <2>10. /\ e.audit = d.audit \ gone /\ e.anchor = Hash(g)
         /\ e.install = d.install /\ e.applied = d.applied
         /\ e \in DBs
    BY <1>0, <2>8, <2>9 DEF DBs
  <2> HIDE DEF e
  <2>11. e.audit = {r \in d.audit : r.seq > e.anchor.seq}
    BY <1>0, <2>2, <2>3, <2>4, <2>9, <2>10
  <2>12. k \in e.audit
    BY <1>0, <2>2, <2>3, <2>10
  <2>13. e.anchor.seq >= d.anchor.seq
    BY <1>0, <2>4, <2>9, <2>10 DEF Sound, Verifies, Hashes
  <2>14. Verifies(e)
    <3>1. \A r, q \in e.audit : r.seq = q.seq => r = q
      BY <2>11 DEF Sound, Verifies
    <3>2. ASSUME NEW r \in e.audit
          PROVE  \/ r.prev = e.anchor /\ r.seq = e.anchor.seq + 1
                 \/ \E q \in e.audit : r.prev = Hash(q) /\ r.seq = q.seq + 1
      <4>1. r \in d.audit /\ r.seq > g.seq /\ r.seq \in Nat /\ g.seq \in Nat
        BY <1>0, <2>4, <2>9, <2>10, <2>11
      <4>2. g.seq > d.anchor.seq /\ d.anchor.seq \in Nat
        BY <1>0, <2>4 DEF Sound, Verifies, Hashes
      <4>3. PICK q \in d.audit : r.prev = Hash(q) /\ r.seq = q.seq + 1
        BY <4>1, <4>2 DEF Sound, Verifies
      <4>4. CASE q.seq = g.seq
        <5>1. q = g
          BY <2>4, <4>3, <4>4 DEF Sound, Verifies
        <5> QED BY <4>3, <5>1, <2>9, <2>10
      <4>5. CASE q.seq # g.seq
        <5>1. q.seq > g.seq
          BY <1>0, <4>1, <4>3, <4>5
        <5> QED BY <4>3, <5>1, <2>9, <2>10, <2>11
      <4> QED BY <4>4, <4>5
    <3> QED BY <2>11, <2>12, <3>1, <3>2 DEF Verifies
  <2>15. HasTail(e)
    <3>1. PICK t \in d.audit : IsTail(d.audit, t)
      BY <2>1 DEF Sound, HasTail
    <3>2. t.seq >= k.seq
      BY <1>0, <2>2, <3>1 DEF IsTail
    <3>3. t \in e.audit
      BY <1>0, <2>2, <2>4, <2>9, <2>10, <2>11, <3>2
    <3>4. IsTail(e.audit, t)
      BY <2>11, <3>1, <3>3 DEF IsTail
    <3> QED BY <3>3, <3>4 DEF HasTail
  <2> QED BY <2>10, <2>11, <2>13, <2>14, <2>15 DEF Sound, e
<1> QED BY <1>1, <1>2
-----------------------------------------------------------------------------
(* AuditLog implements Delivery, and Delivery's part of the state.         *)

(* Every step of the whole system is a step of Delivery or leaves it be.   *)
LEMMA DeliveryStep == [Next]_vars => [DNext]_dvars
<1> SUFFICES ASSUME [Next]_vars PROVE [DNext]_dvars
  OBVIOUS
<1>1. ASSUME NEW a \in Actors, ActorStep(a) PROVE [DNext]_dvars
  <2>1. ASSUME NEW k \in Kinds, Start(a, k) PROVE [DNext]_dvars
    BY <2>1 DEF Start, DNext
  <2>2. CASE Lock(a) \/ RunChange(a) \/ RunPrune(a) \/ RunFails(a) \/ AppendTx(a)
    BY <2>2 DEF Lock, RunChange, RunPrune, RunFails, AppendTx
  <2>3. CASE LockTimeout(a) \/ Commit(a) \/ CommitFails(a)
    BY <2>3 DEF LockTimeout, Commit, CommitFails, DNext
  <2>4. CASE DeliverRecord(a) \/ MarkDelivery(a)
    BY <2>4 DEF DeliverRecord, MarkDelivery, DNext
  <2> QED BY <1>1, <2>1, <2>2, <2>3, <2>4 DEF ActorStep
<1>2. ASSUME NEW p \in Procs, CrashProcess(p) PROVE [DNext]_dvars
  BY <1>2 DEF CrashProcess, DNext
<1>3. CASE SinkChanges
  BY <1>3 DEF SinkChanges, DNext
<1>4. CASE SetClock
  BY <1>4 DEF SetClock
<1>5. CASE UNCHANGED vars
  BY <1>5 DEF vars
<1> QED BY <1>1, <1>2, <1>3, <1>4, <1>5 DEF Next

(* The refinement, for every instance (the run's DeliverySpec): what sinks *)
(* and posture see of the audited-mutation seam is a behaviour of module   *)
(* Delivery.                                                               *)
THEOREM ImplementsDelivery == Spec => DeliverySpec
<1>1. Init => DInit
  BY DEF Init
<1> QED BY <1>1, DeliveryStep, PTL DEF Spec, DeliverySpec, DSpec

(* An actor inside Emit's loop is at one of the configured sinks.          *)
InLoop == \A a \in Actors : pc[a] \in {"emit", "mark"} => idx[a] \in 1..Len(SinkList)

LEMMA LenNat == Len(SinkList) \in Nat
BY DeliveryAssumption

LEMMA SinkAt ==
  ASSUME NEW i \in 1..Len(SinkList)
  PROVE  SinkList[i] \in Sinks
BY DeliveryAssumption DEF Sinks

LEMMA DeliveryInit == DInit => DTypeOK /\ InLoop
BY DeliveryAssumption, LenNat DEF DInit, DTypeOK, InLoop, Phases

LEMMA DeliveryType == DTypeOK /\ InLoop /\ [DNext]_dvars => (DTypeOK /\ InLoop)'
<1> SUFFICES ASSUME DTypeOK, InLoop, [DNext]_dvars PROVE (DTypeOK /\ InLoop)'
  OBVIOUS
<1> USE DEF DTypeOK, InLoop, Phases
<1>1. ASSUME NEW a \in Actors, Begin(a) \/ Abandon(a) PROVE (DTypeOK /\ InLoop)'
  BY <1>1, LenNat DEF Begin, Abandon
<1>2. ASSUME NEW a \in Actors, StartEmit(a) PROVE (DTypeOK /\ InLoop)'
  <2>1. SinkList # <<>> => 1 \in 1..Len(SinkList)
    BY DeliveryAssumption
  <2> QED BY <1>2, <2>1, LenNat DEF StartEmit
<1>3. ASSUME NEW a \in Actors, Deliver(a) PROVE (DTypeOK /\ InLoop)'
  <2>1. SinkList[idx[a]] \in Sinks /\ ProcOf[a] \in Procs
    BY <1>3, SinkAt, DeliveryAssumption DEF Deliver
  <2> QED BY <1>3, <2>1, LenNat DEF Deliver
<1>4. ASSUME NEW a \in Actors, Mark(a) PROVE (DTypeOK /\ InLoop)'
  <2>1. SinkList[idx[a]] \in Sinks /\ ProcOf[a] \in Procs
    BY <1>4, SinkAt, DeliveryAssumption DEF Mark
  <2>2. idx[a] \in 1..Len(SinkList)
    BY <1>4 DEF Mark
  <2>3. idx[a] # Len(SinkList) => idx[a] + 1 \in 1..Len(SinkList)
    BY <2>2, LenNat
  <2> QED BY <1>4, <2>1, <2>2, <2>3, LenNat DEF Mark
<1>5. ASSUME NEW s \in Sinks, SinkFails(s) \/ SinkRecovers(s)
      PROVE  (DTypeOK /\ InLoop)'
  BY <1>5 DEF SinkFails, SinkRecovers
<1>6. ASSUME NEW p \in Procs, Crash(p) PROVE (DTypeOK /\ InLoop)'
  <2>1. crashes' \in 0..MaxCrashes
    BY <1>6, DeliveryAssumption DEF Crash
  <2>2. failing' \in [Procs -> SUBSET Sinks] /\ up' \in [Sinks -> BOOLEAN]
    BY <1>6 DEF Crash
  <2>3. last' \in [Procs -> [Sinks -> BOOLEAN]]
    BY <1>6 DEF Crash
  <2>4. /\ pc' \in [Actors -> Phases]
        /\ idx' \in [Actors -> 1..(Len(SinkList) + 1)]
    BY <1>6, LenNat DEF Crash
  <2>6. err' \in [Actors -> BOOLEAN]
    <3>1. err' = [a \in Actors |-> IF ProcOf[a] = p THEN FALSE ELSE err[a]]
      BY <1>6 DEF Crash
    <3>2. \A a \in Actors : err[a] \in BOOLEAN
      OBVIOUS
    <3>3. \A a \in Actors : (IF ProcOf[a] = p THEN FALSE ELSE err[a]) \in BOOLEAN
      BY <3>2, Zenon
    <3> QED BY <3>1, <3>3, Zenon
  <2>5. InLoop'
    BY <1>6 DEF Crash
  <2> QED BY <2>1, <2>2, <2>3, <2>4, <2>5, <2>6
<1>7. CASE UNCHANGED dvars
  BY <1>7 DEF dvars
<1> QED BY <1>1, <1>2, <1>3, <1>4, <1>5, <1>6, <1>7 DEF DNext
-----------------------------------------------------------------------------
(* The inductive invariant.                                                *)

Held == {"fn", "append", "commit"}

(* The rows of h past d's cut.                                             *)
Past(h, d) == {r \in h : r.seq > d.anchor.seq}

(* An actor has a position in the transaction exactly while it is acting   *)
(* or recording a refusal.                                                 *)
StepsAgree == \A a \in Actors : step[a] = "none" <=> pc[a] \notin {"acting", "refused"}

(* Inside the transaction means holding the write lock, and with nobody    *)
(* inside it the working copy is the database.                             *)
LockAgrees ==
  /\ \A a \in Actors : step[a] \in Held <=> writer = a
  /\ writer = "none" => work = db

(* The working copy holds the history past its own cut, and after AppendTx *)
(* the new row too, which is above everything ever written.                *)
WorkHistory ==
  \A a \in Actors :
    /\ step[a] \in {"fn", "append"} => work.audit = Past(written, work)
    /\ step[a] = "commit" =>
         /\ work.audit = Past(written \cup {rec[a]}, work)
         /\ rec[a].seq > 0
         /\ \A r \in written : r.seq < rec[a].seq

(* No sequence number was ever used twice.                                 *)
WrittenOnce ==
  /\ \A r, q \in written : r.seq = q.seq => r = q
  /\ \A r \in written : r.seq > 0

ChainInv ==
  /\ StepsAgree
  /\ LockAgrees
  /\ Sound(db) /\ Sound(work)
  /\ OnlyPrunesRemove
  /\ WorkHistory
  /\ WrittenOnce

IInv == TypeOK /\ InLoop /\ ChainInv

(* AuditLog's own part of the type invariant.                              *)
ChainTypeOK ==
  /\ db \in DBs
  /\ work \in DBs
  /\ writer \in Actors \cup {"none"}
  /\ act \in [Actors -> [id : Nat, kind : {"change", "prune"}, ts : Nat]]
  /\ mode \in [Actors -> {"act", "record"}]
  /\ step \in [Actors -> Steps]
  /\ res \in [Actors -> {"ok", "partial", "fail"}]
  /\ rec \in [Actors -> Rows]
  /\ mirror \in [Sinks -> Seq(Rows)]
  /\ clock \in 0..MaxClock
  /\ nextAct \in 1..(MaxOps + 1)
  /\ written \subseteq Rows
  /\ outside \subseteq Nat

LEMMA TypeSplit == TypeOK <=> DTypeOK /\ ChainTypeOK
BY DEF TypeOK, ChainTypeOK

LEMMA NoRowType == NoRow \in Rows /\ Genesis \in Hashes
BY DEF NoRow, Rows, Genesis, Hashes, Outcomes

LEMMA InitInv == Init => IInv
<1> SUFFICES ASSUME Init PROVE IInv
  OBVIOUS
<1>1. DTypeOK /\ InLoop
  BY DeliveryInit DEF Init
<1>2. EmptyDB \in DBs
  BY NoRowType DEF EmptyDB, DBs
<1>3. ChainTypeOK
  BY <1>2, NoRowType, AuditLogAssumption DEF Init, ChainTypeOK, Steps
<1>4. Sound(EmptyDB)
  BY DEF Sound, Verifies, HasTail, EmptyDB
<1>5. ChainInv
  <2>1. StepsAgree /\ LockAgrees
    BY AuditLogAssumption DEF Init, DInit, StepsAgree, LockAgrees, Held
  <2>2. OnlyPrunesRemove
    BY DEF Init, OnlyPrunesRemove, EmptyDB
  <2>3. WorkHistory /\ WrittenOnce
    BY DEF Init, WorkHistory, WrittenOnce
  <2> QED BY <1>4, <2>1, <2>2, <2>3 DEF ChainInv, Init
<1> QED BY <1>1, <1>3, <1>5, TypeSplit DEF IInv

(* A step that touches no table, no lock and no position inside the        *)
(* transaction preserves what is said of them.                             *)
LEMMA QuietStep ==
  ASSUME ChainInv, UNCHANGED <<db, work, writer, written>>,
         \A a \in Actors : step'[a] \in Held <=> step[a] \in Held,
         \A a \in Actors : step[a] \in Held => step'[a] = step[a] /\ rec'[a] = rec[a],
         StepsAgree'
  PROVE  ChainInv'
<1>1. LockAgrees'
  BY DEF ChainInv, LockAgrees
<1>2. Sound(db)' /\ Sound(work)'
  BY DEF ChainInv, Sound, Verifies, HasTail
<1>3. OnlyPrunesRemove' /\ WrittenOnce'
  BY DEF ChainInv, OnlyPrunesRemove, WrittenOnce
<1>4. WorkHistory'
  BY DEF ChainInv, WorkHistory, Past, Held
<1> QED BY <1>1, <1>2, <1>3, <1>4 DEF ChainInv

(* The row AppendTx builds is well typed, and appending it stages a sound  *)
(* database.                                                               *)
LEMMA NewRowFits ==
  ASSUME IInv, NEW a \in Actors, step[a] = "append"
  PROVE  LET r == NewRow(work, a)
             e == [work EXCEPT !.audit = @ \cup {r}, !.install = InstallOf(work, a)]
         IN  /\ r \in Rows
             /\ e \in DBs
             /\ Sound(e)
             /\ r.seq > 0
             /\ \A q \in written : q.seq < r.seq
             /\ e.audit = Past(written \cup {r}, e)
<1> DEFINE r == NewRow(work, a)
           e == [work EXCEPT !.audit = @ \cup {r}, !.install = InstallOf(work, a)]
<1>1. /\ work \in DBs /\ act[a] \in [id : Nat, kind : {"change", "prune"}, ts : Nat]
      /\ res[a] \in {"ok", "partial", "fail"} /\ written \subseteq Rows
  BY TypeSplit DEF IInv, ChainTypeOK
<1>2. Sound(work) /\ work.audit = Past(written, work)
  BY DEF IInv, ChainInv, WorkHistory
<1>3. ChainTail(work.audit) \in Hashes
  BY <1>1, <1>2, TailIsLast
<1>4. InstallOf(work, a) \in Nat
  BY <1>1 DEF InstallOf, DBs
<1>5. OutcomeOf(res[a]) \in Outcomes
  BY <1>1 DEF OutcomeOf, Outcomes
<1>6. /\ r \in Rows /\ r.seq = ChainTail(work.audit).seq + 1
      /\ r.prev = ChainTail(work.audit) /\ r.seq > 0
  BY <1>1, <1>3, <1>4, <1>5 DEF NewRow, Rows, Hashes
<1> HIDE DEF r
<1>7. /\ e \in DBs /\ e.audit = work.audit \cup {r} /\ e.anchor = work.anchor
  BY <1>1, <1>4, <1>6 DEF DBs
<1> HIDE DEF e
<1>8. Sound(e) /\ (\A q \in work.audit : q.seq < r.seq) /\ r.seq > work.anchor.seq
  BY <1>1, <1>2, <1>6, <1>7, AppendSound
<1>9. work.anchor.seq \in Nat /\ r.seq \in Nat /\ \A q \in written : q.seq \in Nat
  BY <1>1, <1>6 DEF DBs, Hashes, Rows
<1>10. \A q \in written : q.seq < r.seq
  BY <1>2, <1>8, <1>9 DEF Past
<1>11. e.audit = Past(written \cup {r}, e)
  BY <1>2, <1>7, <1>8 DEF Past
<1> QED BY <1>6, <1>7, <1>8, <1>10, <1>11 DEF r, e

(* Letting go of the lock with the working copy put back, and nothing      *)
(* committed: a rollback by failure or by crash.                           *)
LEMMA Rollback ==
  ASSUME ChainInv, UNCHANGED <<db, written>>,
         writer' = "none", work' = db,
         \A a \in Actors : step'[a] \notin Held, "none" \notin Actors,
         StepsAgree'
  PROVE  ChainInv'
<1>1. LockAgrees'
  BY DEF LockAgrees
<1>2. Sound(db)' /\ Sound(work)'
  BY DEF ChainInv, Sound, Verifies, HasTail
<1>3. OnlyPrunesRemove' /\ WrittenOnce'
  BY DEF ChainInv, OnlyPrunesRemove, WrittenOnce
<1>4. WorkHistory'
  BY DEF WorkHistory, Held
<1> QED BY <1>1, <1>2, <1>3, <1>4 DEF ChainInv

LEMMA StepInv == IInv /\ [Next]_vars => IInv'
<1> SUFFICES ASSUME IInv, [Next]_vars PROVE IInv'
  OBVIOUS
<1>0. DTypeOK' /\ InLoop'
  BY DeliveryStep, DeliveryType, TypeSplit DEF IInv
<1>t. ChainTypeOK /\ DTypeOK /\ InLoop /\ ChainInv
  BY TypeSplit DEF IInv
<1> SUFFICES ChainTypeOK' /\ ChainInv'
  BY <1>0 DEF IInv, TypeOK, ChainTypeOK
<1>a. StepsAgree /\ LockAgrees
  BY <1>t DEF ChainInv
<1>1. ASSUME NEW a \in Actors, NEW k \in Kinds, Start(a, k)
      PROVE  ChainTypeOK' /\ ChainInv'
  <2>1. ChainTypeOK'
    BY <1>1, <1>t, NoRowType, AuditLogAssumption
    DEF Start, chainVars, ChainTypeOK, Steps
  <2>2. step[a] = "none"
    BY <1>1, <1>a DEF Start, Begin, StepsAgree
  <2>3. StepsAgree'
    BY <1>1, <1>a, <1>t DEF Start, Begin, StepsAgree, ChainTypeOK, DTypeOK
  <2>4. ChainInv'
    BY <1>1, <1>t, <2>2, <2>3, QuietStep
    DEF Start, chainVars, Held, ChainTypeOK
  <2> QED BY <2>1, <2>4
<1>2. ASSUME NEW a \in Actors, Lock(a) PROVE ChainTypeOK' /\ ChainInv'
  <2>1. ChainTypeOK'
    BY <1>2, <1>t DEF Lock, ChainTypeOK, Steps
  <2>2. StepsAgree'
    BY <1>2, <1>a, <1>t DEF Lock, StepsAgree, ChainTypeOK, dvars
  <2>3. LockAgrees'
    BY <1>2, <1>a, <1>t, AuditLogAssumption DEF Lock, LockAgrees, ChainTypeOK, Held
  <2>4. Sound(db)' /\ Sound(work)' /\ OnlyPrunesRemove' /\ WrittenOnce'
    BY <1>2, <1>t DEF Lock, ChainInv, Sound, Verifies, HasTail, OnlyPrunesRemove,
                      WrittenOnce
  <2>5. WorkHistory'
    BY <1>2, <1>a, <1>t
    DEF Lock, ChainInv, WorkHistory, LockAgrees, OnlyPrunesRemove, Past, ChainTypeOK,
        Held
  <2> QED BY <2>1, <2>2, <2>3, <2>4, <2>5 DEF ChainInv
<1>3. ASSUME NEW a \in Actors, LockTimeout(a) PROVE ChainTypeOK' /\ ChainInv'
  <2>1. ChainTypeOK'
    BY <1>3, <1>t DEF LockTimeout, ChainTypeOK, Steps
  <2>2. StepsAgree'
    BY <1>3, <1>a, <1>t DEF LockTimeout, Abandon, StepsAgree, ChainTypeOK, DTypeOK
  <2>3. ChainInv'
    BY <1>3, <1>t, <2>2, QuietStep DEF LockTimeout, Held, ChainTypeOK
  <2> QED BY <2>1, <2>3
<1>4. ASSUME NEW a \in Actors, RunChange(a) PROVE ChainTypeOK' /\ ChainInv'
  <2>0. act[a].id \in Nat
    BY <1>t DEF ChainTypeOK
  <2>1. ChainTypeOK'
    BY <1>4, <1>t, <2>0 DEF RunChange, ChainTypeOK, Steps, DBs
  <2>2. work'.audit = work.audit /\ work'.anchor = work.anchor
    BY <1>4, <1>t DEF RunChange, ChainTypeOK, DBs
  <2>3. StepsAgree'
    BY <1>4, <1>a, <1>t DEF RunChange, StepsAgree, ChainTypeOK, dvars
  <2>4. LockAgrees'
    BY <1>4, <1>a, <1>t, AuditLogAssumption DEF RunChange, LockAgrees, ChainTypeOK, Held
  <2>5. Sound(db)' /\ OnlyPrunesRemove' /\ WrittenOnce'
    BY <1>4, <1>t DEF RunChange, ChainInv, Sound, Verifies, HasTail,
                      OnlyPrunesRemove, WrittenOnce
  <2>7. Sound(work)'
    BY <1>t, <2>2 DEF ChainInv, Sound, Verifies, HasTail
  <2>6. WorkHistory'
    BY <1>4, <1>a, <1>t, <2>2
    DEF RunChange, ChainInv, WorkHistory, LockAgrees, Past, ChainTypeOK, Held
  <2> QED BY <2>1, <2>3, <2>4, <2>5, <2>6, <2>7 DEF ChainInv
<1>5. ASSUME NEW a \in Actors, RunPrune(a) PROVE ChainTypeOK' /\ ChainInv'
  <2> DEFINE c == act[a].ts - Window
             e == Pruned(work, c)
  <2>0. act[a].id \in Nat /\ c \in Int /\ work \in DBs /\ Sound(work)
        /\ ~PruneErrs(work.audit, c)
    BY <1>5, <1>t, AuditLogAssumption DEF RunPrune, ChainTypeOK, ChainInv
  <2>1. /\ e \in DBs /\ Sound(e) /\ e.anchor.seq >= work.anchor.seq
        /\ e.audit = {r \in work.audit : r.seq > e.anchor.seq}
    <3> HIDE DEF c
    <3> QED BY <2>0, PruneSound
  <2>2. work' = [e EXCEPT !.applied = @ \cup {act[a].id}]
    BY <1>5 DEF RunPrune
  <2> HIDE DEF e
  <2>3. work' \in DBs /\ work'.audit = e.audit /\ work'.anchor = e.anchor
    BY <2>0, <2>1, <2>2 DEF DBs
  <2>4. ChainTypeOK'
    BY <1>5, <1>t, <2>3 DEF RunPrune, ChainTypeOK, Steps
  <2>5. StepsAgree'
    BY <1>5, <1>a, <1>t DEF RunPrune, StepsAgree, ChainTypeOK, dvars
  <2>6. LockAgrees'
    BY <1>5, <1>a, <1>t, AuditLogAssumption DEF RunPrune, LockAgrees, ChainTypeOK, Held
  <2>7. Sound(work)'
    BY <2>1, <2>3 DEF Sound, Verifies, HasTail
  <2>8. Sound(db)' /\ OnlyPrunesRemove' /\ WrittenOnce'
    BY <1>5, <1>t DEF RunPrune, ChainInv, Sound, Verifies, HasTail,
                      OnlyPrunesRemove, WrittenOnce
  <2>9. work'.audit = Past(written, work')
    <3>1. work.audit = Past(written, work)
      BY <1>5, <1>t DEF RunPrune, ChainInv, WorkHistory
    <3>2. work.anchor.seq \in Nat /\ e.anchor.seq \in Nat
      BY <2>0, <2>1 DEF DBs, Hashes
    <3>3. \A r \in written : r.seq \in Nat
      BY <1>t DEF ChainTypeOK, Rows
    <3> QED BY <2>1, <2>3, <3>1, <3>2, <3>3 DEF Past
  <2>10. WorkHistory'
    <3>1. \A b \in Actors : step'[b] \in Held => b = a /\ step'[b] = "append"
      BY <1>5, <1>a, <1>t DEF RunPrune, LockAgrees, ChainTypeOK, Held
    <3> QED BY <1>5, <2>9, <3>1 DEF RunPrune, WorkHistory, Held
  <2> QED BY <2>4, <2>5, <2>6, <2>7, <2>8, <2>10 DEF ChainInv
<1>6. ASSUME NEW a \in Actors, RunFails(a) PROVE ChainTypeOK' /\ ChainInv'
  <2>1. ChainTypeOK'
    BY <1>6, <1>t DEF RunFails, ChainTypeOK, Steps
  <2>2. StepsAgree'
    BY <1>6, <1>a, <1>t DEF RunFails, StepsAgree, ChainTypeOK, dvars
  <2>3. \A b \in Actors : step'[b] \notin Held
    BY <1>6, <1>a, <1>t DEF RunFails, LockAgrees, ChainTypeOK, Held
  <2>4. ChainInv'
    BY <1>6, <1>t, <2>2, <2>3, Rollback, AuditLogAssumption DEF RunFails
  <2> QED BY <2>1, <2>4
<1>7. ASSUME NEW a \in Actors, AppendTx(a) PROVE ChainTypeOK' /\ ChainInv'
  <2> DEFINE r == NewRow(work, a)
             e == [work EXCEPT !.audit = @ \cup {r}, !.install = InstallOf(work, a)]
  <2>0. work' = e /\ rec' = [rec EXCEPT ![a] = r]
    BY <1>7 DEF AppendTx
  <2>1. /\ r \in Rows /\ e \in DBs /\ Sound(e) /\ r.seq > 0
        /\ \A q \in written : q.seq < r.seq
        /\ e.audit = Past(written \cup {r}, e)
    BY <1>7, NewRowFits DEF AppendTx
  <2> HIDE DEF r, e
  <2>2. ChainTypeOK'
    BY <1>7, <1>t, <2>0, <2>1 DEF AppendTx, ChainTypeOK, Steps
  <2>3. StepsAgree'
    BY <1>7, <1>a, <1>t DEF AppendTx, StepsAgree, ChainTypeOK, dvars
  <2>4. LockAgrees'
    BY <1>7, <1>a, <1>t, AuditLogAssumption DEF AppendTx, LockAgrees, ChainTypeOK, Held
  <2>5. Sound(work)'
    BY <2>0, <2>1 DEF Sound, Verifies, HasTail
  <2>6. Sound(db)' /\ OnlyPrunesRemove' /\ WrittenOnce'
    BY <1>7, <1>t DEF AppendTx, ChainInv, Sound, Verifies, HasTail,
                      OnlyPrunesRemove, WrittenOnce
  <2>7. WorkHistory'
    <3>1. \A b \in Actors : step'[b] \in Held => b = a /\ step'[b] = "commit"
      BY <1>7, <1>a, <1>t DEF AppendTx, LockAgrees, ChainTypeOK, Held
    <3>2. rec'[a] = r /\ written' = written
      BY <1>7, <1>t, <2>0 DEF AppendTx, ChainTypeOK
    <3> QED BY <2>0, <2>1, <3>1, <3>2 DEF WorkHistory, Held, Past
  <2> QED BY <2>2, <2>3, <2>4, <2>5, <2>6, <2>7 DEF ChainInv
<1>8. ASSUME NEW a \in Actors, Commit(a) PROVE ChainTypeOK' /\ ChainInv'
  <2>1. ChainTypeOK'
    BY <1>8, <1>t DEF Commit, ChainTypeOK, Steps
  <2>2. StepsAgree'
    BY <1>8, <1>a, <1>t DEF Commit, StartEmit, StepsAgree, ChainTypeOK, DTypeOK
  <2>3. \A b \in Actors : step'[b] \notin Held
    BY <1>8, <1>a, <1>t DEF Commit, LockAgrees, ChainTypeOK, Held
  <2>4. LockAgrees' /\ WorkHistory'
    BY <1>8, <2>3, AuditLogAssumption DEF Commit, LockAgrees, WorkHistory, Held
  <2>5. Sound(db)' /\ Sound(work)'
    BY <1>8, <1>t DEF Commit, ChainInv, Sound, Verifies, HasTail
  <2>6. /\ work.audit = Past(written \cup {rec[a]}, work)
        /\ rec[a].seq > 0 /\ \A r \in written : r.seq < rec[a].seq
    BY <1>8, <1>t DEF Commit, ChainInv, WorkHistory
  <2>7. OnlyPrunesRemove'
    BY <1>8, <2>6 DEF Commit, OnlyPrunesRemove, Past
  <2>8. WrittenOnce'
    <3>1. \A r \in written : r.seq # rec[a].seq
      BY <2>6, <1>t DEF ChainTypeOK, Rows
    <3> QED BY <1>8, <1>t, <2>6, <3>1 DEF Commit, ChainInv, WrittenOnce
  <2> QED BY <2>1, <2>2, <2>4, <2>5, <2>7, <2>8 DEF ChainInv
<1>9. ASSUME NEW a \in Actors, CommitFails(a) PROVE ChainTypeOK' /\ ChainInv'
  <2>1. ChainTypeOK'
    BY <1>9, <1>t, NoRowType DEF CommitFails, ChainTypeOK, Steps
  <2>2. StepsAgree'
    BY <1>9, <1>a, <1>t DEF CommitFails, Abandon, dvars, StepsAgree, ChainTypeOK, DTypeOK
  <2>3. \A b \in Actors : step'[b] \notin Held
    BY <1>9, <1>a, <1>t DEF CommitFails, LockAgrees, ChainTypeOK, Held
  <2>4. ChainInv'
    BY <1>9, <1>t, <2>2, <2>3, Rollback, AuditLogAssumption DEF CommitFails
  <2> QED BY <2>1, <2>4
<1>10. ASSUME NEW a \in Actors, DeliverRecord(a) PROVE ChainTypeOK' /\ ChainInv'
  <2>1. SinkList[idx[a]] \in Sinks
    BY <1>10, <1>t, SinkAt DEF DeliverRecord, Deliver, InLoop
  <2>2. Append(mirror[SinkList[idx[a]]], rec[a]) \in Seq(Rows)
    BY <1>t, <2>1 DEF ChainTypeOK
  <2>3. ChainTypeOK'
    BY <1>10, <1>t, <2>2 DEF DeliverRecord, ChainTypeOK
  <2>4. StepsAgree'
    BY <1>10, <1>a, <1>t DEF DeliverRecord, Deliver, StepsAgree, DTypeOK
  <2>5. ChainInv'
    BY <1>10, <1>t, <2>4, QuietStep DEF DeliverRecord
  <2> QED BY <2>3, <2>5
<1>11. ASSUME NEW a \in Actors, MarkDelivery(a) PROVE ChainTypeOK' /\ ChainInv'
  <2>1. ChainTypeOK'
    BY <1>11, <1>t DEF MarkDelivery, ChainTypeOK
  <2>2. StepsAgree'
    BY <1>11, <1>a, <1>t DEF MarkDelivery, Mark, StepsAgree, DTypeOK
  <2>3. ChainInv'
    BY <1>11, <1>t, <2>2, QuietStep DEF MarkDelivery
  <2> QED BY <2>1, <2>3
<1>12. ASSUME NEW p \in Procs, CrashProcess(p) PROVE ChainTypeOK' /\ ChainInv'
  <2>1. ChainTypeOK'
    BY <1>12, <1>t DEF CrashProcess, ChainTypeOK, Steps
  <2>2. StepsAgree'
    BY <1>12, <1>a, <1>t DEF CrashProcess, Crash, StepsAgree, ChainTypeOK, DTypeOK
  <2>3. CASE writer # "none" /\ ProcOf[writer] = p
    <3>1. writer' = "none" /\ work' = db
      BY <1>12, <2>3 DEF CrashProcess
    <3>2. \A b \in Actors : step'[b] \notin Held
      BY <1>12, <1>a, <1>t, <2>3 DEF CrashProcess, LockAgrees, ChainTypeOK, Held
    <3>3. UNCHANGED <<db, written>>
      BY <1>12 DEF CrashProcess
    <3>4. ChainInv'
      BY <1>t, <2>2, <3>1, <3>2, <3>3, Rollback, AuditLogAssumption
    <3> QED BY <2>1, <3>4
  <2>4. CASE ~(writer # "none" /\ ProcOf[writer] = p)
    <3>1. \A b \in Actors : step[b] \in Held => ProcOf[b] # p
      BY <1>a, <2>4, AuditLogAssumption DEF LockAgrees
    <3>2. UNCHANGED <<db, work, writer, written, rec>>
      BY <1>12, <2>4 DEF CrashProcess
    <3>3. \A b \in Actors : step'[b] = IF ProcOf[b] = p THEN "none" ELSE step[b]
      BY <1>12 DEF CrashProcess
    <3>4. \A b \in Actors : step'[b] \in Held <=> step[b] \in Held
      BY <3>1, <3>3 DEF Held
    <3>5. \A b \in Actors : step[b] \in Held => step'[b] = step[b] /\ rec'[b] = rec[b]
      BY <3>1, <3>2, <3>3
    <3>6. ChainInv'
      BY <1>t, <2>2, <3>2, <3>4, <3>5, QuietStep
    <3> QED BY <2>1, <3>6
  <2> QED BY <2>3, <2>4
<1>13. CASE SinkChanges
  <2>1. ChainTypeOK'
    BY <1>13, <1>t DEF SinkChanges, ChainTypeOK
  <2>2. StepsAgree'
    BY <1>13, <1>a DEF SinkChanges, SinkFails, SinkRecovers, StepsAgree
  <2>3. ChainInv'
    BY <1>13, <1>t, <2>2, QuietStep DEF SinkChanges
  <2> QED BY <2>1, <2>3
<1>14. CASE SetClock
  <2>1. ChainTypeOK'
    BY <1>14, <1>t DEF SetClock, ChainTypeOK
  <2>2. StepsAgree'
    BY <1>14, <1>a DEF SetClock, dvars, StepsAgree
  <2>3. ChainInv'
    BY <1>14, <1>t, <2>2, QuietStep DEF SetClock
  <2> QED BY <2>1, <2>3
<1>15. CASE UNCHANGED vars
  <2>1. ChainTypeOK'
    BY <1>15, <1>t DEF vars, ChainTypeOK
  <2>2. StepsAgree'
    BY <1>15, <1>a DEF vars, dvars, StepsAgree
  <2>3. ChainInv'
    BY <1>15, <1>t, <2>2, QuietStep DEF vars
  <2> QED BY <2>1, <2>3
<1> QED
  BY <1>1, <1>2, <1>3, <1>4, <1>5, <1>6, <1>7, <1>8, <1>9, <1>10, <1>11, <1>12,
     <1>13, <1>14, <1>15 DEF Next, ActorStep

(* The inductive invariant holds in every reachable state.                 *)
LEMMA Invariance == Spec => []IInv
BY InitInv, StepInv, PTL DEF Spec

(* Type correctness of the audited-mutation seam.                          *)
THEOREM TypeCorrect == Spec => []TypeOK
<1>1. IInv => TypeOK
  BY DEF IInv
<1> QED BY <1>1, Invariance, PTL

(* The chain always verifies, whatever interleaving of acts, failures,     *)
(* crashes and prunes led here.                                            *)
THEOREM ChainAlwaysVerifies == Spec => []ChainVerifies
<1>1. IInv => ChainVerifies
  BY DEF IInv, ChainInv, Sound, ChainVerifies
<1> QED BY <1>1, Invariance, PTL

(* No committed record ever leaves the table but through the cut a prune   *)
(* records.                                                                *)
THEOREM NothingElseRemoves == Spec => []OnlyPrunesRemove
<1>1. IInv => OnlyPrunesRemove
  BY DEF IInv, ChainInv
<1> QED BY <1>1, Invariance, PTL

-----------------------------------------------------------------------------
(* What the records say, and what the mirrors hold: a second inductive     *)
(* invariant, beside the first.                                            *)

Open(a) == step[a] # "none"

(* An act has a number of its own.                                         *)
IdsFresh ==
  /\ \A a \in Actors : Open(a) => act[a].id > 0 /\ act[a].id < nextAct
  /\ \A a, b \in Actors : Open(a) /\ Open(b) /\ act[a].id = act[b].id => a = b
  /\ \A r \in written : r.act < nextAct
  /\ \A i \in db.applied \cup outside : i < nextAct

(* An act that is under way has left nothing in the database yet, and      *)
(* something outside it exactly if fn reported Partial.                    *)
OpenIsUnrecorded ==
  \A a \in Actors : Open(a) =>
    /\ \A r \in written : r.act # act[a].id
    /\ act[a].id \notin db.applied
    /\ act[a].id \in outside <=> res[a] = "partial"

(* How far fn has come: the error it left, and the transaction it is in.   *)
ResultAgrees ==
  \A a \in Actors :
    /\ step[a] = "fn" => mode[a] = "act" /\ work = db
    /\ step[a] \in {"lock", "fn"} /\ mode[a] = "act" => res[a] = "ok"
    /\ step[a] \in {"append", "commit"} /\ mode[a] = "act" => res[a] # "fail"
    /\ Open(a) /\ mode[a] = "record" => res[a] # "ok"

(* What the transaction has staged.                                        *)
StagedBy(a) ==
  /\ work.applied = IF mode[a] = "act" THEN db.applied \cup {act[a].id} ELSE db.applied
  /\ \A r \in db.audit \ work.audit : r.ts < act[a].ts - Window
  /\ step[a] = "append" => work.install = db.install
  /\ step[a] = "commit" =>
       /\ rec[a].act = act[a].id /\ rec[a].outcome = OutcomeOf(res[a]) /\ rec[a].ts = act[a].ts
       /\ rec[a].install = work.install /\ work.install # 0
       /\ db.install # 0 => work.install = db.install
Staged == \A a \in Actors : step[a] \in {"append", "commit"} => StagedBy(a)

Installed == \A r \in written : r.install # 0

(* The lines a delivery has yet to write.                                  *)
Emitting(a) == pc[a] \in {"emit", "mark"}
Emitted ==
  /\ \A a \in Actors : Emitting(a) => rec[a] \in written
  /\ \A a, b \in Actors : Emitting(a) /\ Emitting(b) /\ rec[a] = rec[b] => a = b
  /\ \A a \in Actors : Emitting(a) =>
       \A i \in DOMAIN SinkList : idx[a] < i \/ (pc[a] = "emit" /\ idx[a] = i) =>
         \A j \in DOMAIN mirror[SinkList[i]] : mirror[SinkList[i]][j] # rec[a]

TruthInv ==
  /\ IdsFresh /\ OpenIsUnrecorded /\ ResultAgrees /\ Staged /\ Installed
  /\ RecordsTellTheTruth
MirrorInv == Emitted /\ MirrorFaithful

(* A step that goes on from no act, or leaves some behind.                 *)
LEMMA QuietTruth ==
  ASSUME TruthInv, UNCHANGED <<db, written, outside, nextAct>>,
         \A a \in Actors :
           \/ step'[a] = "none"
           \/ /\ step'[a] = step[a] /\ act'[a] = act[a] /\ mode'[a] = mode[a] /\ res'[a] = res[a]
              /\ rec'[a] = rec[a],
         \A a \in Actors : step'[a] \in Held => work' = work
  PROVE  TruthInv'
<1>1. IdsFresh'
  BY DEF TruthInv, IdsFresh, Open
<1>2. OpenIsUnrecorded'
  BY DEF TruthInv, OpenIsUnrecorded, Open
<1>3. ResultAgrees'
  BY DEF TruthInv, ResultAgrees, Open, Held
<1>4. Staged'
  BY DEF TruthInv, Staged, StagedBy, Held
<1>5. Installed' /\ RecordsTellTheTruth'
  BY DEF TruthInv, Installed, RecordsTellTheTruth
<1> QED BY <1>1, <1>2, <1>3, <1>4, <1>5 DEF TruthInv

(* The position of one act moves, the others' stay, and nothing is         *)
(* committed: what is to be shown is about that act.                       *)
LEMMA OneActMoves ==
  ASSUME TruthInv, NEW a \in Actors, UNCHANGED <<db, written, nextAct>>, ChainTypeOK,
         Open(a), Open(a)', act' = act,
         \A b \in Actors \ {a} : step'[b] = step[b] /\ mode'[b] = mode[b] /\ res'[b] = res[b]
                                 /\ step[b] \notin Held,
         outside \subseteq outside', outside' \subseteq outside \cup {act[a].id},
         act[a].id \in outside' <=> res'[a] = "partial",
         step'[a] = "fn" => mode'[a] = "act" /\ work' = db,
         step'[a] \in {"lock", "fn"} /\ mode'[a] = "act" => res'[a] = "ok",
         step'[a] \in {"append", "commit"} /\ mode'[a] = "act" => res'[a] # "fail",
         mode'[a] = "record" => res'[a] # "ok",
         step'[a] \in {"append", "commit"} =>
           /\ work'.applied = IF mode'[a] = "act" THEN db.applied \cup {act[a].id} ELSE db.applied
           /\ \A r \in db.audit \ work'.audit : r.ts < act[a].ts - Window
           /\ step'[a] = "append" => work'.install = db.install
           /\ step'[a] = "commit" =>
                /\ rec'[a].act = act[a].id /\ rec'[a].outcome = OutcomeOf(res'[a])
                /\ rec'[a].ts = act[a].ts
                /\ rec'[a].install = work'.install /\ work'.install # 0
                /\ db.install # 0 => work'.install = db.install
  PROVE  TruthInv'
<1>0. \A b \in Actors : Open(b)' = Open(b)
  BY DEF Open
<1>1. IdsFresh'
  BY <1>0 DEF TruthInv, IdsFresh
<1>2. OpenIsUnrecorded'
  <2>1. ASSUME NEW b \in Actors, Open(b), b # a
        PROVE  act[b].id \in outside' <=> res'[b] = "partial"
    <3>1. act[b].id # act[a].id
      BY <2>1 DEF TruthInv, IdsFresh
    <3> QED BY <2>1, <3>1 DEF TruthInv, OpenIsUnrecorded
  <2> QED BY <1>0, <2>1 DEF TruthInv, OpenIsUnrecorded
<1>3. ResultAgrees'
  BY <1>0 DEF TruthInv, ResultAgrees, Held
<1>4. Staged'
  BY DEF TruthInv, Staged, StagedBy, Held
<1>5. Installed'
  BY DEF TruthInv, Installed
<1>6. RecordsTellTheTruth'
  <2>1. \A r \in written : r.act # act[a].id
    BY DEF TruthInv, OpenIsUnrecorded
  <2> QED BY <2>1 DEF TruthInv, RecordsTellTheTruth
<1> QED BY <1>1, <1>2, <1>3, <1>4, <1>5, <1>6 DEF TruthInv

(* What a prune removes is older than its cutoff, whatever order the       *)
(* stamps are in.                                                          *)
LEMMA PrunedIsOld ==
  ASSUME NEW d \in DBs, NEW c \in Int, Sound(d)
  PROVE  \A r \in d.audit \ Pruned(d, c).audit : r.ts < c
<1> SUFFICES ASSUME NEW r \in d.audit, r \notin Pruned(d, c).audit PROVE r.ts < c
  OBVIOUS
<1>0. d.audit \in SUBSET Rows /\ \A q \in d.audit : q.seq \in Nat /\ q.ts \in Nat
  BY DEF DBs, Rows
<1>1. ~NothingToPrune(d.audit, c)
  BY DEF Pruned
<1>2. Pruned(d, c).audit = d.audit \ Prefix(d.audit, c)
  BY <1>1 DEF Pruned, DBs
<1>3. r.seq < KeepFrom(d.audit, c).seq
  BY <1>2 DEF Prefix
<1> DEFINE young == {q \in d.audit : q.ts >= c}
<1>4. SUFFICES ASSUME r \in young PROVE FALSE
  BY <1>0
<1>5. young \in SUBSET Rows /\ young # {}
  BY <1>0, <1>4
<1>6. \E k \in young : \A q \in young : k.seq <= q.seq
  BY <1>5, LeastRow
<1>7. KeepFrom(d.audit, c) = CHOOSE k \in young : \A q \in young : k.seq <= q.seq
  BY <1>5 DEF KeepFrom
<1>8. KeepFrom(d.audit, c) \in young /\ KeepFrom(d.audit, c).seq <= r.seq
  BY <1>4, <1>6, <1>7
<1> QED BY <1>0, <1>3, <1>8

(* Only the act that has the lock is inside a transaction.                 *)
LEMMA AloneInside ==
  ASSUME IInv, NEW a \in Actors, step[a] \in Held \/ writer = "none"
  PROVE  \A b \in Actors \ {a} : step[b] \notin Held
  BY AuditLogAssumption DEF IInv, ChainInv, LockAgrees

LEMMA StartTruth ==
  ASSUME IInv, TruthInv, NEW a \in Actors, NEW k \in Kinds, Start(a, k)
  PROVE  TruthInv'
<1>0. ChainTypeOK /\ StepsAgree /\ nextAct \in Nat /\ nextAct > 0
  BY TypeSplit, AuditLogAssumption DEF IInv, ChainInv, ChainTypeOK
<1>1. /\ UNCHANGED <<db, work, writer, mirror, clock, written, outside>>
      /\ act' = [act EXCEPT ![a] = [id |-> nextAct, kind |-> k, ts |-> clock]]
      /\ nextAct' = nextAct + 1
      /\ mode' = [mode EXCEPT ![a] = IF Blocked(ProcOf[a]) THEN "record" ELSE "act"]
      /\ res' = [res EXCEPT ![a] = IF Blocked(ProcOf[a]) THEN "fail" ELSE "ok"]
      /\ step' = [step EXCEPT ![a] = "lock"]
      /\ rec' = [rec EXCEPT ![a] = NoRow]
      /\ pc[a] = "idle"
  BY DEF Start, chainVars, Begin
<1>2. step[a] = "none"
  BY <1>0, <1>1 DEF StepsAgree
<1>3. /\ act'[a].id = nextAct /\ step'[a] = "lock" /\ mode'[a] \in {"act", "record"}
      /\ mode'[a] = "act" => res'[a] = "ok"
      /\ mode'[a] = "record" => res'[a] = "fail"
      /\ res'[a] \in {"ok", "fail"}
  BY <1>0, <1>1 DEF ChainTypeOK
<1>4. \A b \in Actors \ {a} : /\ step'[b] = step[b] /\ act'[b] = act[b] /\ mode'[b] = mode[b]
                              /\ res'[b] = res[b] /\ rec'[b] = rec[b] /\ Open(b)' = Open(b)
  BY <1>0, <1>1 DEF ChainTypeOK, Open
<1>5. /\ \A r \in written : r.act \in Nat /\ r.act < nextAct
      /\ \A i \in db.applied \cup outside : i \in Nat /\ i < nextAct
      /\ \A b \in Actors : act[b].id \in Nat
  BY <1>0 DEF TruthInv, IdsFresh, ChainTypeOK, DBs, Rows
<1>6. IdsFresh'
  <2>1. \A b \in Actors : Open(b)' => act'[b].id > 0 /\ act'[b].id < nextAct + 1
    BY <1>0, <1>3, <1>4, <1>5 DEF TruthInv, IdsFresh
  <2>2. \A b, c \in Actors : Open(b)' /\ Open(c)' /\ act'[b].id = act'[c].id => b = c
    BY <1>0, <1>3, <1>4, <1>5 DEF TruthInv, IdsFresh
  <2> QED BY <1>0, <1>1, <1>5, <2>1, <2>2 DEF IdsFresh
<1>7. OpenIsUnrecorded'
  <2>1. ASSUME NEW b \in Actors, Open(b)'
        PROVE  /\ \A r \in written : r.act # act'[b].id
               /\ act'[b].id \notin db.applied
               /\ act'[b].id \in outside <=> res'[b] = "partial"
    <3>1. CASE b = a
      BY <1>0, <1>3, <1>5, <3>1
    <3>2. CASE b # a
      BY <1>4, <2>1, <3>2 DEF TruthInv, OpenIsUnrecorded
    <3> QED BY <3>1, <3>2
  <2> QED BY <1>1, <2>1 DEF OpenIsUnrecorded
<1>8. ResultAgrees'
  BY <1>1, <1>3, <1>4 DEF TruthInv, ResultAgrees
<1>9. Staged'
  <2>1. \A b \in Actors : step'[b] \in {"append", "commit"} => b \in Actors \ {a}
    BY <1>3
  <2>2. db' = db /\ work' = work
    BY <1>1
  <2>3. ASSUME NEW b \in Actors \ {a}, StagedBy(b) PROVE StagedBy(b)'
    BY <1>4, <2>2, <2>3 DEF StagedBy, OutcomeOf
  <2> QED BY <1>4, <2>1, <2>3 DEF TruthInv, Staged
<1>10. Installed' /\ RecordsTellTheTruth'
  BY <1>1 DEF TruthInv, Installed, RecordsTellTheTruth
<1> QED BY <1>6, <1>7, <1>8, <1>9, <1>10 DEF TruthInv

LEMMA LockTruth ==
  ASSUME IInv, TruthInv, NEW a \in Actors, Lock(a)
  PROVE  TruthInv'
<1>0. ChainTypeOK /\ StepsAgree /\ work = db
  BY TypeSplit DEF IInv, ChainInv, LockAgrees, Lock
<1>1. /\ UNCHANGED <<db, work, written, outside, nextAct, act, mode, res>>
      /\ step[a] = "lock" /\ writer = "none"
      /\ step' = [step EXCEPT ![a] = IF mode[a] = "act" THEN "fn" ELSE "append"]
  BY DEF Lock
<1>2. step'[a] = (IF mode[a] = "act" THEN "fn" ELSE "append") /\ Open(a) /\ Open(a)'
  BY <1>0, <1>1 DEF ChainTypeOK, Open
<1>3. /\ act[a].id \in outside <=> res[a] = "partial"
      /\ mode[a] = "act" => res[a] = "ok"
      /\ mode[a] = "record" => res[a] # "ok"
      /\ mode[a] \in {"act", "record"}
  BY <1>0, <1>1, <1>2 DEF TruthInv, OpenIsUnrecorded, ResultAgrees, ChainTypeOK
<1>4. \A b \in Actors \ {a} : step'[b] = step[b] /\ mode'[b] = mode[b] /\ res'[b] = res[b]
                              /\ step[b] \notin Held
  BY <1>0, <1>1, AloneInside DEF ChainTypeOK
<1>5. step'[a] = "fn" => mode'[a] = "act" /\ work' = db
  BY <1>0, <1>1, <1>2
<1>6. step'[a] \in {"lock", "fn"} /\ mode'[a] = "act" => res'[a] = "ok"
  BY <1>1, <1>3
<1>7. step'[a] \in {"append", "commit"} =>
        step'[a] = "append" /\ mode'[a] = "record" /\ work' = db
  BY <1>0, <1>1, <1>2, <1>3
<1>8. step'[a] \in {"append", "commit"} => \A r \in db.audit \ work'.audit : r.ts < act[a].ts - Window
  BY <1>7
<1> QED BY <1>0, <1>1, <1>2, <1>3, <1>4, <1>5, <1>6, <1>7, <1>8, OneActMoves

LEMMA RunTruth ==
  ASSUME IInv, TruthInv, NEW a \in Actors, RunChange(a) \/ RunPrune(a) \/ RunFails(a)
  PROVE  TruthInv'
<1>0. ChainTypeOK /\ StepsAgree /\ work \in DBs
  BY TypeSplit DEF IInv, ChainInv, ChainTypeOK
<1>1. step[a] = "fn" /\ UNCHANGED <<db, written, nextAct, act>>
  BY DEF RunChange, RunPrune, RunFails
<1>2. \A b \in Actors \ {a} : step[b] \notin Held
  BY <1>1, AloneInside DEF Held
<1>3. work = db /\ mode[a] = "act" /\ res[a] = "ok" /\ act[a].id \notin outside /\ Open(a)
  BY <1>1 DEF TruthInv, ResultAgrees, OpenIsUnrecorded, Open
<1>4. CASE RunChange(a)
  <2>1. PICK r \in {"ok", "partial"} :
          /\ res' = [res EXCEPT ![a] = r]
          /\ outside' = IF r = "partial" THEN outside \cup {act[a].id} ELSE outside
    BY <1>4 DEF RunChange
  <2>2. /\ step' = [step EXCEPT ![a] = "append"] /\ mode' = mode
        /\ work' = [work EXCEPT !.applied = @ \cup {act[a].id}]
    BY <1>4 DEF RunChange
  <2>3. step'[a] = "append" /\ res'[a] = r /\ mode'[a] = "act" /\ Open(a)'
    BY <1>0, <1>3, <2>1, <2>2 DEF ChainTypeOK, Open
  <2>4. work'.applied = db.applied \cup {act[a].id} /\ work'.audit = db.audit /\ work'.install = db.install
    BY <1>0, <1>3, <2>2 DEF DBs
  <2>5. \A b \in Actors \ {a} : step'[b] = step[b] /\ mode'[b] = mode[b] /\ res'[b] = res[b]
    BY <1>0, <2>1, <2>2 DEF ChainTypeOK
  <2>6. /\ outside \subseteq outside' /\ outside' \subseteq outside \cup {act[a].id}
        /\ act[a].id \in outside' <=> res'[a] = "partial"
    BY <1>3, <2>1, <2>3
  <2> QED BY <1>0, <1>1, <1>2, <1>3, <2>3, <2>4, <2>5, <2>6, OneActMoves
<1>5. CASE RunPrune(a)
  <2> DEFINE c == act[a].ts - Window
             e == Pruned(work, c)
  <2>1. /\ step' = [step EXCEPT ![a] = "append"] /\ UNCHANGED <<mode, res, outside>>
        /\ ~PruneErrs(work.audit, c)
        /\ work' = [e EXCEPT !.applied = @ \cup {act[a].id}]
    BY <1>5 DEF RunPrune
  <2>2. c \in Int
    BY <1>0, AuditLogAssumption DEF ChainTypeOK
  <2>3. Sound(work)
    BY DEF IInv, ChainInv
  <2>4. e \in DBs /\ e.install = work.install /\ e.applied = work.applied
    BY <1>0, <2>1, <2>2, <2>3, PruneSound
  <2>5. \A r \in work.audit \ e.audit : r.ts < c
    BY <1>0, <2>2, <2>3, PrunedIsOld
  <2> HIDE DEF e
  <2>6. work'.applied = db.applied \cup {act[a].id} /\ work'.audit = e.audit /\ work'.install = db.install
    BY <1>3, <2>1, <2>4 DEF DBs
  <2>7. step'[a] = "append" /\ Open(a)'
    BY <1>0, <2>1 DEF ChainTypeOK, Open
  <2>8. \A b \in Actors \ {a} : step'[b] = step[b] /\ mode'[b] = mode[b] /\ res'[b] = res[b]
    BY <1>0, <2>1 DEF ChainTypeOK
  <2> QED BY <1>0, <1>1, <1>2, <1>3, <2>1, <2>5, <2>6, <2>7, <2>8, OneActMoves
<1>6. CASE RunFails(a)
  <2>1. /\ work' = db /\ res' = [res EXCEPT ![a] = "fail"] /\ mode' = [mode EXCEPT ![a] = "record"]
        /\ step' = [step EXCEPT ![a] = "lock"] /\ outside' = outside
    BY <1>6 DEF RunFails
  <2>2. res'[a] = "fail" /\ mode'[a] = "record" /\ step'[a] = "lock" /\ Open(a)'
    BY <1>0, <2>1 DEF ChainTypeOK, Open
  <2>3. \A b \in Actors \ {a} : step'[b] = step[b] /\ mode'[b] = mode[b] /\ res'[b] = res[b]
    BY <1>0, <2>1 DEF ChainTypeOK
  <2> QED BY <1>0, <1>1, <1>2, <1>3, <2>1, <2>2, <2>3, OneActMoves
<1> QED BY <1>4, <1>5, <1>6

LEMMA AppendTruth ==
  ASSUME IInv, TruthInv, NEW a \in Actors, AppendTx(a)
  PROVE  TruthInv'
<1>0. ChainTypeOK /\ work \in DBs
  BY TypeSplit DEF IInv, ChainTypeOK
<1>1. /\ step[a] = "append" /\ UNCHANGED <<db, written, nextAct, act, mode, res, outside>>
      /\ rec' = [rec EXCEPT ![a] = NewRow(work, a)]
      /\ work' = [work EXCEPT !.audit = @ \cup {NewRow(work, a)}, !.install = InstallOf(work, a)]
      /\ step' = [step EXCEPT ![a] = "commit"]
  BY DEF AppendTx
<1>2. \A b \in Actors \ {a} : step'[b] = step[b] /\ step[b] \notin Held
  BY <1>0, <1>1, AloneInside DEF Held, ChainTypeOK
<1>3. /\ Open(a) /\ Open(a)' /\ step'[a] = "commit" /\ rec'[a] = NewRow(work, a)
  BY <1>0, <1>1 DEF ChainTypeOK, Open
<1>4. /\ work.applied = IF mode[a] = "act" THEN db.applied \cup {act[a].id} ELSE db.applied
      /\ \A r \in db.audit \ work.audit : r.ts < act[a].ts - Window
      /\ work.install = db.install
  BY <1>1 DEF TruthInv, Staged, StagedBy
<1>5. /\ act[a].id \in outside <=> res[a] = "partial"
      /\ mode[a] = "act" => res[a] # "fail"
      /\ mode[a] = "record" => res[a] # "ok"
      /\ act[a].id > 0
  BY <1>1, <1>3 DEF TruthInv, OpenIsUnrecorded, ResultAgrees, IdsFresh
<1>6. /\ work'.applied = work.applied /\ work'.audit = work.audit \cup {NewRow(work, a)}
      /\ work'.install = InstallOf(work, a)
  BY <1>0, <1>1 DEF DBs
<1>7. /\ NewRow(work, a).act = act[a].id /\ NewRow(work, a).outcome = OutcomeOf(res[a])
      /\ NewRow(work, a).ts = act[a].ts /\ NewRow(work, a).install = InstallOf(work, a)
  BY DEF NewRow
<1>8. InstallOf(work, a) # 0 /\ (db.install # 0 => InstallOf(work, a) = db.install)
  BY <1>4, <1>5 DEF InstallOf
<1> QED BY <1>0, <1>1, <1>2, <1>3, <1>4, <1>5, <1>6, <1>7, <1>8, OneActMoves

(* The commit: the act is over, and its record says what it did.           *)
LEMMA CommitTruth ==
  ASSUME IInv, TruthInv, NEW a \in Actors, Commit(a)
  PROVE  TruthInv'
<1>0. ChainTypeOK /\ work \in DBs
  BY TypeSplit DEF IInv, ChainTypeOK
<1>1. /\ step[a] = "commit" /\ UNCHANGED <<act, mode, res, rec, nextAct, outside, work>>
      /\ db' = work /\ written' = written \cup {rec[a]} /\ step' = [step EXCEPT ![a] = "none"]
  BY DEF Commit
<1>2. \A b \in Actors : Open(b)' <=> b # a /\ Open(b)
  BY <1>0, <1>1 DEF ChainTypeOK, Open
<1>3. \A b \in Actors : step'[b] \notin Held
  BY <1>0, <1>1, AloneInside DEF Held, ChainTypeOK
<1>4. /\ work.applied = IF mode[a] = "act" THEN db.applied \cup {act[a].id} ELSE db.applied
      /\ rec[a].act = act[a].id /\ rec[a].outcome = OutcomeOf(res[a])
      /\ rec[a].install = work.install /\ work.install # 0
      /\ db.install # 0 => work.install = db.install
  BY <1>1 DEF TruthInv, Staged, StagedBy
<1>5. /\ \A r \in written : r.act # act[a].id
      /\ act[a].id \notin db.applied
      /\ act[a].id \in outside <=> res[a] = "partial"
      /\ mode[a] = "act" => res[a] # "fail"
      /\ mode[a] = "record" => res[a] # "ok"
      /\ act[a].id < nextAct
  BY <1>1 DEF TruthInv, OpenIsUnrecorded, ResultAgrees, IdsFresh, Open
<1>6. res[a] \in {"ok", "partial", "fail"} /\ mode[a] \in {"act", "record"}
  BY <1>0 DEF ChainTypeOK
<1>7. \A b \in Actors : b # a /\ Open(b) => act[b].id # act[a].id
  BY <1>1 DEF TruthInv, IdsFresh, Open
<1>8. IdsFresh'
  BY <1>1, <1>2, <1>4, <1>5 DEF TruthInv, IdsFresh
<1>9. OpenIsUnrecorded'
  BY <1>1, <1>2, <1>4, <1>7 DEF TruthInv, OpenIsUnrecorded
<1>10. ResultAgrees'
  <2>1. \A b \in Actors : step'[b] = step[b] \/ step'[b] = "none"
    BY <1>0, <1>1 DEF ChainTypeOK
  <2>2. \A b \in Actors : step'[b] # "fn" /\ step'[b] # "append" /\ step'[b] # "commit"
    BY <1>3 DEF Held
  <2> QED BY <1>1, <1>2, <2>1, <2>2 DEF TruthInv, ResultAgrees
<1>11. Staged'
  BY <1>3 DEF Staged, Held
<1>12. Installed'
  BY <1>1, <1>4 DEF TruthInv, Installed
<1>13. RecordsTellTheTruth'
  <2>1. /\ res[a] = "ok" => rec[a].outcome = "success"
        /\ res[a] = "partial" => rec[a].outcome = "partial"
        /\ res[a] = "fail" => rec[a].outcome = "failure"
    BY <1>4, <1>6 DEF OutcomeOf
  <2>2. \A i \in work.applied :
          \E r \in written' : r.act = i /\ r.outcome \in {"success", "partial"}
    <3>1. ASSUME mode[a] = "act"
          PROVE  \E r \in written' : r.act = act[a].id /\ r.outcome \in {"success", "partial"}
      BY <1>1, <1>4, <1>5, <1>6, <2>1, <3>1
    <3>2. \A i \in db.applied :
            \E r \in written' : r.act = i /\ r.outcome \in {"success", "partial"}
      BY <1>1 DEF TruthInv, RecordsTellTheTruth
    <3> QED BY <1>4, <1>6, <3>1, <3>2
  <2>3. ASSUME NEW r \in written
        PROVE  /\ r.outcome = "success" => r.act \in work.applied
               /\ r.outcome = "failure" => r.act \notin work.applied \cup outside
               /\ r.outcome = "partial" => r.act \in outside
               /\ r.install = work.install
    BY <1>4, <1>5, <2>3 DEF TruthInv, RecordsTellTheTruth, Installed
  <2>4. /\ rec[a].outcome = "success" => rec[a].act \in work.applied
        /\ rec[a].outcome = "failure" => rec[a].act \notin work.applied \cup outside
        /\ rec[a].outcome = "partial" => rec[a].act \in outside
    BY <1>4, <1>5, <1>6, <2>1
  <2>5. \A r, q \in written' : r.act = q.act => r = q
    BY <1>1, <1>4, <1>5 DEF TruthInv, RecordsTellTheTruth
  <2> QED BY <1>1, <1>4, <2>2, <2>3, <2>4, <2>5 DEF RecordsTellTheTruth
<1> QED BY <1>8, <1>9, <1>10, <1>11, <1>12, <1>13 DEF TruthInv

(* The commit that fails: a Partial still owes its record.                 *)
LEMMA CommitFailsTruth ==
  ASSUME IInv, TruthInv, NEW a \in Actors, CommitFails(a)
  PROVE  TruthInv'
<1>0. ChainTypeOK
  BY TypeSplit DEF IInv
<1>1. /\ step[a] \in {"append", "commit"} /\ work' = db /\ rec' = [rec EXCEPT ![a] = NoRow]
      /\ UNCHANGED <<db, act, res, nextAct, written, outside>>
  BY DEF CommitFails
<1>2. \A b \in Actors \ {a} : step[b] \notin Held /\ rec'[b] = rec[b]
  BY <1>0, <1>1, AloneInside DEF Held, ChainTypeOK
<1>3. CASE mode[a] = "act" /\ res[a] = "partial"
  <2>1. mode' = [mode EXCEPT ![a] = "record"] /\ step' = [step EXCEPT ![a] = "lock"]
    BY <1>3 DEF CommitFails
  <2>2. mode'[a] = "record" /\ step'[a] = "lock" /\ Open(a) /\ Open(a)'
    BY <1>0, <1>1, <2>1 DEF ChainTypeOK, Open
  <2>3. \A b \in Actors \ {a} : step'[b] = step[b] /\ mode'[b] = mode[b]
    BY <1>0, <2>1 DEF ChainTypeOK
  <2>4. act[a].id \in outside
    BY <1>3, <2>2 DEF TruthInv, OpenIsUnrecorded
  <2> QED BY <1>0, <1>1, <1>2, <1>3, <2>2, <2>3, <2>4, OneActMoves
<1>4. CASE ~(mode[a] = "act" /\ res[a] = "partial")
  <2>1. mode' = mode /\ step' = [step EXCEPT ![a] = "none"]
    BY <1>4 DEF CommitFails
  <2>2. step'[a] = "none" /\ \A b \in Actors \ {a} : step'[b] = step[b]
    BY <1>0, <2>1 DEF ChainTypeOK
  <2>3. \A b \in Actors : step'[b] \notin Held
    BY <1>2, <2>2 DEF Held
  <2> QED BY <1>1, <1>2, <2>1, <2>2, <2>3, QuietTruth
<1> QED BY <1>3, <1>4

LEMMA StepTruth == IInv /\ TruthInv /\ [Next]_vars => TruthInv'
<1> SUFFICES ASSUME IInv, TruthInv, [Next]_vars PROVE TruthInv'
  OBVIOUS
<1>0. ChainTypeOK
  BY TypeSplit DEF IInv
<1>1. ASSUME NEW a \in Actors, LockTimeout(a) PROVE TruthInv'
  BY <1>0, <1>1, QuietTruth DEF LockTimeout, ChainTypeOK
<1>2. ASSUME NEW a \in Actors, DeliverRecord(a) \/ MarkDelivery(a) PROVE TruthInv'
  BY <1>2, QuietTruth DEF DeliverRecord, MarkDelivery
<1>3. ASSUME NEW a \in Actors, ActorStep(a) PROVE TruthInv'
  BY <1>1, <1>2, <1>3, StartTruth, LockTruth, RunTruth, AppendTruth, CommitTruth,
     CommitFailsTruth DEF ActorStep
<1>4. ASSUME NEW p \in Procs, CrashProcess(p) PROVE TruthInv'
  <2>1. /\ \A b \in Actors : step'[b] = IF ProcOf[b] = p THEN "none" ELSE step[b]
        /\ UNCHANGED <<db, act, mode, res, rec, nextAct, written, outside>>
    BY <1>4 DEF CrashProcess
  <2>2. \A b \in Actors : step'[b] \in Held => work' = work
    <3>1. ASSUME NEW b \in Actors, step'[b] \in Held PROVE work' = work
      <4>1. step[b] \in Held /\ ProcOf[b] # p
        BY <2>1, <3>1 DEF Held
      <4>2. writer = b
        BY <4>1 DEF IInv, ChainInv, LockAgrees
      <4> QED BY <1>4, <4>1, <4>2 DEF CrashProcess
    <3> QED BY <3>1
  <2> QED BY <2>1, <2>2, QuietTruth
<1>5. CASE SinkChanges \/ SetClock \/ UNCHANGED vars
  BY <1>5, QuietTruth DEF SinkChanges, SetClock, vars
<1> QED BY <1>3, <1>4, <1>5 DEF Next

LEMMA TruthInit == Init => TruthInv
<1> SUFFICES ASSUME Init PROVE TruthInv
  OBVIOUS
<1>1. IdsFresh /\ OpenIsUnrecorded
  BY DEF Init, IdsFresh, OpenIsUnrecorded, Open, EmptyDB
<1>2. ResultAgrees /\ Staged
  BY DEF Init, ResultAgrees, Staged, Open
<1>3. Installed /\ RecordsTellTheTruth
  BY DEF Init, Installed, RecordsTellTheTruth, EmptyDB
<1> QED BY <1>1, <1>2, <1>3 DEF TruthInv

LEMMA TruthInvariance == Spec => [](IInv /\ TruthInv)
BY InitInv, StepInv, TruthInit, StepTruth, PTL DEF Spec

(* A change and its record exist together, whatever crashed, failed or was *)
(* retried, and every record carries the one installation's identity.      *)
THEOREM RecordsAreTrue == Spec => []RecordsTellTheTruth
<1>1. TruthInv => RecordsTellTheTruth
  BY DEF TruthInv
<1> QED BY <1>1, TruthInvariance, PTL

(* A prune that commits took only what its own record's window let go.     *)
THEOREM WindowIsKept == Spec => PruneKeepsWindow
<1> DEFINE Kept == \A r \in db.audit \ db'.audit :
                     \E w \in written' \ written : r.ts < w.ts - Window
<1>1. IInv /\ TruthInv /\ [Next]_vars => Kept
  <2> SUFFICES ASSUME IInv, TruthInv, [Next]_vars PROVE Kept
    OBVIOUS
  <2>1. ASSUME NEW a \in Actors, Commit(a) PROVE Kept
    <3>1. /\ step[a] = "commit" /\ db' = work /\ written' = written \cup {rec[a]}
      BY <2>1 DEF Commit
    <3>2. rec[a].ts = act[a].ts /\ \A r \in db.audit \ work.audit : r.ts < act[a].ts - Window
      BY <3>1 DEF TruthInv, Staged, StagedBy
    <3>3. \A r \in written : r.act # rec[a].act
      BY <3>1 DEF TruthInv, Staged, StagedBy, OpenIsUnrecorded, Open
    <3> QED BY <3>1, <3>2, <3>3
  <2>2. ASSUME NEW a \in Actors, ActorStep(a), ~Commit(a) PROVE db' = db
    BY <2>2 DEF ActorStep, Start, chainVars, Lock, LockTimeout, RunChange, RunPrune, RunFails,
       AppendTx, CommitFails, DeliverRecord, MarkDelivery
  <2>3. ASSUME NEW q \in Procs, CrashProcess(q) PROVE db' = db
    BY <2>3 DEF CrashProcess
  <2>4. CASE SinkChanges \/ SetClock \/ UNCHANGED vars
    BY <2>4 DEF SinkChanges, SetClock, vars
  <2>5. db' = db => Kept
    OBVIOUS
  <2> QED BY <2>1, <2>2, <2>3, <2>4, <2>5 DEF Next
<1>2. IInv /\ TruthInv /\ [Next]_vars => [Kept]_vars
  BY <1>1
<1> QED BY <1>2, TruthInvariance, PTL DEF Spec, PruneKeepsWindow

-----------------------------------------------------------------------------
(* The mirrors.                                                            *)

LEMMA QuietMirror ==
  ASSUME MirrorInv, written \subseteq written', mirror' = mirror,
         \A a \in Actors : Emitting(a)' =>
            pc'[a] = pc[a] /\ idx'[a] = idx[a] /\ rec'[a] = rec[a]
  PROVE  MirrorInv'
<1>0. \A a \in Actors : Emitting(a)' => Emitting(a)
  BY DEF Emitting
<1>1. Emitted'
  BY <1>0 DEF MirrorInv, Emitted
<1>2. MirrorFaithful'
  BY DEF MirrorInv, MirrorFaithful
<1> QED BY <1>1, <1>2 DEF MirrorInv

LEMMA CommitMirror ==
  ASSUME IInv, MirrorInv, NEW a \in Actors, Commit(a)
  PROVE  MirrorInv'
<1>0. ChainTypeOK /\ DTypeOK
  BY TypeSplit DEF IInv
<1>1. /\ written' = written \cup {rec[a]} /\ UNCHANGED <<rec, mirror>>
      /\ idx' = [idx EXCEPT ![a] = 1]
      /\ pc' = [pc EXCEPT ![a] = IF SinkList = <<>> THEN "idle" ELSE "emit"]
  BY DEF Commit, StartEmit
<1>2. \A r \in written : r # rec[a]
  <2>1. \A r \in written : r.seq < rec[a].seq /\ r.seq \in Nat
    BY <1>0 DEF IInv, ChainInv, WorkHistory, Commit, ChainTypeOK, Rows
  <2> QED BY <2>1
<1>3. \A b \in Actors \ {a} : pc'[b] = pc[b] /\ idx'[b] = idx[b] /\ (Emitting(b)' <=> Emitting(b))
  BY <1>0, <1>1 DEF DTypeOK, Emitting
<1>4. idx'[a] = 1
  BY <1>0, <1>1 DEF DTypeOK
<1>5. \A i \in DOMAIN SinkList : SinkList[i] \in Sinks
  BY DEF Sinks
<1>6. \A i \in DOMAIN SinkList : \A j \in DOMAIN mirror[SinkList[i]] : mirror[SinkList[i]][j] # rec[a]
  BY <1>2, <1>5 DEF MirrorInv, MirrorFaithful
<1>7. Emitted'
  <2>1. \A b \in Actors : Emitting(b)' => rec[b] \in written'
    BY <1>1, <1>3 DEF MirrorInv, Emitted
  <2>2. \A b, c \in Actors : Emitting(b)' /\ Emitting(c)' /\ rec[b] = rec[c] => b = c
    BY <1>2, <1>3 DEF MirrorInv, Emitted
  <2>3. \A b \in Actors : Emitting(b)' =>
          \A i \in DOMAIN SinkList : idx'[b] < i \/ (pc'[b] = "emit" /\ idx'[b] = i) =>
            \A j \in DOMAIN mirror[SinkList[i]] : mirror[SinkList[i]][j] # rec[b]
    BY <1>3, <1>6 DEF MirrorInv, Emitted
  <2> QED BY <1>1, <2>1, <2>2, <2>3 DEF Emitted
<1>8. MirrorFaithful'
  BY <1>1 DEF MirrorInv, MirrorFaithful
<1> QED BY <1>7, <1>8 DEF MirrorInv

LEMMA DeliverMirror ==
  ASSUME IInv, MirrorInv, NEW a \in Actors, DeliverRecord(a)
  PROVE  MirrorInv'
<1>0. ChainTypeOK /\ DTypeOK /\ InLoop /\ WrittenOnce
  BY TypeSplit DEF IInv, ChainInv
<1>1. /\ pc[a] = "emit" /\ pc' = [pc EXCEPT ![a] = "mark"] /\ UNCHANGED <<idx, rec, written>>
      /\ \/ mirror' = [mirror EXCEPT ![SinkList[idx[a]]] = Append(@, rec[a])]
         \/ mirror' = mirror
  BY DEF DeliverRecord, Deliver
<1>2. PICK k \in DOMAIN SinkList : k = idx[a]
  BY <1>0, <1>1, DeliveryAssumption DEF InLoop
<1>3. PICK s \in Sinks : s = SinkList[k]
  BY DEF Sinks
<1>4. /\ mirror[s] \in Seq(Rows) /\ rec[a] \in written /\ Emitting(a) /\ Emitting(a)'
      /\ \A b \in Actors : Emitting(b)' <=> Emitting(b)
      /\ pc'[a] = "mark" /\ \A b \in Actors \ {a} : pc'[b] = pc[b]
      /\ rec[a] \in Rows
  BY <1>0, <1>1 DEF ChainTypeOK, DTypeOK, MirrorInv, Emitted, Emitting
<1>5. \A j \in DOMAIN mirror[s] : mirror[s][j] # rec[a]
  BY <1>1, <1>2, <1>3, <1>4 DEF MirrorInv, Emitted
<1>6. PICK m \in Seq(Rows) :
        /\ m = Append(mirror[s], rec[a])
        /\ \A j \in DOMAIN m : m[j] = rec[a] \/ (j \in DOMAIN mirror[s] /\ m[j] = mirror[s][j])
        /\ \A i, j \in DOMAIN m : m[i] = rec[a] /\ m[j] = rec[a] => i = j
  <2>1. /\ Append(mirror[s], rec[a]) \in Seq(Rows)
        /\ DOMAIN Append(mirror[s], rec[a]) = 1..(Len(mirror[s]) + 1)
        /\ DOMAIN mirror[s] = 1..Len(mirror[s]) /\ Len(mirror[s]) \in Nat
        /\ Append(mirror[s], rec[a])[Len(mirror[s]) + 1] = rec[a]
        /\ \A j \in 1..Len(mirror[s]) : Append(mirror[s], rec[a])[j] = mirror[s][j]
    BY <1>4
  <2>2. \A j \in 1..(Len(mirror[s]) + 1) : j = Len(mirror[s]) + 1 \/ j \in 1..Len(mirror[s])
    BY <2>1
  <2> DEFINE m0 == Append(mirror[s], rec[a])
  <2>3. \A j \in DOMAIN m0 : m0[j] = rec[a] \/ (j \in DOMAIN mirror[s] /\ m0[j] = mirror[s][j])
    BY <2>1, <2>2
  <2>4. \A j \in DOMAIN m0 : m0[j] = rec[a] => j = Len(mirror[s]) + 1
    BY <1>5, <2>1, <2>2
  <2>5. \A i, j \in DOMAIN m0 : m0[i] = rec[a] /\ m0[j] = rec[a] => i = j
    BY <2>4, Zenon
  <2>6. m0 \in Seq(Rows)
    BY <2>1
  <2> QED BY <2>3, <2>5, <2>6, Zenon
<1>7. \/ mirror' = [mirror EXCEPT ![s] = m]
      \/ mirror' = mirror
  BY <1>1, <1>2, <1>3, <1>6
<1>8. (mirror'[s] = m \/ mirror'[s] = mirror[s]) /\ \A q \in Sinks \ {s} : mirror'[q] = mirror[q]
  BY <1>0, <1>7 DEF ChainTypeOK
<1>9. Emitted'
  <2>1. ASSUME NEW b \in Actors, Emitting(b), NEW i \in DOMAIN SinkList,
               idx[b] < i \/ (pc'[b] = "emit" /\ idx[b] = i),
               NEW j \in DOMAIN mirror'[SinkList[i]]
        PROVE  mirror'[SinkList[i]][j] # rec[b]
    <3>0. SinkList[i] \in Sinks /\ (b # a => rec[b] # rec[a])
      BY <1>4, <2>1 DEF Sinks, MirrorInv, Emitted
    <3>1. CASE mirror'[SinkList[i]] = mirror[SinkList[i]]
      <4>1. idx[b] < i \/ (pc[b] = "emit" /\ idx[b] = i)
        BY <1>4, <2>1
      <4> QED BY <2>1, <3>1, <4>1 DEF MirrorInv, Emitted
    <3>2. CASE mirror'[SinkList[i]] # mirror[SinkList[i]]
      <4>1. SinkList[i] = s /\ mirror'[s] = m
        BY <1>8, <3>0, <3>2
      <4>2. i = k
        BY <1>3, <4>1, DeliveryAssumption
      <4>3. b # a
        BY <1>2, <1>4, <2>1, <4>2, DeliveryAssumption
      <4>4. idx[b] < i \/ (pc[b] = "emit" /\ idx[b] = i)
        BY <1>4, <2>1
      <4>5. \A l \in DOMAIN mirror[s] : mirror[s][l] # rec[b]
        BY <2>1, <4>1, <4>4 DEF MirrorInv, Emitted
      <4> QED BY <1>6, <2>1, <3>0, <4>1, <4>3, <4>5
    <3> QED BY <3>1, <3>2
  <2>2. /\ \A b \in Actors : Emitting(b) => rec[b] \in written
        /\ \A b, c \in Actors : Emitting(b) /\ Emitting(c) /\ rec[b] = rec[c] => b = c
    BY DEF MirrorInv, Emitted
  <2> QED BY <1>1, <1>4, <2>1, <2>2 DEF Emitted
<1>10. MirrorFaithful'
  <2>1. /\ \A i \in DOMAIN m : m[i] \in written
        /\ \A i, j \in DOMAIN m : m[i].seq = m[j].seq => i = j
    <3>1. \A i \in DOMAIN m : m[i] \in written
      BY <1>4, <1>6 DEF MirrorInv, MirrorFaithful
    <3>2. ASSUME NEW i \in DOMAIN m, NEW j \in DOMAIN m, m[i].seq = m[j].seq PROVE i = j
      <4>1. m[i] = m[j]
        BY <1>0, <3>1, <3>2 DEF WrittenOnce
      <4> QED BY <1>5, <1>6, <3>2, <4>1 DEF MirrorInv, MirrorFaithful
    <3> QED BY <3>1, <3>2
  <2>2. ASSUME NEW q \in Sinks
        PROVE  /\ \A i \in DOMAIN mirror'[q] : mirror'[q][i] \in written
               /\ \A i, j \in DOMAIN mirror'[q] : mirror'[q][i].seq = mirror'[q][j].seq => i = j
    <3>1. CASE mirror'[q] = mirror[q]
      BY <3>1 DEF MirrorInv, MirrorFaithful
    <3>2. CASE mirror'[q] = m
      BY <2>1, <3>2
    <3> QED BY <1>8, <3>1, <3>2
  <2> QED BY <1>1, <2>2 DEF MirrorFaithful
<1> QED BY <1>9, <1>10 DEF MirrorInv

LEMMA MarkMirror ==
  ASSUME IInv, MirrorInv, NEW a \in Actors, MarkDelivery(a)
  PROVE  MirrorInv'
<1>0. DTypeOK /\ InLoop
  BY TypeSplit DEF IInv
<1>1. /\ pc[a] = "mark" /\ UNCHANGED <<rec, written, mirror>>
      /\ pc' = [pc EXCEPT ![a] = IF idx[a] = Len(SinkList) THEN "idle" ELSE "emit"]
      /\ idx' = [idx EXCEPT ![a] = @ + 1]
  BY DEF MarkDelivery, Mark
<1>2. /\ \A b \in Actors \ {a} : pc'[b] = pc[b] /\ idx'[b] = idx[b]
      /\ idx'[a] = idx[a] + 1 /\ idx[a] \in Nat
      /\ Emitting(a) /\ \A b \in Actors : Emitting(b)' => Emitting(b)
  BY <1>0, <1>1, LenNat DEF DTypeOK, Emitting
<1>3. ASSUME NEW b \in Actors, Emitting(b)', NEW i \in DOMAIN SinkList,
             idx'[b] < i \/ (pc'[b] = "emit" /\ idx'[b] = i)
      PROVE  idx[b] < i \/ (pc[b] = "emit" /\ idx[b] = i)
  <2>1. i \in Nat
    BY DeliveryAssumption
  <2> QED BY <1>2, <1>3, <2>1
<1>4. Emitted'
  BY <1>1, <1>2, <1>3 DEF MirrorInv, Emitted
<1>5. MirrorFaithful'
  BY <1>1 DEF MirrorInv, MirrorFaithful
<1> QED BY <1>4, <1>5 DEF MirrorInv

LEMMA StepMirror == IInv /\ MirrorInv /\ [Next]_vars => MirrorInv'
<1> SUFFICES ASSUME IInv, MirrorInv, [Next]_vars PROVE MirrorInv'
  OBVIOUS
<1>0. ChainTypeOK /\ DTypeOK /\ StepsAgree
  BY TypeSplit DEF IInv, ChainInv
<1>1. ASSUME NEW a \in Actors, NEW k \in Kinds, Start(a, k) PROVE MirrorInv'
  BY <1>0, <1>1, QuietMirror DEF Start, Begin, chainVars, Emitting, DTypeOK, ChainTypeOK
<1>2. ASSUME NEW a \in Actors,
             Lock(a) \/ RunChange(a) \/ RunPrune(a) \/ RunFails(a)
      PROVE  MirrorInv'
  BY <1>2, QuietMirror DEF Lock, RunChange, RunPrune, RunFails, dvars
<1>3. ASSUME NEW a \in Actors, AppendTx(a) PROVE MirrorInv'
  <2>1. ~Emitting(a) /\ UNCHANGED <<pc, idx, mirror, written>>
    BY <1>0, <1>3 DEF AppendTx, StepsAgree, Emitting, dvars
  <2>2. \A b \in Actors \ {a} : rec'[b] = rec[b]
    BY <1>0, <1>3 DEF AppendTx, ChainTypeOK
  <2> QED BY <2>1, <2>2, QuietMirror DEF Emitting
<1>4. ASSUME NEW a \in Actors, LockTimeout(a) \/ CommitFails(a) PROVE MirrorInv'
  <2>1. /\ step[a] # "none" /\ UNCHANGED <<idx, mirror, written>>
        /\ \A b \in Actors \ {a} : pc'[b] = pc[b] /\ rec'[b] = rec[b]
        /\ pc'[a] = pc[a] \/ pc'[a] = "idle"
    BY <1>0, <1>4 DEF LockTimeout, CommitFails, Abandon, dvars, ChainTypeOK, DTypeOK
  <2>2. ~Emitting(a)'
    BY <1>0, <2>1 DEF StepsAgree, Emitting
  <2> QED BY <2>1, <2>2, QuietMirror
<1>5. ASSUME NEW a \in Actors, ActorStep(a) PROVE MirrorInv'
  BY <1>1, <1>2, <1>3, <1>4, <1>5, CommitMirror, DeliverMirror, MarkMirror DEF ActorStep
<1>6. ASSUME NEW p \in Procs, CrashProcess(p) PROVE MirrorInv'
  BY <1>6, QuietMirror DEF CrashProcess, Crash, Emitting
<1>7. CASE SinkChanges \/ SetClock \/ UNCHANGED vars
  BY <1>7, QuietMirror DEF SinkChanges, SinkFails, SinkRecovers, SetClock, vars, dvars
<1> QED BY <1>5, <1>6, <1>7 DEF Next

LEMMA MirrorInit == Init => MirrorInv
BY DEF Init, DInit, MirrorInv, Emitted, Emitting, MirrorFaithful

(* No line of a mirror is ever ahead of the database, and none is doubled. *)
THEOREM MirrorsAreFaithful == Spec => []MirrorFaithful
<1>1. MirrorInv => MirrorFaithful
  BY DEF MirrorInv
<1> QED BY <1>1, InitInv, StepInv, MirrorInit, StepMirror, PTL DEF Spec

-----------------------------------------------------------------------------
(* The posture of a process that runs one act at a time.                   *)

Bad(p) == {s \in Sinks : ~last[p][s]}

(* Between the two halves of a delivery the failing set is exact but for   *)
(* the sink that has just answered, whose answer the actor carries.        *)
NotedBy(a) ==
  IF pc[a] = "mark"
  THEN /\ failing[ProcOf[a]] \ {SinkList[idx[a]]} = Bad(ProcOf[a]) \ {SinkList[idx[a]]}
       /\ err[a] <=> SinkList[idx[a]] \in Bad(ProcOf[a])
  ELSE failing[ProcOf[a]] = Bad(ProcOf[a])
Noted == \A a \in Actors : Sole(a) => NotedBy(a)

DInv == DTypeOK /\ InLoop /\ Noted

LEMMA NotedStep == DInv /\ [DNext]_dvars => Noted'
<1> SUFFICES ASSUME DInv, [DNext]_dvars, NEW a \in Actors, Sole(a) PROVE NotedBy(a)'
  BY DEF Noted
<1>0. DTypeOK /\ NotedBy(a) /\ ProcOf[a] \in Procs /\ InLoop
  BY DeliveryAssumption DEF DInv, Noted
<1>1. ASSUME NEW b \in Actors, Begin(b) \/ Abandon(b) \/ StartEmit(b) PROVE NotedBy(a)'
  <2>1. /\ UNCHANGED <<failing, err, last>>
        /\ pc'[a] = "mark" => pc[a] = "mark" /\ idx'[a] = idx[a]
        /\ pc'[a] # "mark" => pc[a] # "mark"
    BY <1>0, <1>1 DEF Begin, Abandon, StartEmit, DTypeOK
  <2> QED BY <1>0, <2>1 DEF NotedBy, Bad
<1>2. ASSUME NEW b \in Actors \ {a}, Deliver(b) \/ Mark(b) PROVE NotedBy(a)'
  <2>1. ProcOf[b] # ProcOf[a]
    BY <1>2 DEF Sole
  <2>2. /\ failing'[ProcOf[a]] = failing[ProcOf[a]] /\ last'[ProcOf[a]] = last[ProcOf[a]]
        /\ pc'[a] = pc[a] /\ idx'[a] = idx[a] /\ err'[a] = err[a]
    BY <1>0, <1>2, <2>1 DEF Deliver, Mark, DTypeOK
  <2> QED BY <1>0, <2>2 DEF NotedBy, Bad
<1>3. CASE Deliver(a)
  <2>1. PICK s \in Sinks : s = SinkList[idx[a]]
    BY <1>0, <1>3, SinkAt DEF Deliver, InLoop
  <2>2. /\ failing' = failing /\ pc'[a] = "mark" /\ idx' = idx /\ pc[a] = "emit"
        /\ err'[a] = ~up[s] /\ last'[ProcOf[a]] = [last[ProcOf[a]] EXCEPT ![s] = up[s]]
    BY <1>0, <1>3, <2>1 DEF Deliver, DTypeOK
  <2>3. last'[ProcOf[a]][s] = up[s] /\ \A q \in Sinks \ {s} : last'[ProcOf[a]][q] = last[ProcOf[a]][q]
    BY <1>0, <2>2 DEF DTypeOK
  <2>4. failing[ProcOf[a]] = Bad(ProcOf[a])
    BY <1>0, <2>2 DEF NotedBy
  <2>5. failing[ProcOf[a]] \ {s} = Bad(ProcOf[a])' \ {s}
    BY <2>3, <2>4, Zenon DEF Bad
  <2>6. err'[a] <=> s \in Bad(ProcOf[a])'
    BY <2>2, <2>3, Zenon DEF Bad
  <2> QED BY <2>1, <2>2, <2>5, <2>6 DEF NotedBy
<1>4. CASE Mark(a)
  <2>1. PICK s \in Sinks : s = SinkList[idx[a]]
    BY <1>0, <1>4, SinkAt DEF Mark, InLoop
  <2>2. /\ pc[a] = "mark" /\ last' = last /\ pc'[a] # "mark"
        /\ failing'[ProcOf[a]] = IF err[a] THEN failing[ProcOf[a]] \cup {s} ELSE failing[ProcOf[a]] \ {s}
    BY <1>0, <1>4, <2>1 DEF Mark, DTypeOK
  <2>3. /\ failing[ProcOf[a]] \ {s} = Bad(ProcOf[a]) \ {s}
        /\ err[a] <=> s \in Bad(ProcOf[a])
    BY <1>0, <2>1, <2>2 DEF NotedBy
  <2>4. failing'[ProcOf[a]] = Bad(ProcOf[a])
    BY <2>2, <2>3
  <2> QED BY <2>2, <2>4 DEF NotedBy, Bad
<1>5. ASSUME NEW s \in Sinks, SinkFails(s) \/ SinkRecovers(s) PROVE NotedBy(a)'
  BY <1>0, <1>5 DEF SinkFails, SinkRecovers, NotedBy, Bad
<1>6. ASSUME NEW p \in Procs, Crash(p) PROVE NotedBy(a)'
  <2>1. CASE ProcOf[a] = p
    <3>1. failing'[p] = {} /\ last'[p] = [s \in Sinks |-> TRUE] /\ pc'[a] = "idle"
      BY <1>0, <1>6, <2>1 DEF Crash, DTypeOK
    <3>2. \A s \in Sinks : last'[p][s]
      BY <3>1
    <3>3. Bad(p)' = {}
      BY <3>2, Zenon DEF Bad
    <3> QED BY <2>1, <3>1, <3>3 DEF NotedBy
  <2>2. CASE ProcOf[a] # p
    <3>1. /\ failing'[ProcOf[a]] = failing[ProcOf[a]] /\ last'[ProcOf[a]] = last[ProcOf[a]]
          /\ pc'[a] = pc[a] /\ idx'[a] = idx[a] /\ err'[a] = err[a]
      BY <1>0, <1>6, <2>2 DEF Crash, DTypeOK
    <3> QED BY <1>0, <3>1 DEF NotedBy, Bad
  <2> QED BY <2>1, <2>2
<1>7. CASE UNCHANGED dvars
  BY <1>0, <1>7 DEF dvars, NotedBy, Bad
<1> QED BY <1>1, <1>2, <1>3, <1>4, <1>5, <1>6, <1>7 DEF DNext, DInv

LEMMA NotedInit == DInit => DInv
<1> SUFFICES ASSUME DInit PROVE DInv
  OBVIOUS
<1>1. \A a \in Actors : pc[a] = "idle" /\ failing[ProcOf[a]] = {} /\ ProcOf[a] \in Procs
  BY DeliveryAssumption DEF DInit
<1>2. \A p \in Procs : \A s \in Sinks : last[p][s]
  BY DEF DInit
<1>3. \A p \in Procs : Bad(p) = {}
  BY <1>2, Zenon DEF Bad
<1>4. Noted
  BY <1>1, <1>3 DEF Noted, NotedBy
<1> QED BY <1>4, DeliveryInit DEF DInv

LEMMA DeliveryInvariance == DSpec => []DInv
<1>1. DInv /\ [DNext]_dvars => DInv'
  BY NotedStep, DeliveryType DEF DInv
<1> QED BY <1>1, NotedInit, PTL DEF DSpec

(* Outside the two halves of one delivery, the failing set of a process    *)
(* that runs one act at a time is exactly the sinks whose latest write     *)
(* failed.                                                                 *)
THEOREM FailingSetIsExact == DSpec => []FailingIsExact
<1>1. DInv => FailingIsExact
  BY DEF DInv, Noted, NotedBy, Bad, FailingIsExact
<1> QED BY <1>1, DeliveryInvariance, PTL

(* Where every process runs one act at a time, as each CLI invocation      *)
(* does, the block posture refuses exactly while a sink's latest write     *)
(* failed: it is neither too strict nor too lax.  In a process that runs   *)
(* several, two answers may be noted in the other order than they came in. *)
THEOREM PostureIsExact ==
  ASSUME \A a \in Actors : Sole(a)
  PROVE  DSpec => BlockIsExact
<1> DEFINE Let == \A a \in Actors :
       /\ pc[a] = "idle" /\ pc'[a] = "acting" /\ Posture = "block"
       /\ \A b \in Actors : ProcOf[b] = ProcOf[a] => pc[b] # "mark"
       => \A s \in Sinks : last[ProcOf[a]][s]
<1>1. DInv /\ [DNext]_dvars => [Let]_dvars
  <2> SUFFICES ASSUME DInv, DNext, NEW a \in Actors,
                      pc[a] = "idle", pc'[a] = "acting", Posture = "block"
               PROVE  \A s \in Sinks : last[ProcOf[a]][s]
    OBVIOUS
  <2>0. DTypeOK
    BY DEF DInv
  <2>1. ~Blocked(ProcOf[a])
    <3>1. ASSUME NEW b \in Actors, Begin(b) PROVE ~Blocked(ProcOf[a])
      BY <2>0, <3>1 DEF Begin, DTypeOK
    <3>2. ASSUME NEW b \in Actors, Abandon(b) \/ StartEmit(b) \/ Deliver(b) \/ Mark(b) PROVE FALSE
      BY <2>0, <3>2 DEF Abandon, StartEmit, Deliver, Mark, DTypeOK
    <3>3. ASSUME NEW s \in Sinks, SinkFails(s) \/ SinkRecovers(s) PROVE FALSE
      BY <3>3 DEF SinkFails, SinkRecovers
    <3>4. ASSUME NEW p \in Procs, Crash(p) PROVE FALSE
      BY <3>4 DEF Crash
    <3> QED BY <3>1, <3>2, <3>3, <3>4 DEF DNext
  <2>2. Bad(ProcOf[a]) = {}
    BY <2>1 DEF Blocked, DInv, Noted, NotedBy
  <2> QED BY <2>2 DEF Bad
<1>2. DSpec => [][Let]_dvars
  BY <1>1, DeliveryInvariance, PTL DEF DSpec
<1> QED BY <1>2, FailingSetIsExact, PTL DEF BlockIsExact, BlockHolds

=============================================================================

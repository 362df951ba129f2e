--------------------------- MODULE CeremonyProofs ---------------------------
(***************************************************************************)
(* Proofs about what an operator does and what can be told of it           *)
(* afterwards.  Ceremony: what an idempotency key, a preview and a TOTP    *)
(* code are good for, for any number of attempts, callers, keys and        *)
(* changes.  AuditVerify: what `nodary audit verify` says of the trail,    *)
(* for any window and any number of lines, records and damages.            *)
(***************************************************************************)
EXTENDS Ceremony, AuditVerify, FiniteSetTheorems, WellFoundedInduction, TLAPS

-----------------------------------------------------------------------------
(* The inductive invariant.                                                *)

(* An attempt that holds its key, from Claim to its answer or its end.     *)
Holds(i) == pc[i] \in {"read", "preview", "act", "done", "failed"} /\ Keyed(i)

(* Only a request with a key comes to Claim.                               *)
ClaimIsKeyed == \A i \in Attempts : pc[i] = "claim" => Keyed(i)

(* The row of the key is then its own, and of this window.                 *)
RowIsHeld ==
  \A i \in Attempts : Holds(i) =>
     keys[RowOf(i)] = [state |-> "claimed", op |-> call[i].op, by |-> i, day |-> day]

(* A row in flight has its attempt, or the attempt died.                   *)
ClaimedIsHeld ==
  \A k \in Users \X Keys : keys[k].state = "claimed" =>
     faults > 0 \/ \E i \in Attempts : Holds(i) /\ RowOf(i) = k

OwnAnswer(j) == reply[j].kind = IF call[j].dry THEN "dry" ELSE "applied"

(* A stored answer is the one its attempt gave.                            *)
AnsweredBy(k) ==
  \E j \in Attempts :
     j = keys[k].by /\ RowOf(j) = k /\ Keyed(j) /\ call[j].op = keys[k].op /\ OwnAnswer(j)
AnsweredByOwn == \A k \in Users \X Keys : keys[k].state = "answered" => AnsweredBy(k)

AnsweredIsOver == \A i \in Attempts : reply[i].kind # "none" => pc[i] = "end"

(* A change that was applied under a key of this window keeps the row, and *)
(* nobody but the attempt that applied it holds it.                        *)
RowOfChange(a) == <<a.call.user, a.call.key>>
RowKept(a) ==
  /\ keys[RowOfChange(a)].state # "free" /\ keys[RowOfChange(a)].day = day
  /\ \A i \in Attempts : Holds(i) /\ RowOf(i) = RowOfChange(a) => pc[i] = "done" /\ call[i] = a.call
AppliedKeepsKey ==
  \A a \in applied :
    /\ a.day <= day
    /\ a.call.key # NoKey /\ a.day = day /\ a.call.op \notin LateErrors => RowKept(a)

(* A code that was used is no later than the user's last step.             *)
CodesSpent == \A a \in applied : a.code <= floor[a.call.user]

(* A preview that was approved shows less than its target has seen since.  *)
PreviewsSpent ==
  \A a \in applied : /\ a.approved.op = a.call.op
                     /\ a.call.op \notin Blind => a.approved.at < rev[a.call.op]

IInv ==
  /\ TypeOK /\ ClaimIsKeyed /\ RowIsHeld /\ ClaimedIsHeld /\ AnsweredByOwn /\ AnsweredIsOver
  /\ ReplayIsOwn /\ AppliedKeepsKey /\ CodesSpent /\ PreviewsSpent
  /\ ActsOnce /\ ApprovedOnce

-----------------------------------------------------------------------------
(* Type correctness.                                                       *)

Rows == [state : {"free", "claimed", "answered"}, op : Ops \cup {"none"},
         by : Attempts \cup {0}, day : Nat]
ReadsT == [profile : {"default", "regulated"}, now : Nat, hash : Hashes \cup {NoHash}]

(* An attempt's row is a row of the table.                                 *)
LEMMA RowType ==
  ASSUME TypeOK, NEW i \in Attempts
  PROVE  /\ call[i] \in Call /\ call[i].op \in Ops /\ call[i].user \in Users
         /\ Keyed(i) => RowOf(i) \in Users \X Keys
         /\ read[i] \in ReadsT /\ reply[i] \in [kind : Kinds, of : Attempts \cup {0}]
  BY DEF TypeOK, Call, Keyed, RowOf, ReadsT

LEMMA RenderType ==
  ASSUME TypeOK, NEW o \in Ops
  PROVE  Render(o) \in Hashes
  BY DEF TypeOK, Render, Hashes

(* What the end of an attempt leaves.                                      *)
LEMMA EndType ==
  ASSUME TypeOK, NEW i \in Attempts, NEW r \in [kind : Kinds, of : Attempts \cup {0}], End(i, r)
  PROVE  /\ pc' \in [Attempts -> Phases] /\ call' \in [Attempts -> Call]
         /\ intent' \in [Attempts -> Hashes \cup {NoHash}]
         /\ code' \in [Attempts -> Nat \cup {NoCode}]
         /\ read' \in [Attempts -> ReadsT]
         /\ reply' \in [Attempts -> [kind : Kinds, of : Attempts \cup {0}]]
<1> DEFINE x == [NoRead EXCEPT !.hash = IF r.kind = "dry" THEN read[i].hash ELSE NoHash]
<1>1. read[i].hash \in Hashes \cup {NoHash}
  BY RowType DEF ReadsT
<1>2. x \in ReadsT
  BY <1>1 DEF ReadsT, NoRead
<1>3. read' = [read EXCEPT ![i] = x] /\ read \in [Attempts -> ReadsT]
  BY DEF End, TypeOK, ReadsT
<1>4. read' \in [Attempts -> ReadsT]
  BY <1>2, <1>3
<1>5. /\ pc' \in [Attempts -> Phases] /\ call' \in [Attempts -> Call]
      /\ intent' \in [Attempts -> Hashes \cup {NoHash}]
      /\ code' \in [Attempts -> Nat \cup {NoCode}]
      /\ reply' \in [Attempts -> [kind : Kinds, of : Attempts \cup {0}]]
  BY DEF End, TypeOK, Phases
<1> QED BY <1>4, <1>5

(* Finish changes two columns of the row.                                  *)
LEMMA AnsweredRow ==
  ASSUME NEW row \in Rows, NEW i
  PROVE  [row EXCEPT !.state = "answered", !.by = i]
           = [state |-> "answered", op |-> row.op, by |-> i, day |-> row.day]
<1>1. [row EXCEPT !.state = "answered", !.by = i] = [[row EXCEPT !.state = "answered"] EXCEPT !.by = i]
  BY DEF Rows
<1>2. [row EXCEPT !.state = "answered"] = [state |-> "answered", op |-> row.op, by |-> row.by, day |-> row.day]
  BY DEF Rows
<1>3. [[state |-> "answered", op |-> row.op, by |-> row.by, day |-> row.day] EXCEPT !.by = i]
        = [state |-> "answered", op |-> row.op, by |-> i, day |-> row.day]
  OBVIOUS
<1> QED BY <1>1, <1>2, <1>3, Zenon

LEMMA KeysType ==
  ASSUME TypeOK, NEW i \in Attempts
  PROVE  /\ FinishKey(i) => keys' \in [Users \X Keys -> Rows]
         /\ ReleaseKey(i) => keys' \in [Users \X Keys -> Rows]
<1>1. keys \in [Users \X Keys -> Rows] /\ NoRow \in Rows
  BY DEF TypeOK, Rows, NoRow
<1>2. ASSUME FinishKey(i) PROVE keys' \in [Users \X Keys -> Rows]
  <2>1. CASE Keyed(i) /\ keys[RowOf(i)].state # "free"
    <3>1. keys[RowOf(i)] \in Rows
      BY <1>1, <2>1, RowType
    <3>2. [keys[RowOf(i)] EXCEPT !.state = "answered", !.by = i] \in Rows
      BY <3>1 DEF Rows
    <3> QED BY <1>1, <1>2, <2>1, <3>2 DEF FinishKey
  <2>2. CASE ~(Keyed(i) /\ keys[RowOf(i)].state # "free")
    BY <1>1, <1>2, <2>2 DEF FinishKey
  <2> QED BY <2>1, <2>2
<1>3. ASSUME ReleaseKey(i) PROVE keys' \in [Users \X Keys -> Rows]
  BY <1>1, <1>3, RowType DEF ReleaseKey
<1> QED BY <1>2, <1>3

LEMMA TypeStep == TypeOK /\ ClaimIsKeyed /\ [Next]_vars => TypeOK'
<1> SUFFICES ASSUME TypeOK, ClaimIsKeyed, [Next]_vars PROVE TypeOK'
  OBVIOUS
<1>0. keys \in [Users \X Keys -> Rows] /\ read \in [Attempts -> ReadsT]
  BY DEF TypeOK, Rows, ReadsT
<1>1. ASSUME NEW i \in Attempts, NEW c \in Calls, Send(i, c)
      PROVE  TypeOK'
  <2>1. c \in Call /\ c.op \in Ops
    BY CeremonyAssumption DEF Call
  <2>2. Approvable(c) \subseteq Hashes \cup {NoHash}
    BY <2>1, RowType, RenderType DEF Approvable, ReadsT
  <2>3. {NoCode} \cup ((clock - 1)..clock) \subseteq Nat \cup {NoCode}
    BY DEF TypeOK
  <2>4. call' \in [Attempts -> Call] /\ pc' \in [Attempts -> Phases]
    BY <1>1, <2>1 DEF Send, TypeOK, Phases
  <2>5. intent' \in [Attempts -> Hashes \cup {NoHash}]
    BY <1>1, <2>2 DEF Send, TypeOK
  <2>6. code' \in [Attempts -> Nat \cup {NoCode}]
    BY <1>1, <2>3 DEF Send, TypeOK
  <2> QED BY <1>1, <2>4, <2>5, <2>6 DEF Send, TypeOK, dbVars
<1>2. ASSUME NEW i \in Attempts, Claim(i)
      PROVE  TypeOK'
  <2>1. [state |-> "claimed", op |-> call[i].op, by |-> i, day |-> day] \in Rows
    BY RowType DEF Rows, TypeOK
  <2>2. keys' \in [Users \X Keys -> Rows]
    BY <1>0, <1>2, <2>1 DEF Claim
  <2>3. pc' \in [Attempts -> Phases]
    BY <1>2 DEF Claim, TypeOK, Phases
  <2> QED BY <1>2, <2>2, <2>3 DEF Claim, TypeOK, Rows
<1>3. ASSUME NEW i \in Attempts, NEW r \in [kind : Kinds, of : Attempts \cup {0}], End(i, r),
             UNCHANGED <<profile, rev, floor, applied, clock, day>>,
             keys' \in [Users \X Keys -> Rows], faults' \in 0..MaxFaults
      PROVE  TypeOK'
  <2>1. /\ pc' \in [Attempts -> Phases] /\ call' \in [Attempts -> Call]
        /\ intent' \in [Attempts -> Hashes \cup {NoHash}]
        /\ code' \in [Attempts -> Nat \cup {NoCode}]
        /\ read' \in [Attempts -> ReadsT]
        /\ reply' \in [Attempts -> [kind : Kinds, of : Attempts \cup {0}]]
    BY <1>3, EndType
  <2> QED BY <1>3, <2>1 DEF TypeOK, Rows, ReadsT
<1>4. ASSUME NEW i \in Attempts, ClaimTaken(i)
      PROVE  TypeOK'
  <2>1. keys[RowOf(i)].by \in Attempts \cup {0}
    <3>1. RowOf(i) \in Users \X Keys
      BY <1>4, RowType DEF ClaimIsKeyed, ClaimTaken
    <3> QED BY <1>0, <3>1 DEF Rows
  <2>2. \E r \in [kind : Kinds, of : Attempts \cup {0}] : End(i, r)
    BY <1>4, <2>1 DEF ClaimTaken, Answer, Kinds
  <2> QED BY <1>0, <1>3, <1>4, <2>2 DEF ClaimTaken, dbVars, TypeOK
<1>5. ASSUME NEW i \in Attempts, ReadProfile(i)
      PROVE  TypeOK'
  <2>1. [NoRead EXCEPT !.profile = profile, !.now = clock] \in ReadsT
    BY DEF NoRead, ReadsT, TypeOK
  <2>2. read' \in [Attempts -> ReadsT] /\ pc' \in [Attempts -> Phases]
    BY <1>0, <1>5, <2>1 DEF ReadProfile, TypeOK, Phases
  <2> QED BY <1>5, <2>2 DEF ReadProfile, dbVars, TypeOK, ReadsT
<1>6. ASSUME NEW i \in Attempts, Preview(i)
      PROVE  TypeOK'
  <2>1. Render(call[i].op) \in Hashes
    BY RowType, RenderType
  <2>2. read' = [read EXCEPT ![i].hash = Render(call[i].op)]
    BY <1>6 DEF Preview
  <2>3. read' \in [Attempts -> ReadsT]
    BY <1>0, <2>1, <2>2 DEF ReadsT
  <2>4. \E x \in Phases : pc' = [pc EXCEPT ![i] = x]
    BY <1>6 DEF Preview, Phases
  <2>5. pc' \in [Attempts -> Phases]
    BY <2>4 DEF TypeOK
  <2> QED BY <1>6, <2>3, <2>5 DEF Preview, dbVars, TypeOK, ReadsT
<1>7. ASSUME NEW i \in Attempts, Act(i)
      PROVE  TypeOK'
  <2> DEFINE attested == NeedsTOTP(read[i].profile, call[i].who)
             a == [by |-> i, call |-> call[i], approved |-> read[i].hash,
                   code |-> IF attested THEN code[i] ELSE NoCode, profile |-> profile, day |-> day]
  <2>0. call[i] \in Call /\ call[i].op \in Ops /\ call[i].user \in Users
    BY RowType
  <2>1. read[i].hash \in Hashes
    BY <1>7, <2>0, RenderType DEF Act, Bound
  <2>2. code[i] \in Nat \cup {NoCode} /\ code[i] \in Nat \cup {-1}
    BY DEF TypeOK, NoCode
  <2>3. a \in [by : Attempts, call : Call, approved : Hashes, code : Nat \cup {NoCode},
               profile : {"default", "regulated"}, day : Nat]
    BY <2>0, <2>1, <2>2 DEF TypeOK
  <2>4. applied' = applied \cup {a}
    BY <1>7 DEF Act, Effect
  <2>5. floor' \in [Users -> Nat \cup {-1}]
    BY <1>7, <2>0, <2>2 DEF Act, Effect, TypeOK
  <2>6. rev' \in [Ops -> Nat]
    BY <1>7, <2>0 DEF Act, Effect, TypeOK
  <2>7. profile' \in {"default", "regulated"} /\ pc' \in [Attempts -> Phases]
    BY <1>7 DEF Act, Effect, TypeOK, Phases
  <2> HIDE DEF a
  <2> QED BY <1>7, <2>3, <2>4, <2>5, <2>6, <2>7 DEF Act, Effect, TypeOK
<1>8. ASSUME NEW i \in Attempts, ActFails(i)
      PROVE  TypeOK'
  <2>1. pc' \in [Attempts -> Phases]
    BY <1>8 DEF ActFails, TypeOK, Phases
  <2> QED BY <1>8, <2>1 DEF ActFails, dbVars, TypeOK
<1>9. ASSUME NEW i \in Attempts, Succeed(i) \/ SucceedUnstored(i) \/ Fail(i)
      PROVE  TypeOK'
  <2>1. \E r \in [kind : Kinds, of : Attempts \cup {0}] : End(i, r)
    BY <1>9 DEF Succeed, SucceedUnstored, Fail, Answer, Kinds
  <2>2. keys' \in [Users \X Keys -> Rows]
    BY <1>9, KeysType DEF Succeed, SucceedUnstored, Fail
  <2>3. UNCHANGED <<profile, rev, floor, applied, clock, day, faults>>
    BY <1>9 DEF Succeed, SucceedUnstored, Fail
  <2> QED BY <1>3, <2>1, <2>2, <2>3 DEF TypeOK
<1>10. ASSUME NEW i \in Attempts, Die(i)
       PROVE  TypeOK'
  <2>1. NoReply \in [kind : Kinds, of : Attempts \cup {0}]
    BY DEF NoReply, Kinds
  <2>2. faults' \in 0..MaxFaults
    BY <1>10, CeremonyAssumption DEF Die, TypeOK
  <2> QED BY <1>0, <1>3, <1>10, <2>1, <2>2 DEF Die, dbVars
<1>11. CASE Tick
  BY <1>11 DEF Tick, dbVars, TypeOK
<1>12. CASE DayPasses
  <2>1. keys' \in [Users \X Keys -> Rows]
    <3>1. NoRow \in Rows
      BY DEF NoRow, Rows
    <3> QED BY <1>0, <1>12, <3>1 DEF DayPasses
  <2>2. clock' \in Nat \ {0} /\ day' \in 0..MaxDays
    BY <1>12, CeremonyAssumption DEF DayPasses, TypeOK
  <2> QED BY <1>12, <2>1, <2>2 DEF DayPasses, TypeOK, Rows
<1>13. CASE UNCHANGED vars
  BY <1>13 DEF vars, dbVars, TypeOK
<1> QED BY <1>1, <1>2, <1>4, <1>5, <1>6, <1>7, <1>8, <1>9, <1>10, <1>11, <1>12, <1>13 DEF Next, Step

-----------------------------------------------------------------------------
(* The parts of the invariant, action by action.                           *)

KeyParts == ClaimIsKeyed /\ RowIsHeld /\ ClaimedIsHeld /\ AnsweredByOwn /\ AnsweredIsOver /\ ReplayIsOwn

(* A step of an attempt that leaves the tables alone and keeps its key.    *)
LEMMA MoveStep ==
  ASSUME IInv, NEW i \in Attempts, ReadProfile(i) \/ Preview(i) \/ ActFails(i)
  PROVE  KeyParts' /\ AppliedKeepsKey'
<1>1. /\ UNCHANGED <<call, reply, keys, applied, day, faults>>
      /\ pc[i] \in {"read", "preview", "act"}
      /\ \E x \in {"preview", "act", "done", "failed"} : pc' = [pc EXCEPT ![i] = x]
  BY DEF ReadProfile, Preview, ActFails, dbVars
<1>2. pc \in [Attempts -> Phases]
  BY DEF IInv, TypeOK
<1>3. \A j \in Attempts : RowOf(j)' = RowOf(j) /\ Keyed(j)' = Keyed(j) /\ Holds(j)' = Holds(j)
  BY <1>1, <1>2 DEF RowOf, Keyed, Holds
<1>4. ClaimIsKeyed' /\ RowIsHeld' /\ ClaimedIsHeld'
  BY <1>1, <1>2, <1>3 DEF IInv, ClaimIsKeyed, RowIsHeld, ClaimedIsHeld
<1>5. AnsweredByOwn' /\ AnsweredIsOver' /\ ReplayIsOwn'
  <2>1. AnsweredByOwn'
    BY <1>1, <1>3 DEF IInv, AnsweredByOwn, AnsweredBy, OwnAnswer
  <2>2. AnsweredIsOver'
    BY <1>1, <1>2 DEF IInv, AnsweredIsOver
  <2>3. ReplayIsOwn'
    BY <1>1 DEF IInv, ReplayIsOwn
  <2> QED BY <2>1, <2>2, <2>3
<1>6. AppliedKeepsKey'
  <2>1. ASSUME NEW a \in applied, a.call.key # NoKey, a.day = day, a.call.op \notin LateErrors,
               RowKept(a)
        PROVE  RowKept(a)'
    BY <1>1, <1>2, <1>3, <2>1 DEF RowKept, RowOfChange
  <2> QED BY <1>1, <2>1 DEF IInv, AppliedKeepsKey
<1> QED BY <1>4, <1>5, <1>6 DEF KeyParts
(* A request is sent: it holds nothing yet.                                *)
LEMMA SendStep ==
  ASSUME IInv, NEW i \in Attempts, NEW c \in Calls, Send(i, c)
  PROVE  KeyParts' /\ AppliedKeepsKey'
<1>1. /\ UNCHANGED <<reply, keys, applied, day, faults>> /\ pc[i] = "new"
      /\ call' = [call EXCEPT ![i] = c]
      /\ pc' = [pc EXCEPT ![i] = IF c.key = NoKey THEN "read" ELSE "claim"]
  BY DEF Send, dbVars
<1>2. pc \in [Attempts -> Phases] /\ call \in [Attempts -> Call] /\ NoKey = "no key"
  BY DEF IInv, TypeOK, NoKey
<1>3. \A j \in Attempts \ {i} : /\ RowOf(j)' = RowOf(j) /\ Keyed(j)' = Keyed(j) /\ Holds(j)' = Holds(j)
                                /\ pc'[j] = pc[j] /\ call'[j] = call[j]
  BY <1>1, <1>2 DEF RowOf, Keyed, Holds
<1>4. ~Holds(i) /\ ~Holds(i)' /\ reply[i].kind = "none" /\ (pc'[i] = "claim" => Keyed(i)')
  BY <1>1, <1>2 DEF IInv, Holds, Keyed, AnsweredIsOver
<1>5. ClaimIsKeyed' /\ RowIsHeld' /\ ClaimedIsHeld'
  BY <1>1, <1>3, <1>4 DEF IInv, ClaimIsKeyed, RowIsHeld, ClaimedIsHeld
<1>6. AnsweredByOwn'
  <2>1. ASSUME NEW k \in Users \X Keys, keys[k].state = "answered"
        PROVE  AnsweredBy(k)'
    <3>1. PICK j \in Attempts : j = keys[k].by /\ RowOf(j) = k /\ Keyed(j) /\ call[j].op = keys[k].op /\ OwnAnswer(j)
      BY <2>1 DEF IInv, AnsweredByOwn, AnsweredBy
    <3>2. j # i
      BY <1>4, <3>1 DEF OwnAnswer
    <3>3. /\ RowOf(j)' = RowOf(j) /\ Keyed(j)' = Keyed(j) /\ call'[j] = call[j]
      BY <1>3, <3>2
    <3>4. OwnAnswer(j)'
      BY <1>1, <3>1, <3>3 DEF OwnAnswer
    <3> QED BY <1>1, <3>1, <3>3, <3>4 DEF AnsweredBy
  <2> QED BY <1>1, <2>1 DEF AnsweredByOwn
<1>7. AnsweredIsOver'
  BY <1>1, <1>3, <1>4 DEF IInv, AnsweredIsOver
<1>8. ReplayIsOwn'
  <2>1. ASSUME NEW j \in Attempts, reply[j].kind = "replay"
        PROVE  LET m == reply[j].of
               IN  /\ m \in Attempts
                   /\ call'[m].user = call'[j].user /\ call'[m].key = call'[j].key
                   /\ call'[m].op = call'[j].op
                   /\ reply[m].kind = IF call'[m].dry THEN "dry" ELSE "applied"
    <3> DEFINE m == reply[j].of
    <3>1. /\ m \in Attempts /\ call[m].user = call[j].user /\ call[m].key = call[j].key
          /\ call[m].op = call[j].op /\ reply[m].kind = IF call[m].dry THEN "dry" ELSE "applied"
      BY <2>1 DEF IInv, ReplayIsOwn
    <3>2. j # i /\ m # i
      BY <1>4, <2>1, <3>1
    <3> QED BY <1>3, <3>1, <3>2
  <2> QED BY <1>1, <2>1 DEF ReplayIsOwn
<1>9. AppliedKeepsKey'
  <2>1. ASSUME NEW a \in applied, RowKept(a)
        PROVE  RowKept(a)'
    BY <1>1, <1>3, <1>4, <2>1 DEF RowKept, RowOfChange
  <2> QED BY <1>1, <2>1 DEF IInv, AppliedKeepsKey
<1> QED BY <1>5, <1>6, <1>7, <1>8, <1>9 DEF KeyParts

(* Claim: the row was free, or of a window that has passed.                *)
LEMMA ClaimStep ==
  ASSUME IInv, NEW i \in Attempts, Claim(i)
  PROVE  KeyParts' /\ AppliedKeepsKey'
<1> DEFINE row == [state |-> "claimed", op |-> call[i].op, by |-> i, day |-> day]
<1>1. /\ UNCHANGED <<call, reply, applied, day, faults>> /\ pc[i] = "claim"
      /\ keys' = [keys EXCEPT ![RowOf(i)] = row]
      /\ pc' = [pc EXCEPT ![i] = "read"]
      /\ keys[RowOf(i)].state = "free" \/ keys[RowOf(i)].day < day
  BY DEF Claim
<1>2. pc \in [Attempts -> Phases] /\ keys \in [Users \X Keys -> Rows] /\ day \in Nat
  BY DEF IInv, TypeOK, Rows
<1>3. Keyed(i) /\ RowOf(i) \in Users \X Keys /\ ~Holds(i) /\ Holds(i)'
  BY <1>1, <1>2, RowType DEF IInv, ClaimIsKeyed, Holds, Keyed
<1>4. \A j \in Attempts : RowOf(j)' = RowOf(j) /\ Keyed(j)' = Keyed(j)
  BY <1>1 DEF RowOf, Keyed
<1>5. \A j \in Attempts \ {i} : Holds(j)' = Holds(j) /\ pc'[j] = pc[j]
  BY <1>1, <1>2 DEF Holds, Keyed
<1>6. ASSUME NEW j \in Attempts \ {i}, Holds(j)
      PROVE  RowOf(j) # RowOf(i)
  <2>1. keys[RowOf(j)] = [state |-> "claimed", op |-> call[j].op, by |-> j, day |-> day]
    BY <1>6 DEF IInv, RowIsHeld
  <2>2. keys[RowOf(j)].state = "claimed" /\ keys[RowOf(j)].day = day
    BY <2>1
  <2> QED BY <1>1, <1>2, <2>2
<1>7. RowIsHeld'
  <2>1. \A j \in Attempts \ {i} : Holds(j) => keys'[RowOf(j)] = keys[RowOf(j)]
    BY <1>1, <1>2, <1>6, RowType DEF IInv, Holds
  <2>2. keys'[RowOf(i)] = row
    BY <1>1, <1>2, <1>3
  <2> QED BY <1>1, <1>4, <1>5, <2>1, <2>2 DEF IInv, RowIsHeld
<1>8. ClaimIsKeyed' /\ ClaimedIsHeld'
  BY <1>1, <1>2, <1>3, <1>4, <1>5 DEF IInv, ClaimIsKeyed, ClaimedIsHeld
<1>9. AnsweredByOwn'
  BY <1>1, <1>2, <1>3, <1>4 DEF IInv, AnsweredByOwn, AnsweredBy, OwnAnswer
<1>10. AnsweredIsOver' /\ ReplayIsOwn'
  BY <1>1, <1>2 DEF IInv, AnsweredIsOver, ReplayIsOwn
<1>11. AppliedKeepsKey'
  <2>1. ASSUME NEW a \in applied, a.call.key # NoKey, a.day = day, a.call.op \notin LateErrors
        PROVE  RowKept(a)'
    <3>1. /\ keys[RowOfChange(a)].state # "free" /\ keys[RowOfChange(a)].day = day
          /\ \A j \in Attempts : Holds(j) /\ RowOf(j) = RowOfChange(a) => pc[j] = "done" /\ call[j] = a.call
      BY <2>1 DEF IInv, AppliedKeepsKey, RowKept
    <3>2. RowOfChange(a) # RowOf(i)
      BY <1>1, <1>2, <3>1
    <3>3. RowOfChange(a) \in Users \X Keys
      BY <2>1 DEF IInv, TypeOK, Call, RowOfChange
    <3>4. keys'[RowOfChange(a)] = keys[RowOfChange(a)]
      BY <1>1, <1>2, <3>2, <3>3
    <3>5. \A j \in Attempts : Holds(j)' /\ RowOf(j)' = RowOfChange(a) => pc'[j] = "done" /\ call[j] = a.call
      BY <1>4, <1>5, <3>1, <3>2
    <3> QED BY <1>1, <3>1, <3>4, <3>5 DEF RowKept, RowOfChange
  <2> QED BY <1>1, <2>1 DEF IInv, AppliedKeepsKey
<1> QED BY <1>7, <1>8, <1>9, <1>10, <1>11 DEF KeyParts
(* The end of an attempt, whatever it does to the keys: the attempt holds  *)
(* none any more, and no earlier answer changes.                           *)
LEMMA EndFacts ==
  ASSUME IInv, NEW i \in Attempts, NEW r \in [kind : Kinds, of : Attempts \cup {0}], End(i, r),
         pc[i] \notin {"new", "end"},
         r.kind = "replay" => /\ r.of \in Attempts /\ OwnAnswer(r.of)
                              /\ RowOf(r.of) = RowOf(i) /\ call[r.of].op = call[i].op
  PROVE  /\ ClaimIsKeyed' /\ AnsweredIsOver' /\ ReplayIsOwn'
         /\ \A j \in Attempts : RowOf(j)' = RowOf(j) /\ Keyed(j)' = Keyed(j)
         /\ \A j \in Attempts \ {i} : Holds(j)' = Holds(j) /\ pc'[j] = pc[j]
         /\ ~Holds(i)' /\ call' = call /\ reply' = [reply EXCEPT ![i] = r]
         /\ \A j \in Attempts : OwnAnswer(j) => j # i /\ OwnAnswer(j)'
<1>1. /\ call' = call /\ pc' = [pc EXCEPT ![i] = "end"] /\ reply' = [reply EXCEPT ![i] = r]
  BY DEF End
<1>2. pc \in [Attempts -> Phases] /\ reply \in [Attempts -> [kind : Kinds, of : Attempts \cup {0}]]
  BY DEF IInv, TypeOK
<1>3. reply[i].kind = "none"
  BY DEF IInv, AnsweredIsOver
<1>4. \A j \in Attempts : RowOf(j)' = RowOf(j) /\ Keyed(j)' = Keyed(j)
  BY <1>1 DEF RowOf, Keyed
<1>5. \A j \in Attempts \ {i} : Holds(j)' = Holds(j) /\ pc'[j] = pc[j] /\ reply'[j] = reply[j]
  BY <1>1, <1>2 DEF Holds, Keyed
<1>6. ~Holds(i)' /\ pc'[i] = "end" /\ reply'[i] = r
  BY <1>1, <1>2 DEF Holds
<1>7. \A j \in Attempts : OwnAnswer(j) => j # i /\ OwnAnswer(j)'
  BY <1>1, <1>3, <1>5 DEF OwnAnswer
<1>8. ClaimIsKeyed' /\ AnsweredIsOver'
  BY <1>1, <1>4, <1>5, <1>6 DEF IInv, ClaimIsKeyed, AnsweredIsOver
<1>9. ReplayIsOwn'
  <2>1. ASSUME NEW j \in Attempts, reply'[j].kind = "replay"
        PROVE  LET m == reply'[j].of
               IN  /\ m \in Attempts
                   /\ call[m].user = call[j].user /\ call[m].key = call[j].key
                   /\ call[m].op = call[j].op
                   /\ reply'[m].kind = IF call[m].dry THEN "dry" ELSE "applied"
    <3>1. CASE j = i
      <4>1. PICK m \in Attempts : m = r.of /\ OwnAnswer(m) /\ RowOf(m) = RowOf(i) /\ call[m].op = call[i].op
        BY <1>6, <2>1, <3>1
      <4>2. m = reply'[j].of /\ reply'[m] = reply[m]
        BY <1>5, <1>6, <1>7, <3>1, <4>1
      <4> QED BY <3>1, <4>1, <4>2 DEF OwnAnswer, RowOf
    <3>2. CASE j # i
      <4>1. PICK m \in Attempts : /\ m = reply[j].of /\ call[m].user = call[j].user /\ call[m].key = call[j].key
                                  /\ call[m].op = call[j].op /\ OwnAnswer(m)
        BY <1>5, <2>1, <3>2 DEF IInv, ReplayIsOwn, OwnAnswer
      <4>2. m = reply'[j].of /\ reply'[m] = reply[m]
        BY <1>5, <1>7, <3>2, <4>1
      <4> QED BY <4>1, <4>2 DEF OwnAnswer
    <3> QED BY <3>1, <3>2
  <2> QED BY <1>1, <2>1 DEF ReplayIsOwn
<1> QED BY <1>1, <1>4, <1>5, <1>6, <1>7, <1>8, <1>9

(* An attempt ends and the table of keys stays: it held no key, or it died.*)
LEMMA EndKeepsKeys ==
  ASSUME IInv, NEW i \in Attempts, NEW r \in [kind : Kinds, of : Attempts \cup {0}], End(i, r),
         pc[i] \notin {"new", "end"},
         r.kind = "replay" => /\ r.of \in Attempts /\ OwnAnswer(r.of)
                              /\ RowOf(r.of) = RowOf(i) /\ call[r.of].op = call[i].op,
         UNCHANGED <<keys, applied, day>>, faults' \in Nat, faults' >= faults, ~Holds(i) \/ faults' > 0
  PROVE  KeyParts' /\ AppliedKeepsKey'
<1>1. /\ ClaimIsKeyed' /\ AnsweredIsOver' /\ ReplayIsOwn'
      /\ \A j \in Attempts : RowOf(j)' = RowOf(j) /\ Keyed(j)' = Keyed(j)
      /\ \A j \in Attempts \ {i} : Holds(j)' = Holds(j) /\ pc'[j] = pc[j]
      /\ ~Holds(i)' /\ call' = call
      /\ \A j \in Attempts : OwnAnswer(j) => j # i /\ OwnAnswer(j)'
  BY EndFacts
<1>2. RowIsHeld'
  BY <1>1 DEF IInv, RowIsHeld
<1>3. ClaimedIsHeld'
  <2>1. faults \in Nat
    BY CeremonyAssumption DEF IInv, TypeOK
  <2>2. ASSUME NEW k \in Users \X Keys, keys[k].state = "claimed"
        PROVE  faults' > 0 \/ \E j \in Attempts : Holds(j)' /\ RowOf(j)' = k
    <3>1. faults > 0 \/ \E j \in Attempts : Holds(j) /\ RowOf(j) = k
      BY <2>2 DEF IInv, ClaimedIsHeld
    <3> QED BY <1>1, <2>1, <3>1
  <2> QED BY <2>2 DEF ClaimedIsHeld
<1>4. AnsweredByOwn'
  BY <1>1 DEF IInv, AnsweredByOwn, AnsweredBy
<1>5. AppliedKeepsKey'
  <2>1. ASSUME NEW a \in applied, RowKept(a)
        PROVE  RowKept(a)'
    BY <1>1, <2>1 DEF RowKept, RowOfChange
  <2> QED BY <2>1 DEF IInv, AppliedKeepsKey
<1> QED BY <1>1, <1>2, <1>3, <1>4, <1>5 DEF KeyParts
LEMMA TakenStep ==
  ASSUME IInv, NEW i \in Attempts, ClaimTaken(i)
  PROVE  KeyParts' /\ AppliedKeepsKey'
<1>1. /\ pc[i] = "claim" /\ UNCHANGED <<keys, applied, day, faults>>
      /\ IF keys[RowOf(i)].op = call[i].op /\ keys[RowOf(i)].state = "answered"
         THEN End(i, [kind |-> "replay", of |-> keys[RowOf(i)].by])
         ELSE Answer(i, "refused")
  BY DEF ClaimTaken, dbVars
<1>2. RowOf(i) \in Users \X Keys /\ ~Holds(i) /\ faults \in Nat
  BY <1>1, RowType, CeremonyAssumption DEF IInv, ClaimIsKeyed, Holds, TypeOK
<1>3. CASE keys[RowOf(i)].op = call[i].op /\ keys[RowOf(i)].state = "answered"
  <2>1. PICK j \in Attempts : /\ j = keys[RowOf(i)].by /\ RowOf(j) = RowOf(i)
                              /\ call[j].op = keys[RowOf(i)].op /\ OwnAnswer(j)
    BY <1>2, <1>3 DEF IInv, AnsweredByOwn, AnsweredBy
  <2> DEFINE r == [kind |-> "replay", of |-> j]
  <2>2. r \in [kind : Kinds, of : Attempts \cup {0}] /\ End(i, r) /\ r.of = j
    BY <1>1, <1>3, <2>1 DEF Kinds
  <2> HIDE DEF r
  <2> QED BY <1>1, <1>2, <1>3, <2>1, <2>2, EndKeepsKeys
<1>4. CASE ~(keys[RowOf(i)].op = call[i].op /\ keys[RowOf(i)].state = "answered")
  <2> DEFINE r == [kind |-> "refused", of |-> i]
  <2>1. r \in [kind : Kinds, of : Attempts \cup {0}] /\ End(i, r) /\ r.kind # "replay"
    BY <1>1, <1>4 DEF Kinds, Answer
  <2> HIDE DEF r
  <2> QED BY <1>1, <1>2, <2>1, EndKeepsKeys
<1> QED BY <1>3, <1>4

LEMMA DieStep ==
  ASSUME IInv, NEW i \in Attempts, Die(i)
  PROVE  KeyParts' /\ AppliedKeepsKey'
<1>1. NoReply \in [kind : Kinds, of : Attempts \cup {0}] /\ NoReply.kind # "replay"
  BY DEF NoReply, Kinds
<1>2. faults \in Nat
  BY CeremonyAssumption DEF IInv, TypeOK
<1>3. faults' \in Nat /\ faults' >= faults /\ faults' > 0
  BY <1>2 DEF Die
<1> QED BY <1>1, <1>3, EndKeepsKeys DEF Die, dbVars

(* An attempt that holds its key is the only one to.                       *)
LEMMA HoldsAlone ==
  ASSUME IInv, NEW i \in Attempts, NEW j \in Attempts, Holds(i), Holds(j), RowOf(i) = RowOf(j)
  PROVE  i = j
<1>1. /\ keys[RowOf(i)] = [state |-> "claimed", op |-> call[i].op, by |-> i, day |-> day]
      /\ keys[RowOf(j)] = [state |-> "claimed", op |-> call[j].op, by |-> j, day |-> day]
  BY DEF IInv, RowIsHeld
<1>2. keys[RowOf(i)].by = i /\ keys[RowOf(j)].by = j
  BY <1>1
<1> QED BY <1>2

(* An attempt that held its key, or had none, ends and its row changes:    *)
(* it holds its answer, or is gone.                                        *)
LEMMA EndMovesKey ==
  ASSUME IInv, NEW i \in Attempts, NEW r \in [kind : Kinds, of : Attempts \cup {0}], End(i, r),
         pc[i] \in {"done", "failed"}, r.kind # "replay", UNCHANGED <<applied, day, faults>>,
         \/ FinishKey(i) /\ r.kind = IF call[i].dry THEN "dry" ELSE "applied"
         \/ ReleaseKey(i) /\ (pc[i] = "done" => call[i].op \in LateErrors)
  PROVE  KeyParts' /\ AppliedKeepsKey'
<1>1. /\ ClaimIsKeyed' /\ AnsweredIsOver' /\ ReplayIsOwn'
      /\ \A j \in Attempts : RowOf(j)' = RowOf(j) /\ Keyed(j)' = Keyed(j)
      /\ \A j \in Attempts \ {i} : Holds(j)' = Holds(j) /\ pc'[j] = pc[j]
      /\ ~Holds(i)' /\ call' = call /\ reply' = [reply EXCEPT ![i] = r]
      /\ \A j \in Attempts : OwnAnswer(j) => j # i /\ OwnAnswer(j)'
  BY EndFacts
<1>2. CASE ~Keyed(i)
  <2>1. keys' = keys /\ ~Holds(i)
    BY <1>2 DEF FinishKey, ReleaseKey, Holds
  <2>2. faults \in Nat
    BY CeremonyAssumption DEF IInv, TypeOK
  <2> QED BY <2>1, <2>2, EndKeepsKeys
<1>3. CASE Keyed(i)
  <2>1. Holds(i) /\ RowOf(i) \in Users \X Keys
    BY <1>3, RowType DEF Holds, IInv
  <2>2. keys[RowOf(i)] = [state |-> "claimed", op |-> call[i].op, by |-> i, day |-> day]
    BY <2>1 DEF IInv, RowIsHeld
  <2>3. keys \in [Users \X Keys -> Rows]
    BY DEF IInv, TypeOK, Rows
  <2>4. \E x : /\ keys' = [keys EXCEPT ![RowOf(i)] = x]
               /\ \/ /\ x = [state |-> "answered", op |-> call[i].op, by |-> i, day |-> day]
                     /\ r.kind = IF call[i].dry THEN "dry" ELSE "applied"
                  \/ x = NoRow /\ (pc[i] = "done" => call[i].op \in LateErrors)
    <3>1. CASE FinishKey(i) /\ r.kind = IF call[i].dry THEN "dry" ELSE "applied"
      <4> DEFINE x == [keys[RowOf(i)] EXCEPT !.state = "answered", !.by = i]
      <4>1. x = [state |-> "answered", op |-> call[i].op, by |-> i, day |-> day]
        <5>1. keys[RowOf(i)] \in Rows /\ keys[RowOf(i)].op = call[i].op /\ keys[RowOf(i)].day = day
          BY <2>1, <2>2, <2>3
        <5> QED BY <5>1, AnsweredRow
      <4>2. keys' = [keys EXCEPT ![RowOf(i)] = x]
        BY <1>3, <2>1, <2>2, <2>3, <3>1 DEF FinishKey
      <4> QED BY <3>1, <4>1, <4>2
    <3>2. CASE ReleaseKey(i) /\ (pc[i] = "done" => call[i].op \in LateErrors)
      BY <1>3, <2>2, <3>2 DEF ReleaseKey
    <3> QED BY <3>1, <3>2
  <2>5. PICK x : /\ keys' = [keys EXCEPT ![RowOf(i)] = x]
                 /\ \/ /\ x = [state |-> "answered", op |-> call[i].op, by |-> i, day |-> day]
                       /\ r.kind = IF call[i].dry THEN "dry" ELSE "applied"
                    \/ x = NoRow /\ (pc[i] = "done" => call[i].op \in LateErrors)
    BY <2>4
  <2>6. keys'[RowOf(i)] = x /\ \A k \in (Users \X Keys) \ {RowOf(i)} : keys'[k] = keys[k]
    BY <2>1, <2>3, <2>5
  <2>7. RowIsHeld'
    <3>1. ASSUME NEW j \in Attempts, Holds(j)'
          PROVE  keys'[RowOf(j)] = [state |-> "claimed", op |-> call[j].op, by |-> j, day |-> day]
      <4>1. j # i /\ Holds(j)
        BY <1>1, <3>1
      <4>2. RowOf(j) # RowOf(i) /\ RowOf(j) \in Users \X Keys
        BY <2>1, <4>1, HoldsAlone, RowType DEF Holds, IInv
      <4> QED BY <2>6, <4>1, <4>2 DEF IInv, RowIsHeld
    <3> QED BY <1>1, <3>1 DEF RowIsHeld
  <2>8. ClaimedIsHeld'
    <3>1. ASSUME NEW k \in Users \X Keys, keys'[k].state = "claimed"
          PROVE  faults > 0 \/ \E j \in Attempts : Holds(j)' /\ RowOf(j)' = k
      <4>1. k # RowOf(i)
        BY <2>5, <2>6, <3>1 DEF NoRow
      <4>2. faults > 0 \/ \E j \in Attempts : Holds(j) /\ RowOf(j) = k
        BY <2>6, <3>1, <4>1 DEF IInv, ClaimedIsHeld
      <4> QED BY <1>1, <4>1, <4>2
    <3> QED BY <3>1 DEF ClaimedIsHeld
  <2>9. AnsweredByOwn'
    <3>1. ASSUME NEW k \in Users \X Keys, keys'[k].state = "answered"
          PROVE  AnsweredBy(k)'
      <4>1. CASE k = RowOf(i)
        <5>1. /\ keys'[k].by = i /\ keys'[k].op = call[i].op
              /\ r.kind = IF call[i].dry THEN "dry" ELSE "applied"
          BY <2>5, <2>6, <3>1, <4>1 DEF NoRow
        <5>2. OwnAnswer(i)'
          BY <1>1, <5>1 DEF OwnAnswer, IInv, TypeOK
        <5> QED BY <1>1, <1>3, <4>1, <5>1, <5>2 DEF AnsweredBy
      <4>2. CASE k # RowOf(i)
        <5>1. keys'[k] = keys[k]
          BY <2>6, <4>2
        <5>2. AnsweredBy(k)
          BY <3>1, <5>1 DEF IInv, AnsweredByOwn
        <5> QED BY <1>1, <5>1, <5>2 DEF AnsweredBy
      <4> QED BY <4>1, <4>2
    <3> QED BY <3>1 DEF AnsweredByOwn
  <2>10. AppliedKeepsKey'
    <3>1. ASSUME NEW a \in applied, a.call.key # NoKey, a.day = day, a.call.op \notin LateErrors
          PROVE  RowKept(a)'
      <4>1. RowKept(a)
        BY <3>1 DEF IInv, AppliedKeepsKey
      <4>2. RowOfChange(a) \in Users \X Keys
        BY <3>1 DEF IInv, TypeOK, Call, RowOfChange
      <4>3. keys'[RowOfChange(a)].state # "free" /\ keys'[RowOfChange(a)].day = day
        <5>1. CASE RowOfChange(a) = RowOf(i)
          <6>1. pc[i] = "done" /\ call[i] = a.call
            BY <2>1, <4>1, <5>1 DEF RowKept
          <6>2. x = [state |-> "answered", op |-> call[i].op, by |-> i, day |-> day]
            BY <2>5, <3>1, <6>1
          <6> QED BY <2>6, <5>1, <6>2
        <5>2. CASE RowOfChange(a) # RowOf(i)
          BY <2>6, <4>1, <4>2, <5>2 DEF RowKept
        <5> QED BY <5>1, <5>2
      <4>4. \A j \in Attempts : Holds(j)' /\ RowOf(j)' = RowOfChange(a) => pc'[j] = "done" /\ call[j] = a.call
        BY <1>1, <4>1 DEF RowKept
      <4> QED BY <1>1, <4>3, <4>4 DEF RowKept, RowOfChange
    <3> QED BY <3>1 DEF IInv, AppliedKeepsKey
  <2> QED BY <1>1, <2>7, <2>8, <2>9, <2>10 DEF KeyParts
<1> QED BY <1>2, <1>3

LEMMA AnswerStep ==
  ASSUME IInv, NEW i \in Attempts, Succeed(i) \/ SucceedUnstored(i) \/ Fail(i)
  PROVE  KeyParts' /\ AppliedKeepsKey'
<1>1. PICK k \in {"dry", "applied", "error", "refused"} :
         /\ Answer(i, k) /\ pc[i] \in {"done", "failed"} /\ UNCHANGED <<applied, day, faults>>
         /\ \/ FinishKey(i) /\ k = IF call[i].dry THEN "dry" ELSE "applied"
            \/ ReleaseKey(i) /\ (pc[i] = "done" => call[i].op \in LateErrors)
  BY DEF Succeed, SucceedUnstored, Fail
<1> DEFINE r == [kind |-> k, of |-> i]
<1>2. r \in [kind : Kinds, of : Attempts \cup {0}] /\ r.kind = k /\ End(i, r)
  BY <1>1 DEF Kinds, Answer
<1> HIDE DEF r
<1> QED BY <1>1, <1>2, EndMovesKey
(* The change is applied.  Nobody else holds its key, and no change of     *)
(* this window was applied under it.                                       *)
LEMMA ActKeys ==
  ASSUME IInv, NEW i \in Attempts, Act(i)
  PROVE  KeyParts' /\ AppliedKeepsKey' /\ ActsOnce'
<1>0. PICK new : new = [by |-> i, call |-> call[i], approved |-> read[i].hash,
                        code |-> IF NeedsTOTP(read[i].profile, call[i].who) THEN code[i] ELSE NoCode,
                        profile |-> profile, day |-> day]
  OBVIOUS
<1>1. /\ UNCHANGED <<call, reply, keys, day, faults>> /\ pc[i] = "act"
      /\ applied' = applied \cup {new} /\ pc' = [pc EXCEPT ![i] = "done"]
  BY <1>0 DEF Act, Effect
<1>2. pc \in [Attempts -> Phases] /\ day \in Nat
  BY DEF IInv, TypeOK
<1>3. \A j \in Attempts : RowOf(j)' = RowOf(j) /\ Keyed(j)' = Keyed(j) /\ Holds(j)' = Holds(j)
  BY <1>1, <1>2 DEF RowOf, Keyed, Holds
<1>4. ClaimIsKeyed' /\ RowIsHeld' /\ ClaimedIsHeld'
  BY <1>1, <1>2, <1>3 DEF IInv, ClaimIsKeyed, RowIsHeld, ClaimedIsHeld
<1>5. AnsweredByOwn' /\ AnsweredIsOver' /\ ReplayIsOwn'
  <2>1. AnsweredByOwn'
    BY <1>1, <1>3 DEF IInv, AnsweredByOwn, AnsweredBy, OwnAnswer
  <2>2. AnsweredIsOver'
    BY <1>1, <1>2 DEF IInv, AnsweredIsOver
  <2>3. ReplayIsOwn'
    BY <1>1 DEF IInv, ReplayIsOwn
  <2> QED BY <2>1, <2>2, <2>3
<1>6. new.call = call[i] /\ new.day = day
  BY <1>0
<1>7. ASSUME new.call.key # NoKey
      PROVE  RowKept(new)'
  <2>1. Holds(i) /\ RowOfChange(new) = RowOf(i)
    BY <1>1, <1>6, <1>7 DEF Holds, Keyed, RowOfChange, RowOf
  <2>2. keys[RowOf(i)] = [state |-> "claimed", op |-> call[i].op, by |-> i, day |-> day]
    BY <2>1 DEF IInv, RowIsHeld
  <2>3. keys[RowOf(i)].state # "free" /\ keys[RowOf(i)].day = day
    BY <2>2
  <2>4. \A j \in Attempts : Holds(j) /\ RowOf(j) = RowOf(i) => j = i
    BY <2>1, HoldsAlone
  <2>5. \A j \in Attempts : Holds(j)' /\ RowOf(j)' = RowOf(i) => pc'[j] = "done" /\ call'[j] = new.call
    BY <1>1, <1>2, <1>3, <1>6, <2>4
  <2> QED BY <1>1, <2>1, <2>3, <2>5 DEF RowKept, RowOfChange
<1>8. ASSUME NEW a \in applied, a.call.key # NoKey, a.day = day, a.call.op \notin LateErrors
      PROVE  RowKept(a)' /\ (Keyed(i) => RowOfChange(a) # RowOf(i))
  <2>1. RowKept(a)
    BY <1>8 DEF IInv, AppliedKeepsKey
  <2>2. Keyed(i) => RowOfChange(a) # RowOf(i)
    BY <1>1, <2>1 DEF RowKept, Holds
  <2> QED BY <1>1, <1>2, <1>3, <2>1, <2>2 DEF RowKept, RowOfChange
<1>9. AppliedKeepsKey'
  BY <1>1, <1>2, <1>6, <1>7, <1>8 DEF IInv, AppliedKeepsKey
<1>10. \A a \in applied : ~ /\ {a.call.op, new.call.op} \cap LateErrors = {}
                            /\ a.call.key # NoKey /\ a.call.key = new.call.key
                            /\ a.call.user = new.call.user /\ a.day = new.day
  BY <1>6, <1>8 DEF RowOfChange, RowOf, Keyed
<1>11. ActsOnce'
  BY <1>1, <1>10 DEF IInv, ActsOnce
<1> QED BY <1>4, <1>5, <1>9, <1>11 DEF KeyParts

(* Its preview and its code are spent with it.                             *)
LEMMA ActSpends ==
  ASSUME IInv, NEW i \in Attempts, Act(i)
  PROVE  CodesSpent' /\ PreviewsSpent' /\ ApprovedOnce'
<1>0. PICK new : new = [by |-> i, call |-> call[i], approved |-> read[i].hash,
                        code |-> IF NeedsTOTP(read[i].profile, call[i].who) THEN code[i] ELSE NoCode,
                        profile |-> profile, day |-> day]
  OBVIOUS
<1> DEFINE o == call[i].op
           u == call[i].user
           attested == NeedsTOTP(read[i].profile, call[i].who)
<1>1. /\ applied' = applied \cup {new}
      /\ rev' = [rev EXCEPT ![o] = @ + 1]
      /\ floor' = IF attested THEN [floor EXCEPT ![u] = code[i]] ELSE floor
      /\ read[i].hash = Render(o)
      /\ attested => CodeOK(code[i], read[i].now, floor[u])
  BY <1>0 DEF Act, Effect, Bound, CodePasses
<1>2. o \in Ops /\ u \in Users
  BY RowType DEF IInv
<1>3. /\ rev \in [Ops -> Nat] /\ floor \in [Users -> Nat \cup {-1}] /\ code[i] \in Nat \cup {-1}
      /\ \A a \in applied : /\ a.call.op \in Ops /\ a.call.user \in Users /\ a.approved \in Hashes
                            /\ a.code \in Nat \cup {-1}
  BY DEF IInv, TypeOK, NoCode, Call
<1>4. /\ new.call = call[i] /\ new.approved = [op |-> o, at |-> IF o \in Blind THEN 0 ELSE rev[o]]
      /\ new.code = IF attested THEN code[i] ELSE -1
  BY <1>0, <1>1 DEF Render, NoCode
<1>5. attested => code[i] > floor[u]
  BY <1>1 DEF CodeOK
<1>6. CodesSpent'
  <2>1. ASSUME NEW a \in applied PROVE a.code <= floor'[a.call.user]
    <3>1. a.code <= floor[a.call.user]
      BY DEF IInv, CodesSpent
    <3> QED BY <1>1, <1>2, <1>3, <1>5, <3>1
  <2>2. new.code <= floor'[new.call.user]
    BY <1>1, <1>2, <1>3, <1>4
  <2> QED BY <1>1, <2>1, <2>2 DEF CodesSpent
<1>7. PreviewsSpent'
  <2>1. ASSUME NEW a \in applied
        PROVE  a.approved.op = a.call.op /\ (a.call.op \notin Blind => a.approved.at < rev'[a.call.op])
    <3>1. a.approved.op = a.call.op /\ (a.call.op \notin Blind => a.approved.at < rev[a.call.op])
      BY DEF IInv, PreviewsSpent
    <3>2. a.approved.at \in Nat
      BY <1>3 DEF Hashes
    <3> QED BY <1>1, <1>2, <1>3, <3>1, <3>2
  <2>2. new.approved.op = new.call.op /\ (new.call.op \notin Blind => new.approved.at < rev'[new.call.op])
    BY <1>1, <1>2, <1>3, <1>4
  <2> QED BY <1>1, <2>1, <2>2 DEF PreviewsSpent
<1>8. ASSUME NEW a \in applied
      PROVE  /\ ~(a.call.op \notin Blind /\ a.approved = new.approved)
             /\ ~(new.call.op \notin Blind /\ a.approved = new.approved)
             /\ ~(a.call.user = new.call.user /\ a.code = new.code /\ a.code # NoCode)
  <2>1. a.approved.op = a.call.op /\ (a.call.op \notin Blind => a.approved.at < rev[a.call.op])
    BY DEF IInv, PreviewsSpent
  <2>2. a.code <= floor[a.call.user]
    BY DEF IInv, CodesSpent
  <2>3. a.approved = new.approved => a.call.op = o
    BY <1>4, <2>1
  <2>4. ~(o \notin Blind /\ a.approved = new.approved)
    BY <1>2, <1>3, <1>4, <2>1, <2>3
  <2>5. ~(a.call.user = new.call.user /\ a.code = new.code /\ a.code # NoCode)
    BY <1>2, <1>3, <1>4, <1>5, <2>2 DEF NoCode
  <2> QED BY <1>4, <2>3, <2>4, <2>5
<1>9. ApprovedOnce'
  BY <1>1, <1>8 DEF IInv, ApprovedOnce, OnePerPreview, CodeOnce
<1> QED BY <1>6, <1>7, <1>9

(* A window passes, with nobody in flight.                                 *)
LEMMA DayStep ==
  ASSUME IInv, DayPasses
  PROVE  KeyParts' /\ AppliedKeepsKey'
<1>1. /\ UNCHANGED <<pc, call, reply, applied, faults>> /\ day' = day + 1
      /\ \A j \in Attempts : ~InFlight(j)
  BY DEF DayPasses
<1>2. day \in Nat /\ keys \in [Users \X Keys -> Rows]
  BY DEF IInv, TypeOK, Rows
<1>3. \A k \in Users \X Keys : keys'[k] = keys[k] \/ keys'[k] = NoRow
  BY <1>2 DEF DayPasses
<1>4. \A j \in Attempts : ~Holds(j) /\ ~Holds(j)'
  BY <1>1 DEF Holds, InFlight
<1>5. \A j \in Attempts : RowOf(j)' = RowOf(j) /\ Keyed(j)' = Keyed(j) /\ OwnAnswer(j)' = OwnAnswer(j)
  BY <1>1 DEF RowOf, Keyed, OwnAnswer
<1>6. ClaimIsKeyed' /\ RowIsHeld' /\ AnsweredIsOver' /\ ReplayIsOwn'
  BY <1>1, <1>4, <1>5 DEF IInv, ClaimIsKeyed, RowIsHeld, AnsweredIsOver, ReplayIsOwn
<1>7. ClaimedIsHeld'
  BY <1>1, <1>3, <1>4 DEF IInv, ClaimedIsHeld, NoRow
<1>8. AnsweredByOwn'
  BY <1>1, <1>3, <1>5 DEF IInv, AnsweredByOwn, AnsweredBy, NoRow
<1>9. AppliedKeepsKey'
  <2>1. \A a \in applied : a.day <= day /\ a.day \in Nat
    BY DEF IInv, AppliedKeepsKey, TypeOK
  <2>2. \A a \in applied : a.day <= day' /\ a.day # day'
    BY <1>1, <1>2, <2>1
  <2> QED BY <1>1, <2>2 DEF AppliedKeepsKey
<1> QED BY <1>6, <1>7, <1>8, <1>9 DEF KeyParts

-----------------------------------------------------------------------------
(* The theorems.                                                           *)

LEMMA InvInit == Init => IInv
<1> SUFFICES ASSUME Init PROVE IInv
  OBVIOUS
<1>1. (CHOOSE c \in Calls : TRUE) \in Call
  BY CeremonyAssumption
<1>2. TypeOK
  <2>1. pc \in [Attempts -> Phases] /\ call \in [Attempts -> Call]
    BY <1>1 DEF Init, Phases
  <2>2. read \in [Attempts -> ReadsT] /\ reply \in [Attempts -> [kind : Kinds, of : Attempts \cup {0}]]
    BY DEF Init, ReadsT, NoRead, NoReply, Kinds
  <2>3. keys \in [Users \X Keys -> Rows]
    BY DEF Init, Rows, NoRow
  <2>4. /\ day \in 0..MaxDays /\ faults \in 0..MaxFaults /\ clock \in Nat \ {0}
        /\ floor \in [Users -> Nat \cup {-1}] /\ rev \in [Ops -> Nat]
    BY CeremonyAssumption DEF Init
  <2> QED BY <2>1, <2>2, <2>3, <2>4 DEF Init, TypeOK, Rows, ReadsT
<1>3. ClaimIsKeyed /\ RowIsHeld /\ AnsweredIsOver /\ ReplayIsOwn
  BY DEF Init, ClaimIsKeyed, RowIsHeld, Holds, AnsweredIsOver, ReplayIsOwn, NoReply
<1>4. ClaimedIsHeld /\ AnsweredByOwn
  BY DEF Init, ClaimedIsHeld, AnsweredByOwn, NoRow
<1>5. AppliedKeepsKey /\ CodesSpent /\ PreviewsSpent /\ ActsOnce /\ ApprovedOnce
  BY DEF Init, AppliedKeepsKey, CodesSpent, PreviewsSpent, ActsOnce, ApprovedOnce, OnePerPreview, CodeOnce
<1> QED BY <1>2, <1>3, <1>4, <1>5 DEF IInv

LEMMA InvStep == IInv /\ [Next]_vars => IInv'
<1> SUFFICES ASSUME IInv, [Next]_vars PROVE IInv'
  OBVIOUS
<1>1. TypeOK'
  BY TypeStep DEF IInv
<1>2. KeyParts' /\ AppliedKeepsKey'
  <2>1. CASE Tick \/ UNCHANGED vars
    <3>1. UNCHANGED <<pc, call, reply, keys, applied, day, faults>>
      BY <2>1 DEF Tick, vars, dbVars
    <3>2. \A j \in Attempts : RowOf(j)' = RowOf(j) /\ Keyed(j)' = Keyed(j) /\ Holds(j)' = Holds(j)
                              /\ OwnAnswer(j)' = OwnAnswer(j)
      BY <3>1 DEF RowOf, Keyed, Holds, OwnAnswer
    <3>3. ClaimIsKeyed' /\ RowIsHeld' /\ ClaimedIsHeld' /\ AnsweredIsOver' /\ ReplayIsOwn'
      BY <3>1, <3>2 DEF IInv, ClaimIsKeyed, RowIsHeld, ClaimedIsHeld, AnsweredIsOver, ReplayIsOwn
    <3>4. AnsweredByOwn'
      BY <3>1, <3>2 DEF IInv, AnsweredByOwn, AnsweredBy
    <3>5. AppliedKeepsKey'
      <4>1. ASSUME NEW a \in applied, RowKept(a)
            PROVE  RowKept(a)'
        BY <3>1, <3>2, <4>1 DEF RowKept, RowOfChange
      <4> QED BY <3>1, <4>1 DEF IInv, AppliedKeepsKey
    <3> QED BY <3>3, <3>4, <3>5 DEF KeyParts
  <2> QED BY <2>1, SendStep, ClaimStep, TakenStep, MoveStep, ActKeys, AnswerStep, DieStep, DayStep
      DEF Next, Step
<1>3. CodesSpent' /\ PreviewsSpent' /\ ApprovedOnce' /\ ActsOnce'
  <2>1. CASE \E i \in Attempts : Act(i)
    BY <2>1, ActSpends, ActKeys
  <2>2. CASE UNCHANGED <<rev, floor, applied>>
    BY <2>2 DEF IInv, CodesSpent, PreviewsSpent, ApprovedOnce, OnePerPreview, CodeOnce, ActsOnce
  <2>3. (\E i \in Attempts : Act(i)) \/ UNCHANGED <<rev, floor, applied>>
    BY DEF Next, Step, Send, Claim, ClaimTaken, ReadProfile, Preview, ActFails, Succeed,
           SucceedUnstored, Fail, Die, Tick, DayPasses, vars, dbVars
  <2> QED BY <2>1, <2>2, <2>3
<1> QED BY <1>1, <1>2, <1>3 DEF IInv, KeyParts

LEMMA InvCorrect == Spec => []IInv
  BY InvInit, InvStep, PTL DEF Spec

(* Of the attempts a caller makes with one idempotency key in one window,  *)
(* at most one is applied (the run's ActsOnce), whoever died in between.   *)
THEOREM ActsOnceCorrect == Spec => []ActsOnce
<1>1. IInv => ActsOnce
  BY DEF IInv
<1> QED BY <1>1, InvCorrect, PTL

(* A preview and a code approve one change (the run's ApprovedOnce).       *)
THEOREM ApprovedOnceCorrect == Spec => []ApprovedOnce
<1>1. IInv => ApprovedOnce
  BY DEF IInv
<1> QED BY <1>1, InvCorrect, PTL

(* What a key stands for is one caller's one request (the run's KeyIsOwn): *)
(* a replay is of its own answer, and a key in flight is of one live       *)
(* attempt, or of one that died.                                           *)
THEOREM KeyIsOwnCorrect == Spec => []KeyIsOwn
<1>1. IInv => KeyIsOwn
  <2> SUFFICES ASSUME IInv PROVE KeyIsOwn
    OBVIOUS
  <2>1. ASSUME NEW k \in DOMAIN keys
        PROVE  LET owners == {i \in Attempts : /\ pc[i] \in {"read", "preview", "act", "done", "failed"}
                                               /\ Keyed(i) /\ RowOf(i) = k}
               IN  /\ Cardinality(owners) <= 1
                   /\ keys[k].state = "claimed" /\ owners = {} => faults > 0
    <3> DEFINE owners == {i \in Attempts : /\ pc[i] \in {"read", "preview", "act", "done", "failed"}
                                           /\ Keyed(i) /\ RowOf(i) = k}
    <3>1. \A i \in owners : i \in Attempts /\ Holds(i) /\ RowOf(i) = k
      BY DEF Holds
    <3>2. Cardinality(owners) <= 1
      <4>1. CASE owners = {}
        BY <4>1, FS_EmptySet
      <4>2. ASSUME NEW i \in owners PROVE Cardinality(owners) <= 1
        <5>1. owners = {i}
          BY <3>1, <4>2, HoldsAlone
        <5>2. Cardinality({i}) = 1
          BY FS_Singleton, Zenon
        <5> HIDE DEF owners
        <5> QED BY <5>1, <5>2
      <4> QED BY <4>1, <4>2
    <3>3. k \in Users \X Keys
      BY DEF IInv, TypeOK
    <3>4. keys[k].state = "claimed" /\ owners = {} => faults > 0
      BY <3>3 DEF IInv, ClaimedIsHeld, Holds
    <3> QED BY <3>2, <3>4
  <2> QED BY <2>1 DEF IInv, KeyIsOwn, ClaimHasOwner
<1> QED BY <1>1, InvCorrect, PTL

-----------------------------------------------------------------------------
(* Verification of the trail.                                              *)

(* The lines a file or a table may hold: what an installation wrote, what  *)
(* somebody made of it, and what ParseLine refuses.                        *)
Records ==
  UNION {{Genuine(n), Altered(n), Alien(n)} \cup {Rewritten(n, k) : k \in 1..n} : n \in Nat \ {0}}
Lines == Records \cup {Unreadable}

Verdicts == {"none", "ok", "unreadable", "altered", "out of order", "mixed", "not anchored",
             "not genesis", "gap", "broken"}
Walks ==
  [src : {"rows", "file"}, genesis : BOOLEAN, anchor : Int, pos : Nat,
   pending : SUBSET Records, prev : Records \cup {Genuine(0)}, next : Nat, started : BOOLEAN,
   bad : BOOLEAN, paused : BOOLEAN, eof : BOOLEAN, verdict : Verdicts,
   first : Records \cup {Genuine(0)}, fragment : BOOLEAN]

Extends(ln, rd) == Len(rd) <= Len(ln) /\ \A i \in DOMAIN rd : ln[i] = rd[i]

(* No line that may yet be read makes one chain of it.                     *)
Hopeless(rd, genesis, anchor) ==
  \A ln \in Seq(Lines) : Extends(ln, rd) => ~Intact(ln, genesis, anchor)

AllTrue(S) == \A x \in S : x.true

Window(w) ==
  /\ IsFiniteSet(w.pending) /\ Cardinality(w.pending) <= ReorderWindow
  /\ \A r, q \in w.pending : r.seq = q.seq => r = q

(* Where the walk is in its chain.                                         *)
Placed(w, S) ==
  /\ w.pending \subseteq S
  /\ w.paused => w.bad
  /\ w.bad => Unreadable \in S
  /\ w.started => /\ w.first \in S /\ w.first \in Records /\ w.next >= w.first.seq
                  /\ \A r \in w.pending : r.seq >= w.next
                  /\ w.next = w.first.seq => w.first \in w.pending /\ Filled(w)
                  /\ w.next # w.first.seq => /\ w.prev \in S /\ w.prev \in Records
                                             /\ w.prev.seq = w.next - 1

(* A record that is not what it says is never let through.                 *)
Untrusted(w, S) == AllTrue(S) \/ w.bad \/ \E x \in w.pending : ~x.true

HeldAbove(w, S) ==
  {q.seq : q \in {x \in S : x.seq >= IF w.next = w.first.seq THEN w.next ELSE w.next - 1}}

BeginsRight(f, genesis, anchor) ==
  IF anchor >= 0 THEN f.seq = anchor + 1 /\ f.prev = Own(anchor)
  ELSE (f.seq = 1 \/ genesis) => (f.seq = 1 /\ f.prev = Own(0))

(* What was taken is one chain, what waits comes after it, and no line     *)
(* came too late.                                                          *)
TakenSound(w, S) ==
  /\ BeginsRight(w.first, w.genesis, w.anchor)
  /\ \A r \in S : w.first.seq <= r.seq /\ (r.seq >= w.next => r \in w.pending)
  /\ \A r \in S : r.seq < w.next =>
       /\ r.install = w.first.install
       /\ r = w.first \/ \E q \in S : r.seq = q.seq + 1 /\ r.prev = q.hash
  /\ w.eof \/ ReorderWindow <= Cardinality(HeldAbove(w, S))

SoundSoFar(w, rd) ==
  /\ \A r, q \in RangeOf(rd) : r.seq = q.seq => r = q
  /\ ~w.started => RangeOf(rd) = w.pending
  /\ w.started => TakenSound(w, RangeOf(rd))
  /\ InWindow(rd)

Underway(w, rd) ==
  /\ Window(w) /\ Placed(w, RangeOf(rd)) /\ Untrusted(w, RangeOf(rd))
  /\ AllTrue(RangeOf(rd)) => SoundSoFar(w, rd)

Judged(w, rd) ==
  /\ w.verdict = "ok" => w.eof /\ Intact(rd, w.genesis, w.anchor)
  /\ w.verdict \notin {"none", "ok"} =>
       /\ ~Intact(rd, w.genesis, w.anchor)
       /\ ~w.eof => Hopeless(rd, w.genesis, w.anchor)

WalkInv(w, rd) ==
  /\ w \in Walks /\ rd \in Seq(Lines)
  /\ w.verdict = "none" => Underway(w, rd)
  /\ Judged(w, rd)

-----------------------------------------------------------------------------
Genuines(m, n) == {Genuine(i) : i \in m..n}
Walking == vcmd.at \in {"chain", "file"}

RowsSound ==
  /\ vrows \subseteq Records /\ IsFiniteSet(vrows)
  /\ \A r, q \in vrows : r.seq = q.seq => r = q
  /\ \A r \in vrows : r.seq <= vtip
  /\ vdamage.done = 0 => vrows = Genuines(vcut + 1, vtip)
  /\ ~vdamage.pruned => vcut = 0

FileSound ==
  /\ vfile \in Seq(Lines)
  /\ vdamage.done = 0 => RangeOf(vfile) \subseteq Genuines(1, vtip)

SnapSound ==
  /\ vcmd.snap \subseteq Records /\ IsFiniteSet(vcmd.snap)
  /\ \A r, q \in vcmd.snap : r.seq = q.seq => r = q
  /\ vdamage.done = 0 => vcmd.snap \subseteq Genuines(1, vtip)
  /\ vdamage.still => vcmd.snap = vrows

(* The walk under way, and the lines it has read of its source.            *)
WalkSound ==
  Walking =>
    /\ vwalk.pos <= Len(Source)
    /\ WalkInv(vwalk, SubSeq(Source, 1, vwalk.pos))

ChainWalk ==
  vcmd.at = "chain" =>
    /\ vcmd.db /\ vwalk.src = "rows" /\ vcmd.file = "none" /\ vcmd.cmp = "none"
    /\ vwalk.eof => vwalk.pos = Len(Source)
    /\ vdamage.still => /\ vwalk.genesis = (vcut = 0)
                        /\ vwalk.anchor = IF vcut = 0 THEN -1 ELSE vcut

FileWalk ==
  vcmd.at = "file" =>
    /\ vcmd.mirror /\ vwalk.src = "file" /\ ~vwalk.genesis /\ vwalk.anchor = vcmd.anchor
    /\ vcmd.file = "none" /\ vcmd.cmp = "none"
    /\ vwalk.eof /\ (vdamage.still \/ vdamage.done > 0) => vwalk.pos = Len(vfile)
    /\ vwalk.fragment => vwalk.first \in RangeOf(vfile)

(* Records deleted show.                                                   *)
NoneDeleted ==
  /\ SeqsOf(vrows) = {n \in (vcut + 1)..vtip : \E r \in vrows : r.seq >= n}
  /\ vtip > 0 => vrows /= {}

Gapless == \A n \in 1..vtip : (\E i \in DOMAIN vfile : vfile[i].seq > n) =>
                              (\E i \in DOMAIN vfile : vfile[i].seq = n)

ChainKept ==
  vcmd.at \in {"file", "compare", "done"} =>
    /\ ~vcmd.db => vcmd.chain = "none"
    /\ vcmd.chain = "ok" /\ vdamage.still => NoneDeleted
    /\ vdamage.still /\ vdamage.done = 0 /\ ~vdamage.pruned => vcmd.chain \in {"none", "ok"}

FileKept ==
  vcmd.at \in {"compare", "done"} =>
    /\ vcmd.mirror => vcmd.file # "none"
    /\ ~vcmd.mirror => vcmd.file = "none"
    /\ vcmd.file = "ok" /\ vdamage.done > 0 => InWindow(vfile)
    /\ (vdamage.still /\ vdamage.done = 0 /\ vcmd.anchor = -1 /\ InWindow(vfile) /\ Gapless)
         => vcmd.file \in {"none", "ok"}

Compared ==
  /\ vcmd.at = "compare" => vcmd.db /\ vcmd.mirror /\ vcmd.file = "ok" /\ vcmd.cmp = "none"
  /\ vcmd.at = "done" =>
       /\ vcmd.cmp = "none" => ~(vcmd.db /\ vcmd.mirror /\ vcmd.file = "ok")
       /\ (vcmd.cmp # "none" /\ (vdamage.still \/ vdamage.done > 0)) =>
            vcmd.cmp = Compare(vcmd.snap, bySequence(vfile))

VerifyTyped ==
  /\ vcut \in Nat /\ vtip \in Nat /\ vcut <= vtip
  /\ vdamage \in [done : Nat, still : BOOLEAN, pruned : BOOLEAN]
  /\ vcmd \in [at : {"idle", "chain", "file", "compare", "done"}, mirror : BOOLEAN, db : BOOLEAN,
               anchor : Int, chain : Verdicts, file : Verdicts,
               cmp : {"none", "ok", "installs", "diverged", "ahead"}, snap : SUBSET Records]

VerifyInv ==
  /\ VerifyTyped /\ RowsSound /\ FileSound
  /\ vcmd.at # "idle" => SnapSound
  /\ WalkSound /\ ChainWalk /\ FileWalk /\ ChainKept /\ FileKept /\ Compared

-----------------------------------------------------------------------------
(* What is known of a line.                                                *)

LEMMA LineFacts ==
  /\ \A r \in Records : /\ r.seq \in Nat \ {0} /\ r.true \in BOOLEAN /\ r # Unreadable
  /\ Unreadable.true = FALSE /\ Unreadable.seq = 0 /\ Unreadable \notin Records
  /\ Genuine(0).true /\ Genuine(0).seq = 0
  /\ Records \subseteq Lines /\ Unreadable \in Lines
<1>1. ASSUME NEW r \in Records
      PROVE  r.seq \in Nat \ {0} /\ r.true \in BOOLEAN
  <2>1. PICK n \in Nat \ {0} : \/ r \in {Genuine(n), Altered(n), Alien(n)}
                               \/ \E k \in 1..n : r = Rewritten(n, k)
    BY <1>1 DEF Records
  <2>2. Genuine(n).seq = n /\ Altered(n).seq = n /\ Alien(n).seq = n
        /\ Genuine(n).true = TRUE /\ Altered(n).true = FALSE /\ Alien(n).true = TRUE
    BY DEF Genuine, Altered, Alien, Line
  <2>3. \A k \in 1..n : Rewritten(n, k).seq = n /\ Rewritten(n, k).true = TRUE
    BY DEF Rewritten, Line
  <2> QED BY <2>1, <2>2, <2>3
<1>2. Unreadable.true = FALSE /\ Unreadable.seq = 0 /\ Genuine(0).true /\ Genuine(0).seq = 0
  BY DEF Unreadable, Genuine, Line
<1> QED BY <1>1, <1>2 DEF Lines

(* A hash that holds says which record it is.                              *)
LEMMA HashNames ==
  ASSUME NEW r \in Records, NEW q \in Records, r.true, q.true, r.hash = q.hash
  PROVE  r = q
<1>1. \A x \in Records : x.true =>
        \E n \in Nat \ {0} : x = Genuine(n) \/ x = Alien(n) \/ \E k \in 1..n : x = Rewritten(n, k)
  <2> SUFFICES ASSUME NEW x \in Records, x.true
               PROVE  \E n \in Nat \ {0} : x = Genuine(n) \/ x = Alien(n)
                                           \/ \E k \in 1..n : x = Rewritten(n, k)
    OBVIOUS
  <2>1. PICK n \in Nat \ {0} : \/ x \in {Genuine(n), Altered(n), Alien(n)}
                               \/ \E k \in 1..n : x = Rewritten(n, k)
    BY DEF Records
  <2>2. Altered(n).true = FALSE
    BY DEF Altered, Line
  <2> QED BY <2>1, <2>2
<1>2. \A n \in Nat \ {0} :
        /\ Genuine(n).hash = <<n, 0>> /\ Alien(n).hash = <<n, -1>>
        /\ \A k \in 1..n : Rewritten(n, k).hash = <<n, k>>
  BY DEF Genuine, Alien, Rewritten, Line, Own, RewrittenHash, ForeignHash
<1>3. PICK n \in Nat \ {0} : r = Genuine(n) \/ r = Alien(n) \/ \E k \in 1..n : r = Rewritten(n, k)
  BY <1>1
<1>4. PICK m \in Nat \ {0} : q = Genuine(m) \/ q = Alien(m) \/ \E k \in 1..m : q = Rewritten(m, k)
  BY <1>1
<1>5. m = n
  BY <1>2, <1>3, <1>4
<1>6. PICK i \in Int : /\ r.hash = <<n, i>>
                       /\ \/ i = 0 /\ r = Genuine(n)
                          \/ i = -1 /\ r = Alien(n)
                          \/ i \in 1..n /\ r = Rewritten(n, i)
  BY <1>2, <1>3
<1>7. PICK j \in Int : /\ q.hash = <<n, j>>
                       /\ \/ j = 0 /\ q = Genuine(n)
                          \/ j = -1 /\ q = Alien(n)
                          \/ j \in 1..n /\ q = Rewritten(n, j)
  BY <1>2, <1>4, <1>5
<1>8. i = j
  <2>1. <<n, i>> = <<n, j>>
    BY <1>6, <1>7
  <2>2. <<n, i>>[2] = i /\ <<n, j>>[2] = j
    OBVIOUS
  <2> QED BY <2>1, <2>2
<1> QED BY <1>6, <1>7, <1>8

-----------------------------------------------------------------------------
(* Sequences of lines, read one at a time.                                 *)

LEMMA RangeFacts ==
  ASSUME NEW rd \in Seq(Lines)
  PROVE  /\ DOMAIN rd = 1..Len(rd) /\ Len(rd) \in Nat
         /\ RangeOf(rd) \subseteq Lines /\ IsFiniteSet(RangeOf(rd))
         /\ \A i \in DOMAIN rd : rd[i] \in RangeOf(rd)
         /\ \A x \in RangeOf(rd) : \E i \in 1..Len(rd) : rd[i] = x
<1>1. DOMAIN rd = 1..Len(rd) /\ Len(rd) \in Nat /\ \A i \in 1..Len(rd) : rd[i] \in Lines
  OBVIOUS
<1>2. rd \in Surjection(1..Len(rd), RangeOf(rd))
  <2>1. rd \in [1..Len(rd) -> RangeOf(rd)]
    BY <1>1 DEF RangeOf
  <2>2. \A x \in RangeOf(rd) : \E i \in 1..Len(rd) : rd[i] = x
    BY <1>1 DEF RangeOf
  <2> QED BY <2>1, <2>2 DEF Surjection
<1>3. IsFiniteSet(1..Len(rd))
  BY <1>1, FS_Interval
<1>4. IsFiniteSet(RangeOf(rd))
  BY <1>2, <1>3, FS_Surjection
<1> QED BY <1>1, <1>4 DEF RangeOf

LEMMA OneMore ==
  ASSUME NEW rd \in Seq(Lines), NEW r \in Lines
  PROVE  /\ Append(rd, r) \in Seq(Lines) /\ Len(Append(rd, r)) = Len(rd) + 1
         /\ Append(rd, r)[Len(rd) + 1] = r
         /\ \A i \in 1..Len(rd) : Append(rd, r)[i] = rd[i]
         /\ RangeOf(Append(rd, r)) = RangeOf(rd) \cup {r}
         /\ Extends(Append(rd, r), rd)
<1> DEFINE t == Append(rd, r)
<1>1. /\ t \in Seq(Lines) /\ Len(t) = Len(rd) + 1 /\ Len(rd) \in Nat
      /\ DOMAIN t = 1..(Len(rd) + 1) /\ DOMAIN rd = 1..Len(rd)
      /\ t[Len(rd) + 1] = r /\ \A i \in 1..Len(rd) : t[i] = rd[i]
  OBVIOUS
<1> HIDE DEF t
<1>2. \A i \in DOMAIN t : i \in DOMAIN rd \/ i = Len(rd) + 1
  BY <1>1
<1>3. DOMAIN rd \subseteq DOMAIN t /\ Len(rd) + 1 \in DOMAIN t
  BY <1>1
<1>4. RangeOf(t) = RangeOf(rd) \cup {r}
  BY <1>1, <1>2, <1>3 DEF RangeOf
<1> QED BY <1>1, <1>4 DEF t, Extends

LEMMA OneMoreRead ==
  ASSUME NEW ln \in Seq(Lines), NEW k \in 0..(Len(ln) - 1)
  PROVE  /\ ln[k + 1] \in Lines
         /\ SubSeq(ln, 1, k + 1) = Append(SubSeq(ln, 1, k), ln[k + 1])
         /\ SubSeq(ln, 1, k) \in Seq(Lines)
  OBVIOUS

LEMMA WholeRead ==
  ASSUME NEW ln \in Seq(Lines), NEW k \in 0..Len(ln)
  PROVE  /\ SubSeq(ln, 1, k) \in Seq(Lines) /\ Extends(ln, SubSeq(ln, 1, k))
         /\ k = Len(ln) => SubSeq(ln, 1, k) = ln
         /\ k = 0 => SubSeq(ln, 1, k) = <<>>
<1>1. /\ SubSeq(ln, 1, k) \in Seq(Lines) /\ Len(SubSeq(ln, 1, k)) = k
      /\ DOMAIN SubSeq(ln, 1, k) = 1..k /\ Len(ln) \in Nat
      /\ \A i \in 1..k : SubSeq(ln, 1, k)[i] = ln[i]
  OBVIOUS
<1>2. Extends(ln, SubSeq(ln, 1, k))
  BY <1>1 DEF Extends
<1> QED BY <1>1, <1>2

LEMMA Joined ==
  ASSUME NEW s \in Seq(Lines), NEW t \in Seq(Lines)
  PROVE  RangeOf(s \o t) \subseteq RangeOf(s) \cup RangeOf(t)
<1>1. ASSUME NEW i \in DOMAIN (s \o t) PROVE (s \o t)[i] \in RangeOf(s) \cup RangeOf(t)
  <2>1. /\ DOMAIN (s \o t) = 1..(Len(s) + Len(t)) /\ Len(s) \in Nat /\ Len(t) \in Nat
        /\ DOMAIN s = 1..Len(s) /\ DOMAIN t = 1..Len(t)
    OBVIOUS
  <2>2. CASE i <= Len(s)
    <3>1. i \in DOMAIN s /\ (s \o t)[i] = s[i]
      BY <1>1, <2>1, <2>2
    <3> QED BY <3>1 DEF RangeOf
  <2>3. CASE i > Len(s)
    <3>1. i - Len(s) \in DOMAIN t /\ (s \o t)[i] = t[i - Len(s)]
      BY <1>1, <2>1, <2>3
    <3> QED BY <3>1 DEF RangeOf
  <2> QED BY <1>1, <2>1, <2>2, <2>3
<1> QED BY <1>1 DEF RangeOf

(* What a longer reading holds beyond a shorter one comes after it.        *)
LEMMA RangeGrows ==
  ASSUME NEW rd \in Seq(Lines), NEW ln \in Seq(Lines), Extends(ln, rd)
  PROVE  /\ RangeOf(rd) \subseteq RangeOf(ln)
         /\ \A x \in RangeOf(ln) \ RangeOf(rd) : \E j \in DOMAIN ln : ln[j] = x /\ j > Len(rd)
<1>1. DOMAIN rd \subseteq DOMAIN ln /\ \A i \in DOMAIN rd : ln[i] = rd[i]
  BY RangeFacts DEF Extends
<1>2. ASSUME NEW x \in RangeOf(ln), x \notin RangeOf(rd)
      PROVE  \E j \in DOMAIN ln : ln[j] = x /\ j > Len(rd)
  <2>1. PICK j \in DOMAIN ln : ln[j] = x
    BY <1>2 DEF RangeOf
  <2>2. j \notin DOMAIN rd
    BY <1>1, <1>2, <2>1 DEF RangeOf
  <2> QED BY <2>1, <2>2, RangeFacts
<1> QED BY <1>1, <1>2 DEF RangeOf

(* The sequence numbers above a line that were read before it.             *)
Passed(ln, j) == {ln[k].seq : k \in {m \in 1..(j - 1) : ln[m].seq > ln[j].seq}}

LEMMA PassedFinite ==
  ASSUME NEW ln \in Seq(Lines), NEW j \in DOMAIN ln
  PROVE  IsFiniteSet(Passed(ln, j)) /\ Passed(ln, j) \subseteq {x.seq : x \in RangeOf(ln)}
<1> DEFINE D == {m \in 1..(j - 1) : ln[m].seq > ln[j].seq}
           f == [m \in D |-> ln[m].seq]
<1>1. IsFiniteSet(D)
  <2>1. j \in Int /\ IsFiniteSet(1..(j - 1))
    <3>1. j \in Nat
      BY RangeFacts
    <3> QED BY <3>1, FS_Interval
  <2> QED BY <2>1, FS_Subset
<1>2. f \in Surjection(D, Passed(ln, j))
  BY DEF Surjection, Passed
<1>3. IsFiniteSet(Passed(ln, j))
  BY <1>1, <1>2, FS_Surjection
<1>4. Passed(ln, j) \subseteq {x.seq : x \in RangeOf(ln)}
  <2>1. \A m \in 1..(j - 1) : m \in DOMAIN ln
    BY RangeFacts
  <2> QED BY <2>1 DEF Passed, RangeOf
<1> QED BY <1>3, <1>4

LEMMA OutOfWindow ==
  ASSUME NEW ln \in Seq(Lines), NEW j \in DOMAIN ln, NEW T, IsFiniteSet(T),
         ReorderWindow <= Cardinality(T),
         \A t \in T : \E k \in 1..(j - 1) : ln[k].seq = t /\ t > ln[j].seq
  PROVE  ~InWindow(ln)
<1>1. T \subseteq Passed(ln, j)
  BY DEF Passed
<1>2. Cardinality(T) <= Cardinality(Passed(ln, j))
  BY <1>1, PassedFinite, FS_Subset
<1>3. Cardinality(T) \in Nat /\ Cardinality(Passed(ln, j)) \in Nat
  BY PassedFinite, FS_CardinalityType
<1>4. ~(Cardinality(Passed(ln, j)) < ReorderWindow)
  BY <1>2, <1>3, AuditVerifyAssumption
<1> QED BY <1>4 DEF InWindow, Passed

LEMMA WindowGrows ==
  ASSUME NEW rd \in Seq(Lines), NEW r \in Lines, InWindow(rd),
         NEW T, IsFiniteSet(T), Cardinality(T) < ReorderWindow,
         \A x \in RangeOf(rd) : x.seq > r.seq => x.seq \in T
  PROVE  InWindow(Append(rd, r))
<1> DEFINE t == Append(rd, r)
           n == Len(rd) + 1
<1>1. /\ t \in Seq(Lines) /\ Len(t) = n /\ t[n] = r /\ \A i \in 1..Len(rd) : t[i] = rd[i]
      /\ DOMAIN t = 1..n /\ DOMAIN rd = 1..Len(rd) /\ Len(rd) \in Nat
  BY OneMore, RangeFacts
<1> HIDE DEF t
<1>2. ASSUME NEW j \in 1..Len(rd) PROVE Cardinality(Passed(t, j)) < ReorderWindow
  <2>1. Passed(t, j) = Passed(rd, j)
    <3>1. \A m \in 1..(j - 1) : t[m] = rd[m]
      BY <1>1
    <3> QED BY <1>1, <3>1 DEF Passed
  <2>2. Cardinality(Passed(rd, j)) < ReorderWindow
    BY <1>1 DEF InWindow, Passed
  <2> QED BY <2>1, <2>2
<1>3. Cardinality(Passed(t, n)) < ReorderWindow
  <2>1. Passed(t, n) \subseteq T
    <3>1. \A m \in 1..(n - 1) : t[m] = rd[m] /\ rd[m] \in RangeOf(rd)
      BY <1>1, RangeFacts
    <3> QED BY <1>1, <3>1 DEF Passed
  <2>2. /\ Cardinality(Passed(t, n)) <= Cardinality(T) /\ Cardinality(T) \in Nat
        /\ Cardinality(Passed(t, n)) \in Nat
    BY <2>1, FS_Subset, FS_CardinalityType
  <2> QED BY <2>2, AuditVerifyAssumption
<1>4. \A j \in DOMAIN t : j \in 1..Len(rd) \/ j = n
  BY <1>1
<1>5. \A j \in DOMAIN t : Cardinality(Passed(t, j)) < ReorderWindow
  BY <1>2, <1>3, <1>4
<1> QED BY <1>5 DEF InWindow, Passed, t

(* Records of different sequence numbers are as many as their numbers.     *)
LEMMA CountSeqs ==
  ASSUME NEW S, IsFiniteSet(S), \A r, q \in S : r.seq = q.seq => r = q
  PROVE  IsFiniteSet(SeqsOf(S)) /\ Cardinality(SeqsOf(S)) = Cardinality(S)
<1> DEFINE f == [r \in S |-> r.seq]
<1>1. f \in Surjection(S, SeqsOf(S))
  BY DEF Surjection, SeqsOf
<1>2. f \in Injection(S, SeqsOf(S))
  <2>1. f \in [S -> SeqsOf(S)]
    BY DEF SeqsOf
  <2>2. \A x, y \in S : f[x] = f[y] => x = y
    OBVIOUS
  <2> QED BY <2>1, <2>2 DEF Injection, IsInjective
<1> QED BY <1>1, <1>2, FS_Surjection

(* A set of lines has a lowest.                                            *)
LEMMA LowestExists ==
  ASSUME NEW S \in SUBSET Lines, S # {}
  PROVE  LowestOf(S) \in S /\ \A q \in S : LowestOf(S).seq <= q.seq
<1>1. SeqsOf(S) \in SUBSET Nat /\ SeqsOf(S) # {}
  BY LineFacts DEF SeqsOf, Lines
<1>2. PICK n \in SeqsOf(S) : \A m \in SeqsOf(S) : n <= m
  <2>1. PICK n \in SeqsOf(S) : \A m \in SeqsOf(S) : <<m, n>> \notin OpToRel(<, Nat)
    BY <1>1, NatLessThanWellFounded, WFMin
  <2>2. \A m \in SeqsOf(S) : n <= m
    <3> SUFFICES ASSUME NEW m \in SeqsOf(S) PROVE n <= m
      OBVIOUS
    <3>1. m \in Nat /\ n \in Nat
      BY <1>1
    <3>2. ~(m < n)
      BY <2>1, <3>1 DEF OpToRel
    <3> QED BY <3>1, <3>2
  <2> QED BY <2>2
<1>3. PICK r \in S : r.seq = n
  BY DEF SeqsOf
<1>4. \A q \in S : r.seq <= q.seq
  BY <1>2, <1>3 DEF SeqsOf
<1> QED BY <1>4 DEF LowestOf

-----------------------------------------------------------------------------
(* What no later line mends.                                               *)

LEMMA HopelessNow ==
  ASSUME NEW rd \in Seq(Lines), NEW g, NEW a, Hopeless(rd, g, a)
  PROVE  ~Intact(rd, g, a)
<1>1. Extends(rd, rd)
  BY RangeFacts DEF Extends
<1> QED BY <1>1 DEF Hopeless

LEMMA HopelessLater ==
  ASSUME NEW rd \in Seq(Lines), NEW g, NEW a,
         \A ln \in Seq(Lines) : /\ Extends(ln, rd) /\ RangeOf(rd) \subseteq RangeOf(ln)
                                /\ OneChain(RangeOf(ln)) /\ InWindow(ln)
                                /\ StartsRight(RangeOf(ln), g, a)
                                => FALSE
  PROVE  Hopeless(rd, g, a)
BY RangeGrows DEF Hopeless, Intact

LEMMA UntrueIsHopeless ==
  ASSUME NEW rd \in Seq(Lines), NEW g, NEW a, NEW x \in RangeOf(rd), ~x.true
  PROVE  Hopeless(rd, g, a)
<1>1. ASSUME NEW ln \in Seq(Lines), RangeOf(rd) \subseteq RangeOf(ln), OneChain(RangeOf(ln))
      PROVE  FALSE
  BY <1>1 DEF OneChain
<1> QED BY <1>1, HopelessLater

LEMMA TwinsAreHopeless ==
  ASSUME NEW rd \in Seq(Lines), NEW g, NEW a, NEW r \in RangeOf(rd), NEW q \in RangeOf(rd),
         \/ r.seq = q.seq /\ r # q
         \/ r.install # q.install
  PROVE  Hopeless(rd, g, a)
<1>1. ASSUME NEW ln \in Seq(Lines), RangeOf(rd) \subseteq RangeOf(ln), OneChain(RangeOf(ln))
      PROVE  FALSE
  BY <1>1 DEF OneChain
<1> QED BY <1>1, HopelessLater

LEMMA BrokenIsHopeless ==
  ASSUME NEW rd \in Seq(Lines), NEW g, NEW a, NEW r \in RangeOf(rd), NEW p \in RangeOf(rd),
         NEW f \in RangeOf(rd), p.seq = r.seq - 1, f.seq < r.seq, r.prev # p.hash
  PROVE  Hopeless(rd, g, a)
<1>1. ASSUME NEW ln \in Seq(Lines), RangeOf(rd) \subseteq RangeOf(ln), OneChain(RangeOf(ln))
      PROVE  FALSE
  <2>1. \A x \in RangeOf(ln) : x.seq \in Int
    BY RangeFacts, LineFacts DEF Lines
  <2>2. ~(r.seq <= f.seq)
    BY <1>1, <2>1
  <2>3. PICK q \in RangeOf(ln) : r.seq = q.seq + 1 /\ r.prev = q.hash
    BY <1>1, <2>2 DEF OneChain
  <2>4. q.seq = p.seq
    BY <1>1, <2>1, <2>3
  <2> QED BY <1>1, <2>3, <2>4 DEF OneChain
<1> QED BY <1>1, HopelessLater

(* A line that comes after a windowful of higher ones came too late.       *)
LEMMA LaterIsLate ==
  ASSUME NEW rd \in Seq(Lines), NEW ln \in Seq(Lines), Extends(ln, rd),
         NEW j \in DOMAIN ln, j > Len(rd),
         NEW T, IsFiniteSet(T), ReorderWindow <= Cardinality(T),
         \A t \in T : t > ln[j].seq /\ \E x \in RangeOf(rd) : x.seq = t
  PROVE  ~InWindow(ln)
<1>1. ASSUME NEW t \in T PROVE \E k \in 1..(j - 1) : ln[k].seq = t /\ t > ln[j].seq
  <2>1. PICK k \in 1..Len(rd) : rd[k].seq = t
    BY RangeFacts
  <2>2. k \in 1..(j - 1) /\ ln[k] = rd[k]
    BY <2>1, RangeFacts DEF Extends
  <2> QED BY <2>1, <2>2
<1> QED BY <1>1, OutOfWindow

LEMMA LateIsHopeless ==
  ASSUME NEW rd \in Seq(Lines), NEW r \in Lines, NEW g, NEW a,
         NEW T, IsFiniteSet(T), ReorderWindow <= Cardinality(T),
         \A t \in T : t > r.seq /\ \E x \in RangeOf(rd) : x.seq = t
  PROVE  Hopeless(Append(rd, r), g, a)
<1>1. ASSUME NEW ln \in Seq(Lines), Extends(ln, Append(rd, r)) PROVE ~InWindow(ln)
  <2> DEFINE j == Len(rd) + 1
  <2>1. /\ Len(rd) \in Nat /\ DOMAIN rd = 1..Len(rd) /\ DOMAIN ln = 1..Len(ln) /\ Len(ln) \in Nat
        /\ Len(Append(rd, r)) = j /\ Append(rd, r)[j] = r
        /\ DOMAIN Append(rd, r) = 1..j
        /\ \A i \in 1..Len(rd) : Append(rd, r)[i] = rd[i]
    BY OneMore, RangeFacts
  <2>2. j \in DOMAIN ln /\ j > Len(rd) /\ ln[j] = r /\ Extends(ln, rd)
    <3>1. /\ j <= Len(ln) /\ \A i \in 1..j : ln[i] = Append(rd, r)[i]
      BY <1>1, <2>1 DEF Extends
    <3>2. j \in 1..j /\ \A i \in 1..Len(rd) : i \in 1..j
      BY <2>1
    <3> QED BY <2>1, <3>1, <3>2 DEF Extends
  <2> HIDE DEF j
  <2> QED BY <2>2, LaterIsLate
<1>2. Append(rd, r) \in Seq(Lines)
  BY OneMore
<1> QED BY <1>1, <1>2, HopelessLater

-----------------------------------------------------------------------------
(* The walk, turn by turn.                                                 *)

LEMMA Refused ==
  ASSUME NEW w \in Walks, NEW rd \in Seq(Lines), NEW kind \in Verdicts \ {"none", "ok"},
         \/ Hopeless(rd, w.genesis, w.anchor)
         \/ w.eof /\ ~Intact(rd, w.genesis, w.anchor)
  PROVE  WalkInv(Broken(w, kind), rd)
<1> DEFINE v == [w EXCEPT !.verdict = kind]
<1>1. v \in Walks /\ v.verdict = kind /\ v.genesis = w.genesis /\ v.anchor = w.anchor /\ v.eof = w.eof
  BY DEF Walks
<1> HIDE DEF v
<1>2. ~Intact(rd, w.genesis, w.anchor)
  BY HopelessNow
<1> QED BY <1>1, <1>2 DEF WalkInv, Judged, Broken, v

LEMMA Accepted ==
  ASSUME NEW w \in Walks, NEW rd \in Seq(Lines), w.eof, Intact(rd, w.genesis, w.anchor)
  PROVE  WalkInv([w EXCEPT !.verdict = "ok"], rd)
<1> DEFINE v == [w EXCEPT !.verdict = "ok"]
<1>1. v \in Walks /\ v.verdict = "ok" /\ v.genesis = w.genesis /\ v.anchor = w.anchor /\ v.eof
  BY DEF Walks, Verdicts
<1> HIDE DEF v
<1> QED BY <1>1 DEF WalkInv, Judged, v

LEMMA HeldFinite ==
  ASSUME NEW w, NEW rd \in Seq(Lines)
  PROVE  IsFiniteSet(HeldAbove(w, RangeOf(rd)))
<1> DEFINE D == {x \in RangeOf(rd) : x.seq >= IF w.next = w.first.seq THEN w.next ELSE w.next - 1}
           f == [x \in D |-> x.seq]
<1>1. IsFiniteSet(D)
  BY RangeFacts, FS_Subset
<1>2. f \in Surjection(D, HeldAbove(w, RangeOf(rd)))
  BY DEF Surjection, HeldAbove
<1> QED BY <1>1, <1>2, FS_Surjection

(* A line that repeats what is known already.                              *)
LEMMA RepeatKeeps ==
  ASSUME NEW w \in Walks, w.verdict = "none", NEW rd \in Seq(Lines), Underway(w, rd), ~Filled(w),
         NEW r \in Records, r.true, NEW q \in RangeOf(rd), q \in Records, q.seq = r.seq, q.hash = r.hash,
         q \in w.pending \/ (w.started /\ w.next # w.first.seq /\ q.seq = w.next - 1)
  PROVE  WalkInv(w, Append(rd, r))
<1> DEFINE t == Append(rd, r)
<1>1. t \in Seq(Lines) /\ RangeOf(t) = RangeOf(rd) \cup {r} /\ r \in Lines
  BY OneMore, LineFacts
<1>2. Window(w) /\ Placed(w, RangeOf(rd)) /\ Untrusted(w, RangeOf(rd))
  BY DEF Underway
<1> HIDE DEF t
<1>3. Placed(w, RangeOf(t)) /\ Untrusted(w, RangeOf(t))
  BY <1>1, <1>2 DEF Placed, Untrusted, AllTrue
<1>4. ASSUME AllTrue(RangeOf(t)) PROVE SoundSoFar(w, t)
  <2>1. AllTrue(RangeOf(rd)) /\ q.true
    BY <1>1, <1>4 DEF AllTrue
  <2>2. r = q
    BY <2>1, HashNames
  <2>3. RangeOf(t) = RangeOf(rd)
    BY <1>1, <2>2
  <2>4. SoundSoFar(w, rd)
    BY <2>1 DEF Underway
  <2>5. InWindow(t)
    <3>1. \A x \in RangeOf(rd) : x.seq > r.seq => x.seq \in SeqsOf(w.pending)
      <4> SUFFICES ASSUME NEW x \in RangeOf(rd), x.seq > r.seq PROVE x \in w.pending
        BY DEF SeqsOf
      <4>1. CASE ~w.started
        BY <2>4, <4>1 DEF SoundSoFar
      <4>2. CASE w.started
        <5>1. q.seq >= w.next - 1 /\ w.next \in Nat /\ q.seq \in Nat /\ x.seq \in Nat
          BY <1>2, <4>2, RangeFacts, LineFacts DEF Placed, Walks, Lines
        <5>2. x.seq >= w.next
          BY <5>1
        <5> QED BY <2>4, <4>2, <5>2 DEF SoundSoFar, TakenSound
      <4> QED BY <4>1, <4>2
    <3>2. IsFiniteSet(SeqsOf(w.pending)) /\ Cardinality(SeqsOf(w.pending)) = Cardinality(w.pending)
      BY <1>2, CountSeqs DEF Window
    <3>3. Cardinality(w.pending) < ReorderWindow
      <4>1. Cardinality(w.pending) \in Nat
        BY <1>2, FS_CardinalityType DEF Window
      <4> QED BY <1>2, <4>1, AuditVerifyAssumption DEF Window, Filled
    <3>4. InWindow(rd)
      BY <2>4 DEF SoundSoFar
    <3> QED BY <1>1, <3>1, <3>2, <3>3, <3>4, WindowGrows DEF t
  <2> QED BY <2>3, <2>4, <2>5 DEF SoundSoFar
<1>5. Underway(w, t)
  BY <1>2, <1>3, <1>4 DEF Underway
<1> QED BY <1>1, <1>5 DEF WalkInv, Judged, t

(* A line of a sequence number not met before, ahead of the walk.          *)
LEMMA NewLineKeeps ==
  ASSUME NEW w \in Walks, w.verdict = "none", NEW rd \in Seq(Lines), Underway(w, rd), ~Filled(w),
         NEW r \in Records, r.seq \notin SeqsOf(w.pending), w.started => r.seq >= w.next
  PROVE  WalkInv([w EXCEPT !.pending = @ \cup {r}], Append(rd, r))
<1> DEFINE t == Append(rd, r)
           v == [w EXCEPT !.pending = @ \cup {r}]
<1>1. t \in Seq(Lines) /\ RangeOf(t) = RangeOf(rd) \cup {r} /\ r \in Lines
  BY OneMore, LineFacts
<1>2. Window(w) /\ Placed(w, RangeOf(rd)) /\ Untrusted(w, RangeOf(rd))
  BY DEF Underway
<1>3. /\ v \in Walks /\ v.pending = w.pending \cup {r} /\ v.verdict = w.verdict
      /\ v.started = w.started /\ v.next = w.next /\ v.prev = w.prev /\ v.first = w.first
      /\ v.bad = w.bad /\ v.paused = w.paused /\ v.eof = w.eof /\ v.genesis = w.genesis
      /\ v.anchor = w.anchor
  BY DEF Walks
<1>t. /\ w.next \in Nat /\ \A x \in RangeOf(t) : x.seq \in Nat
      /\ \A x \in RangeOf(rd) : x.seq \in Nat
  BY <1>1, RangeFacts, LineFacts DEF Walks, Lines
<1> HIDE DEF t, v
<1>4. Window(v)
  <2>1. Cardinality(w.pending) \in Nat /\ Cardinality(w.pending) < ReorderWindow
    <3>1. Cardinality(w.pending) \in Nat
      BY <1>2, FS_CardinalityType DEF Window
    <3> QED BY <1>2, <3>1, AuditVerifyAssumption DEF Window, Filled
  <2>2. IsFiniteSet(v.pending) /\ Cardinality(v.pending) <= ReorderWindow
    <3>1. r \notin w.pending
      BY DEF SeqsOf
    <3>2. IsFiniteSet(v.pending) /\ Cardinality(v.pending) = Cardinality(w.pending) + 1
      BY <1>2, <1>3, <3>1, FS_AddElement DEF Window
    <3> QED BY <2>1, <3>2, AuditVerifyAssumption
  <2>3. \A x, y \in v.pending : x.seq = y.seq => x = y
    BY <1>2, <1>3 DEF Window, SeqsOf
  <2> QED BY <2>2, <2>3 DEF Window
<1>n. w.started => w.next # w.first.seq
  BY <1>2 DEF Placed
<1>5. Placed(v, RangeOf(t))
  BY <1>1, <1>2, <1>3, <1>n DEF Placed
<1>6. Untrusted(v, RangeOf(t))
  BY <1>1, <1>2, <1>3 DEF Untrusted, AllTrue
<1>7. ASSUME AllTrue(RangeOf(t)) PROVE SoundSoFar(v, t)
  <2>1. AllTrue(RangeOf(rd))
    BY <1>1, <1>7 DEF AllTrue
  <2>2. SoundSoFar(w, rd)
    BY <2>1 DEF Underway
  <2>3. \A x \in RangeOf(rd) : x.seq # r.seq
    <3>1. \A x \in w.pending : x.seq # r.seq
      BY DEF SeqsOf
    <3>2. CASE ~w.started
      BY <2>2, <3>1, <3>2 DEF SoundSoFar
    <3>3. CASE w.started
      BY <2>2, <3>1, <3>3 DEF SoundSoFar, TakenSound
    <3> QED BY <3>2, <3>3
  <2>4. \A x, y \in RangeOf(t) : x.seq = y.seq => x = y
    BY <1>1, <2>2, <2>3 DEF SoundSoFar
  <2>5. InWindow(t)
    <3>1. \A x \in RangeOf(rd) : x.seq > r.seq => x.seq \in SeqsOf(w.pending)
      <4> SUFFICES ASSUME NEW x \in RangeOf(rd), x.seq > r.seq PROVE x \in w.pending
        BY DEF SeqsOf
      <4>1. CASE ~w.started
        BY <2>2, <4>1 DEF SoundSoFar
      <4>2. CASE w.started
        <5>1. x.seq >= w.next
          BY <1>1, <1>t, <4>2
        <5> QED BY <2>2, <4>2, <5>1 DEF SoundSoFar, TakenSound
      <4> QED BY <4>1, <4>2
    <3>2. IsFiniteSet(SeqsOf(w.pending)) /\ Cardinality(SeqsOf(w.pending)) = Cardinality(w.pending)
      BY <1>2, CountSeqs DEF Window
    <3>3. Cardinality(w.pending) < ReorderWindow
      <4>1. Cardinality(w.pending) \in Nat
        BY <1>2, FS_CardinalityType DEF Window
      <4> QED BY <1>2, <4>1, AuditVerifyAssumption DEF Window, Filled
    <3>4. InWindow(rd)
      BY <2>2 DEF SoundSoFar
    <3> QED BY <1>1, <3>1, <3>2, <3>3, <3>4, WindowGrows DEF t
  <2>6. ~v.started => RangeOf(t) = v.pending
    BY <1>1, <1>3, <2>2 DEF SoundSoFar
  <2>7. ASSUME v.started PROVE TakenSound(v, RangeOf(t))
    <3>0. TakenSound(w, RangeOf(rd)) /\ w.started /\ w.first \in RangeOf(rd)
      BY <1>2, <1>3, <2>2, <2>7 DEF SoundSoFar, Placed
    <3>1. \A x \in RangeOf(t) : w.first.seq <= x.seq /\ (x.seq >= w.next => x \in v.pending)
      <4>1. w.first.seq <= r.seq
        BY <1>1, <1>2, <1>t, <3>0 DEF Placed
      <4> QED BY <1>1, <1>3, <3>0, <4>1 DEF TakenSound
    <3>2. \A x \in RangeOf(t) : x.seq < w.next =>
            /\ x.install = w.first.install
            /\ x = w.first \/ \E q \in RangeOf(t) : x.seq = q.seq + 1 /\ x.prev = q.hash
      <4>1. ~(r.seq < w.next)
        BY <1>1, <1>t, <3>0
      <4> QED BY <1>1, <3>0, <4>1 DEF TakenSound
    <3>3. ReorderWindow <= Cardinality(HeldAbove(v, RangeOf(t)))
      <4>1. HeldAbove(w, RangeOf(rd)) \subseteq HeldAbove(v, RangeOf(t))
        BY <1>1, <1>3 DEF HeldAbove
      <4>2. IsFiniteSet(HeldAbove(v, RangeOf(t)))
        BY <1>1, HeldFinite
      <4>3. IsFiniteSet(HeldAbove(w, RangeOf(rd)))
        BY <4>1, <4>2, FS_Subset
      <4>4. Cardinality(HeldAbove(w, RangeOf(rd))) <= Cardinality(HeldAbove(v, RangeOf(t)))
        BY <4>1, <4>2, FS_Subset
      <4>5. /\ Cardinality(HeldAbove(w, RangeOf(rd))) \in Nat
            /\ Cardinality(HeldAbove(v, RangeOf(t))) \in Nat
        BY <4>2, <4>3, FS_CardinalityType
      <4>6. ReorderWindow <= Cardinality(HeldAbove(w, RangeOf(rd)))
        BY <3>0 DEF TakenSound, Filled
      <4> QED BY <4>4, <4>5, <4>6, AuditVerifyAssumption
    <3> QED BY <1>3, <3>0, <3>1, <3>2, <3>3 DEF TakenSound
  <2> QED BY <2>4, <2>5, <2>6, <2>7 DEF SoundSoFar
<1>8. Underway(v, t)
  BY <1>4, <1>5, <1>6, <1>7 DEF Underway
<1> QED BY <1>1, <1>3, <1>8 DEF WalkInv, Judged, t, v

(* A line of the source, whatever it is.                                   *)
LEMMA ReadKeeps ==
  ASSUME NEW w \in Walks, w.verdict = "none", NEW rd \in Seq(Lines), Underway(w, rd), ~Filled(w),
         NEW r \in Lines
  PROVE  WalkInv(readerRecords(w, r), Append(rd, r))
<1> DEFINE t == Append(rd, r)
<1>1. t \in Seq(Lines) /\ RangeOf(t) = RangeOf(rd) \cup {r}
  BY OneMore
<1>2. Window(w) /\ Placed(w, RangeOf(rd)) /\ Untrusted(w, RangeOf(rd))
  BY DEF Underway
<1> HIDE DEF t
<1>3. CASE r = Unreadable
  <2> DEFINE v == [w EXCEPT !.bad = TRUE, !.paused = TRUE]
  <2>1. /\ v \in Walks /\ v.pending = w.pending /\ v.verdict = w.verdict
        /\ v.started = w.started /\ v.next = w.next /\ v.prev = w.prev /\ v.first = w.first
        /\ v.bad /\ v.paused /\ v.eof = w.eof /\ v.genesis = w.genesis /\ v.anchor = w.anchor
    BY DEF Walks
  <2>2. v = readerRecords(w, r)
    BY <1>3 DEF readerRecords, ParseLine
  <2> HIDE DEF v
  <2>3. Window(v) /\ Placed(v, RangeOf(t)) /\ Untrusted(v, RangeOf(t))
    BY <1>1, <1>2, <1>3, <2>1 DEF Window, Placed, Untrusted, Filled
  <2>4. ~AllTrue(RangeOf(t))
    BY <1>1, <1>3, LineFacts DEF AllTrue
  <2>5. WalkInv(v, t)
    BY <1>1, <2>1, <2>3, <2>4 DEF WalkInv, Underway, Judged
  <2> QED BY <2>2, <2>5 DEF t
<1>4. CASE r \in Records
  <2>0. readerRecords(w, r) = fill(w, r) /\ r # Unreadable
    BY <1>4, LineFacts DEF readerRecords, ParseLine
  <2>1. CASE r.seq \in SeqsOf(w.pending)
    <3> DEFINE held == CHOOSE q \in w.pending : q.seq = r.seq
    <3>1. held \in w.pending /\ held.seq = r.seq
      BY <2>1 DEF SeqsOf
    <3> HIDE DEF held
    <3>2. held \in RangeOf(rd) /\ held \in Records
      BY <1>2, <3>1 DEF Placed, Walks
    <3>3. fill(w, r) = IF held.install /= r.install THEN Broken(w, "mixed")
                       ELSE IF ~r.true THEN Broken(w, "altered")
                       ELSE IF held.hash = r.hash THEN w ELSE Broken(w, "out of order")
      BY <2>1 DEF fill, held, sameRecord
    <3>4. CASE held.install /= r.install
      <4>1. Hopeless(t, w.genesis, w.anchor)
        BY <1>1, <3>2, <3>4, TwinsAreHopeless
      <4> QED BY <1>1, <2>0, <3>3, <3>4, <4>1, Refused DEF Verdicts, t
    <3>5. CASE held.install = r.install /\ ~r.true
      <4>1. Hopeless(t, w.genesis, w.anchor)
        BY <1>1, <3>5, UntrueIsHopeless
      <4> QED BY <1>1, <2>0, <3>3, <3>5, <4>1, Refused DEF Verdicts, t
    <3>6. CASE held.install = r.install /\ r.true /\ held.hash # r.hash
      <4>1. Hopeless(t, w.genesis, w.anchor)
        BY <1>1, <3>1, <3>2, <3>6, TwinsAreHopeless
      <4> QED BY <1>1, <2>0, <3>3, <3>6, <4>1, Refused DEF Verdicts, t
    <3>7. CASE held.install = r.install /\ r.true /\ held.hash = r.hash
      BY <1>4, <2>0, <3>1, <3>2, <3>3, <3>7, RepeatKeeps
    <3> QED BY <1>4, <3>4, <3>5, <3>6, <3>7, LineFacts
  <2>2. CASE r.seq \notin SeqsOf(w.pending) /\ w.started /\ r.seq < w.next
    <3>1. /\ w.next # w.first.seq /\ w.prev \in RangeOf(rd) /\ w.prev \in Records
          /\ w.prev.seq = w.next - 1
      BY <1>2, <2>2 DEF Placed
    <3>2. fill(w, r) = LateLine(w, r)
      BY <2>2 DEF fill
    <3>3. CASE r.seq = w.prev.seq /\ ~r.true
      <4>1. Hopeless(t, w.genesis, w.anchor)
        BY <1>1, <3>3, UntrueIsHopeless
      <4>2. fill(w, r) = Broken(w, "altered")
        BY <3>2, <3>3 DEF LateLine, sameRecord
      <4> QED BY <1>1, <2>0, <4>1, <4>2, Refused DEF Verdicts, t
    <3>4. CASE r.seq = w.prev.seq /\ r.true /\ w.prev.hash # r.hash
      <4>1. Hopeless(t, w.genesis, w.anchor)
        BY <1>1, <3>1, <3>4, TwinsAreHopeless
      <4>2. fill(w, r) = Broken(w, "out of order")
        BY <3>2, <3>4 DEF LateLine, sameRecord
      <4> QED BY <1>1, <2>0, <4>1, <4>2, Refused DEF Verdicts, t
    <3>5. CASE r.seq = w.prev.seq /\ r.true /\ w.prev.hash = r.hash
      <4>1. fill(w, r) = w
        BY <3>2, <3>5 DEF LateLine, sameRecord
      <4> QED BY <1>4, <2>0, <2>2, <3>1, <3>5, <4>1, RepeatKeeps
    <3>6. CASE r.seq # w.prev.seq
      <4>1. fill(w, r) = Broken(w, "out of order")
        BY <3>2, <3>6 DEF LateLine
      <4>2. Hopeless(t, w.genesis, w.anchor)
        <5>1. CASE ~AllTrue(RangeOf(rd))
          BY <1>1, <5>1, UntrueIsHopeless DEF AllTrue
        <5>2. CASE AllTrue(RangeOf(rd))
          <6>1. TakenSound(w, RangeOf(rd))
            BY <2>2, <5>2 DEF Underway, SoundSoFar
          <6>2. ReorderWindow <= Cardinality(HeldAbove(w, RangeOf(rd)))
            BY <6>1 DEF TakenSound, Filled
          <6>3. IsFiniteSet(HeldAbove(w, RangeOf(rd)))
            BY HeldFinite
          <6>4. \A q \in HeldAbove(w, RangeOf(rd)) : q > r.seq /\ \E x \in RangeOf(rd) : x.seq = q
            <7>1. w.next \in Nat /\ r.seq \in Nat /\ \A x \in RangeOf(rd) : x.seq \in Nat
              BY <1>4, RangeFacts, LineFacts DEF Walks, Lines
            <7> QED BY <2>2, <3>1, <3>6, <7>1 DEF HeldAbove
          <6> QED BY <6>2, <6>3, <6>4, LateIsHopeless DEF t
        <5> QED BY <5>1, <5>2
      <4> QED BY <1>1, <2>0, <4>1, <4>2, Refused DEF Verdicts, t
    <3> QED BY <1>4, <3>3, <3>4, <3>5, <3>6, LineFacts
  <2>3. CASE r.seq \notin SeqsOf(w.pending) /\ ~(w.started /\ r.seq < w.next)
    <3>1. fill(w, r) = [w EXCEPT !.pending = @ \cup {r}]
      BY <2>3 DEF fill
    <3>2. w.started => r.seq >= w.next
      BY <1>4, <2>3, LineFacts DEF Walks
    <3> QED BY <1>4, <2>0, <2>3, <3>1, <3>2, NewLineKeeps
  <2> QED BY <2>1, <2>2, <2>3
<1> QED BY <1>3, <1>4 DEF Lines

LEMMA EndKeeps ==
  ASSUME NEW w \in Walks, w.verdict = "none", NEW rd \in Seq(Lines), Underway(w, rd)
  PROVE  WalkInv([w EXCEPT !.eof = TRUE], rd)
<1> DEFINE v == [w EXCEPT !.eof = TRUE]
<1>1. /\ v \in Walks /\ v.pending = w.pending /\ v.verdict = w.verdict
      /\ v.started = w.started /\ v.next = w.next /\ v.prev = w.prev /\ v.first = w.first
      /\ v.bad = w.bad /\ v.paused = w.paused /\ v.eof /\ v.genesis = w.genesis
      /\ v.anchor = w.anchor
  BY DEF Walks
<1> HIDE DEF v
<1>2. Window(v) /\ Placed(v, RangeOf(rd)) /\ Untrusted(v, RangeOf(rd))
  BY <1>1 DEF Underway, Window, Placed, Untrusted, Filled
<1>3. AllTrue(RangeOf(rd)) => SoundSoFar(v, rd)
  BY <1>1 DEF Underway, SoundSoFar, TakenSound
<1> QED BY <1>1, <1>2, <1>3 DEF WalkInv, Underway, Judged, v

(* No record is lower than the start of a chain that is accepted, unless   *)
(* it comes too late.                                                      *)
LEMMA BadStart ==
  ASSUME NEW w \in Walks, w.verdict = "none", NEW rd \in Seq(Lines), Underway(w, rd), Filled(w),
         ~w.started, w.pending # {}, ~BeginsRight(LowestOf(w.pending), w.genesis, w.anchor)
  PROVE  \/ Hopeless(rd, w.genesis, w.anchor)
         \/ w.eof /\ ~Intact(rd, w.genesis, w.anchor)
<1> DEFINE f == LowestOf(w.pending)
<1>1. Window(w) /\ Placed(w, RangeOf(rd)) /\ Untrusted(w, RangeOf(rd))
  BY DEF Underway
<1>2. CASE ~AllTrue(RangeOf(rd))
  BY <1>2, UntrueIsHopeless DEF AllTrue
<1>3. CASE AllTrue(RangeOf(rd))
  <2>1. RangeOf(rd) = w.pending /\ ~w.bad /\ ~w.paused
    BY <1>1, <1>3, LineFacts DEF Underway, SoundSoFar, Placed, AllTrue
  <2>2. f \in RangeOf(rd) /\ \A q \in RangeOf(rd) : f.seq <= q.seq
    BY <2>1, LowestExists, RangeFacts
  <2> HIDE DEF f
  <2>n. \A x \in RangeOf(rd) : x.seq \in Nat
    BY RangeFacts, LineFacts DEF Lines
  <2>3. ASSUME NEW ln \in Seq(Lines), Extends(ln, rd), RangeOf(rd) \subseteq RangeOf(ln),
               OneChain(RangeOf(ln)), InWindow(ln), StartsRight(RangeOf(ln), w.genesis, w.anchor)
        PROVE  w.eof /\ ln # rd
    <3> DEFINE e == LowestOf(RangeOf(ln))
    <3>n. \A x \in RangeOf(ln) : x.seq \in Nat
      BY RangeFacts, LineFacts DEF Lines
    <3>1. RangeOf(ln) # {} /\ e \in RangeOf(ln) /\ e.seq <= f.seq
      BY <2>2, <2>3, LowestExists, RangeFacts
    <3>2. BeginsRight(e, w.genesis, w.anchor)
      BY <2>3, <3>1 DEF StartsRight, BeginsRight
    <3> HIDE DEF e
    <3>3. e # f
      BY <3>2 DEF f
    <3>4. e.seq < f.seq
      <4>1. e.seq # f.seq
        BY <2>2, <2>3, <3>1, <3>3 DEF OneChain
      <4> QED BY <2>2, <2>n, <3>1, <3>n, <4>1
    <3>5. e \notin RangeOf(rd)
      BY <2>2, <2>n, <3>1, <3>n, <3>4
    <3>6. ASSUME ~w.eof PROVE FALSE
      <4>1. PICK j \in DOMAIN ln : ln[j] = e /\ j > Len(rd)
        BY <2>3, <3>1, <3>5, RangeGrows
      <4>2. IsFiniteSet(SeqsOf(w.pending)) /\ Cardinality(SeqsOf(w.pending)) = Cardinality(w.pending)
        BY <1>1, CountSeqs DEF Window
      <4>3. ReorderWindow <= Cardinality(SeqsOf(w.pending))
        BY <2>1, <3>6, <4>2, AuditVerifyAssumption DEF Filled
      <4>4. \A s \in SeqsOf(w.pending) : s > ln[j].seq /\ \E x \in RangeOf(rd) : x.seq = s
        <5>3. \A x \in RangeOf(rd) : x.seq > e.seq
          BY <2>2, <2>n, <3>1, <3>n, <3>4
        <5> QED BY <2>1, <4>1, <5>3 DEF SeqsOf
      <4>5. ~InWindow(ln)
        BY <2>3, <4>1, <4>2, <4>3, <4>4, LaterIsLate
      <4> QED BY <2>3, <4>5
    <3> QED BY <3>1, <3>5, <3>6
  <2>4. CASE w.eof
    <3>1. Extends(rd, rd)
      BY RangeFacts DEF Extends
    <3> QED BY <2>3, <2>4, <3>1 DEF Intact
  <2>5. CASE ~w.eof
    BY <2>3, <2>5, HopelessLater
  <2> QED BY <2>4, <2>5
<1> QED BY <1>2, <1>3

LEMMA StartKeeps ==
  ASSUME NEW w \in Walks, w.verdict = "none", NEW rd \in Seq(Lines), Underway(w, rd), Filled(w),
         ~w.started
  PROVE  WalkInv(startAt(w), rd)
<1> DEFINE f == LowestOf(w.pending)
           go == [w EXCEPT !.started = TRUE, !.next = f.seq, !.first = f, !.fragment = f.seq /= 1]
<1>1. Window(w) /\ Placed(w, RangeOf(rd)) /\ Untrusted(w, RangeOf(rd))
  BY DEF Underway
<1>2. CASE w.pending = {}
  <2>1. startAt(w) = [w EXCEPT !.verdict = IF w.bad THEN "unreadable" ELSE "ok"]
    BY <1>2 DEF startAt
  <2>2. CASE w.bad
    <3>1. Hopeless(rd, w.genesis, w.anchor)
      BY <1>1, <2>2, UntrueIsHopeless, LineFacts DEF Placed
    <3> QED BY <2>1, <2>2, <3>1, Refused DEF Broken, Verdicts
  <2>3. CASE ~w.bad
    <3>1. AllTrue(RangeOf(rd))
      BY <1>1, <1>2, <2>3 DEF Untrusted
    <3>2. RangeOf(rd) = {} /\ InWindow(rd)
      BY <1>2, <3>1 DEF Underway, SoundSoFar
    <3>3. Intact(rd, w.genesis, w.anchor)
      BY <3>2 DEF Intact, OneChain, StartsRight
    <3>4. w.eof
      <4>1. Cardinality(w.pending) # ReorderWindow
        BY <1>2, FS_EmptySet, AuditVerifyAssumption
      <4> QED BY <1>1, <2>3, <4>1 DEF Placed, Filled
    <3> QED BY <2>1, <2>3, <3>3, <3>4, Accepted
  <2> QED BY <2>2, <2>3
<1>3. CASE w.pending # {}
  <2>1. f \in w.pending /\ \A q \in w.pending : f.seq <= q.seq
    BY <1>3, LowestExists, LineFacts DEF Walks
  <2>2. f \in Records /\ f \in RangeOf(rd) /\ f.seq \in Nat
    BY <1>1, <2>1, LineFacts DEF Walks, Placed
  <2>3. CASE BeginsRight(f, w.genesis, w.anchor)
    <3>1. startAt(w) = go
      BY <1>3, <2>3 DEF startAt, BeginsRight, Walks
    <3>2. /\ go \in Walks /\ go.pending = w.pending /\ go.verdict = w.verdict
          /\ go.started /\ go.next = f.seq /\ go.first = f
          /\ go.bad = w.bad /\ go.paused = w.paused /\ go.eof = w.eof /\ go.genesis = w.genesis
          /\ go.anchor = w.anchor
      BY <2>2 DEF Walks
    <3> HIDE DEF go, f
    <3>3. Window(go) /\ Untrusted(go, RangeOf(rd))
      BY <1>1, <3>2 DEF Window, Untrusted
    <3>n. \A x \in w.pending : x.seq \in Nat
      BY LineFacts DEF Walks
    <3>4. Placed(go, RangeOf(rd))
      BY <1>1, <2>1, <2>2, <3>2, <3>n DEF Placed, Filled
    <3>5. ASSUME AllTrue(RangeOf(rd)) PROVE SoundSoFar(go, rd)
      <4>1. SoundSoFar(w, rd) /\ RangeOf(rd) = w.pending /\ ~w.bad /\ ~w.paused
        BY <1>1, <3>5, LineFacts DEF Underway, SoundSoFar, Placed, AllTrue
      <4>2. \A x \in RangeOf(rd) : f.seq <= x.seq /\ ~(x.seq < f.seq)
        BY <2>1, <2>2, <3>n, <4>1
      <4>3. w.eof \/ ReorderWindow <= Cardinality(HeldAbove(go, RangeOf(rd)))
        <5> SUFFICES ASSUME ~w.eof PROVE ReorderWindow <= Cardinality(HeldAbove(go, RangeOf(rd)))
          OBVIOUS
        <5>1. HeldAbove(go, RangeOf(rd)) = SeqsOf(w.pending)
          BY <2>1, <2>2, <3>2, <3>n, <4>1 DEF HeldAbove, SeqsOf
        <5>2. Cardinality(SeqsOf(w.pending)) = Cardinality(w.pending)
          BY <1>1, CountSeqs DEF Window
        <5> QED BY <4>1, <5>1, <5>2, AuditVerifyAssumption DEF Filled
      <4>4. TakenSound(go, RangeOf(rd))
        BY <2>3, <3>2, <4>1, <4>2, <4>3 DEF TakenSound
      <4> QED BY <3>2, <4>1, <4>4 DEF SoundSoFar
    <3>6. Underway(go, rd)
      BY <3>3, <3>4, <3>5 DEF Underway
    <3> QED BY <3>1, <3>2, <3>6 DEF WalkInv, Judged
  <2>4. CASE ~BeginsRight(f, w.genesis, w.anchor)
    <3>1. \E kind \in {"not anchored", "not genesis"} : startAt(w) = Broken(w, kind)
      <4>1. w.anchor \in Int
        BY DEF Walks
      <4>2. CASE w.anchor >= 0
        <5>1. startAt(w) = IF f.seq = w.anchor + 1 /\ f.prev = Own(w.anchor) THEN go
                           ELSE Broken(w, "not anchored")
          BY <1>3, <4>1, <4>2 DEF startAt
        <5> QED BY <2>4, <4>2, <5>1 DEF BeginsRight
      <4>3. CASE ~(w.anchor >= 0)
        <5>0. (f.seq = 1 \/ w.genesis) /\ ~(f.seq = 1 /\ f.prev = Own(0))
          BY <2>4, <4>3 DEF BeginsRight
        <5>1. startAt(w) = IF f.seq = 1 /\ f.prev = Own(0) THEN go ELSE Broken(w, "not genesis")
          BY <1>3, <4>3, <5>0 DEF startAt
        <5>2. startAt(w) = Broken(w, "not genesis")
          BY <5>0, <5>1
        <5> QED BY <5>2
      <4> QED BY <4>2, <4>3
    <3>2. \/ Hopeless(rd, w.genesis, w.anchor)
          \/ w.eof /\ ~Intact(rd, w.genesis, w.anchor)
      BY <1>3, <2>4, BadStart
    <3> QED BY <3>1, <3>2, Refused DEF Verdicts
  <2> QED BY <2>3, <2>4
<1> QED BY <1>2, <1>3

(* What the walk cannot go on to is missing, or comes too late.            *)
LEMMA BadGap ==
  ASSUME NEW w \in Walks, NEW rd \in Seq(Lines), Underway(w, rd), Filled(w),
         w.started, w.next \notin SeqsOf(w.pending), w.pending # {}, ~w.bad
  PROVE  \/ Hopeless(rd, w.genesis, w.anchor)
         \/ w.eof /\ ~Intact(rd, w.genesis, w.anchor)
<1> DEFINE x == LowestOf(w.pending)
<1>1. Window(w) /\ Placed(w, RangeOf(rd))
  BY DEF Underway
<1>2. CASE ~AllTrue(RangeOf(rd))
  BY <1>2, UntrueIsHopeless DEF AllTrue
<1>3. CASE AllTrue(RangeOf(rd))
  <2>1. TakenSound(w, RangeOf(rd)) /\ ~w.paused /\ w.first \in RangeOf(rd) /\ w.next \in Nat
    BY <1>1, <1>3 DEF Underway, SoundSoFar, Placed, Walks
  <2>n. \A r \in RangeOf(rd) : r.seq \in Nat
    BY RangeFacts, LineFacts DEF Lines
  <2>2. x \in w.pending /\ \A q \in w.pending : x.seq <= q.seq
    BY LowestExists, LineFacts DEF Walks
  <2> HIDE DEF x
  <2>3. x \in RangeOf(rd) /\ x.seq > w.next /\ w.first.seq <= w.next
    <3>1. x \in RangeOf(rd) /\ x.seq >= w.next /\ w.first.seq <= w.next
      BY <1>1, <2>2 DEF Placed
    <3>2. x.seq # w.next
      BY <2>2 DEF SeqsOf
    <3> QED BY <2>1, <2>n, <3>1, <3>2
  <2>4. ASSUME NEW ln \in Seq(Lines), Extends(ln, rd), RangeOf(rd) \subseteq RangeOf(ln),
               OneChain(RangeOf(ln)), InWindow(ln)
        PROVE  w.eof /\ ln # rd
    <3>n. \A r \in RangeOf(ln) : r.seq \in Nat
      BY RangeFacts, LineFacts DEF Lines
    <3>1. PICK q \in RangeOf(ln) : x.seq = q.seq + 1
      <4>1. ~(x.seq <= w.first.seq)
        BY <2>1, <2>n, <2>3
      <4> QED BY <2>1, <2>3, <2>4, <4>1 DEF OneChain
    <3>2. q \notin RangeOf(rd)
      <4> SUFFICES ASSUME q \in RangeOf(rd) PROVE FALSE
        OBVIOUS
      <4>1. q.seq >= w.next
        BY <2>1, <2>n, <2>3, <3>1
      <4>2. q \in w.pending
        BY <2>1, <4>1 DEF TakenSound
      <4> QED BY <2>2, <2>3, <2>n, <3>1, <4>2
    <3>3. ASSUME ~w.eof PROVE FALSE
      <4>1. PICK j \in DOMAIN ln : ln[j] = q /\ j > Len(rd)
        BY <2>4, <3>2, RangeGrows
      <4>2. IsFiniteSet(SeqsOf(w.pending)) /\ Cardinality(SeqsOf(w.pending)) = Cardinality(w.pending)
        BY <1>1, CountSeqs DEF Window
      <4>3. ReorderWindow <= Cardinality(SeqsOf(w.pending))
        BY <2>1, <3>3, <4>2, AuditVerifyAssumption DEF Filled
      <4>4. \A s \in SeqsOf(w.pending) : s > ln[j].seq /\ \E r \in RangeOf(rd) : r.seq = s
        <5>1. \A r \in w.pending : r \in RangeOf(rd) /\ r.seq > q.seq
          BY <1>1, <2>2, <2>3, <2>n, <3>n, <3>1 DEF Placed
        <5> QED BY <4>1, <5>1 DEF SeqsOf
      <4> QED BY <2>4, <4>1, <4>2, <4>3, <4>4, LaterIsLate
    <3> QED BY <3>2, <3>3
  <2>5. CASE w.eof
    <3>1. Extends(rd, rd)
      BY RangeFacts DEF Extends
    <3> QED BY <2>4, <2>5, <3>1 DEF Intact
  <2>6. CASE ~w.eof
    BY <2>4, <2>6, HopelessLater
  <2> QED BY <2>5, <2>6
<1> QED BY <1>2, <1>3

(* The window ran empty: all that was read was taken, one after another.   *)
LEMMA AllTaken ==
  ASSUME NEW w \in Walks, NEW rd \in Seq(Lines), Underway(w, rd), Filled(w),
         w.started, w.pending = {}, ~w.bad
  PROVE  w.eof /\ Intact(rd, w.genesis, w.anchor)
<1> DEFINE S == RangeOf(rd)
<1>1. Window(w) /\ Placed(w, S) /\ AllTrue(S)
  BY DEF Underway, Untrusted
<1>2. SoundSoFar(w, rd) /\ TakenSound(w, S) /\ w.first \in S /\ w.next \in Nat
  BY <1>1 DEF Underway, SoundSoFar, Placed, Walks
<1>n. \A r \in S : r.seq \in Nat
  BY RangeFacts, LineFacts DEF Lines
<1>3. w.eof
  <2>1. Cardinality(w.pending) # ReorderWindow
    BY FS_EmptySet, AuditVerifyAssumption
  <2> QED BY <1>1, <2>1 DEF Placed, Filled
<1>4. \A r \in S : r.seq < w.next /\ w.first.seq <= r.seq
  BY <1>2, <1>n DEF TakenSound
<1>5. OneChain(S)
  <2>1. \A r \in S : r.true /\ r # Unreadable
    BY <1>1, LineFacts DEF AllTrue
  <2>2. \A r, q \in S : r.seq = q.seq => r = q
    BY <1>2 DEF SoundSoFar
  <2>3. \A r, q \in S : r.install = q.install
    BY <1>2, <1>4 DEF TakenSound
  <2>4. \A r \in S : \/ \A q \in S : r.seq <= q.seq
                     \/ \E q \in S : r.seq = q.seq + 1 /\ r.prev = q.hash
    BY <1>2, <1>4 DEF TakenSound
  <2> QED BY <2>1, <2>2, <2>3, <2>4 DEF OneChain
<1>6. StartsRight(S, w.genesis, w.anchor)
  <2>1. LowestOf(S) \in S /\ LowestOf(S).seq <= w.first.seq
    BY <1>2, LowestExists, RangeFacts
  <2>2. LowestOf(S) = w.first
    <3>1. LowestOf(S).seq = w.first.seq
      BY <1>2, <1>4, <1>n, <2>1
    <3> QED BY <1>2, <2>1, <3>1 DEF SoundSoFar
  <2> QED BY <1>2, <2>2 DEF TakenSound, BeginsRight, StartsRight
<1> QED BY <1>2, <1>3, <1>5, <1>6 DEF Intact, SoundSoFar

LEMMA TakeKeeps ==
  ASSUME NEW w \in Walks, w.verdict = "none", NEW rd \in Seq(Lines), Underway(w, rd), Filled(w),
         w.started
  PROVE  WalkInv(takeNext(w), rd)
<1> DEFINE S == RangeOf(rd)
           r == CHOOSE q \in w.pending : q.seq = w.next
<1>1. Window(w) /\ Placed(w, S) /\ Untrusted(w, S)
  BY DEF Underway
<1>n. \A x \in S : x.seq \in Nat
  BY RangeFacts, LineFacts DEF Lines
<1>2. CASE w.next \notin SeqsOf(w.pending)
  <2>1. takeNext(w) = [w EXCEPT !.verdict =
              IF w.bad THEN "unreadable" ELSE IF w.pending /= {} THEN "gap" ELSE "ok"]
    BY <1>2 DEF takeNext
  <2>2. CASE w.bad
    <3>1. Hopeless(rd, w.genesis, w.anchor)
      BY <1>1, <2>2, UntrueIsHopeless, LineFacts DEF Placed
    <3> QED BY <2>1, <2>2, <3>1, Refused DEF Broken, Verdicts
  <2>3. CASE ~w.bad /\ w.pending # {}
    <3>1. \/ Hopeless(rd, w.genesis, w.anchor)
          \/ w.eof /\ ~Intact(rd, w.genesis, w.anchor)
      BY <1>2, <2>3, BadGap
    <3> QED BY <2>1, <2>3, <3>1, Refused DEF Broken, Verdicts
  <2>4. CASE ~w.bad /\ w.pending = {}
    BY <2>1, <2>4, AllTaken, Accepted
  <2> QED BY <2>2, <2>3, <2>4
<1>3. CASE w.next \in SeqsOf(w.pending)
  <2> DEFINE firstTaken == w.next = w.first.seq
             v == [w EXCEPT !.paused = FALSE, !.pending = @ \ {r}, !.prev = r, !.next = @ + 1]
  <2>1. r \in w.pending /\ r.seq = w.next
    BY <1>3 DEF SeqsOf
  <2>2. takeNext(w) = IF ~firstTaken /\ r.install /= w.prev.install THEN Broken(w, "mixed")
                      ELSE IF ~firstTaken /\ r.prev /= w.prev.hash THEN Broken(w, "broken")
                      ELSE IF ~r.true THEN Broken(w, "altered") ELSE v
    BY <1>3 DEF takeNext
  <2>3. /\ v \in Walks /\ v.pending = w.pending \ {r} /\ v.verdict = w.verdict
        /\ v.started = w.started /\ v.next = w.next + 1 /\ v.prev = r /\ v.first = w.first
        /\ v.bad = w.bad /\ ~v.paused /\ v.eof = w.eof /\ v.genesis = w.genesis
        /\ v.anchor = w.anchor
    <3>1. r \in Records /\ w.pending \ {r} \in SUBSET Records /\ w.next + 1 \in Nat
      BY <2>1 DEF Walks
    <3> HIDE DEF r
    <3> QED BY <3>1 DEF Walks
  <2> HIDE DEF r, v
  <2>4. /\ r \in S /\ r \in Records /\ w.next \in Nat /\ w.first \in S /\ w.first.seq <= w.next
        /\ ~firstTaken => w.prev \in S /\ w.prev.seq = w.next - 1
    BY <1>1, <2>1 DEF Placed, Walks
  <2>5. CASE ~firstTaken /\ r.install /= w.prev.install
    <3>1. Hopeless(rd, w.genesis, w.anchor)
      BY <2>4, <2>5, TwinsAreHopeless
    <3> QED BY <2>2, <2>5, <3>1, Refused DEF Verdicts
  <2>6. CASE ~firstTaken /\ r.install = w.prev.install /\ r.prev /= w.prev.hash
    <3>1. w.first.seq < r.seq /\ w.prev.seq = r.seq - 1
      BY <1>n, <2>1, <2>4, <2>6
    <3>2. Hopeless(rd, w.genesis, w.anchor)
      BY <2>4, <2>6, <3>1, BrokenIsHopeless
    <3> QED BY <2>2, <2>6, <3>2, Refused DEF Verdicts
  <2>7. CASE ~(~firstTaken /\ r.install /= w.prev.install) /\ ~(~firstTaken /\ r.prev /= w.prev.hash)
             /\ ~r.true
    <3>1. Hopeless(rd, w.genesis, w.anchor)
      BY <2>4, <2>7, UntrueIsHopeless
    <3> QED BY <2>2, <2>7, <3>1, Refused DEF Verdicts
  <2>8. CASE /\ ~firstTaken => r.install = w.prev.install /\ r.prev = w.prev.hash
             /\ r.true
    <3>1. takeNext(w) = v
      BY <2>2, <2>8
    <3>2. Window(v)
      <4>1. /\ IsFiniteSet(v.pending) /\ Cardinality(v.pending) = Cardinality(w.pending) - 1
            /\ Cardinality(w.pending) \in Nat
        BY <1>1, <2>1, <2>3, FS_RemoveElement, FS_CardinalityType DEF Window
      <4>2. Cardinality(w.pending) <= ReorderWindow
        BY <1>1 DEF Window
      <4>3. Cardinality(v.pending) <= ReorderWindow
        BY <4>1, <4>2, AuditVerifyAssumption
      <4> QED BY <1>1, <2>3, <4>1, <4>3 DEF Window
    <3>3. \A x \in v.pending : x.seq >= w.next + 1
      <4>1. \A x \in v.pending : x \in w.pending /\ x # r /\ x.seq # r.seq
        BY <1>1, <2>1, <2>3 DEF Window
      <4>2. \A x \in v.pending : x.seq >= w.next /\ x.seq \in Nat
        BY <1>1, <1>n, <4>1 DEF Placed
      <4> QED BY <2>1, <2>4, <4>1, <4>2
    <3>4. Placed(v, S)
      <4>1. v.next # v.first.seq /\ v.next >= v.first.seq /\ v.prev.seq = v.next - 1
        BY <1>n, <2>1, <2>3, <2>4
      <4> QED BY <1>1, <2>3, <2>4, <3>3, <4>1 DEF Placed
    <3>5. Untrusted(v, S)
      BY <1>1, <2>3, <2>8 DEF Untrusted
    <3>6. ASSUME AllTrue(S) PROVE SoundSoFar(v, rd)
      <4>1. SoundSoFar(w, rd) /\ TakenSound(w, S) /\ ~w.bad /\ ~w.paused
        BY <1>1, <3>6, LineFacts DEF Underway, SoundSoFar, Placed, AllTrue
      <4>2. \A x \in S : w.first.seq <= x.seq /\ (x.seq >= v.next => x \in v.pending)
        <5>1. ASSUME NEW x \in S, x.seq >= v.next PROVE x \in v.pending
          <6>1. x.seq >= w.next /\ x.seq # r.seq
            BY <1>n, <2>1, <2>3, <2>4, <5>1
          <6> QED BY <2>3, <4>1, <6>1 DEF TakenSound
        <5> QED BY <4>1, <5>1 DEF TakenSound
      <4>3. ASSUME NEW x \in S, x.seq < v.next
            PROVE  /\ x.install = w.first.install
                   /\ x = w.first \/ \E q \in S : x.seq = q.seq + 1 /\ x.prev = q.hash
        <5>1. CASE x.seq < w.next
          BY <4>1, <5>1 DEF TakenSound
        <5>2. CASE x.seq = w.next
          <6>1. x = r
            BY <2>1, <2>4, <4>1, <5>2 DEF SoundSoFar
          <6>2. CASE firstTaken
            <7>1. r = w.first
              BY <2>1, <2>4, <4>1, <6>2 DEF SoundSoFar
            <7> QED BY <6>1, <7>1
          <6>3. CASE ~firstTaken
            <7>1. w.prev \in S /\ r.seq = w.prev.seq + 1 /\ r.prev = w.prev.hash
                  /\ w.prev.seq < w.next
              BY <1>n, <2>1, <2>4, <2>8, <6>3
            <7>2. w.prev.install = w.first.install
              BY <4>1, <7>1 DEF TakenSound
            <7> QED BY <2>8, <6>1, <6>3, <7>1, <7>2
          <6> QED BY <6>2, <6>3
        <5> QED BY <1>n, <2>3, <2>4, <4>3, <5>1, <5>2
      <4>4. ASSUME ~v.eof PROVE ReorderWindow <= Cardinality(HeldAbove(v, S))
        <5>1. Cardinality(w.pending) = ReorderWindow
          BY <2>3, <4>1, <4>4 DEF Filled
        <5>2. IsFiniteSet(SeqsOf(w.pending)) /\ Cardinality(SeqsOf(w.pending)) = ReorderWindow
          BY <1>1, <5>1, CountSeqs DEF Window
        <5>3. SeqsOf(w.pending) \subseteq HeldAbove(v, S)
          <6>1. \A x \in w.pending : x \in S /\ x.seq >= w.next
            BY <1>1 DEF Placed
          <6>2. v.next # v.first.seq /\ v.next - 1 = w.next
            BY <1>n, <2>3, <2>4
          <6> QED BY <6>1, <6>2 DEF SeqsOf, HeldAbove
        <5>4. IsFiniteSet(HeldAbove(v, S))
          BY HeldFinite
        <5> QED BY <5>2, <5>3, <5>4, FS_Subset
      <4>5. TakenSound(v, S)
        BY <2>3, <4>1, <4>2, <4>3, <4>4 DEF TakenSound
      <4> QED BY <2>3, <4>1, <4>5 DEF SoundSoFar
    <3>7. Underway(v, rd)
      BY <3>2, <3>4, <3>5, <3>6 DEF Underway
    <3> QED BY <2>3, <3>1, <3>7 DEF WalkInv, Judged
  <2> QED BY <2>5, <2>6, <2>7, <2>8
<1> QED BY <1>2, <1>3

(* A walk begins.                                                          *)
LEMMA FreshKeeps ==
  ASSUME NEW src \in {"rows", "file"}, NEW g \in BOOLEAN, NEW a \in Int
  PROVE  /\ WalkInv(Fresh(src, g, a), <<>>) /\ Fresh(src, g, a).pos = 0
         /\ Fresh(src, g, a).verdict = "none" /\ ~Fresh(src, g, a).eof
         /\ Fresh(src, g, a).src = src /\ Fresh(src, g, a).genesis = g
         /\ Fresh(src, g, a).anchor = a /\ ~Fresh(src, g, a).fragment
<1> DEFINE w == Fresh(src, g, a)
<1>1. /\ w \in Walks /\ w.pending = {} /\ ~w.started /\ ~w.bad /\ ~w.paused /\ w.verdict = "none"
      /\ w.pos = 0 /\ ~w.eof /\ w.src = src /\ w.genesis = g /\ w.anchor = a /\ ~w.fragment
  BY DEF Fresh, Walks, Verdicts
<1> HIDE DEF w
<1>2. /\ <<>> \in Seq(Lines) /\ RangeOf(<<>>) = {}
  BY DEF RangeOf
<1>3. Window(w)
  BY <1>1, FS_EmptySet, AuditVerifyAssumption DEF Window
<1>4. Placed(w, {}) /\ Untrusted(w, {}) /\ SoundSoFar(w, <<>>)
  BY <1>1, <1>2 DEF Placed, Untrusted, AllTrue, SoundSoFar, InWindow
<1> QED BY <1>1, <1>2, <1>3, <1>4 DEF WalkInv, Underway, Judged, w

-----------------------------------------------------------------------------
(* Rows in the order of their sequence numbers.                            *)

LEMMA OrderedRows ==
  ASSUME NEW S \in SUBSET Records, IsFiniteSet(S), \A r, q \in S : r.seq = q.seq => r = q
  PROVE  /\ Ordered(S) \in Seq(Lines) /\ RangeOf(Ordered(S)) = S
         /\ \A i, j \in DOMAIN Ordered(S) : i < j => Ordered(S)[i].seq < Ordered(S)[j].seq
<1> DEFINE n == Cardinality(S)
           below(r) == {q \in S : q.seq < r.seq}
           rank == [r \in S |-> Cardinality(below(r))]
           o == Ordered(S)
<1>n. n \in Nat /\ \A r \in S : r.seq \in Nat
  BY FS_CardinalityType, LineFacts
<1>1. ASSUME NEW r \in S PROVE IsFiniteSet(below(r)) /\ rank[r] \in 0..(n - 1)
  <2>1. below(r) \in SUBSET S /\ below(r) # S
    BY <1>n
  <2>2. /\ IsFiniteSet(below(r)) /\ Cardinality(below(r)) <= n /\ Cardinality(below(r)) # n
    BY <2>1, FS_Subset
  <2>3. Cardinality(below(r)) \in Nat
    BY <2>2, FS_CardinalityType
  <2> QED BY <1>n, <2>2, <2>3
<1>2. ASSUME NEW r \in S, NEW q \in S, r.seq < q.seq PROVE rank[r] < rank[q]
  <2>1. below(r) \in SUBSET below(q) /\ below(r) # below(q)
    <3>1. r \in below(q) /\ r \notin below(r)
      BY <1>n, <1>2
    <3>2. \A x \in below(r) : x \in below(q)
      BY <1>n, <1>2
    <3> QED BY <3>1, <3>2
  <2>2. Cardinality(below(r)) <= Cardinality(below(q)) /\ Cardinality(below(r)) # Cardinality(below(q))
    BY <1>1, <2>1, FS_Subset
  <2>3. Cardinality(below(r)) \in Nat /\ Cardinality(below(q)) \in Nat
    BY <1>1, FS_CardinalityType
  <2> QED BY <2>2, <2>3
<1>3. \A r, q \in S : rank[r] = rank[q] => r = q
  <2> SUFFICES ASSUME NEW r \in S, NEW q \in S, rank[r] = rank[q] PROVE r.seq = q.seq
    OBVIOUS
  <2>1. rank[r] \in 0..(n - 1) /\ rank[q] \in 0..(n - 1)
    BY <1>1
  <2> HIDE DEF rank
  <2>2. ~(rank[r] < rank[q]) /\ ~(rank[q] < rank[r])
    BY <1>n, <2>1
  <2> QED BY <1>n, <1>2, <2>2
<1>4. rank \in Surjection(S, 0..(n - 1))
  <2>1. rank \in Injection(S, 0..(n - 1))
    <3>1. rank \in [S -> 0..(n - 1)]
      BY <1>1
    <3> HIDE DEF rank
    <3> QED BY <1>3, <3>1 DEF Injection, IsInjective
  <2>2. IsFiniteSet(0..(n - 1)) /\ Cardinality(0..(n - 1)) = n
    BY <1>n, FS_Interval
  <2> HIDE DEF rank
  <2> QED BY <2>1, <2>2, FS_Injection
<1>5. /\ DOMAIN o = 1..n /\ o = [i \in 1..n |-> o[i]]
      /\ \A i \in 1..n : o[i] = CHOOSE r \in S : Cardinality(below(r)) = i - 1
  <2> DEFINE pick(i) == CHOOSE r \in S : Cardinality(below(r)) = i - 1
  <2>1. o = [i \in 1..n |-> pick(i)]
    BY DEF Ordered
  <2> HIDE DEF o, n, below
  <2>2. DOMAIN o = 1..n /\ \A i \in 1..n : o[i] = pick(i)
    BY <2>1
  <2>3. o = [i \in 1..n |-> o[i]]
    BY <2>1, <2>2
  <2> QED BY <2>2, <2>3
<1>6. ASSUME NEW i \in 1..n PROVE o[i] \in S /\ rank[o[i]] = i - 1
  <2>1. i - 1 \in 0..(n - 1)
    BY <1>n
  <2>2. \E r \in S : rank[r] = i - 1
    BY <1>4, <2>1 DEF Surjection
  <2>3. \E r \in S : Cardinality(below(r)) = i - 1
    BY <2>2
  <2> QED BY <1>5, <2>3
<1> HIDE DEF o, rank, below
<1>7. o \in Seq(Lines)
  <2>1. \A i \in 1..n : o[i] \in Lines
    BY <1>6, LineFacts
  <2> QED BY <1>n, <1>5, <2>1
<1>8. RangeOf(o) = S
  <2>1. RangeOf(o) \subseteq S
    BY <1>5, <1>6 DEF RangeOf
  <2>2. ASSUME NEW r \in S PROVE r \in RangeOf(o)
    <3>1. rank[r] + 1 \in 1..n /\ rank[r] + 1 - 1 = rank[r] /\ rank[r] \in Nat
      BY <1>1, <1>n
    <3>2. o[rank[r] + 1] = r
      <4> DEFINE i == rank[r] + 1
      <4>1. i \in 1..n /\ i - 1 = rank[r]
        BY <3>1
      <4> HIDE DEF i
      <4>2. o[i] \in S /\ rank[o[i]] = rank[r]
        BY <1>6, <4>1
      <4> QED BY <1>3, <4>2 DEF i
    <3> QED BY <1>5, <3>1, <3>2 DEF RangeOf
  <2> QED BY <2>1, <2>2
<1>9. \A i, j \in DOMAIN o : i < j => o[i].seq < o[j].seq
  <2> SUFFICES ASSUME NEW i \in 1..n, NEW j \in 1..n, i < j PROVE o[i].seq < o[j].seq
    BY <1>5
  <2>1. o[i] \in S /\ o[j] \in S /\ rank[o[i]] < rank[o[j]]
    BY <1>6, <1>n
  <2>2. ~(rank[o[j]] < rank[o[i]]) /\ o[i] # o[j]
    BY <2>1, <1>1
  <2>3. o[i].seq # o[j].seq
    BY <2>1, <2>2
  <2> QED BY <1>n, <1>2, <2>1, <2>2, <2>3
<1> QED BY <1>7, <1>8, <1>9 DEF o

LEMMA AscendingInWindow ==
  ASSUME NEW ln \in Seq(Lines), \A i, j \in DOMAIN ln : i < j => ln[i].seq < ln[j].seq
  PROVE  InWindow(ln)
<1>1. ASSUME NEW j \in DOMAIN ln PROVE Cardinality(Passed(ln, j)) < ReorderWindow
  <2>1. \A m \in 1..(j - 1) : m \in DOMAIN ln /\ m < j /\ ln[m].seq \in Nat /\ ln[j].seq \in Nat
    BY RangeFacts, LineFacts DEF Lines
  <2>2. Passed(ln, j) = {}
    BY <2>1 DEF Passed
  <2> QED BY <2>2, FS_EmptySet, AuditVerifyAssumption
<1> QED BY <1>1 DEF InWindow, Passed

(* A set that holds, of every number but its lowest, the one before it,    *)
(* holds every number in between.                                          *)
LEMMA NoHoles ==
  ASSUME NEW S \in SUBSET Lines, NEW m \in Nat, \A r \in S : r.seq >= m,
         \A r \in S : r.seq = m \/ \E q \in S : r.seq = q.seq + 1,
         NEW n \in Nat, n >= m, NEW t \in S, t.seq >= n
  PROVE  \E q \in S : q.seq = n
<1> SUFFICES ASSUME \A q \in S : q.seq # n PROVE FALSE
  OBVIOUS
<1>n. \A r \in S : r.seq \in Nat
  BY LineFacts DEF Lines
<1> DEFINE above == {r \in S : r.seq >= n}
           e == LowestOf(above)
<1>1. e \in above /\ \A q \in above : e.seq <= q.seq
  BY LowestExists
<1> HIDE DEF e
<1>2. e.seq # m /\ e.seq > n
  BY <1>1, <1>n
<1>3. PICK q \in S : e.seq = q.seq + 1
  BY <1>1, <1>2
<1>4. q \in above
  BY <1>1, <1>2, <1>3, <1>n
<1> QED BY <1>1, <1>3, <1>4, <1>n

LEMMA GenuineFacts ==
  ASSUME NEW n \in Nat, NEW m \in Nat \ {0}
  PROVE  /\ IsFiniteSet(Genuines(m, n)) /\ Genuines(m, n) \subseteq Records
         /\ \A r \in Genuines(m, n) : /\ r.seq \in m..n /\ r = Genuine(r.seq) /\ r.true
                                      /\ r.hash = Own(r.seq) /\ r.prev = Own(r.seq - 1)
                                      /\ r.install = "a"
         /\ \A i \in m..n : Genuine(i) \in Genuines(m, n) /\ Genuine(i).seq = i
<1>1. \A i \in m..n : /\ Genuine(i).seq = i /\ Genuine(i).true /\ Genuine(i).hash = Own(i)
                      /\ Genuine(i).prev = Own(i - 1)
  BY DEF Genuine, Line
<1>2. \A i \in m..n : Genuine(i).install = "a"
  <2>1. \A i \in m..n : Own(i)[2] = 0
    BY DEF Own
  <2> QED BY <2>1 DEF Genuine, Line
<1>3. \A i \in m..n : i \in Nat \ {0} /\ Genuine(i) \in Records
  BY DEF Records
<1>4. IsFiniteSet(Genuines(m, n))
  <2> DEFINE f == [i \in m..n |-> Genuine(i)]
  <2>1. f \in Surjection(m..n, Genuines(m, n))
    BY DEF Surjection, Genuines
  <2> QED BY <2>1, FS_Surjection, FS_Interval
<1> QED BY <1>1, <1>2, <1>3, <1>4 DEF Genuines

(* Genuine lines without a hole, none of them late, are one intact chain.  *)
LEMMA HealthyIsIntact ==
  ASSUME NEW ln \in Seq(Lines), NEW n \in Nat, NEW g \in BOOLEAN,
         RangeOf(ln) \subseteq Genuines(1, n), InWindow(ln),
         \A i \in 1..n : (\E r \in RangeOf(ln) : r.seq > i) => (\E r \in RangeOf(ln) : r.seq = i)
  PROVE  Intact(ln, g, -1)
<1> DEFINE S == RangeOf(ln)
<1>1. \A r \in S : /\ r.seq \in 1..n /\ r = Genuine(r.seq) /\ r.true
                   /\ r.hash = Own(r.seq) /\ r.prev = Own(r.seq - 1) /\ r.install = "a"
  <2>1. 1 \in Nat \ {0}
    OBVIOUS
  <2>2. \A r \in Genuines(1, n) :
          /\ r.seq \in 1..n /\ r = Genuine(r.seq) /\ r.true
          /\ r.hash = Own(r.seq) /\ r.prev = Own(r.seq - 1) /\ r.install = "a"
    BY <2>1, GenuineFacts
  <2> QED BY <2>2
<1>2. \A r \in S : r.seq = 1 \/ \E q \in S : r.seq = q.seq + 1
  <2> SUFFICES ASSUME NEW r \in S, r.seq # 1 PROVE \E q \in S : r.seq = q.seq + 1
    OBVIOUS
  <2>1. r.seq - 1 \in 1..n /\ r.seq > r.seq - 1
    BY <1>1
  <2>2. PICK q \in S : q.seq = r.seq - 1
    BY <2>1
  <2> QED BY <1>1, <2>2
<1>3. OneChain(S)
  <2>1. \A r \in S : r # Unreadable
    BY <1>1, LineFacts
  <2>2. \A r, q \in S : r.seq = q.seq => r = q
    BY <1>1
  <2>3. ASSUME NEW r \in S
        PROVE  \/ \A q \in S : r.seq <= q.seq
               \/ \E q \in S : r.seq = q.seq + 1 /\ r.prev = q.hash
    <3>1. CASE r.seq = 1
      BY <1>1, <3>1
    <3>2. CASE r.seq # 1
      <4>1. PICK q \in S : r.seq = q.seq + 1
        BY <1>2, <3>2
      <4>2. r.seq - 1 = q.seq
        BY <1>1, <4>1
      <4> QED BY <1>1, <4>1, <4>2
    <3> QED BY <3>1, <3>2
  <2> QED BY <1>1, <2>1, <2>2, <2>3 DEF OneChain
<1>4. StartsRight(S, g, -1)
  <2> SUFFICES ASSUME S # {} PROVE LowestOf(S).seq = 1 /\ LowestOf(S).prev = Own(0)
    BY DEF StartsRight
  <2> DEFINE f == LowestOf(S)
  <2>1. f \in S /\ \A q \in S : f.seq <= q.seq
    BY LowestExists, RangeFacts
  <2> HIDE DEF f
  <2>2. f.seq = 1
    BY <1>1, <1>2, <2>1
  <2>3. f.prev = Own(0)
    <3>1. f.seq - 1 = 0
      BY <2>2
    <3> QED BY <1>1, <2>1, <3>1
  <2> QED BY <2>2, <2>3 DEF f
<1> QED BY <1>3, <1>4 DEF Intact

(* An intact table from the cut on has lost none of its rows.              *)
LEMMA IntactRows ==
  ASSUME VerifyTyped, RowsSound,
         Intact(Ordered(vrows), vcut = 0, IF vcut = 0 THEN -1 ELSE vcut),
         ~(vrows = {} /\ vtip > 0)
  PROVE  NoneDeleted
<1>1. /\ vrows \in SUBSET Records /\ vrows \in SUBSET Lines /\ \A r \in vrows : r.seq <= vtip
      /\ vcut \in Nat /\ vtip \in Nat
  BY LineFacts DEF RowsSound, VerifyTyped
<1>n. \A r \in vrows : r.seq \in Nat \ {0}
  BY <1>1, LineFacts
<1>2. RangeOf(Ordered(vrows)) = vrows
  BY OrderedRows DEF RowsSound
<1>3. OneChain(vrows) /\ StartsRight(vrows, vcut = 0, IF vcut = 0 THEN -1 ELSE vcut)
  BY <1>2 DEF Intact
<1>4. CASE vrows = {}
  <2>1. vtip = 0
    BY <1>1, <1>4
  <2> QED BY <1>4, <2>1 DEF NoneDeleted, SeqsOf
<1>5. CASE vrows # {}
  <2> DEFINE f == LowestOf(vrows)
  <2>1. f \in vrows /\ \A q \in vrows : f.seq <= q.seq
    BY <1>1, <1>5, LowestExists
  <2>2. f.seq = vcut + 1
    <3>1. CASE vcut = 0
      BY <1>3, <1>5, <3>1 DEF StartsRight
    <3>2. CASE vcut # 0
      <4>1. vcut >= 0
        BY <1>1
      <4> QED BY <1>3, <1>5, <3>2, <4>1 DEF StartsRight
    <3> QED BY <3>1, <3>2
  <2> HIDE DEF f
  <2>3. \A r \in vrows : r.seq >= vcut + 1 /\ (r.seq = vcut + 1 \/ \E q \in vrows : r.seq = q.seq + 1)
    <3> SUFFICES ASSUME NEW r \in vrows
                 PROVE  r.seq >= vcut + 1 /\ (r.seq = vcut + 1 \/ \E q \in vrows : r.seq = q.seq + 1)
      OBVIOUS
    <3>1. r.seq >= vcut + 1
      BY <1>1, <1>n, <2>1, <2>2
    <3>2. (\A q \in vrows : r.seq <= q.seq) \/ \E q \in vrows : r.seq = q.seq + 1
      BY <1>3 DEF OneChain
    <3> QED BY <1>1, <1>n, <2>1, <2>2, <3>1, <3>2
  <2>4. ASSUME NEW n \in (vcut + 1)..vtip, NEW t \in vrows, t.seq >= n
        PROVE  \E q \in vrows : q.seq = n
    <3>1. n \in Nat /\ vcut + 1 \in Nat /\ n >= vcut + 1
      BY <1>1
    <3> QED BY <1>1, <2>3, <2>4, <3>1, NoHoles
  <2>5. ASSUME NEW r \in vrows PROVE r.seq \in (vcut + 1)..vtip /\ r.seq >= r.seq
    BY <1>1, <1>n, <2>3
  <2>6. SeqsOf(vrows) = {n \in (vcut + 1)..vtip : \E r \in vrows : r.seq >= n}
    BY <2>4, <2>5 DEF SeqsOf
  <2> QED BY <1>5, <2>6 DEF NoneDeleted
<1> QED BY <1>4, <1>5

-----------------------------------------------------------------------------
(* The command, step by step.                                              *)

LEMMA WalkFrame ==
  ASSUME NEW w \in Walks, NEW r \in Lines,
         NEW v \in {readerRecords(w, r), startAt(w), takeNext(w)}
  PROVE  /\ v.src = w.src /\ v.genesis = w.genesis /\ v.anchor = w.anchor /\ v.pos = w.pos
         /\ v.eof = w.eof
         /\ v.fragment => (w.fragment /\ v.first = w.first) \/ v.first \in w.pending
<1> DEFINE Same(x) == /\ x.src = w.src /\ x.genesis = w.genesis /\ x.anchor = w.anchor
                      /\ x.pos = w.pos /\ x.eof = w.eof /\ x.fragment = w.fragment
                      /\ x.first = w.first
<1>1. \A kind \in Verdicts : Same(Broken(w, kind))
  BY DEF Broken, Walks
<1>2. Same(w)
  OBVIOUS
<1>3. v = readerRecords(w, r) => Same(v)
  <2>1. Same([w EXCEPT !.bad = TRUE, !.paused = TRUE]) /\ Same([w EXCEPT !.pending = @ \cup {r}])
    BY DEF Walks
  <2>2. Same(LateLine(w, r))
    <3> HIDE DEF Same
    <3>1. LateLine(w, r) \in {w, Broken(w, "altered"), Broken(w, "out of order")}
      BY DEF LateLine, sameRecord
    <3> QED BY <1>1, <1>2, <3>1 DEF Verdicts
  <2> HIDE DEF Same
  <2>3. Same(fill(w, r))
    <3>1. fill(w, r) \in {w, LateLine(w, r), Broken(w, "altered"), Broken(w, "out of order"),
                          Broken(w, "mixed"), [w EXCEPT !.pending = @ \cup {r}]}
      BY DEF fill, sameRecord
    <3> QED BY <1>1, <1>2, <2>1, <2>2, <3>1 DEF Verdicts
  <2> QED BY <2>1, <2>3 DEF readerRecords
<1>5. ASSUME v = takeNext(w) PROVE Same(v)
  <2> DEFINE q == CHOOSE q \in w.pending : q.seq = w.next
  <2>1. /\ \A kind \in Verdicts : Same([w EXCEPT !.verdict = kind])
        /\ Same([w EXCEPT !.paused = FALSE, !.pending = @ \ {q}, !.prev = q, !.next = @ + 1])
    BY DEF Walks
  <2> HIDE DEF Same
  <2>2. \/ \E kind \in Verdicts : v = [w EXCEPT !.verdict = kind]
        \/ v = [w EXCEPT !.paused = FALSE, !.pending = @ \ {q}, !.prev = q, !.next = @ + 1]
    BY <1>5 DEF takeNext, Broken, Verdicts
  <2> QED BY <2>1, <2>2
<1>6. ASSUME v = startAt(w)
      PROVE  /\ v.src = w.src /\ v.genesis = w.genesis /\ v.anchor = w.anchor /\ v.pos = w.pos
             /\ v.eof = w.eof
             /\ v.fragment => (w.fragment /\ v.first = w.first) \/ v.first \in w.pending
  <2> DEFINE f == LowestOf(w.pending)
             go == [w EXCEPT !.started = TRUE, !.next = f.seq, !.first = f, !.fragment = f.seq /= 1]
  <2>1. \A kind \in Verdicts : Same([w EXCEPT !.verdict = kind])
    BY DEF Walks
  <2>2. (\E kind \in Verdicts : v = [w EXCEPT !.verdict = kind]) \/ (w.pending # {} /\ v = go)
    BY <1>6 DEF startAt, Broken, Verdicts
  <2>3. /\ go.src = w.src /\ go.genesis = w.genesis /\ go.anchor = w.anchor /\ go.pos = w.pos
        /\ go.eof = w.eof /\ go.first = f
    BY DEF Walks
  <2>4. w.pending # {} => f \in w.pending
    BY LowestExists, LineFacts DEF Walks
  <2>5. CASE \E kind \in Verdicts : v = [w EXCEPT !.verdict = kind]
    BY <2>1, <2>5
  <2>6. CASE w.pending # {} /\ v = go
    <3> HIDE DEF go, f
    <3> QED BY <2>3, <2>4, <2>6
  <2> QED BY <2>2, <2>5, <2>6
<1>7. v \in {readerRecords(w, r), takeNext(w)} => Same(v)
  BY <1>3, <1>5
<1> QED BY <1>6, <1>7

LEMMA SourceLines ==
  ASSUME VerifyInv, vcmd.at # "idle"
  PROVE  Source \in Seq(Lines) /\ (vwalk.src = "rows" => RangeOf(Source) = vcmd.snap)
BY OrderedRows DEF VerifyInv, FileSound, SnapSound, Source

LEMMA VerifyInvInit == VerifyInit => VerifyInv
<1> SUFFICES ASSUME VerifyInit PROVE VerifyInv
  OBVIOUS
<1> USE DEF VerifyInit
<1>1. VerifyTyped
  BY DEF VerifyTyped, Stopped, Verdicts
<1>2. RowsSound
  BY FS_EmptySet DEF RowsSound, Genuines
<1>3. FileSound
  BY DEF FileSound, RangeOf
<1>4. vcmd.at = "idle"
  BY DEF Stopped
<1> QED BY <1>1, <1>2, <1>3, <1>4
        DEF VerifyInv, WalkSound, Walking, ChainWalk, FileWalk, ChainKept, FileKept, Compared

(* Commits, deliveries and prunes go on beside the command.                *)
LogSteps == Commit \/ \E n \in 1..MaxSeq : Deliver(n) \/ Prune(n)

LEMMA LogKeeps ==
  ASSUME VerifyInv, LogSteps
  PROVE  VerifyInv'
<1>1. /\ vdamage.done = 0 /\ vdamage'.done = 0 /\ ~vdamage'.still /\ UNCHANGED <<vcmd, vwalk>>
      /\ vdamage' \in [done : Nat, still : BOOLEAN, pruned : BOOLEAN]
      /\ vdamage.pruned => vdamage'.pruned
  BY DEF LogSteps, Commit, Deliver, Prune, Moved, VerifyInv, VerifyTyped
<1>t. VerifyTyped
  BY DEF VerifyInv
<1>g. vtip' \in Nat /\ vtip' >= vtip
  BY <1>t DEF LogSteps, Commit, Deliver, Prune, VerifyTyped
<1>h. Genuines(1, vtip) \subseteq Genuines(1, vtip')
  BY <1>t, <1>g DEF Genuines, VerifyTyped
<1>2. VerifyTyped'
  <2>1. vcut' \in Nat /\ vcut' <= vtip'
    BY <1>t DEF LogSteps, Commit, Deliver, Prune, VerifyTyped
  <2> QED BY <1>1, <1>g, <1>t, <2>1 DEF VerifyTyped
<1>3. RowsSound'
  <2>1. vrows' = Genuines(vcut' + 1, vtip')
    <3>0. vrows = Genuines(vcut + 1, vtip) /\ vcut \in Nat /\ vtip \in Nat /\ vcut <= vtip
      BY <1>1, <1>t DEF VerifyInv, RowsSound, VerifyTyped
    <3>1. CASE Commit
      <4>1. vcut' = vcut /\ vtip' = vtip + 1 /\ vrows' = vrows \cup {Genuine(vtip + 1)}
        BY <3>1 DEF Commit
      <4>2. (vcut + 1)..(vtip + 1) = ((vcut + 1)..vtip) \cup {vtip + 1}
        BY <3>0
      <4> QED BY <3>0, <4>1, <4>2 DEF Genuines
    <3>2. ASSUME NEW n \in 1..MaxSeq, Deliver(n) PROVE vrows' = Genuines(vcut' + 1, vtip')
      BY <3>0, <3>2 DEF Deliver
    <3>3. ASSUME NEW n \in 1..MaxSeq, Prune(n) PROVE vrows' = Genuines(vcut' + 1, vtip')
      <4>1. vcut' = n /\ vtip' = vtip /\ vrows' = {r \in vrows : r.seq > n} /\ n \in (vcut + 1)..(vtip - 1)
        BY <3>3 DEF Prune
      <4>2. \A i \in (vcut + 1)..vtip : Genuine(i).seq = i
        BY DEF Genuine, Line
      <4>3. \A i \in (n + 1)..vtip : i \in (vcut + 1)..vtip /\ i > n
        BY <3>0, <4>1
      <4>4. \A i \in (vcut + 1)..vtip : i > n => i \in (n + 1)..vtip
        BY <3>0, <4>1
      <4> QED BY <3>0, <4>1, <4>2, <4>3, <4>4 DEF Genuines
    <3> QED BY <3>1, <3>2, <3>3 DEF LogSteps
  <2>2. vcut' + 1 \in Nat \ {0} /\ vtip' \in Nat
    <3>1. vcut' \in Nat /\ vtip' \in Nat
      BY <1>2 DEF VerifyTyped
    <3>2. \A n \in Nat : n + 1 \in Nat \ {0}
      OBVIOUS
    <3> QED BY <3>1, <3>2
  <2>3. /\ vrows' \subseteq Records /\ IsFiniteSet(vrows')
        /\ \A r \in vrows' : r.seq <= vtip' /\ r = Genuine(r.seq)
    BY <2>1, <2>2, GenuineFacts
  <2>4. ~vdamage'.pruned => vcut' = 0
    BY <1>1 DEF LogSteps, Commit, Deliver, Prune, VerifyInv, RowsSound, VerifyTyped
  <2> QED BY <2>1, <2>3, <2>4 DEF RowsSound
<1>4. FileSound' /\ vfile \in Seq(Lines) /\ (vfile' = vfile \/ \E x \in Lines : vfile' = Append(vfile, x))
  <2>0. vfile \in Seq(Lines) /\ RangeOf(vfile) \subseteq Genuines(1, vtip)
    BY <1>1 DEF VerifyInv, FileSound
  <2>1. CASE vfile' = vfile
    BY <1>h, <2>0, <2>1 DEF FileSound
  <2>2. ASSUME NEW n \in 1..MaxSeq, Deliver(n) PROVE FileSound' /\ \E x \in Lines : vfile' = Append(vfile, x)
    <3>1. n \in 1..vtip /\ vfile' = Append(vfile, Genuine(n)) /\ vtip \in Nat /\ vtip' = vtip
      BY <1>t, <2>2 DEF Deliver, VerifyTyped
    <3>2. Genuine(n) \in Genuines(1, vtip) /\ Genuine(n) \in Lines
      BY <3>1, GenuineFacts, LineFacts
    <3>3. vfile' \in Seq(Lines) /\ RangeOf(vfile') = RangeOf(vfile) \cup {Genuine(n)}
      BY <2>0, <3>1, <3>2, OneMore
    <3> QED BY <2>0, <3>1, <3>2, <3>3 DEF FileSound
  <2> QED BY <2>0, <2>1, <2>2 DEF LogSteps, Commit, Prune
<1>5. vcmd'.at # "idle" => SnapSound'
  BY <1>1, <1>h DEF VerifyInv, SnapSound
<1>6. WalkSound'
  <2> SUFFICES ASSUME Walking
               PROVE  vwalk.pos <= Len(Source') /\ WalkInv(vwalk, SubSeq(Source', 1, vwalk.pos))
    BY <1>1 DEF WalkSound, Walking
  <2>0. Source \in Seq(Lines)
    BY SourceLines DEF Walking
  <2>1. vwalk.pos <= Len(Source) /\ WalkInv(vwalk, SubSeq(Source, 1, vwalk.pos)) /\ vwalk.pos \in Nat
    BY DEF VerifyInv, WalkSound, WalkInv, Walks
  <2>2. CASE Source' = Source
    BY <2>1, <2>2
  <2>3. CASE Source' # Source
    <3>1. Source = vfile /\ Source' = vfile'
      BY <1>1, <2>3 DEF Source
    <3>2. PICK x \in Lines : vfile' = Append(vfile, x)
      BY <1>4, <2>3, <3>1
    <3>3. /\ SubSeq(Append(vfile, x), 1, vwalk.pos) = SubSeq(vfile, 1, vwalk.pos)
          /\ vwalk.pos <= Len(Append(vfile, x))
      BY <1>4, <2>1, <3>1
    <3> QED BY <2>1, <3>1, <3>2, <3>3
  <2> QED BY <2>2, <2>3
<1>7. ChainWalk'
  <2> SUFFICES ASSUME vcmd.at = "chain" PROVE ChainWalk'
    BY <1>1 DEF ChainWalk
  <2>1. vwalk.src = "rows"
    BY DEF VerifyInv, ChainWalk
  <2>2. Source' = Source
    BY <1>1, <2>1 DEF Source
  <2> QED BY <1>1, <2>2 DEF VerifyInv, ChainWalk
<1>8. FileWalk'
  <2>1. RangeOf(vfile) \subseteq RangeOf(vfile')
    BY <1>4, OneMore
  <2> QED BY <1>1, <2>1 DEF VerifyInv, FileWalk
<1>9. ChainKept' /\ FileKept' /\ Compared'
  BY <1>1 DEF VerifyInv, ChainKept, FileKept, Compared
<1> QED BY <1>2, <1>3, <1>4, <1>5, <1>6, <1>7, <1>8, <1>9 DEF VerifyInv

(* Damage and exports fall between two commands.                           *)
IdleSteps ==
  \/ \E n \in 1..MaxSeq : Export(n)
  \/ \E i \in DOMAIN vfile :
       \/ \E r \in {Unreadable} \cup {Altered(n) : n \in 1..vtip}
                   \cup {Alien(n) : n \in 1..vtip} \cup {Rewritten(n, n) : n \in 1..vtip} :
            DamageFile(i, r)
       \/ LoseLine(i)
  \/ \E k \in 1..vtip : \E S \in RowDamages(k) : DamageRows(k, S)

LEMMA MadeLines ==
  ASSUME NEW n \in Nat \ {0}
  PROVE  /\ Altered(n) \in Records /\ Alien(n) \in Records
         /\ \A k \in 1..n : Rewritten(n, k) \in Records /\ Rewritten(n, k).seq = n
         /\ Altered(n).seq = n
<1>1. Altered(n).seq = n /\ \A k \in 1..n : Rewritten(n, k).seq = n
  BY DEF Altered, Rewritten, Line
<1>2. /\ Altered(n) \in Records /\ Alien(n) \in Records
      /\ \A k \in 1..n : Rewritten(n, k) \in Records
  BY DEF Records
<1> QED BY <1>1, <1>2

LEMMA IdleKeeps ==
  ASSUME VerifyInv, IdleSteps
  PROVE  VerifyInv'
<1>t. VerifyTyped /\ RowsSound /\ FileSound
  BY DEF VerifyInv
<1>1. /\ vcmd.at = "idle" /\ UNCHANGED <<vcmd, vwalk, vtip, vcut>> /\ vdamage'.pruned = vdamage.pruned
      /\ vdamage' \in [done : Nat, still : BOOLEAN, pruned : BOOLEAN]
      /\ vdamage'.done = 0 => vdamage.done = 0
  <2>1. \/ vdamage' = [vdamage EXCEPT !.still = FALSE]
        \/ vdamage' = [vdamage EXCEPT !.still = FALSE, !.done = @ + 1]
    BY DEF IdleSteps, Export, DamageFile, LoseLine, DamageRows, Damaged, Moved
  <2>2. vcmd.at = "idle" /\ UNCHANGED <<vcmd, vwalk, vtip, vcut>>
    BY DEF IdleSteps, Export, DamageFile, LoseLine, DamageRows, Damaged, Idle
  <2>3. vdamage \in [done : Nat, still : BOOLEAN, pruned : BOOLEAN]
    BY <1>t DEF VerifyTyped
  <2>4. /\ vdamage'.pruned = vdamage.pruned
        /\ vdamage' \in [done : Nat, still : BOOLEAN, pruned : BOOLEAN]
        /\ vdamage'.done = 0 => vdamage.done = 0
    <3>1. CASE vdamage' = [vdamage EXCEPT !.still = FALSE]
      BY <2>3, <3>1
    <3>2. CASE vdamage' = [vdamage EXCEPT !.still = FALSE, !.done = @ + 1]
      <4>1. vdamage' = [done |-> vdamage.done + 1, still |-> FALSE, pruned |-> vdamage.pruned]
        BY <2>3, <3>2
      <4>2. \A n \in Nat : n + 1 \in Nat /\ n + 1 # 0
        OBVIOUS
      <4> QED BY <2>3, <4>1, <4>2
    <3> QED BY <2>1, <3>1, <3>2
  <2> QED BY <2>2, <2>4
<1>2. VerifyTyped'
  BY <1>1, <1>t DEF VerifyTyped
<1>3. RowsSound'
  <2>1. CASE vrows' = vrows
    BY <1>1, <1>t, <2>1 DEF RowsSound
  <2>2. ASSUME NEW k \in 1..vtip, NEW S \in RowDamages(k), DamageRows(k, S) PROVE RowsSound'
    <3>1. vrows' = {r \in vrows : r.seq < k} \cup S /\ vdamage'.done # 0
      BY <1>t, <2>2 DEF DamageRows, Damaged, VerifyTyped
    <3>2. vtip \in Nat /\ k \in Nat \ {0} /\ \A r \in vrows : r.seq \in Nat /\ r.seq <= vtip
      BY <1>t, LineFacts DEF VerifyTyped, RowsSound
    <3>3. /\ S \subseteq Records /\ IsFiniteSet(S) /\ \A r, q \in S : r.seq = q.seq => r = q
          /\ \A r \in S : r.seq \in k..vtip
      <4> DEFINE after == {r \in vrows : r.seq > k}
      <4>0. /\ after \subseteq Records /\ IsFiniteSet(after) /\ \A r, q \in after : r.seq = q.seq => r = q
            /\ \A r \in after : r.seq \in k..vtip /\ r.seq # k
        <5>1. IsFiniteSet(after)
          BY <1>t, FS_Subset DEF RowsSound
        <5> QED BY <1>t, <3>2, <5>1 DEF RowsSound
      <4>1. CASE S = after
        BY <4>0, <4>1
      <4>2. CASE S = after \cup {Altered(k)}
        <5>1. Altered(k) \in Records /\ Altered(k).seq = k /\ IsFiniteSet(S)
          BY <3>2, <4>0, <4>2, MadeLines, FS_AddElement
        <5> QED BY <3>2, <4>0, <4>2, <5>1
      <4>3. CASE S = {Rewritten(n, k) : n \in k..vtip}
        <5>1. \A n \in k..vtip : Rewritten(n, k) \in Records /\ Rewritten(n, k).seq = n
          BY <3>2, MadeLines
        <5>2. IsFiniteSet(S)
          <6> DEFINE f == [n \in k..vtip |-> Rewritten(n, k)]
          <6>1. f \in Surjection(k..vtip, S)
            BY <4>3 DEF Surjection
          <6> QED BY <3>2, <6>1, FS_Surjection, FS_Interval
        <5> QED BY <4>3, <5>1, <5>2
      <4>4. CASE S = {}
        BY <4>4, FS_EmptySet
      <4> QED BY <2>2, <4>1, <4>2, <4>3, <4>4 DEF RowDamages
    <3>4. IsFiniteSet(vrows')
      <4>1. IsFiniteSet({r \in vrows : r.seq < k})
        BY <1>t, FS_Subset DEF RowsSound
      <4> QED BY <3>1, <3>3, <4>1, FS_Union
    <3>5. \A r, q \in vrows' : r.seq = q.seq => r = q
      BY <1>t, <3>1, <3>2, <3>3 DEF RowsSound
    <3>6. vrows' \subseteq Records /\ \A r \in vrows' : r.seq <= vtip'
      BY <1>1, <1>t, <3>1, <3>2, <3>3 DEF RowsSound
    <3> QED BY <1>1, <1>t, <3>1, <3>4, <3>5, <3>6 DEF RowsSound
  <2> QED BY <2>1, <2>2 DEF IdleSteps, Export, DamageFile, LoseLine
<1>4. FileSound'
  <2>0. vfile \in Seq(Lines) /\ vtip \in Nat
    BY <1>t DEF FileSound, VerifyTyped
  <2>1. CASE vfile' = vfile
    BY <1>1, <1>t, <2>1 DEF FileSound
  <2>2. ASSUME NEW n \in 1..MaxSeq, Export(n) PROVE FileSound'
    <3> DEFINE R == {r \in vrows : r.seq >= n}
    <3>1. vfile' = vfile \o Ordered(R)
      BY <2>2 DEF Export
    <3>2. R \in SUBSET Records /\ IsFiniteSet(R) /\ \A r, q \in R : r.seq = q.seq => r = q
      BY <1>t, FS_Subset DEF RowsSound
    <3>3. Ordered(R) \in Seq(Lines) /\ RangeOf(Ordered(R)) = R
      BY <3>2, OrderedRows
    <3>4. vfile' \in Seq(Lines) /\ RangeOf(vfile') \subseteq RangeOf(vfile) \cup R
      <4> HIDE DEF R
      <4>1. RangeOf(vfile \o Ordered(R)) \subseteq RangeOf(vfile) \cup RangeOf(Ordered(R))
        BY <2>0, <3>3, Joined
      <4>2. vfile \o Ordered(R) \in Seq(Lines)
        BY <2>0, <3>3
      <4> QED BY <3>1, <3>3, <4>1, <4>2
    <3>5. vdamage.done = 0 => R \subseteq Genuines(1, vtip)
      BY <1>t DEF RowsSound, Genuines, VerifyTyped
    <3> QED BY <1>1, <1>t, <3>4, <3>5 DEF FileSound
  <2>3. ASSUME NEW i \in DOMAIN vfile,
               NEW r \in {Unreadable} \cup {Altered(n) : n \in 1..vtip}
                   \cup {Alien(n) : n \in 1..vtip} \cup {Rewritten(n, n) : n \in 1..vtip},
               DamageFile(i, r)
        PROVE  FileSound'
    <3>1. r \in Lines
      BY <2>0, MadeLines DEF Lines
    <3>2. vfile' = [vfile EXCEPT ![i] = r] /\ vdamage'.done # 0
      BY <1>t, <2>3 DEF DamageFile, Damaged, VerifyTyped
    <3>3. vfile' \in Seq(Lines)
      BY <2>0, <3>1, <3>2
    <3> QED BY <3>2, <3>3 DEF FileSound
  <2>4. ASSUME NEW i \in DOMAIN vfile, LoseLine(i) PROVE FileSound'
    <3>1. vfile' = SubSeq(vfile, 1, i - 1) \o SubSeq(vfile, i + 1, Len(vfile)) /\ vdamage'.done # 0
      BY <1>t, <2>4 DEF LoseLine, Damaged, VerifyTyped
    <3>2. /\ SubSeq(vfile, 1, i - 1) \in Seq(Lines) /\ SubSeq(vfile, i + 1, Len(vfile)) \in Seq(Lines)
      <4>1. i \in 1..Len(vfile) /\ Len(vfile) \in Nat
        BY <2>0
      <4> QED BY <2>0, <4>1
    <3>3. vfile' \in Seq(Lines)
      BY <3>1, <3>2
    <3> QED BY <3>1, <3>3 DEF FileSound
  <2> QED BY <2>1, <2>2, <2>3, <2>4 DEF IdleSteps, DamageRows
<1>5. vcmd'.at = "idle"
  BY <1>1
<1> QED BY <1>2, <1>3, <1>4, <1>5
        DEF VerifyInv, WalkSound, Walking, ChainWalk, FileWalk, ChainKept, FileKept, Compared

LEMMA VerifyKeeps ==
  ASSUME VerifyInv, verify
  PROVE  VerifyInv'
<1> DEFINE rd == SubSeq(Source, 1, vwalk.pos)
<1>1. UNCHANGED <<vrows, vcut, vtip, vfile, vcmd, vdamage>> /\ Walking /\ vcmd.at # "idle"
  BY DEF verify, Walking
<1>2. /\ Source \in Seq(Lines) /\ Len(Source) \in Nat /\ vwalk.pos \in 0..Len(Source)
      /\ rd \in Seq(Lines) /\ WalkInv(vwalk, rd) /\ vwalk \in Walks
      /\ vwalk.verdict = "none" /\ Underway(vwalk, rd)
      /\ RangeOf(rd) \subseteq RangeOf(Source)
  <2>1. Source \in Seq(Lines)
    BY <1>1, SourceLines
  <2>2. vwalk.pos <= Len(Source) /\ WalkInv(vwalk, rd) /\ vwalk.verdict = "none"
    BY <1>1 DEF VerifyInv, WalkSound, verify
  <2>3. vwalk \in Walks /\ vwalk.pos \in Nat /\ Underway(vwalk, rd)
    BY <2>2 DEF WalkInv, Walks
  <2>4. vwalk.pos \in 0..Len(Source) /\ Len(Source) \in Nat
    BY <2>1, <2>2, <2>3
  <2>5. rd \in Seq(Lines) /\ Extends(Source, rd)
    BY <2>1, <2>4, WholeRead
  <2> QED BY <2>1, <2>2, <2>3, <2>4, <2>5, RangeGrows
(* What a step of the walk leaves as the invariant wants it.               *)
<1>3. ASSUME vwalk'.src = vwalk.src, vwalk'.genesis = vwalk.genesis, vwalk'.anchor = vwalk.anchor,
             vwalk'.pos \in 0..Len(Source), WalkInv(vwalk', SubSeq(Source, 1, vwalk'.pos)),
             vwalk'.eof => vwalk'.pos = Len(Source) \/ (vwalk.eof /\ vwalk'.pos = vwalk.pos),
             vwalk'.fragment => \/ vwalk.fragment /\ vwalk'.first = vwalk.first
                                \/ vwalk'.first \in vwalk.pending
      PROVE  VerifyInv'
  <2>1. Source' = Source
    BY <1>1, <1>3 DEF Source
  <2>2. WalkSound'
    BY <1>3, <2>1 DEF WalkSound
  <2>3. ChainWalk'
    BY <1>1, <1>3, <2>1 DEF VerifyInv, ChainWalk
  <2>4. vwalk.pending \subseteq RangeOf(Source)
    BY <1>2 DEF Underway, Placed
  <2>5. vcmd.at = "file" => Source = vfile
    BY DEF VerifyInv, FileWalk, Source
  <2>6. FileWalk'
    BY <1>1, <1>3, <2>4, <2>5 DEF VerifyInv, FileWalk
  <2>7. /\ VerifyTyped' /\ RowsSound' /\ FileSound' /\ SnapSound' /\ ChainKept' /\ FileKept' /\ Compared'
    BY <1>1 DEF VerifyInv, VerifyTyped, RowsSound, FileSound, SnapSound, ChainKept, FileKept,
                Compared, NoneDeleted, Gapless
  <2> QED BY <2>2, <2>3, <2>6, <2>7 DEF VerifyInv
<1>4. CASE ~Filled(vwalk) /\ vwalk.pos = Len(Source)
  <2>1. vwalk' = [vwalk EXCEPT !.eof = TRUE]
    BY <1>4 DEF verify, Pull, Walk
  <2>2. WalkInv(vwalk', rd)
    BY <1>2, <2>1, EndKeeps
  <2>3. /\ vwalk'.src = vwalk.src /\ vwalk'.genesis = vwalk.genesis /\ vwalk'.anchor = vwalk.anchor
        /\ vwalk'.pos = vwalk.pos /\ vwalk'.fragment = vwalk.fragment /\ vwalk'.first = vwalk.first
    BY <1>2, <2>1 DEF Walks
  <2> QED BY <1>2, <1>3, <1>4, <2>2, <2>3
<1>5. CASE ~Filled(vwalk) /\ vwalk.pos # Len(Source)
  <2> DEFINE w == [vwalk EXCEPT !.pos = @ + 1]
             r == Source[vwalk.pos + 1]
  <2>1. /\ w \in Walks /\ w.pos = vwalk.pos + 1 /\ w.src = vwalk.src /\ w.genesis = vwalk.genesis
        /\ w.anchor = vwalk.anchor /\ w.pending = vwalk.pending /\ w.prev = vwalk.prev
        /\ w.next = vwalk.next /\ w.started = vwalk.started /\ w.bad = vwalk.bad
        /\ w.paused = vwalk.paused /\ w.eof = vwalk.eof /\ w.verdict = vwalk.verdict
        /\ w.first = vwalk.first /\ w.fragment = vwalk.fragment
    <3>1. vwalk.pos + 1 \in Nat
      BY <1>2
    <3>2. vwalk \in Walks
      BY <1>2
    <3> QED BY <3>1, <3>2 DEF Walks
  <2>2. vwalk' = readerRecords(w, r)
    BY <1>5, <2>1 DEF verify, Pull, Walk
  <2> HIDE DEF w
  <2>3. vwalk.pos \in 0..(Len(Source) - 1)
    BY <1>2, <1>5
  <2>4. r \in Lines /\ SubSeq(Source, 1, vwalk.pos + 1) = Append(rd, r)
    BY <1>2, <2>3, OneMoreRead
  <2>5. ~Filled(w) /\ ~w.eof
    BY <1>5, <2>1 DEF Filled
  <2>6. Underway(w, rd)
    BY <1>2, <2>1 DEF Underway, Window, Placed, Untrusted, SoundSoFar, TakenSound, HeldAbove, Filled
  <2> HIDE DEF rd, r
  <2>7. WalkInv(vwalk', Append(rd, r))
    BY <1>2, <2>1, <2>2, <2>4, <2>5, <2>6, ReadKeeps
  <2>8. /\ vwalk'.src = w.src /\ vwalk'.genesis = w.genesis /\ vwalk'.anchor = w.anchor
        /\ vwalk'.pos = w.pos /\ vwalk'.eof = w.eof
        /\ vwalk'.fragment => (w.fragment /\ vwalk'.first = w.first) \/ vwalk'.first \in w.pending
    BY <2>1, <2>2, <2>4, WalkFrame
  <2>9. vwalk'.pos \in 0..Len(Source)
    BY <1>2, <2>1, <2>3, <2>8
  <2> QED BY <1>3, <2>1, <2>4, <2>5, <2>7, <2>8, <2>9
<1>6. CASE Filled(vwalk)
  <2>1. /\ ~vwalk.started => vwalk' = startAt(vwalk)
        /\ vwalk.started => vwalk' = takeNext(vwalk)
    BY <1>6 DEF verify, Walk
  <2>2. WalkInv(vwalk', rd)
    BY <1>2, <1>6, <2>1, StartKeeps, TakeKeeps
  <2>3. /\ vwalk'.src = vwalk.src /\ vwalk'.genesis = vwalk.genesis /\ vwalk'.anchor = vwalk.anchor
        /\ vwalk'.pos = vwalk.pos /\ vwalk'.eof = vwalk.eof
        /\ vwalk'.fragment => \/ vwalk.fragment /\ vwalk'.first = vwalk.first
                              \/ vwalk'.first \in vwalk.pending
    BY <1>2, <2>1, LineFacts, WalkFrame
  <2> QED BY <1>2, <1>3, <2>2, <2>3
<1> QED BY <1>4, <1>5, <1>6

(* A walk that begins has read nothing.                                    *)
LEMMA BeginKeeps ==
  ASSUME VerifyInv, NEW m \in BOOLEAN, NEW d \in BOOLEAN, NEW a \in (-1)..MaxSeq,
         cmdAuditVerify(m, d, a)
  PROVE  VerifyInv'
<1>t. VerifyTyped /\ RowsSound /\ FileSound /\ a \in Int
  BY AuditVerifyAssumption DEF VerifyInv
<1> DEFINE c(step) == [at |-> step, mirror |-> m, db |-> d, anchor |-> a,
                       chain |-> "none", file |-> "none", cmp |-> "none", snap |-> vrows]
<1>1. /\ UNCHANGED <<vrows, vcut, vtip, vfile>> /\ (m \/ (d /\ a = -1))
      /\ vdamage' = [vdamage EXCEPT !.still = TRUE]
  BY DEF cmdAuditVerify
<1>2. /\ vdamage' \in [done : Nat, still : BOOLEAN, pruned : BOOLEAN]
      /\ vdamage'.done = vdamage.done /\ vdamage'.pruned = vdamage.pruned
  BY <1>t, <1>1 DEF VerifyTyped
<1>3. IF d THEN /\ vcmd' = c("chain")
                /\ vwalk' = IF vcut = 0 THEN Fresh("rows", TRUE, -1) ELSE Fresh("rows", FALSE, vcut)
           ELSE vcmd' = c("file") /\ vwalk' = Fresh("file", FALSE, a)
  BY DEF cmdAuditVerify, Stopped, BeginFile
<1>4. vcmd' = IF d THEN c("chain") ELSE c("file")
  BY <1>3
<1>5. /\ vcmd'.mirror = m /\ vcmd'.db = d /\ vcmd'.anchor = a /\ vcmd'.snap = vrows
      /\ vcmd'.chain = "none" /\ vcmd'.file = "none" /\ vcmd'.cmp = "none"
      /\ vcmd'.at = IF d THEN "chain" ELSE "file"
  BY <1>4
<1>6. VerifyTyped'
  <2>1. vrows \subseteq Records
    BY <1>t DEF RowsSound
  <2>2. vcmd' \in [at : {"idle", "chain", "file", "compare", "done"}, mirror : BOOLEAN, db : BOOLEAN,
               anchor : Int, chain : Verdicts, file : Verdicts,
               cmp : {"none", "ok", "installs", "diverged", "ahead"}, snap : SUBSET Records]
    BY <1>t, <1>4, <2>1 DEF Verdicts
  <2> HIDE DEF c
  <2> QED BY <1>t, <1>1, <1>2, <2>2 DEF VerifyTyped
<1> HIDE DEF c
<1>7. RowsSound' /\ FileSound'
  BY <1>t, <1>1, <1>2 DEF RowsSound, FileSound
<1>8. vdamage.done = 0 => vrows \subseteq Genuines(1, vtip)
  BY <1>t DEF RowsSound, Genuines, VerifyTyped
<1>9. SnapSound'
  BY <1>t, <1>1, <1>2, <1>5, <1>8 DEF RowsSound, SnapSound
<1>10. /\ WalkInv(vwalk', <<>>) /\ vwalk'.pos = 0 /\ ~vwalk'.eof /\ ~vwalk'.fragment
       /\ d => /\ vwalk'.src = "rows" /\ vwalk'.genesis = (vcut = 0)
               /\ vwalk'.anchor = IF vcut = 0 THEN -1 ELSE vcut
       /\ ~d => vwalk'.src = "file" /\ vwalk'.genesis = FALSE /\ vwalk'.anchor = a
  <2>1. vcut \in Int
    BY <1>t DEF VerifyTyped
  <2>2. CASE d /\ vcut = 0
    <3>1. vwalk' = Fresh("rows", TRUE, -1) /\ d
      BY <1>3, <2>2
    <3>2. /\ WalkInv(vwalk', <<>>) /\ vwalk'.pos = 0 /\ ~vwalk'.eof /\ ~vwalk'.fragment
          /\ vwalk'.src = "rows" /\ vwalk'.genesis = TRUE /\ vwalk'.anchor = -1
      <4>1. "rows" \in {"rows", "file"} /\ TRUE \in BOOLEAN /\ -1 \in Int
        BY <2>1
      <4>2. /\ WalkInv(Fresh("rows", TRUE, -1), <<>>) /\ Fresh("rows", TRUE, -1).pos = 0
            /\ ~Fresh("rows", TRUE, -1).eof /\ ~Fresh("rows", TRUE, -1).fragment
            /\ Fresh("rows", TRUE, -1).src = "rows" /\ Fresh("rows", TRUE, -1).genesis = TRUE
            /\ Fresh("rows", TRUE, -1).anchor = -1
        <5>1. \A z \in Int, g \in BOOLEAN :
                /\ WalkInv(Fresh("rows", g, z), <<>>) /\ Fresh("rows", g, z).pos = 0
                /\ ~Fresh("rows", g, z).eof /\ ~Fresh("rows", g, z).fragment
                /\ Fresh("rows", g, z).src = "rows" /\ Fresh("rows", g, z).genesis = g
                /\ Fresh("rows", g, z).anchor = z
          BY FreshKeeps
        <5> QED BY <4>1, <5>1
      <4> QED BY <3>1, <4>2
    <3> QED BY <2>2, <3>2
  <2>3. CASE d /\ vcut # 0
    <3>1. vwalk' = Fresh("rows", FALSE, vcut) /\ d
      BY <1>3, <2>3
    <3>2. /\ WalkInv(vwalk', <<>>) /\ vwalk'.pos = 0 /\ ~vwalk'.eof /\ ~vwalk'.fragment
          /\ vwalk'.src = "rows" /\ vwalk'.genesis = FALSE /\ vwalk'.anchor = vcut
      <4>1. "rows" \in {"rows", "file"} /\ FALSE \in BOOLEAN /\ vcut \in Int
        BY <2>1
      <4>2. /\ WalkInv(Fresh("rows", FALSE, vcut), <<>>) /\ Fresh("rows", FALSE, vcut).pos = 0
            /\ ~Fresh("rows", FALSE, vcut).eof /\ ~Fresh("rows", FALSE, vcut).fragment
            /\ Fresh("rows", FALSE, vcut).src = "rows" /\ Fresh("rows", FALSE, vcut).genesis = FALSE
            /\ Fresh("rows", FALSE, vcut).anchor = vcut
        BY <4>1, FreshKeeps
      <4> QED BY <3>1, <4>2
    <3> QED BY <2>3, <3>2
  <2>4. CASE ~d
    <3>1. vwalk' = Fresh("file", FALSE, a)
      BY <1>3, <2>4
    <3>2. /\ WalkInv(vwalk', <<>>) /\ vwalk'.pos = 0 /\ ~vwalk'.eof /\ ~vwalk'.fragment
          /\ vwalk'.src = "file" /\ vwalk'.genesis = FALSE /\ vwalk'.anchor = a
      BY <1>t, <3>1, FreshKeeps
    <3> QED BY <2>4, <3>2
  <2> QED BY <2>2, <2>3, <2>4
<1>11. WalkSound'
  <2>1. Source' \in Seq(Lines)
    <3>1. Source' = IF d THEN Ordered(vrows) ELSE vfile
      BY <1>1, <1>5, <1>10 DEF Source
    <3> QED BY <1>t, <3>1, OrderedRows DEF RowsSound, FileSound
  <2>2. 0 \in 0..Len(Source') /\ 0 <= Len(Source')
    BY <2>1
  <2>3. SubSeq(Source', 1, 0) = <<>>
    BY <2>1, <2>2, WholeRead
  <2> QED BY <1>10, <2>2, <2>3 DEF WalkSound
<1>12. ChainWalk' /\ FileWalk' /\ ChainKept' /\ FileKept' /\ Compared'
  <2>1. ChainWalk'
    BY <1>1, <1>5, <1>10 DEF ChainWalk
  <2>2. FileWalk'
    BY <1>1, <1>5, <1>10 DEF FileWalk
  <2>3. ChainKept' /\ FileKept' /\ Compared'
    BY <1>5 DEF ChainKept, FileKept, Compared
  <2> QED BY <2>1, <2>2, <2>3
<1> QED BY <1>6, <1>7, <1>9, <1>11, <1>12 DEF VerifyInv

(* A walk that ended has judged what it read, and what it read is          *)
(* everything if nothing moved.                                            *)
LEMMA WalkEnded ==
  ASSUME VerifyInv, Walking, vwalk.verdict # "none"
  PROVE  /\ Source \in Seq(Lines) /\ vwalk.verdict \in Verdicts
         /\ vwalk.verdict = "ok" => vwalk.eof
         /\ (vwalk.verdict = "ok" /\ vwalk.pos = Len(Source)) =>
              Intact(Source, vwalk.genesis, vwalk.anchor)
         /\ (Intact(Source, vwalk.genesis, vwalk.anchor)
             /\ (vwalk.eof => vwalk.pos = Len(Source))) => vwalk.verdict = "ok"
<1> DEFINE rd == SubSeq(Source, 1, vwalk.pos)
<1>1. /\ Source \in Seq(Lines) /\ vwalk.pos \in 0..Len(Source) /\ rd \in Seq(Lines)
      /\ Extends(Source, rd) /\ (vwalk.pos = Len(Source) => rd = Source)
      /\ Judged(vwalk, rd) /\ vwalk.verdict \in Verdicts
  <2>1. Source \in Seq(Lines)
    BY SourceLines DEF Walking
  <2>2. vwalk.pos <= Len(Source) /\ WalkInv(vwalk, rd)
    BY DEF VerifyInv, WalkSound
  <2>3. vwalk.pos \in 0..Len(Source) /\ Judged(vwalk, rd) /\ vwalk.verdict \in Verdicts
    BY <2>1, <2>2 DEF WalkInv, Walks
  <2> QED BY <2>1, <2>3, WholeRead
<1> HIDE DEF rd
<1>2. ASSUME Intact(Source, vwalk.genesis, vwalk.anchor), vwalk.eof => vwalk.pos = Len(Source),
             vwalk.verdict # "ok"
      PROVE  FALSE
  <2>1. ~vwalk.eof => Hopeless(rd, vwalk.genesis, vwalk.anchor)
    BY <1>1, <1>2 DEF Judged
  <2>2. ~Intact(rd, vwalk.genesis, vwalk.anchor)
    BY <1>1, <1>2 DEF Judged
  <2>3. CASE vwalk.eof
    BY <1>1, <1>2, <2>2, <2>3
  <2>4. CASE ~vwalk.eof
    BY <1>1, <1>2, <2>1, <2>4 DEF Hopeless
  <2> QED BY <2>3, <2>4
<1> QED BY <1>1, <1>2 DEF Judged

(* A command between two walks, or past them, keeps the log's part.        *)
LEMMA QuietKeeps ==
  ASSUME VerifyInv, UNCHANGED <<vrows, vcut, vtip, vfile, vdamage>>
  PROVE  RowsSound' /\ FileSound'
BY DEF VerifyInv, RowsSound, FileSound

LEMMA ChainDoneKeeps ==
  ASSUME VerifyInv, ChainDone
  PROVE  VerifyInv'
<1>t. VerifyTyped /\ RowsSound /\ SnapSound
  BY DEF VerifyInv, ChainDone
<1>1. /\ UNCHANGED <<vrows, vcut, vtip, vfile, vdamage>> /\ vcmd.at = "chain" /\ Walking
      /\ vwalk.verdict # "none"
  BY DEF ChainDone, Walking
<1>2. /\ vcmd.db /\ vwalk.src = "rows" /\ vcmd.file = "none" /\ vcmd.cmp = "none"
      /\ vwalk.eof => vwalk.pos = Len(Source)
      /\ vdamage.still => /\ vwalk.genesis = (vcut = 0)
                          /\ vwalk.anchor = IF vcut = 0 THEN -1 ELSE vcut
      /\ Source = Ordered(vcmd.snap)
  BY <1>1 DEF VerifyInv, ChainWalk, Source
<1>3. ChainVerdict \in Verdicts
  BY <1>1, WalkEnded DEF ChainVerdict, Verdicts
<1>4. /\ vcmd'.mirror = vcmd.mirror /\ vcmd'.db = vcmd.db /\ vcmd'.anchor = vcmd.anchor
      /\ vcmd'.chain = ChainVerdict /\ vcmd'.file = vcmd.file /\ vcmd'.cmp = vcmd.cmp
      /\ vcmd'.snap = vcmd.snap
      /\ vcmd'.at = IF vcmd.mirror THEN "file" ELSE "done"
      /\ vcmd.mirror => vwalk' = Fresh("file", FALSE, vcmd.anchor)
  <2>1. vcmd' = [vcmd EXCEPT !.chain = ChainVerdict, !.at = IF vcmd.mirror THEN "file" ELSE "done"]
    BY <1>t DEF ChainDone, BeginFile, Finish, VerifyTyped
  <2>2. vcmd.mirror => vwalk' = Fresh("file", FALSE, vcmd.anchor)
    BY <1>t DEF ChainDone, BeginFile, VerifyTyped
  <2> QED BY <1>t, <2>1, <2>2 DEF VerifyTyped
<1>5. VerifyTyped'
  <2>1. vcmd' = [vcmd EXCEPT !.chain = ChainVerdict, !.at = IF vcmd.mirror THEN "file" ELSE "done"]
    BY <1>t DEF ChainDone, BeginFile, Finish, VerifyTyped
  <2> QED BY <1>t, <1>1, <1>3, <2>1 DEF VerifyTyped
<1>6. SnapSound' /\ ChainWalk'
  BY <1>t, <1>1, <1>4 DEF SnapSound, ChainWalk
<1>7. WalkSound' /\ FileWalk'
  <2>1. CASE vcmd.mirror
    <3>1. vcmd.anchor \in Int
      BY <1>t DEF VerifyTyped
    <3>2. /\ WalkInv(vwalk', <<>>) /\ vwalk'.pos = 0 /\ ~vwalk'.eof /\ ~vwalk'.fragment
          /\ vwalk'.src = "file" /\ vwalk'.genesis = FALSE /\ vwalk'.anchor = vcmd.anchor
      <4>1. \A z \in Int, g \in BOOLEAN :
              /\ WalkInv(Fresh("file", g, z), <<>>) /\ Fresh("file", g, z).pos = 0
              /\ ~Fresh("file", g, z).eof /\ ~Fresh("file", g, z).fragment
              /\ Fresh("file", g, z).src = "file" /\ Fresh("file", g, z).genesis = g
              /\ Fresh("file", g, z).anchor = z
        BY FreshKeeps
      <4> QED BY <1>4, <2>1, <3>1, <4>1
    <3>3. Source' = vfile /\ vfile \in Seq(Lines)
      BY <1>1, <3>2 DEF Source, VerifyInv, FileSound
    <3>4. 0 \in 0..Len(vfile) /\ 0 <= Len(vfile)
      BY <3>3
    <3>5. SubSeq(Source', 1, 0) = <<>> /\ vwalk'.pos <= Len(Source')
      BY <3>2, <3>3, <3>4, WholeRead
    <3> QED BY <1>1, <1>2, <1>4, <2>1, <3>2, <3>5 DEF WalkSound, FileWalk
  <2>2. CASE ~vcmd.mirror
    BY <1>4, <2>2 DEF WalkSound, Walking, FileWalk
  <2> QED BY <2>1, <2>2
<1>8. ChainKept'
  <2>1. ASSUME ChainVerdict = "ok", vdamage.still PROVE NoneDeleted
    <3>1. vwalk.verdict = "ok" /\ ~(vrows = {} /\ vtip > 0) /\ vcmd.snap = vrows
      BY <1>t, <2>1 DEF ChainVerdict, SnapSound
    <3>2. Intact(Source, vwalk.genesis, vwalk.anchor)
      BY <1>1, <1>2, <3>1, WalkEnded
    <3> QED BY <1>t, <1>2, <2>1, <3>1, <3>2, IntactRows
  <2>2. ASSUME vdamage.still, vdamage.done = 0, ~vdamage.pruned PROVE ChainVerdict = "ok"
    <3>1. vcut = 0 /\ vrows = Genuines(1, vtip) /\ vcmd.snap = vrows /\ vtip \in Nat
      BY <1>t, <2>2 DEF RowsSound, SnapSound, VerifyTyped
    <3>2. vwalk.genesis = TRUE /\ vwalk.anchor = -1
      BY <1>2, <2>2, <3>1
    <3>3. Source \in Seq(Lines) /\ RangeOf(Source) = Genuines(1, vtip) /\ InWindow(Source)
      BY <1>t, <1>2, <3>1, OrderedRows, AscendingInWindow DEF RowsSound
    <3>4. \A i \in 1..vtip : \E r \in RangeOf(Source) : r.seq = i
      BY <3>1, <3>3, GenuineFacts
    <3>5. Intact(Source, TRUE, -1)
      BY <3>1, <3>3, <3>4, HealthyIsIntact
    <3>6. vwalk.verdict = "ok"
      BY <1>1, <1>2, <3>2, <3>5, WalkEnded
    <3>7. vtip > 0 => vcmd.snap # {}
      <4>1. vtip > 0 => 1 \in 1..vtip
        BY <3>1
      <4> QED BY <3>1, <4>1, GenuineFacts
    <3> QED BY <3>6, <3>7 DEF ChainVerdict
  <2> QED BY <1>1, <1>2, <1>4, <2>1, <2>2 DEF ChainKept, NoneDeleted
<1>9. FileKept' /\ Compared'
  BY <1>1, <1>2, <1>4 DEF FileKept, Compared
<1> QED BY <1>5, <1>6, <1>7, <1>8, <1>9, <1>1, QuietKeeps DEF VerifyInv

LEMMA FileDoneKeeps ==
  ASSUME VerifyInv, FileDone
  PROVE  VerifyInv'
<1>t. VerifyTyped /\ RowsSound /\ FileSound /\ SnapSound
  BY DEF VerifyInv, FileDone
<1>1. /\ UNCHANGED <<vrows, vcut, vtip, vfile, vdamage>> /\ vcmd.at = "file" /\ Walking
      /\ vwalk.verdict # "none"
  BY DEF FileDone, Walking
<1>2. /\ vcmd.mirror /\ vwalk.src = "file" /\ ~vwalk.genesis /\ vwalk.anchor = vcmd.anchor
      /\ vcmd.file = "none" /\ vcmd.cmp = "none"
      /\ vwalk.eof /\ (vdamage.still \/ vdamage.done > 0) => vwalk.pos = Len(vfile)
      /\ vwalk.fragment => vwalk.first \in RangeOf(vfile)
      /\ Source = vfile
  BY <1>1 DEF VerifyInv, FileWalk, Source
<1> DEFINE verdict == VerifyMirror(vwalk)
           goOn == vcmd.db /\ verdict = "ok"
<1>3. verdict \in Verdicts \ {"none"} /\ (verdict = "ok" => vwalk.verdict = "ok")
  BY <1>1, WalkEnded DEF VerifyMirror, Verdicts
<1>4. vcmd' = [vcmd EXCEPT !.file = verdict, !.at = IF goOn THEN "compare" ELSE "done",
                           !.snap = IF goOn THEN vrows ELSE vcmd.snap]
  <2>1. CASE goOn
    <3>1. vcmd' = [vcmd EXCEPT !.file = verdict, !.at = "compare", !.snap = vrows]
      BY <1>t, <2>1 DEF FileDone, VerifyTyped
    <3> QED BY <2>1, <3>1
  <2>2. CASE ~goOn
    <3>1. vcmd' = [vcmd EXCEPT !.file = verdict, !.at = "done"]
      BY <1>t, <2>2 DEF FileDone, Finish, VerifyTyped
    <3>2. [vcmd EXCEPT !.file = verdict, !.at = "done"]
            = [vcmd EXCEPT !.file = verdict, !.at = "done", !.snap = vcmd.snap]
      BY <1>t DEF VerifyTyped
    <3> QED BY <2>2, <3>1, <3>2
  <2> QED BY <2>1, <2>2
<1> HIDE DEF goOn, verdict
<1>5. /\ vcmd'.mirror = vcmd.mirror /\ vcmd'.db = vcmd.db /\ vcmd'.anchor = vcmd.anchor
      /\ vcmd'.chain = vcmd.chain /\ vcmd'.file = verdict /\ vcmd'.cmp = vcmd.cmp
      /\ vcmd'.snap = IF goOn THEN vrows ELSE vcmd.snap
      /\ vcmd'.at = IF goOn THEN "compare" ELSE "done"
  BY <1>t, <1>4 DEF VerifyTyped
<1>6. VerifyTyped'
  BY <1>t, <1>1, <1>3, <1>4 DEF VerifyTyped, RowsSound
<1>7. SnapSound'
  <2>1. vdamage.done = 0 => vrows \subseteq Genuines(1, vtip)
    BY <1>t DEF RowsSound, Genuines, VerifyTyped
  <2> QED BY <1>t, <1>1, <1>5, <2>1 DEF SnapSound, RowsSound
<1>8. WalkSound' /\ ChainWalk' /\ FileWalk'
  BY <1>5 DEF WalkSound, Walking, ChainWalk, FileWalk
<1>9. ChainKept'
  BY <1>1, <1>5 DEF VerifyInv, ChainKept, NoneDeleted
<1>10. FileKept'
  <2>1. ASSUME verdict = "ok", vdamage.done > 0 PROVE InWindow(vfile)
    <3>1. Intact(vfile, vwalk.genesis, vwalk.anchor)
      BY <1>1, <1>2, <1>3, <2>1, WalkEnded
    <3> QED BY <3>1 DEF Intact
  <2>2. ASSUME vdamage.still, vdamage.done = 0, vcmd.anchor = -1, InWindow(vfile), Gapless
        PROVE  verdict = "ok"
    <3>1. /\ RangeOf(vfile) \subseteq Genuines(1, vtip) /\ vfile \in Seq(Lines) /\ vtip \in Nat
          /\ vrows = Genuines(vcut + 1, vtip) /\ vcut + 1 \in Nat \ {0}
      <4>1. /\ RangeOf(vfile) \subseteq Genuines(1, vtip) /\ vfile \in Seq(Lines) /\ vtip \in Nat
            /\ vrows = Genuines(vcut + 1, vtip) /\ vcut \in Nat
        BY <1>t, <2>2 DEF FileSound, RowsSound, VerifyTyped
      <4>2. \A n \in Nat : n + 1 \in Nat \ {0}
        OBVIOUS
      <4> QED BY <4>1, <4>2
    <3>2. \A i \in 1..vtip :
            (\E r \in RangeOf(vfile) : r.seq > i) => (\E r \in RangeOf(vfile) : r.seq = i)
      BY <2>2 DEF Gapless, RangeOf
    <3>3. Intact(vfile, FALSE, -1)
      BY <2>2, <3>1, <3>2, HealthyIsIntact
    <3>4. vwalk.genesis = FALSE
      <4>1. vwalk \in Walks
        BY <1>1 DEF VerifyInv, WalkSound, WalkInv
      <4> QED BY <1>2, <4>1 DEF Walks
    <3>5. vwalk.verdict = "ok"
      BY <1>1, <1>2, <2>2, <3>3, <3>4, WalkEnded
    <3>6. ASSUME vwalk.fragment, NEW r \in vrows, r.seq = vwalk.first.seq - 1
          PROVE  r.hash = vwalk.first.prev
      <4>1. vwalk.first.prev = Own(vwalk.first.seq - 1)
        <5>1. vwalk.first \in Genuines(1, vtip)
          BY <1>2, <3>1, <3>6
        <5> QED BY <3>1, <5>1, GenuineFacts
      <4>2. r.hash = Own(r.seq)
        BY <3>1, <3>6, GenuineFacts
      <4> QED BY <3>6, <4>1, <4>2
    <3> QED BY <3>5, <3>6 DEF verdict, VerifyMirror
  <2> QED BY <1>1, <1>2, <1>3, <1>5, <2>1, <2>2 DEF FileKept, Gapless
<1>11. Compared'
  BY <1>2, <1>5 DEF Compared, goOn
<1> QED BY <1>1, <1>6, <1>7, <1>8, <1>9, <1>10, <1>11, QuietKeeps DEF VerifyInv

LEMMA CompareDoneKeeps ==
  ASSUME VerifyInv, CompareDone
  PROVE  VerifyInv'
<1>t. VerifyTyped /\ SnapSound
  BY DEF VerifyInv, CompareDone
<1>1. UNCHANGED <<vrows, vcut, vtip, vfile, vdamage>> /\ vcmd.at = "compare"
  BY DEF CompareDone
<1> DEFINE verdict == Compare(vcmd.snap, bySequence(vfile))
<1>2. verdict \in {"ok", "installs", "diverged", "ahead"}
  BY DEF Compare
<1>3. vcmd' = [vcmd EXCEPT !.at = "done", !.cmp = verdict]
  BY DEF CompareDone
<1> HIDE DEF verdict
<1>4. /\ vcmd'.mirror = vcmd.mirror /\ vcmd'.db = vcmd.db /\ vcmd'.anchor = vcmd.anchor
      /\ vcmd'.chain = vcmd.chain /\ vcmd'.file = vcmd.file /\ vcmd'.cmp = verdict
      /\ vcmd'.snap = vcmd.snap /\ vcmd'.at = "done"
  BY <1>t, <1>3 DEF VerifyTyped
<1>5. VerifyTyped'
  BY <1>t, <1>1, <1>2, <1>3 DEF VerifyTyped
<1>6. SnapSound' /\ WalkSound' /\ ChainWalk' /\ FileWalk'
  BY <1>t, <1>1, <1>4 DEF SnapSound, WalkSound, Walking, ChainWalk, FileWalk
<1>7. ChainKept' /\ FileKept'
  BY <1>1, <1>4 DEF VerifyInv, ChainKept, FileKept, NoneDeleted, Gapless
<1>8. Compared'
  BY <1>1, <1>2, <1>4 DEF Compared, verdict
<1> QED BY <1>1, <1>5, <1>6, <1>7, <1>8, QuietKeeps DEF VerifyInv

LEMMA ExitKeeps ==
  ASSUME VerifyInv, Exit
  PROVE  VerifyInv'
<1>1. UNCHANGED <<vrows, vcut, vtip, vfile, vdamage>> /\ vcmd' = Stopped /\ VerifyTyped
  BY DEF Exit, VerifyInv
<1>2. VerifyTyped' /\ vcmd'.at = "idle"
  <2>1. -1 \in Int
    OBVIOUS
  <2>2. Stopped \in [at : {"idle", "chain", "file", "compare", "done"}, mirror : BOOLEAN, db : BOOLEAN,
               anchor : Int, chain : Verdicts, file : Verdicts,
               cmp : {"none", "ok", "installs", "diverged", "ahead"}, snap : SUBSET Records]
    BY <2>1 DEF Stopped, Verdicts
  <2>3. Stopped.at = "idle"
    BY DEF Stopped
  <2> QED BY <1>1, <2>2, <2>3 DEF VerifyTyped
<1> QED BY <1>1, <1>2, QuietKeeps
        DEF VerifyInv, WalkSound, Walking, ChainWalk, FileWalk, ChainKept, FileKept, Compared

(* The inductive invariant.                                                *)
LEMMA VerifyInvariant == VerifySpec => []VerifyInv
<1>1. VerifyInv /\ UNCHANGED verifyVars => VerifyInv'
  <2> SUFFICES ASSUME VerifyInv, UNCHANGED verifyVars PROVE VerifyInv'
    OBVIOUS
  <2>1. UNCHANGED <<vrows, vcut, vtip, vfile, vcmd, vwalk, vdamage>>
    BY DEF verifyVars
  <2>2. VerifyTyped' /\ SnapSound' = SnapSound
    BY <2>1 DEF VerifyInv, VerifyTyped, SnapSound
  <2>3. WalkSound' /\ ChainWalk' /\ FileWalk'
    BY <2>1 DEF VerifyInv, WalkSound, Walking, Source, ChainWalk, FileWalk
  <2>4. ChainKept' /\ FileKept' /\ Compared'
    BY <2>1 DEF VerifyInv, ChainKept, FileKept, Compared, NoneDeleted, Gapless
  <2> QED BY <2>1, <2>2, <2>3, <2>4, QuietKeeps DEF VerifyInv
<1>2. VerifyInv /\ VerifyNext => VerifyInv'
  BY LogKeeps, IdleKeeps, BeginKeeps, VerifyKeeps, ChainDoneKeeps, FileDoneKeeps, CompareDoneKeeps,
     ExitKeeps
     DEF VerifyNext, LogSteps, IdleSteps
<1> QED BY <1>1, <1>2, VerifyInvInit, PTL DEF VerifySpec

(* verify (internal/audit/verify.go) accepts exactly the lines that hold   *)
(* one intact chain: whatever the window's size, however many lines, and   *)
(* whatever was altered, lost, torn, rewritten or taken from elsewhere.    *)
THEOREM VerdictIsExact == VerifySpec => []VerdictIsIntact
<1>1. VerifyInv => VerdictIsIntact
  <2> SUFFICES ASSUME VerifyInv, Walking, vwalk.verdict # "none"
               PROVE  (vwalk.verdict = "ok")
                        = Intact(SubSeq(Source, 1, vwalk.pos), vwalk.genesis, vwalk.anchor)
    BY DEF VerdictIsIntact, Walking
  <2>1. Judged(vwalk, SubSeq(Source, 1, vwalk.pos))
    BY DEF VerifyInv, WalkSound, WalkInv
  <2> QED BY <2>1 DEF Judged, Intact
<1> QED BY <1>1, VerifyInvariant, PTL

(* verify may stop at the first line it refuses: before the end of what it *)
(* reads, it refuses only what no line that may still come would mend.     *)
RefusedForGood ==
  (Walking /\ vwalk.verdict \notin {"none", "ok"} /\ ~vwalk.eof) =>
    Hopeless(SubSeq(Source, 1, vwalk.pos), vwalk.genesis, vwalk.anchor)

THEOREM RefusalIsFinal == VerifySpec => []RefusedForGood
<1>1. VerifyInv => RefusedForGood
  BY DEF VerifyInv, WalkSound, WalkInv, Judged, RefusedForGood
<1> QED BY <1>1, VerifyInvariant, PTL

(* The command's answer (Assessment.OK, internal/cli/audit.go) is true of  *)
(* the installation: a record rewritten after it was delivered shows, a    *)
(* record deleted shows, and a log nobody touched passes.                  *)
THEOREM AssessmentHolds == VerifySpec => []AssessmentIsTrue
<1>1. VerifyInv => RewriteShows
  <2> SUFFICES ASSUME VerifyInv, vcmd.at = "done", vcmd.db, vcmd.mirror, AssessmentOK,
                      NEW r \in vcmd.snap, NEW i \in DOMAIN vfile, vfile[i].seq = r.seq
               PROVE  vfile[i].hash = r.hash
    BY DEF RewriteShows
  <2>1. vcmd.file = "ok" /\ vcmd.cmp = "ok"
    BY DEF VerifyInv, FileKept, Compared, AssessmentOK
  <2>2. vfile[i] \in RangeOf(vfile) /\ vdamage.done \in Nat /\ vtip \in Nat
    BY DEF RangeOf, VerifyInv, VerifyTyped
  <2>3. CASE vdamage.done = 0
    <3>1. vfile[i] \in Genuines(1, vtip) /\ r \in Genuines(1, vtip)
      BY <2>2, <2>3 DEF VerifyInv, FileSound, SnapSound
    <3> QED BY <2>2, <3>1, GenuineFacts
  <2>4. CASE vdamage.done > 0
    <3>1. Compare(vcmd.snap, bySequence(vfile)) = "ok" /\ InWindow(vfile)
      BY <2>1, <2>4 DEF VerifyInv, Compared, FileKept
    <3>2. vfile[i] \in bySequence(vfile)
      BY <3>1 DEF bySequence, InWindow
    <3>3. ~\E l \in bySequence(vfile), q \in vcmd.snap : l.seq = q.seq /\ l.hash /= q.hash
      BY <3>1 DEF Compare
    <3> QED BY <3>2, <3>3
  <2> QED BY <2>2, <2>3, <2>4
<1>2. VerifyInv => DeletionShows
  BY DEF VerifyInv, ChainKept, NoneDeleted, DeletionShows
<1>3. VerifyInv => HealthyVerifies
  <2> SUFFICES ASSUME VerifyInv, vcmd.at = "done", vdamage.still, vdamage.done = 0, ~vdamage.pruned,
                      vcmd.anchor = -1, InWindow(vfile), Gapless
               PROVE  AssessmentOK
    BY DEF HealthyVerifies, Gapless
  <2>1. vcmd.chain \in {"none", "ok"} /\ vcmd.file \in {"none", "ok"}
    BY DEF VerifyInv, ChainKept, FileKept
  <2>2. vcmd.snap = Genuines(1, vtip) /\ RangeOf(vfile) \subseteq Genuines(1, vtip) /\ vtip \in Nat
    BY DEF VerifyInv, RowsSound, SnapSound, FileSound, VerifyTyped
  <2>3. bySequence(vfile) \subseteq Genuines(1, vtip)
    BY <2>2 DEF bySequence, RangeOf
  <2>4. Compare(vcmd.snap, bySequence(vfile)) = "ok"
    <3>1. \A x \in Genuines(1, vtip) : x.install = "a" /\ x.hash = Own(x.seq)
      BY <2>2, GenuineFacts
    <3>2. SeqsOf(bySequence(vfile)) \subseteq SeqsOf(vcmd.snap)
      BY <2>2, <2>3 DEF SeqsOf
    <3> QED BY <2>2, <2>3, <3>1, <3>2 DEF Compare
  <2>5. vcmd.cmp \in {"none", "ok"}
    BY <2>4 DEF VerifyInv, Compared
  <2> QED BY <2>1, <2>5 DEF AssessmentOK
<1> QED BY <1>1, <1>2, <1>3, VerifyInvariant, PTL DEF AssessmentIsTrue
=============================================================================

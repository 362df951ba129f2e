------------------------------ MODULE Ceremony ------------------------------
(***************************************************************************)
(* A mutation from the front end to its answer: core.Act                   *)
(* (internal/core/core.go) with the profile, the preview, the intent and   *)
(* the TOTP code (internal/attest, internal/policy, internal/identity),    *)
(* called by the API under an idempotency key (internal/api/mutate.go,     *)
(* idempotency.go, internal/replay) or by the CLI without one.             *)
(*                                                                         *)
(* An attempt is one HTTP request or CLI invocation; a retry is another    *)
(* attempt with the same call.  A write transaction is one action: AuditLog*)
(* looks inside it.  What a preview shows is the number of changes its     *)
(* target has seen, or nothing that moves (minting a token), and its hash  *)
(* is the preview itself.  A code is the time step it is computed from.    *)
(***************************************************************************)
EXTENDS Integers, FiniteSets

CONSTANTS
  Attempts,    \* the attempts that will be made
  Calls,       \* what an attempt may ask: see Call
  Users,
  Keys,        \* idempotency keys, as their clients choose them
  Ops,         \* changes; "policy" swaps the active profile
  Blind,       \* those whose preview shows nothing that changes move
  Skew,        \* totpSkew
  LateErrors,  \* the changes whose handler, or the sealing of its answer,
               \* may fail after they have been committed
  MaxClock,    \* bound: TOTP steps
  MaxDays,     \* bound: replay windows that pass
  MaxFaults    \* bound: attempts that die, answers that cannot be stored

NoKey == "no key"
Call == [user : Users, key : Keys \cup {NoKey}, op : Ops, dry : BOOLEAN,
         who : {"person", "unattended", "local"}]

ASSUME CeremonyAssumption ==
  /\ Calls \subseteq Call /\ Calls # {}
  /\ NoKey \notin Keys /\ "none" \notin Ops
  /\ Blind \subseteq Ops \ {"policy"}
  /\ LateErrors \subseteq Ops
  /\ {Skew, MaxClock, MaxDays, MaxFaults} \subseteq Nat

VARIABLES
  pc,        \* where an attempt is
  call,      \* what it asks
  intent,    \* X-Nodary-Intent or what the CLI showed; NoHash if none
  code,      \* the TOTP code it carries; NoCode if none
  read,      \* what it read before its transaction: profile, clock, preview
  reply,     \* the answer it got
  profile,   \* table policy
  rev,       \* rev[o]: how many changes the target of o has seen
  floor,     \* user.totp_last_step
  keys,      \* table idempotency
  clock,     \* time, in TOTP steps
  day,       \* time, in replay windows
  faults,    \* how much of MaxFaults is spent
  applied    \* history: the changes committed

dbVars == <<profile, rev, floor, keys, applied>>
vars == <<pc, call, intent, code, read, reply, dbVars, clock, day, faults>>

NoCode == -1
Hashes == [op : Ops, at : Nat]
NoHash == [op |-> "none", at |-> 0]
NoRow == [state |-> "free", op |-> "none", by |-> 0, day |-> 0]
NoRead == [profile |-> "default", now |-> 0, hash |-> NoHash]
NoReply == [kind |-> "none", of |-> 0]
Phases == {"new", "claim", "read", "preview", "act", "done", "failed", "end"}
Kinds == {"none", "applied", "dry", "replay", "refused", "error"}

TypeOK ==
  /\ pc \in [Attempts -> Phases]
  /\ call \in [Attempts -> Call]
  /\ intent \in [Attempts -> Hashes \cup {NoHash}]
  /\ code \in [Attempts -> Nat \cup {NoCode}]
  /\ read \in [Attempts -> [profile : {"default", "regulated"}, now : Nat,
                            hash : Hashes \cup {NoHash}]]
  /\ reply \in [Attempts -> [kind : Kinds, of : Attempts \cup {0}]]
  /\ profile \in {"default", "regulated"}
  /\ rev \in [Ops -> Nat]
  /\ floor \in [Users -> Nat \cup {-1}]
  /\ keys \in [Users \X Keys -> [state : {"free", "claimed", "answered"},
                                 op : Ops \cup {"none"},
                                 by : Attempts \cup {0}, day : Nat]]
  /\ applied \subseteq [by : Attempts, call : Call, approved : Hashes, code : Nat \cup {NoCode},
                         profile : {"default", "regulated"}, day : Nat]
  /\ clock \in Nat \ {0} /\ day \in 0..MaxDays /\ faults \in 0..MaxFaults

Init ==
  /\ pc = [i \in Attempts |-> "new"]
  /\ call = [i \in Attempts |-> CHOOSE c \in Calls : TRUE]
  /\ intent = [i \in Attempts |-> NoHash]
  /\ code = [i \in Attempts |-> NoCode]
  /\ read = [i \in Attempts |-> NoRead]
  /\ reply = [i \in Attempts |-> NoReply]
  /\ profile \in {"default", "regulated"}
  /\ rev = [o \in Ops |-> 0]
  /\ floor = [u \in Users |-> -1]
  /\ keys = [k \in Users \X Keys |-> NoRow]
  /\ clock = 1 /\ day = 0 /\ faults = 0
  /\ applied = {}

-----------------------------------------------------------------------------
(* The preview of a change, as the database stands.                        *)
Render(o) == [op |-> o, at |-> IF o \in Blind THEN 0 ELSE rev[o]]

(* What a caller may have approved: on the host, what the CLI has just put *)
(* on the screen; elsewhere nothing, or what some dry run has answered.    *)
Approvable(c) ==
  IF c.who = "local" THEN {Render(c.op)}
  ELSE {NoHash} \cup {read[j].hash : j \in
         {k \in Attempts : reply[k].kind = "dry" /\ call[k].op = c.op}}

(* NeedsTOTP.                                                              *)
NeedsTOTP(p, who) == p = "regulated" /\ who = "person"

(* verifyCode: within the skew of now, and not spent.                      *)
CodeOK(c, now, last) == c \in (now - Skew)..(now + Skew) /\ c > last

RowOf(i) == <<call[i].user, call[i].key>>
Keyed(i) == call[i].key # NoKey

(* The attempt ends with an answer (its own, or the one replayed), and     *)
(* what it held goes with it, save the preview a dry run showed.           *)
End(i, r) ==
  /\ reply' = [reply EXCEPT ![i] = r]
  /\ pc' = [pc EXCEPT ![i] = "end"]
  /\ intent' = [intent EXCEPT ![i] = NoHash]
  /\ code' = [code EXCEPT ![i] = NoCode]
  /\ read' = [read EXCEPT ![i] =
                [NoRead EXCEPT !.hash = IF r.kind = "dry" THEN read[i].hash ELSE NoHash]]
  /\ UNCHANGED call
Answer(i, kind) == End(i, [kind |-> kind, of |-> i])

-----------------------------------------------------------------------------
(* A client sends a request, or an operator types a command, with a code   *)
(* its authenticator shows about now and an intent it was shown before.    *)
Send(i, c) ==
  /\ pc[i] = "new"
  /\ call' = [call EXCEPT ![i] = c]
  /\ \E h \in Approvable(c) :
       intent' = [intent EXCEPT ![i] = IF c.dry THEN NoHash ELSE h]
  /\ \E n \in {NoCode} \cup ((clock - 1)..clock) :
       code' = [code EXCEPT ![i] = IF c.dry \/ c.who # "person" THEN NoCode ELSE n]
  /\ pc' = [pc EXCEPT ![i] = IF c.key = NoKey THEN "read" ELSE "claim"]
  /\ UNCHANGED <<read, reply, dbVars, clock, day, faults>>

(* Mutant: a key left in flight is taken over by the next attempt.         *)
ClaimReclaims(i) ==
  LET row == keys[RowOf(i)]
  IN  /\ pc[i] = "claim"
      /\ row.day < day \/ row.state # "answered"
      /\ keys' = [keys EXCEPT ![RowOf(i)] =
                    [state |-> "claimed", op |-> call[i].op, by |-> i, day |-> day]]
      /\ pc' = [pc EXCEPT ![i] = "read"]
      /\ UNCHANGED <<call, intent, code, read, reply, profile, rev, floor,
                     applied, clock, day, faults>>

(* Store.Claim takes the key: no row, or one whose window has passed.      *)
Claim(i) ==
  LET row == keys[RowOf(i)]
  IN  /\ pc[i] = "claim"
      /\ row.state = "free" \/ row.day < day
      /\ keys' = [keys EXCEPT ![RowOf(i)] =
                    [state |-> "claimed", op |-> call[i].op, by |-> i, day |-> day]]
      /\ pc' = [pc EXCEPT ![i] = "read"]
      /\ UNCHANGED <<call, intent, code, read, reply, profile, rev, floor,
                     applied, clock, day, faults>>

(* Mutant: any request under the key is handed its answer.                 *)
ClaimTakenUnchecked(i) ==
  LET row == keys[RowOf(i)]
  IN  /\ pc[i] = "claim"
      /\ row.state # "free" /\ row.day = day
      /\ IF row.state = "answered"
         THEN End(i, [kind |-> "replay", of |-> row.by])
         ELSE Answer(i, "refused")
      /\ UNCHANGED <<dbVars, clock, day, faults>>

(* Or it finds the key taken: a different request (ErrKeyReused), one that *)
(* is still in flight or whose outcome nobody knows (ErrKeyInFlight), or   *)
(* an answer, which is sent again.  The request compared is the method,    *)
(* the path and the body: ?dry_run is in none of them.                     *)
ClaimTaken(i) ==
  LET row == keys[RowOf(i)]
  IN  /\ pc[i] = "claim"
      /\ row.state # "free" /\ row.day = day
      /\ IF row.op = call[i].op /\ row.state = "answered"
         THEN End(i, [kind |-> "replay", of |-> row.by])
         ELSE Answer(i, "refused")
      /\ UNCHANGED <<dbVars, clock, day, faults>>

(* core.Act reads the clock and policy.Active, outside any transaction.    *)
ReadProfile(i) ==
  /\ pc[i] = "read"
  /\ read' = [read EXCEPT ![i] = [NoRead EXCEPT !.profile = profile, !.now = clock]]
  /\ pc' = [pc EXCEPT ![i] = "preview"]
  /\ UNCHANGED <<call, intent, code, reply, dbVars, clock, day, faults>>

(* The preview, in a transaction that is rolled back.                      *)
(* A dry run ends here; so does an intent that is no longer what would be  *)
(* applied, and a ceremony the profile finds wanting (attest.Require: no   *)
(* code, or a justification that is missing or too short); and the render  *)
(* itself may fail.                                                        *)
Preview(i) ==
  LET h == Render(call[i].op)
      changed == intent[i] # NoHash /\ intent[i] # h
      wanting == NeedsTOTP(read[i].profile, call[i].who) /\ code[i] = NoCode
  IN  /\ pc[i] = "preview"
      /\ read' = [read EXCEPT ![i].hash = h]
      /\ \/ pc' = [pc EXCEPT ![i] = "done"] /\ call[i].dry
         \/ pc' = [pc EXCEPT ![i] = "failed"]
         \/ pc' = [pc EXCEPT ![i] = "act"] /\ ~(call[i].dry \/ changed \/ wanting)
      /\ UNCHANGED <<call, intent, code, reply, dbVars, clock, day, faults>>

(* What the transaction asks: the code verifies, and the preview rendered  *)
(* again is the one that was approved (attest.Bind).                       *)
CodePasses(i) ==
  NeedsTOTP(read[i].profile, call[i].who)
    => CodeOK(code[i], read[i].now, floor[call[i].user])
Bound(i) == Render(call[i].op) = read[i].hash

(* The change, its record and the spent code commit together.              *)
Effect(i) ==
  LET o == call[i].op
      u == call[i].user
      attested == NeedsTOTP(read[i].profile, call[i].who)
  IN  /\ rev' = [rev EXCEPT ![o] = @ + 1]
      /\ profile' = IF o # "policy" THEN profile
                    ELSE IF profile = "default" THEN "regulated" ELSE "default"
      /\ floor' = IF attested THEN [floor EXCEPT ![u] = code[i]] ELSE floor
      /\ applied' = applied \cup
           {[by |-> i, call |-> call[i], approved |-> read[i].hash,
             code |-> IF attested THEN code[i] ELSE NoCode,
             profile |-> profile, day |-> day]}
      /\ pc' = [pc EXCEPT ![i] = "done"]
      /\ UNCHANGED <<call, intent, code, read, reply, keys, clock, day, faults>>

(* Mutant: the preview is not bound.                                       *)
ActUnbound(i) == pc[i] = "act" /\ CodePasses(i) /\ Effect(i)

(* Mutant: a code is good for as long as its window.                       *)
ActCodeReused(i) ==
  /\ pc[i] = "act" /\ Bound(i)
  /\ NeedsTOTP(read[i].profile, call[i].who) => CodeOK(code[i], read[i].now, -1)
  /\ Effect(i)

Act(i) == pc[i] = "act" /\ CodePasses(i) /\ Bound(i) /\ Effect(i)

(* The transaction rolls back: a check fails, or Apply or the commit does. *)
ActFails(i) ==
  /\ pc[i] = "act"
  /\ pc' = [pc EXCEPT ![i] = "failed"]
  /\ UNCHANGED <<call, intent, code, read, reply, dbVars, clock, day, faults>>

-----------------------------------------------------------------------------
(* The answer.                                                             *)

(* Store.Finish and Store.Release.                                         *)
FinishKey(i) ==
  IF Keyed(i) /\ keys[RowOf(i)].state # "free"
  THEN keys' = [keys EXCEPT ![RowOf(i)] = [@ EXCEPT !.state = "answered", !.by = i]]
  ELSE UNCHANGED keys
ReleaseKey(i) ==
  IF Keyed(i) /\ keys[RowOf(i)].state = "claimed"
  THEN keys' = [keys EXCEPT ![RowOf(i)] = NoRow]
  ELSE UNCHANGED keys

(* 200: the answer is sent, sealed and stored.                             *)
Succeed(i) ==
  /\ pc[i] = "done"
  /\ Answer(i, IF call[i].dry THEN "dry" ELSE "applied")
  /\ FinishKey(i)
  /\ UNCHANGED <<profile, rev, floor, applied, clock, day, faults>>

(* The change is committed, and then the handler's own work fails (a       *)
(* backup's archive) or secret.key cannot be read to seal the answer; in   *)
(* both cases the key is released.                                         *)
SucceedUnstored(i) ==
  /\ pc[i] = "done" /\ call[i].op \in LateErrors
  /\ \E k \in {"error", IF call[i].dry THEN "dry" ELSE "applied"} : Answer(i, k)
  /\ ReleaseKey(i)
  /\ UNCHANGED <<profile, rev, floor, applied, clock, day, faults>>

(* Mutant: a refusal keeps its key.                                        *)
FailKeepsKey(i) ==
  /\ pc[i] = "failed"
  /\ Answer(i, "refused")
  /\ UNCHANGED <<dbVars, clock, day, faults>>

(* A refused request has not happened, and its key is free again.          *)
Fail(i) ==
  /\ pc[i] = "failed"
  /\ Answer(i, "refused")
  /\ ReleaseKey(i)
  /\ UNCHANGED <<profile, rev, floor, applied, clock, day, faults>>

(* The client is gone, and its context with it: the answer reaches nobody  *)
(* and the key's row stays in flight.  So it does when the process dies,   *)
(* wherever the attempt was.                                               *)
Die(i) ==
  /\ pc[i] \notin {"new", "end"}
  /\ faults < MaxFaults
  /\ faults' = faults + 1
  /\ End(i, NoReply)
  /\ UNCHANGED <<dbVars, clock, day>>

-----------------------------------------------------------------------------
Tick ==
  /\ clock < MaxClock
  /\ clock' = clock + 1
  /\ UNCHANGED <<pc, call, intent, code, read, reply, dbVars, day, faults>>

InFlight(i) == pc[i] \notin {"new", "end"}

(* A replay window passes, which no request outlives; a retention prune    *)
(* may remove the rows it leaves behind.                                   *)
DayPasses ==
  /\ day < MaxDays
  /\ \A i \in Attempts : ~InFlight(i)
  /\ day' = day + 1
  /\ clock' = clock + 2 * Skew + 2
  /\ \E gone \in {{}, DOMAIN keys} :
       keys' = [k \in DOMAIN keys |-> IF k \in gone THEN NoRow ELSE keys[k]]
  /\ UNCHANGED <<pc, call, intent, code, read, reply, profile, rev, floor,
                 applied, faults>>

Step(i) ==
  \/ \E c \in Calls : Send(i, c)
  \/ Claim(i) \/ ClaimTaken(i) \/ ReadProfile(i) \/ Preview(i)
  \/ Act(i) \/ ActFails(i)
  \/ Succeed(i) \/ SucceedUnstored(i) \/ Fail(i) \/ Die(i)

Next == (\E i \in Attempts : Step(i)) \/ Tick \/ DayPasses

Spec == Init /\ [][Next]_vars

-----------------------------------------------------------------------------
(* "A repeat within 24h returns the original response rather than acting   *)
(* twice" (09-api, Idempotency): of the attempts a caller makes with one   *)
(* key in one window, at most one is applied, whichever died, overlapped   *)
(* or was refused; but for the changes that can fail once they are         *)
(* committed, whose key is released.                                       *)
ActsOnce ==
  \A a, b \in applied :
    /\ {a.call.op, b.call.op} \cap LateErrors = {}
    /\ a.call.key # NoKey /\ a.call.key = b.call.key
    /\ a.call.user = b.call.user /\ a.day = b.day
    => a = b

(* A replayed answer is the answer to this request (replay.go, ErrKeyReused*)
(* : "Replaying the first response to the second would hide a client's bug *)
(* behind a plausible success"): the same caller asked the same thing, and *)
(* that was the answer.  A dry run and the change itself are the same thing*)
(* to the digest.                                                          *)
ReplayIsOwn ==
  \A i \in Attempts :
    reply[i].kind = "replay" =>
      LET j == reply[i].of
      IN  /\ j \in Attempts
          /\ call[j].user = call[i].user /\ call[j].key = call[i].key /\ call[j].op = call[i].op
          /\ reply[j].kind = IF call[j].dry THEN "dry" ELSE "applied"

(* A repeat asked for what the stored answer was to, a dry run or the      *)
(* change.                                                                 *)
ReplayIsAlike ==
  \A i \in Attempts : reply[i].kind = "replay" => call[reply[i].of].dry = call[i].dry

(* Of two changes approved on the same preview, one is applied (attest.go, *)
(* Bind): what moved in between refuses the other, whether it was approved *)
(* in a dry run, on a screen or by the request itself.                     *)
OnePerPreview ==
  \A a, b \in applied :
    a.call.op \notin Blind /\ a.approved = b.approved => a = b

(* "A code is spent once used" (totp.go, verifyCode): no code authorizes   *)
(* two changes, whatever skew the verifier allows and however attempts     *)
(* overlap.                                                                *)
CodeOnce ==
  \A a, b \in applied :
    a.call.user = b.call.user /\ a.code = b.code /\ a.code # NoCode => a = b

(* A refused attempt does not burn its key (replay.go, Release): unless an *)
(* attempt died, a key in flight is some live attempt's, and one only.     *)
ClaimHasOwner ==
  \A k \in DOMAIN keys :
    LET owners == {i \in Attempts : /\ pc[i] \in {"read", "preview", "act", "done", "failed"}
                                    /\ Keyed(i) /\ RowOf(i) = k}
    IN  /\ Cardinality(owners) <= 1
        /\ keys[k].state = "claimed" /\ owners = {} => faults > 0

(* What an idempotency key stands for is one caller's one request: its     *)
(* stored answer is that request's, and the key in flight is its attempt's.*)
KeyIsOwn == ReplayIsOwn /\ ClaimHasOwner

(* An approval is spent by the change it approved: the preview an operator *)
(* read, and the code that attests to it.                                  *)
ApprovedOnce == OnePerPreview /\ CodeOnce

(* A change applied under a profile that asks for a code carries one       *)
(* (07-identity-audit, section 2): the profile is the one in force when it *)
(* is applied.                                                             *)
AttestedUnderProfile ==
  \A a \in applied : NeedsTOTP(a.profile, a.call.who) => a.code # NoCode
=============================================================================

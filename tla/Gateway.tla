------------------------------- MODULE Gateway -------------------------------
(***************************************************************************)
(* The inference gateway: one proxied request from authorization to its    *)
(* usage row (internal/gateway/proxy.go, gateway.go), and the in-process   *)
(* throttle every request passes (internal/gateway/throttle.go).           *)
(*                                                                         *)
(* Requests are goroutines of one process.  The throttle's mutex makes an  *)
(* admission and a release atomic; everything between (the reads of the    *)
(* limits and of the day's usage, the proxying, the usage row) interleaves.*)
(* Bodies and tokens' text are left out; a response costs a number of      *)
(* tokens.  Buckets hold scaled integers: a bucket counts in units of      *)
(* 1/Per token, so the refill capacity * elapsed / per is exact.           *)
(***************************************************************************)
EXTENDS Integers, FiniteSets, FiniteSetsExt, Functions

CONSTANTS
  Users,        \* callers, each with a role
  RoleOf,       \* RoleOf[u]: the user's role, as a limits subject
  Requests,     \* the requests that will arrive
  Costs,        \* how many tokens a response can cost (0 is possible)
  Tables,       \* the contents the limits table may have: sets of rows
  MaxCeiling,   \* bound: the largest ceiling a row sets
  Per,          \* ticks of the clock in a minute
  MaxClock,     \* bound: the clock runs over 0..MaxClock, one day
  Disconnects,  \* whether clients, or the data plane, may go away
  NullOptions   \* whether a streaming client may send stream_options: null

(* A row of limits: whose it is, and its four ceilings (0 is none).        *)
Subjects == {"global"} \cup Users \cup Range(RoleOf)
Row(s, rpm, tpm, daily, concurrent) ==
  [subject |-> s, rpm |-> rpm, tpm |-> tpm, daily |-> daily,
   concurrent |-> concurrent]

ASSUME GatewayAssumption ==
  /\ RoleOf \in [Users -> Range(RoleOf)]
  /\ Per \in Nat \ {0} /\ MaxClock \in Nat
  /\ Disconnects \in BOOLEAN /\ NullOptions \in BOOLEAN
  /\ MaxCeiling \in Nat
  /\ \A t \in Tables :
       /\ t \subseteq [subject : Subjects, rpm : 0..MaxCeiling, tpm : 0..MaxCeiling,
                       daily : 0..MaxCeiling, concurrent : 0..MaxCeiling]
       /\ \A r, q \in t : r.subject = q.subject => r = q

VARIABLES
  pc,        \* where each request is in proxyInference
  user,      \* the principal a request resolved to
  lim,       \* the limits reduced for the request, and the daily use read
  cost,      \* the tokens its response reported
  gone,      \* requests whose client, or data plane, has gone away
  table,     \* the limits table
  clock,     \* the time of day
  inflight,  \* throttle.inflight, by subject
  rpm, tpm,  \* throttle.buckets, by subject
  usage,     \* the usage table
  admitted   \* history: the admissions through each rpm bucket

vars == <<pc, user, lim, cost, gone, table, clock, inflight, rpm, tpm, usage, admitted>>

(* A ceiling and the subject that set it; value 0 is unlimited.            *)
NoLimit == [value |-> 0, subject |-> "global"]
NoLimits == [rpm |-> NoLimit, tpm |-> NoLimit, daily |-> NoLimit,
             concurrent |-> NoLimit, used |-> 0]

(* A bucket whose `last` is zero has never been used.                      *)
Unused == [tokens |-> 0, last |-> -1]

Phases == {"new", "admit", "ready", "proxy", "record", "release",
           "done", "refused", "aborted"}
Limit == [value : Nat, subject : Subjects]
Bucket == [tokens : Int, last : -1..MaxClock]
UsageRow == [req : Requests, user : Users, tokens : Nat, status : {"ok", "throttled"}]

TypeOK ==
  /\ pc \in [Requests -> Phases]
  /\ user \in [Requests -> Users]
  /\ lim \in [Requests -> [rpm : Limit, tpm : Limit, daily : Limit,
                           concurrent : Limit, used : Nat]]
  /\ cost \in [Requests -> Nat]
  /\ gone \subseteq Requests
  /\ table \in Tables
  /\ clock \in 0..MaxClock
  /\ inflight \in [Subjects -> Nat]
  /\ rpm \in [Subjects -> Bucket] /\ tpm \in [Subjects -> Bucket]
  /\ usage \subseteq UsageRow
  /\ admitted \subseteq [req : Requests, subject : Subjects, at : Nat]

Init ==
  /\ pc = [i \in Requests |-> "new"]
  /\ user \in [Requests -> Users]
  /\ lim = [i \in Requests |-> NoLimits]
  /\ cost = [i \in Requests |-> 0]
  /\ gone = {}
  /\ table \in Tables
  /\ clock = 0
  /\ inflight = [s \in Subjects |-> 0]
  /\ rpm = [s \in Subjects |-> Unused]
  /\ tpm = [s \in Subjects |-> Unused]
  /\ usage = {}
  /\ admitted = {}

-----------------------------------------------------------------------------
(* Limits.                                                                 *)

(* The rows limitsFor selects: the user's own, the role's, the global one. *)
RowsFor(u) == {r \in table : r.subject \in {u, RoleOf[u], "global"}}

(* limit.tighten over those rows: the smallest ceiling and who set it.     *)
Tightest(u, field) ==
  LET set == {r \in RowsFor(u) : r[field] > 0}
      r == CHOOSE x \in set : \A y \in set : x[field] <= y[field]
  IN  IF set = {} THEN NoLimit ELSE [value |-> r[field], subject |-> r.subject]

(* dailyTokensUsed: what this user's rows of the day add up to.            *)
DailyUsed(u) ==
  MapThenSumSet(LAMBDA r : r.tokens, {r \in usage : r.user = u})

LimitsFor(u) ==
  [rpm |-> Tightest(u, "rpm"),
   tpm |-> Tightest(u, "tpm"),
   daily |-> Tightest(u, "daily"),
   concurrent |-> Tightest(u, "concurrent"),
   used |-> DailyUsed(u)]

-----------------------------------------------------------------------------
(* Buckets.                                                                *)

(* Mutant: the refill is not capped at the bucket's capacity.              *)
RefillUncapped(b, cap) ==
  IF b.last = -1 THEN [tokens |-> cap * Per, last |-> clock]
  ELSE [tokens |-> b.tokens + cap * (clock - b.last), last |-> clock]

(* bucket.refill: full on first use, then by elapsed time up to capacity.  *)
Refill(b, cap) ==
  IF b.last = -1 THEN [tokens |-> cap * Per, last |-> clock]
  ELSE [tokens |-> Min({cap * Per, b.tokens + cap * (clock - b.last)}),
        last |-> clock]

(* Whether a refilled bucket holds one whole token.                        *)
HasOne(b) == b.tokens >= Per

Take(b, n) == [b EXCEPT !.tokens = @ - n * Per]

-----------------------------------------------------------------------------
(* One request.                                                            *)

(* authorize, the body, the allowlist and the ready check pass, and        *)
(* Server.admit reads the limits and the day's usage, outside the mutex;   *)
(* or one of them refuses (401, 400, 403, 503), which costs nothing.       *)
Arrive(i) ==
  /\ pc[i] = "new"
  /\ \/ /\ pc' = [pc EXCEPT ![i] = "admit"]
        /\ lim' = [lim EXCEPT ![i] = LimitsFor(user[i])]
     \/ /\ pc' = [pc EXCEPT ![i] = "refused"]
        /\ UNCHANGED lim
  /\ UNCHANGED <<user, cost, gone, table, clock, inflight, rpm, tpm, usage, admitted>>

(* The checks of throttle.admit, in its order.  Each returns before the    *)
(* later ones run, so a refusal spends nothing; the tpm bucket is refilled *)
(* by being looked at.                                                     *)
OverDaily(l) == l.daily.value > 0 /\ l.used >= l.daily.value
OverConcurrent(l) ==
  l.concurrent.value > 0 /\ inflight[l.concurrent.subject] >= l.concurrent.value
TpmNow(l) == Refill(tpm[l.tpm.subject], l.tpm.value)
OverTpm(l) == l.tpm.value > 0 /\ ~HasOne(TpmNow(l))
RpmNow(l) == Refill(rpm[l.rpm.subject], l.rpm.value)
OverRpm(l) == l.rpm.value > 0 /\ ~HasOne(RpmNow(l))

ReachesTpm(l) == ~OverDaily(l) /\ ~OverConcurrent(l)
ReachesRpm(l) == ReachesTpm(l) /\ ~OverTpm(l)

(* The refusal: 429, and recordThrottled's row, lost if the client's       *)
(* context is gone.                                                        *)
Throttled(i) ==
  LET l == lim[i]
  IN  /\ pc[i] = "admit"
      /\ OverDaily(l) \/ OverConcurrent(l) \/ OverTpm(l) \/ OverRpm(l)
      /\ tpm' = IF l.tpm.value > 0 /\ ReachesTpm(l)
                THEN [tpm EXCEPT ![l.tpm.subject] = TpmNow(l)] ELSE tpm
      /\ rpm' = IF l.rpm.value > 0 /\ ReachesRpm(l)
                THEN [rpm EXCEPT ![l.rpm.subject] = RpmNow(l)] ELSE rpm
      /\ \/ usage' = usage \cup {[req |-> i, user |-> user[i], tokens |-> 0,
                                  status |-> "throttled"]}
         \/ i \in gone /\ usage' = usage
      /\ pc' = [pc EXCEPT ![i] = "refused"]
      /\ UNCHANGED <<user, lim, cost, gone, table, clock, inflight, admitted>>

(* Mutant: the slot is counted without looking whether one is left.        *)
AdmitUncounted(i) ==
  LET l == lim[i]
  IN  /\ pc[i] = "admit"
      /\ ~OverDaily(l) /\ ~OverTpm(l) /\ ~OverRpm(l)
      /\ inflight' = IF l.concurrent.value > 0
                     THEN [inflight EXCEPT ![l.concurrent.subject] = @ + 1]
                     ELSE inflight
      /\ pc' = [pc EXCEPT ![i] = "ready"]
      /\ UNCHANGED <<user, lim, cost, gone, table, clock, rpm, tpm, usage, admitted>>

(* The admission: one rpm token spent, one slot taken.                     *)
Admit(i) ==
  LET l == lim[i]
  IN  /\ pc[i] = "admit"
      /\ ~OverDaily(l) /\ ~OverConcurrent(l) /\ ~OverTpm(l) /\ ~OverRpm(l)
      /\ tpm' = IF l.tpm.value > 0
                THEN [tpm EXCEPT ![l.tpm.subject] = TpmNow(l)] ELSE tpm
      /\ rpm' = IF l.rpm.value > 0
                THEN [rpm EXCEPT ![l.rpm.subject] = Take(RpmNow(l), 1)] ELSE rpm
      /\ inflight' = IF l.concurrent.value > 0
                     THEN [inflight EXCEPT ![l.concurrent.subject] = @ + 1]
                     ELSE inflight
      /\ admitted' = IF l.rpm.value > 0
                     THEN admitted \cup {[req |-> i, subject |-> l.rpm.subject,
                                          at |-> clock]}
                     ELSE admitted
      /\ pc' = [pc EXCEPT ![i] = "ready"]
      /\ UNCHANGED <<user, lim, cost, gone, table, clock, usage>>

(* From the admission to `defer release`: injectIncludeUsage rewrites a    *)
(* streaming body.  json.Unmarshal of null leaves its map nil, and the     *)
(* assignment into it panics before release is deferred.                   *)
Inject(i) ==
  /\ pc[i] = "ready"
  /\ \/ pc' = [pc EXCEPT ![i] = "proxy"]
     \/ NullOptions /\ pc' = [pc EXCEPT ![i] = "aborted"]
  /\ UNCHANGED <<user, lim, cost, gone, table, clock, inflight, rpm, tpm, usage, admitted>>

(* The proxied response ends, whole or (a stream) early but cleanly: the   *)
(* tokens it reported, or the chunks seen, are its cost.                   *)
Respond(i) ==
  /\ pc[i] = "proxy"
  /\ \E n \in Costs : cost' = [cost EXCEPT ![i] = n]
  /\ pc' = [pc EXCEPT ![i] = "record"]
  /\ UNCHANGED <<user, lim, gone, table, clock, inflight, rpm, tpm, usage, admitted>>

(* The client hangs up, or the data plane dies.                            *)
HangUp(i) ==
  /\ Disconnects /\ i \notin gone
  /\ pc[i] \in {"admit", "ready", "proxy", "record"}
  /\ gone' = gone \cup {i}
  /\ UNCHANGED <<pc, user, lim, cost, table, clock, inflight, rpm, tpm, usage, admitted>>

(* Copying the response fails, because the client or the upstream went     *)
(* away: ReverseProxy panics with ErrAbortHandler and only the deferred    *)
(* release still runs, with whatever usage was seen (nothing, mid-stream). *)
CopyFails(i) ==
  /\ pc[i] = "proxy" /\ i \in gone
  /\ \E n \in Costs \cup {0} : cost' = [cost EXCEPT ![i] = n]
  /\ pc' = [pc EXCEPT ![i] = "release"]
  /\ UNCHANGED <<user, lim, gone, table, clock, inflight, rpm, tpm, usage, admitted>>

(* Mutant: a response that cost nothing is not worth a row.                *)
RecordIfCharged(i) ==
  /\ pc[i] = "record"
  /\ usage' = IF cost[i] = 0 THEN usage
              ELSE usage \cup {[req |-> i, user |-> user[i], tokens |-> cost[i],
                               status |-> "ok"]}
  /\ pc' = [pc EXCEPT ![i] = "release"]
  /\ UNCHANGED <<user, lim, cost, gone, table, clock, inflight, rpm, tpm, admitted>>

(* RecordUsage writes the row, or fails because the client is gone and the *)
(* request's context with it; either way the handler returns.              *)
Record(i) ==
  /\ pc[i] = "record"
  /\ \/ usage' = usage \cup {[req |-> i, user |-> user[i], tokens |-> cost[i],
                              status |-> "ok"]}
     \/ i \in gone /\ usage' = usage
  /\ pc' = [pc EXCEPT ![i] = "release"]
  /\ UNCHANGED <<user, lim, cost, gone, table, clock, inflight, rpm, tpm, admitted>>

(* Mutant: a release that frees the slot of whoever is the subject now.    *)
ReleaseRecomputed(i) ==
  LET l == lim[i]
      now == Tightest(user[i], "concurrent")
  IN  /\ pc[i] = "release"
      /\ inflight' = IF now.value > 0
                     THEN [inflight EXCEPT ![now.subject] = @ - 1]
                     ELSE inflight
      /\ tpm' = IF l.tpm.value > 0 /\ cost[i] > 0
                THEN [tpm EXCEPT ![l.tpm.subject] = Take(TpmNow(l), cost[i])]
                ELSE tpm
      /\ pc' = [pc EXCEPT ![i] = "done"]
      /\ UNCHANGED <<user, lim, cost, gone, table, clock, rpm, usage, admitted>>

(* The deferred release: the slot is freed and tpm is charged, possibly    *)
(* into debt.                                                              *)
Release(i) ==
  LET l == lim[i]
  IN  /\ pc[i] = "release"
      /\ inflight' = IF l.concurrent.value > 0
                     THEN [inflight EXCEPT ![l.concurrent.subject] = @ - 1]
                     ELSE inflight
      /\ tpm' = IF l.tpm.value > 0 /\ cost[i] > 0
                THEN [tpm EXCEPT ![l.tpm.subject] = Take(TpmNow(l), cost[i])]
                ELSE tpm
      /\ pc' = [pc EXCEPT ![i] = "done"]
      /\ UNCHANGED <<user, lim, cost, gone, table, clock, rpm, usage, admitted>>

(* `limits set` commits another table while requests are in flight.        *)
SetLimits ==
  /\ table' \in Tables \ {table}
  /\ UNCHANGED <<pc, user, lim, cost, gone, clock, inflight, rpm, tpm, usage, admitted>>

Tick ==
  /\ clock < MaxClock
  /\ clock' = clock + 1
  /\ UNCHANGED <<pc, user, lim, cost, gone, table, inflight, rpm, tpm, usage, admitted>>

Step(i) ==
  \/ Arrive(i) \/ Throttled(i) \/ Admit(i) \/ Inject(i)
  \/ Respond(i) \/ HangUp(i) \/ CopyFails(i) \/ Record(i) \/ Release(i)

Next == (\E i \in Requests : Step(i)) \/ SetLimits \/ Tick

Spec == Init /\ [][Next]_vars

-----------------------------------------------------------------------------
InProxy == {"ready", "proxy", "record", "release"}

(* Requests with a concurrency slot of s: under way, and not.              *)
HasSlot(i, s) == lim[i].concurrent.value > 0 /\ lim[i].concurrent.subject = s
Holding(s) == {i \in Requests : pc[i] \in InProxy /\ HasSlot(i, s)}
Leaked(s) == {i \in Requests : pc[i] = "aborted" /\ HasSlot(i, s)}

(* A slot is given back once (throttle.go: "a release that must always be  *)
(* called"): a subject's counter is the number of its requests under way   *)
(* and of those that panicked before their release was deferred, whatever  *)
(* ended the others and however the table changed meanwhile.               *)
SlotsExact ==
  \A s \in Subjects : inflight[s] = Cardinality(Holding(s) \cup Leaked(s))

(* Every slot is given back (proxy.go: "Always, on every exit below"): a   *)
(* subject with no request under way has all of its slots.                 *)
SlotsComeBack == \A s \in Subjects : Holding(s) = {} => inflight[s] = 0

(* max_concurrent: no subject has more requests under way than the largest *)
(* ceiling one of them was admitted under.                                 *)
SlotCeiling ==
  \A s \in Subjects :
    Holding(s) # {} =>
      Cardinality(Holding(s)) <= Max({lim[j].concurrent.value : j \in Holding(s)})

(* The largest rate a subject's row sets.                                  *)
TopRate(s) == Max({r.rpm : r \in {q \in UNION Tables : q.subject = s}})

(* The admissions through s's bucket from one instant to another.          *)
Between(s, x, y) == {c \in admitted : c.subject = s /\ x <= c.at /\ c.at <= y}

(* rpm is a token bucket: in any interval, the admissions through one      *)
(* subject's bucket are at most its capacity plus what refills meanwhile,  *)
(* at the highest of the rates that the row is switched between.           *)
RpmBound ==
  \A a, b \in admitted :
    a.subject = b.subject /\ a.at <= b.at =>
      Per * Cardinality(Between(a.subject, a.at, b.at))
        <= TopRate(a.subject) * (Per + b.at - a.at)

(* What a limits row promises holds whoever races for it, and while the    *)
(* table changes: its slots are counted exactly and never exceeded, and    *)
(* its request rate is not.                                                *)
LimitsHold == SlotsExact /\ SlotCeiling /\ RpmBound

(* Metering is not advisory (proxy.go, R3-07: "Never silently dropped"):   *)
(* an answered request leaves one usage row, and a request whose client or *)
(* data plane went away at most one.                                       *)
AnsweredIsMetered ==
  \A i \in Requests :
    LET rows == {r \in usage : r.req = i /\ r.status = "ok"}
    IN  /\ Cardinality(rows) <= 1
        /\ pc[i] = "done" /\ i \notin gone => rows # {}

(* Whatever the data plane answered is metered, though the client be gone. *)
AllIsMetered ==
  \A i \in Requests :
    pc[i] = "done" => \E r \in usage : r.req = i /\ r.status = "ok"

(* A global ceiling caps everybody (throttle.go: "The alternative ... would*)
(* make a global ceiling escapable by giving somebody a per-user limit").  *)
GlobalCeiling ==
  \A r \in table :
    r.subject = "global" /\ r.concurrent > 0 =>
      Cardinality({i \in Requests : pc[i] \in InProxy}) <= r.concurrent

(* A daily budget is exceeded by at most one request (throttle.go, admit): *)
(* without the costliest of the day's responses the user is within it.     *)
DailyExceededByOne ==
  \A u \in Users :
    LET mine == {r \in usage : r.user = u /\ r.tokens > 0}
        budget == Tightest(u, "daily").value
    IN  budget > 0 /\ mine # {} =>
          DailyUsed(u) - Max({r.tokens : r \in mine}) < budget
=============================================================================

------------------------------ MODULE HttpSink ------------------------------
(***************************************************************************)
(* The HTTP audit sink (internal/audit/httpsink.go): Emit hands a line to  *)
(* a bounded queue and reports what the worker saw last; the worker posts  *)
(* batches; Close gives the worker a bounded time to flush.  Emit runs on  *)
(* the caller's goroutine and takes the mutex twice, so its two halves are *)
(* two steps.  A line is the number of the record.                         *)
(***************************************************************************)
EXTENDS Integers, Sequences, FiniteSets

CONSTANTS
  QueueDepth,  \* httpQueueDepth
  BatchMax,    \* httpBatchMax
  MaxEmits,    \* bound: records emitted
  MaxPostErrs  \* bound: posts that fail

ASSUME HttpSinkAssumption ==
  /\ QueueDepth \in Nat \ {0} /\ BatchMax \in Nat \ {0}
  /\ MaxEmits \in Nat /\ MaxPostErrs \in Nat

VARIABLES
  hqueue, hlast, hdropped,  \* httpSink.queue, .last, .dropped
  hclose,    \* "open", "closing" (Close waits for done), "closed"
  hwork,     \* the worker: "wait", "post", "final" (its last post), "gone"
  hbatch,    \* the batch being posted
  hemit,     \* records emitted, and the Emit between its two halves
  hgot,      \* what the endpoint accepted, in order
  hlost,     \* history: records dropped or refused since the last success
  herrs

httpVars == <<hqueue, hlast, hdropped, hclose, hwork, hbatch, hemit, hgot, hlost, herrs>>

LinesOf(s) == {s[i] : i \in DOMAIN s}
FirstN(s, n) == SubSeq(s, 1, IF Len(s) < n THEN Len(s) ELSE n)
After(s, n) == SubSeq(s, n + 1, Len(s))

HttpTypeOK ==
  /\ Len(hqueue) <= QueueDepth
  /\ Len(hbatch) <= BatchMax
  /\ hdropped \in 0..MaxEmits
  /\ (hbatch = <<>>) = (hwork \in {"wait", "gone"})

-----------------------------------------------------------------------------
Emitted(k) == hemit' = [n |-> k, at |-> "status"]

(* Mutant: a record there is no room for is not counted.                   *)
DropUncounted == UNCHANGED hdropped

(* default: of Emit's select: the queue has no room.                       *)
Drop == hdropped' = hdropped + 1

(* Emit's select: room in the queue (also after Close, when both cases are *)
(* ready), or closed, or neither.                                          *)
Emit ==
  LET k == hemit.n + 1 IN
  /\ hemit.at = "idle"
  /\ k <= MaxEmits
  /\ \/ /\ Len(hqueue) < QueueDepth
        /\ hqueue' = Append(hqueue, k)
        /\ Emitted(k)
        /\ UNCHANGED <<hdropped, hlost>>
     \/ /\ hclose /= "open"
        /\ hemit' = [n |-> k, at |-> "idle"]
        /\ UNCHANGED <<hqueue, hdropped, hlost>>
     \/ /\ Len(hqueue) = QueueDepth /\ hclose = "open"
        /\ Drop
        /\ hlost' = hlost \cup {k}
        /\ Emitted(k)
        /\ UNCHANGED hqueue
  /\ UNCHANGED <<hlast, hclose, hwork, hbatch, hgot, herrs>>

(* Mutant: only the last post is reported.                                 *)
statusLast == hlast

(* status, read by the second half of Emit and by Close.                   *)
status == IF hdropped > 0 THEN "dropped" ELSE hlast

EmitReturns ==
  /\ hemit.at = "status"
  /\ hemit' = [hemit EXCEPT !.at = "idle"]
  /\ UNCHANGED <<hqueue, hlast, hdropped, hclose, hwork, hbatch, hgot, hlost, herrs>>

(* Mutant: the line that woke the worker goes last.                        *)
drainBehind(q) ==
  IF q = <<>> THEN q ELSE Append(FirstN(Tail(q), BatchMax - 1), Head(q))

(* The line that woke the worker and what drain takes behind it.           *)
drain(q) == FirstN(q, BatchMax)

(* run: a line is there.                                                   *)
TakeBatch ==
  /\ hwork = "wait"
  /\ hqueue /= <<>>
  /\ hwork' = "post"
  /\ hbatch' = drain(hqueue)
  /\ hqueue' = After(hqueue, BatchMax)
  /\ UNCHANGED <<hlast, hdropped, hclose, hemit, hgot, hlost, herrs>>

(* run: closed; one more batch, and the end.                               *)
TakeFinal ==
  /\ hwork = "wait"
  /\ hclose /= "open"
  /\ hwork' = IF hqueue = <<>> THEN "gone" ELSE "final"
  /\ hbatch' = drain(hqueue)
  /\ hqueue' = After(hqueue, BatchMax)
  /\ UNCHANGED <<hlast, hdropped, hclose, hemit, hgot, hlost, herrs>>

Posted ==
  /\ hwork' = IF hwork = "post" THEN "wait" ELSE "gone"
  /\ hbatch' = <<>>

(* post, send: the endpoint answers 2xx.                                   *)
PostSucceeds ==
  /\ hwork \in {"post", "final"}
  /\ Posted
  /\ hgot' = hgot \o hbatch
  /\ hlast' = "ok"
  /\ hdropped' = 0
  /\ hlost' = {}
  /\ UNCHANGED <<hqueue, hclose, hemit, herrs>>

(* post, send: another answer, or none, the lines having arrived or not.   *)
PostFails(arrived) ==
  /\ hwork \in {"post", "final"}
  /\ herrs < MaxPostErrs
  /\ herrs' = herrs + 1
  /\ Posted
  /\ hgot' = IF arrived THEN hgot \o hbatch ELSE hgot
  /\ hlast' = "err"
  /\ hlost' = hlost \cup LinesOf(hbatch)
  /\ UNCHANGED <<hqueue, hdropped, hclose, hemit>>

Close ==
  /\ hclose = "open"
  /\ hclose' = "closing"
  /\ UNCHANGED <<hqueue, hlast, hdropped, hwork, hbatch, hemit, hgot, hlost, herrs>>

(* done, or the grace is over.                                             *)
CloseReturns ==
  /\ hclose = "closing"
  /\ hclose' = "closed"
  /\ UNCHANGED <<hqueue, hlast, hdropped, hwork, hbatch, hemit, hgot, hlost, herrs>>

HttpInit ==
  /\ hqueue = <<>> /\ hlast = "ok" /\ hdropped = 0 /\ hclose = "open"
  /\ hwork = "wait" /\ hbatch = <<>> /\ hemit = [n |-> 0, at |-> "idle"]
  /\ hgot = <<>> /\ hlost = {} /\ herrs = 0

HttpNext ==
  \/ Emit \/ EmitReturns \/ Close \/ CloseReturns
  \/ TakeBatch \/ TakeFinal \/ PostSucceeds
  \/ \E arrived \in BOOLEAN : PostFails(arrived)

HttpSpec == HttpInit /\ [][HttpNext]_httpVars

-----------------------------------------------------------------------------
(* The endpoint sees the chain go forwards: records arrive in the order    *)
(* they were emitted and no record twice, across batches, failures and the *)
(* final flush.                                                            *)
ArrivalForwards == \A i, j \in DOMAIN hgot : i < j => hgot[i] < hgot[j]

(* Until the endpoint next accepts a batch, a record that was dropped or   *)
(* refused shows in what every Emit and Close reports, so that Delivery    *)
(* sees the sink failing.                                                  *)
LossIsReported == hlost /= {} => status /= "ok"

(* The endpoint receives the records in order, or the sink reports a loss. *)
InOrderOrReported == ArrivalForwards /\ LossIsReported

(* The worker's last attempt is made at whatever is still in the queue.    *)
FinalFlushTakesAll ==
  [][(hwork = "wait" /\ hwork' \in {"final", "gone"}) => hqueue' = <<>>]_httpVars
=============================================================================

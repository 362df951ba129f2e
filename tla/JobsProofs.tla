----------------------------- MODULE JobsProofs -----------------------------
(***************************************************************************)
(* Proofs about the jobs that run beside the request path: the HTTP audit  *)
(* sink's worker, the event queue of a node, the sealing key with the      *)
(* schema and the archives of a control plane, and the verbs on a host,    *)
(* for every depth, batch and number of processes, components and          *)
(* revisions.                                                              *)
(***************************************************************************)
EXTENDS HttpSink, NodeEvents, Sealing, Host, WellFoundedInduction, TLAPS

-----------------------------------------------------------------------------
(* The HTTP sink.                                                          *)

HttpTyped ==
  /\ hqueue \in Seq(Nat) /\ hbatch \in Seq(Nat) /\ hgot \in Seq(Nat)
  /\ hdropped \in Nat /\ hlast \in {"ok", "err"}
  /\ hemit \in [n : Nat, at : {"idle", "status"}]

Ascends(s) == \A i, j \in DOMAIN s : i < j => s[i] < s[j]
Below(s, t) == \A i \in DOMAIN s, j \in DOMAIN t : s[i] < t[j]
UpTo(s, n) == \A i \in DOMAIN s : s[i] <= n

(* What was accepted, what is being posted and what waits are stretches of *)
(* the records emitted, in this order.                                     *)
InLine ==
  /\ Ascends(hgot) /\ Ascends(hbatch) /\ Ascends(hqueue)
  /\ Below(hgot, hbatch) /\ Below(hgot, hqueue) /\ Below(hbatch, hqueue)
  /\ UpTo(hgot, hemit.n) /\ UpTo(hbatch, hemit.n) /\ UpTo(hqueue, hemit.n)

HttpInv == HttpTyped /\ InLine /\ LossIsReported

LEMMA Appended ==
  ASSUME NEW s \in Seq(Nat), NEW k \in Nat, Ascends(s), UpTo(s, k)
  PROVE  /\ Append(s, k + 1) \in Seq(Nat) /\ Ascends(Append(s, k + 1))
         /\ UpTo(Append(s, k + 1), k + 1)
         /\ \A u \in Seq(Nat) : Below(u, s) /\ UpTo(u, k) => Below(u, Append(s, k + 1))
<1> DEFINE t == Append(s, k + 1)
<1>1. /\ t \in Seq(Nat) /\ DOMAIN t = 1..(Len(s) + 1) /\ DOMAIN s = 1..Len(s) /\ Len(s) \in Nat
      /\ t[Len(s) + 1] = k + 1 /\ \A i \in 1..Len(s) : t[i] = s[i] /\ s[i] \in Nat
  OBVIOUS
<1> HIDE DEF t
<1>2. \A i \in DOMAIN t : i \in DOMAIN s \/ i = Len(s) + 1
  BY <1>1
<1>3. Ascends(t)
  BY <1>1, <1>2 DEF Ascends, UpTo
<1>4. UpTo(t, k + 1)
  BY <1>1, <1>2 DEF UpTo
<1>5. ASSUME NEW u \in Seq(Nat), Below(u, s), UpTo(u, k) PROVE Below(u, t)
  <2>1. \A i \in DOMAIN u : u[i] \in Nat
    OBVIOUS
  <2>2. ASSUME NEW i \in DOMAIN u, NEW j \in DOMAIN t PROVE u[i] < t[j]
    <3>1. CASE j \in DOMAIN s
      BY <1>1, <1>5, <3>1 DEF Below
    <3>2. CASE j = Len(s) + 1
      <4>1. u[i] <= k /\ u[i] \in Nat /\ t[j] = k + 1
        BY <1>1, <1>5, <2>1, <3>2 DEF UpTo
      <4> QED BY <4>1
    <3> QED BY <1>2, <3>1, <3>2
  <2> QED BY <2>2 DEF Below
<1> QED BY <1>1, <1>3, <1>4, <1>5 DEF t

(* A batch is the head of the queue, and what stays is behind it.          *)
LEMMA Drained ==
  ASSUME NEW q \in Seq(Nat), Ascends(q)
  PROVE  LET b == drain(q)
             r == After(q, BatchMax)
         IN  /\ b \in Seq(Nat) /\ r \in Seq(Nat) /\ Ascends(b) /\ Ascends(r) /\ Below(b, r)
             /\ \A i \in DOMAIN b : i \in DOMAIN q /\ b[i] = q[i]
             /\ \A i \in DOMAIN r : BatchMax + i \in DOMAIN q /\ r[i] = q[BatchMax + i]
<1> DEFINE m == IF Len(q) < BatchMax THEN Len(q) ELSE BatchMax
           b == SubSeq(q, 1, m)
           r == SubSeq(q, BatchMax + 1, Len(q))
<1>0. BatchMax \in Nat /\ BatchMax > 0 /\ Len(q) \in Nat /\ DOMAIN q = 1..Len(q)
  BY HttpSinkAssumption
<1>1. m \in 0..Len(q) /\ m <= BatchMax
  BY <1>0
<1> HIDE DEF m
<1>2. /\ b \in Seq(Nat) /\ DOMAIN b = 1..m /\ \A i \in 1..m : b[i] = q[i]
  BY <1>0, <1>1
<1>3. /\ r \in Seq(Nat)
      /\ \A i \in DOMAIN r : i \in Nat /\ i > 0 /\ BatchMax + i \in 1..Len(q) /\ r[i] = q[BatchMax + i]
  <2>1. CASE Len(q) <= BatchMax
    BY <1>0, <2>1
  <2>2. CASE Len(q) > BatchMax
    <3>1. r \in Seq(Nat) /\ DOMAIN r = 1..(Len(q) - BatchMax)
      BY <1>0, <2>2
    <3>2. \A i \in 1..(Len(q) - BatchMax) : r[i] = q[BatchMax + 1 + i - 1]
      BY <1>0, <2>2
    <3> QED BY <1>0, <3>1, <3>2
  <2> QED BY <1>0, <2>1, <2>2
<1>4. drain(q) = b /\ After(q, BatchMax) = r
  BY DEF drain, FirstN, After, m
<1> HIDE DEF b, r
<1>5. Ascends(b) /\ Ascends(r) /\ Below(b, r)
  <2>1. Ascends(b)
    BY <1>0, <1>1, <1>2 DEF Ascends
  <2>2. Ascends(r)
    BY <1>0, <1>1, <1>3 DEF Ascends
  <2>3. Below(b, r)
    BY <1>0, <1>1, <1>2, <1>3 DEF Ascends, Below
  <2> QED BY <2>1, <2>2, <2>3
<1> QED BY <1>0, <1>1, <1>2, <1>3, <1>4, <1>5

LEMMA Joined ==
  ASSUME NEW s \in Seq(Nat), NEW t \in Seq(Nat), Ascends(s), Ascends(t), Below(s, t)
  PROVE  /\ s \o t \in Seq(Nat) /\ Ascends(s \o t)
         /\ \A n \in Nat : UpTo(s, n) /\ UpTo(t, n) => UpTo(s \o t, n)
         /\ \A u \in Seq(Nat) : Below(s, u) /\ Below(t, u) => Below(s \o t, u)
<1> DEFINE c == s \o t
<1>1. /\ c \in Seq(Nat) /\ DOMAIN c = 1..(Len(s) + Len(t)) /\ DOMAIN s = 1..Len(s)
      /\ DOMAIN t = 1..Len(t) /\ Len(s) \in Nat /\ Len(t) \in Nat
      /\ \A i \in 1..Len(s) : c[i] = s[i]
      /\ \A i \in 1..(Len(s) + Len(t)) : i > Len(s) => c[i] = t[i - Len(s)]
  OBVIOUS
<1> HIDE DEF c
<1>2. \A i \in DOMAIN c : \/ i \in DOMAIN s /\ c[i] = s[i]
                          \/ i > Len(s) /\ i - Len(s) \in DOMAIN t /\ c[i] = t[i - Len(s)]
  <2> SUFFICES ASSUME NEW i \in 1..(Len(s) + Len(t))
               PROVE  \/ i \in DOMAIN s /\ c[i] = s[i]
                      \/ i > Len(s) /\ i - Len(s) \in DOMAIN t /\ c[i] = t[i - Len(s)]
    BY <1>1
  <2>1. CASE i > Len(s)
    <3>1. i - Len(s) \in 1..Len(t)
      BY <1>1, <2>1
    <3> QED BY <1>1, <2>1, <3>1
  <2>2. CASE ~(i > Len(s))
    <3>1. i \in 1..Len(s)
      BY <1>1, <2>2
    <3> QED BY <1>1, <3>1
  <2> QED BY <2>1, <2>2
<1>3. Ascends(c)
  <2> SUFFICES ASSUME NEW i \in DOMAIN c, NEW j \in DOMAIN c, i < j PROVE c[i] < c[j]
    BY DEF Ascends
  <2>1. CASE i \in DOMAIN s /\ c[i] = s[i] /\ j \in DOMAIN s /\ c[j] = s[j]
    BY <2>1 DEF Ascends
  <2>2. CASE i \in DOMAIN s /\ c[i] = s[i] /\ j > Len(s) /\ j - Len(s) \in DOMAIN t /\ c[j] = t[j - Len(s)]
    BY <2>2 DEF Below
  <2>3. CASE i > Len(s) /\ i - Len(s) \in DOMAIN t /\ c[i] = t[i - Len(s)] /\ j > Len(s)
    <3>1. j - Len(s) \in DOMAIN t /\ c[j] = t[j - Len(s)] /\ i - Len(s) < j - Len(s)
      BY <1>1, <1>2, <2>3
    <3> QED BY <2>3, <3>1 DEF Ascends
  <2> QED BY <1>1, <1>2, <2>1, <2>2, <2>3
<1>4. \A n \in Nat : UpTo(s, n) /\ UpTo(t, n) => UpTo(c, n)
  BY <1>2 DEF UpTo
<1>5. \A u \in Seq(Nat) : Below(s, u) /\ Below(t, u) => Below(c, u)
  BY <1>2 DEF Below
<1> QED BY <1>1, <1>3, <1>4, <1>5 DEF c

(* The worker takes a batch, the last one included.                        *)
LEMMA TakeInv ==
  ASSUME HttpInv, hbatch' = drain(hqueue), hqueue' = After(hqueue, BatchMax),
         UNCHANGED <<hlast, hdropped, hemit, hgot, hlost>>
  PROVE  HttpInv'
<1>0. HttpTyped /\ InLine /\ hqueue \in Seq(Nat)
  BY DEF HttpInv, HttpTyped
<1>1. /\ hbatch' \in Seq(Nat) /\ hqueue' \in Seq(Nat) /\ Ascends(hbatch') /\ Ascends(hqueue')
      /\ Below(hbatch', hqueue')
      /\ \A i \in DOMAIN hbatch' : i \in DOMAIN hqueue /\ hbatch'[i] = hqueue[i]
      /\ \A i \in DOMAIN hqueue' : BatchMax + i \in DOMAIN hqueue /\ hqueue'[i] = hqueue[BatchMax + i]
  BY <1>0, Drained DEF InLine
<1>2. HttpTyped'
  BY <1>0, <1>1 DEF HttpTyped
<1>3. Below(hgot, hbatch') /\ Below(hgot, hqueue') /\ UpTo(hbatch', hemit.n) /\ UpTo(hqueue', hemit.n)
  BY <1>0, <1>1 DEF InLine, Below, UpTo
<1>4. InLine'
  BY <1>0, <1>1, <1>3 DEF InLine
<1> QED BY <1>2, <1>4 DEF HttpInv, LossIsReported, status

LEMMA HttpStep == HttpInv /\ [HttpNext]_httpVars => HttpInv'
<1> SUFFICES ASSUME HttpInv, [HttpNext]_httpVars PROVE HttpInv'
  OBVIOUS
<1>0. HttpTyped /\ InLine /\ LossIsReported
  BY DEF HttpInv
<1>1. CASE Emit
  <2> DEFINE k == hemit.n + 1
  <2>0. k \in Nat /\ hemit.n \in Nat /\ hemit \in [n : Nat, at : {"idle", "status"}]
    BY <1>0 DEF HttpTyped
  <2>1. hemit'.n = k /\ hemit' \in [n : Nat, at : {"idle", "status"}]
    BY <1>1, <2>0 DEF Emit, Emitted
  <2>2. \A s \in Seq(Nat) : UpTo(s, hemit.n) => UpTo(s, k)
    <3>1. \A s \in Seq(Nat) : \A i \in DOMAIN s : s[i] \in Nat
      OBVIOUS
    <3> QED BY <2>0, <3>1 DEF UpTo
  <2>3. UNCHANGED <<hlast, hbatch, hgot>>
    BY <1>1 DEF Emit
  <2>4. CASE UNCHANGED <<hqueue, hdropped, hlost>>
    <3>1. HttpTyped' /\ LossIsReported'
      BY <1>0, <2>1, <2>3, <2>4 DEF HttpTyped, LossIsReported, status
    <3>2. InLine'
      BY <1>0, <2>1, <2>2, <2>3, <2>4 DEF InLine, HttpTyped
    <3> QED BY <3>1, <3>2 DEF HttpInv
  <2>5. CASE hqueue' = Append(hqueue, k) /\ UNCHANGED <<hdropped, hlost>>
    <3>1. /\ hqueue' \in Seq(Nat) /\ Ascends(hqueue') /\ UpTo(hqueue', k)
          /\ \A u \in Seq(Nat) : Below(u, hqueue) /\ UpTo(u, hemit.n) => Below(u, hqueue')
      BY <1>0, <2>0, <2>5, Appended DEF InLine, HttpTyped
    <3>2. HttpTyped' /\ LossIsReported'
      BY <1>0, <2>1, <2>3, <2>5, <3>1 DEF HttpTyped, LossIsReported, status
    <3>3. InLine'
      BY <1>0, <2>1, <2>2, <2>3, <3>1 DEF InLine, HttpTyped
    <3> QED BY <3>2, <3>3 DEF HttpInv
  <2>6. CASE hdropped' = hdropped + 1 /\ UNCHANGED hqueue
    <3>1. HttpTyped' /\ LossIsReported'
      BY <1>0, <2>1, <2>3, <2>6 DEF HttpTyped, LossIsReported, status
    <3>2. InLine'
      BY <1>0, <2>1, <2>2, <2>3, <2>6 DEF InLine, HttpTyped
    <3> QED BY <3>1, <3>2 DEF HttpInv
  <2> QED BY <1>1, <2>4, <2>5, <2>6 DEF Emit, Drop
<1>2. CASE EmitReturns
  <2>1. hemit'.n = hemit.n /\ hemit' \in [n : Nat, at : {"idle", "status"}]
    BY <1>0, <1>2 DEF EmitReturns, HttpTyped
  <2>2. UNCHANGED <<hqueue, hbatch, hgot, hlast, hdropped, hlost>>
    BY <1>2 DEF EmitReturns
  <2> QED BY <1>0, <2>1, <2>2 DEF HttpInv, HttpTyped, InLine, LossIsReported, status
<1>3. CASE TakeBatch \/ TakeFinal
  BY <1>3, TakeInv DEF TakeBatch, TakeFinal
<1>4. ASSUME hbatch' = <<>>, hgot' = hgot \o hbatch \/ hgot' = hgot,
             UNCHANGED <<hqueue, hemit>>
      PROVE  InLine' /\ hgot' \in Seq(Nat) /\ hbatch' \in Seq(Nat)
  <2>1. /\ hgot' \in Seq(Nat) /\ Ascends(hgot') /\ UpTo(hgot', hemit.n) /\ Below(hgot', hqueue)
    BY <1>0, <1>4, Joined DEF InLine, HttpTyped
  <2>2. /\ Ascends(hbatch') /\ UpTo(hbatch', hemit.n) /\ Below(hbatch', hqueue) /\ Below(hgot', hbatch')
        /\ hbatch' \in Seq(Nat)
    BY <1>4 DEF Ascends, UpTo, Below
  <2> QED BY <1>0, <1>4, <2>1, <2>2 DEF InLine
<1>5. CASE PostSucceeds
  <2>1. InLine' /\ hgot' \in Seq(Nat) /\ hbatch' \in Seq(Nat)
    BY <1>4, <1>5 DEF PostSucceeds, Posted
  <2> QED BY <1>0, <1>5, <2>1 DEF PostSucceeds, HttpInv, HttpTyped, LossIsReported
<1>6. ASSUME NEW arrived \in BOOLEAN, PostFails(arrived) PROVE HttpInv'
  <2>1. InLine' /\ hgot' \in Seq(Nat) /\ hbatch' \in Seq(Nat)
    BY <1>4, <1>6 DEF PostFails, Posted
  <2> QED BY <1>0, <1>6, <2>1 DEF PostFails, HttpInv, HttpTyped, LossIsReported, status
<1>7. CASE Close \/ CloseReturns \/ UNCHANGED httpVars
  <2>1. UNCHANGED <<hqueue, hbatch, hgot, hlast, hdropped, hlost, hemit>>
    BY <1>7 DEF Close, CloseReturns, httpVars
  <2> QED BY <1>0, <2>1 DEF HttpInv, HttpTyped, InLine, LossIsReported, status
<1> QED BY <1>1, <1>2, <1>3, <1>5, <1>6, <1>7 DEF HttpNext

LEMMA HttpStart == HttpInit => HttpInv
BY DEF HttpInit, HttpInv, HttpTyped, InLine, Ascends, Below, UpTo, LossIsReported

(* For every queue depth and batch size: the endpoint sees each record at  *)
(* most once and in the order of the chain, and a record it was not given  *)
(* shows in what Emit and Close report until a batch is accepted again.    *)
THEOREM SinkInOrder == HttpSpec => []InOrderOrReported
<1>1. HttpInv => InOrderOrReported
  BY DEF HttpInv, InLine, Ascends, InOrderOrReported, ArrivalForwards
<1> QED BY <1>1, HttpStart, HttpStep, PTL DEF HttpSpec

-----------------------------------------------------------------------------
(* The event queue of a node.                                              *)

EventsTyped ==
  /\ queue \in Seq(Nat) /\ spill \in Seq(Nat) /\ chain \in Seq(Nat)
  /\ dropped \in Nat /\ noted \in Nat /\ since \in Nat
  /\ post \in [at : {"idle", "sent", "answered"}, batch : Seq(Nat), accepted : Nat]

(* The batch in flight is the head of the queue, and what the answer says  *)
(* was accepted is in the chain.                                           *)
PostIsHead ==
  /\ post.at # "idle" =>
       /\ Len(post.batch) <= Len(queue)
       /\ \A i \in 1..Len(post.batch) : post.batch[i] = queue[i]
  /\ post.at = "answered" =>
       /\ post.accepted <= Len(post.batch)
       /\ \A i \in 1..post.accepted : post.batch[i] \in ToSet(chain)

EventsInv == EventsTyped /\ PostIsHead /\ NoSilentLoss

LEMMA SetOfConcat ==
  ASSUME NEW s \in Seq(Nat), NEW t \in Seq(Nat)
  PROVE  s \o t \in Seq(Nat) /\ ToSet(s \o t) = ToSet(s) \cup ToSet(t)
<1>1. /\ s \o t \in Seq(Nat) /\ DOMAIN (s \o t) = 1..(Len(s) + Len(t))
      /\ DOMAIN s = 1..Len(s) /\ DOMAIN t = 1..Len(t) /\ Len(s) \in Nat /\ Len(t) \in Nat
      /\ \A i \in 1..Len(s) : (s \o t)[i] = s[i]
      /\ \A i \in 1..(Len(s) + Len(t)) : i > Len(s) => (s \o t)[i] = t[i - Len(s)]
  OBVIOUS
<1>2. \A i \in 1..(Len(s) + Len(t)) : i \in 1..Len(s) \/ (i > Len(s) /\ i - Len(s) \in 1..Len(t))
  BY <1>1
<1>3. ToSet(s \o t) \subseteq ToSet(s) \cup ToSet(t)
  BY <1>1, <1>2 DEF ToSet
<1>4. ToSet(s) \subseteq ToSet(s \o t)
  BY <1>1 DEF ToSet
<1>5. \A j \in 1..Len(t) : j + Len(s) \in 1..(Len(s) + Len(t)) /\ (s \o t)[j + Len(s)] = t[j]
  BY <1>1
<1>6. ASSUME NEW x \in ToSet(t) PROVE x \in ToSet(s \o t)
  <2>1. PICK j \in 1..Len(t) : x = t[j]
    BY <1>1, <1>6 DEF ToSet
  <2>2. j + Len(s) \in DOMAIN (s \o t) /\ (s \o t)[j + Len(s)] = x
    BY <1>1, <1>5, <2>1
  <2> QED BY <2>2, Zenon DEF ToSet
<1> QED BY <1>1, <1>3, <1>4, <1>6

LEMMA SetOfAppend ==
  ASSUME NEW s \in Seq(Nat), NEW x \in Nat
  PROVE  Append(s, x) \in Seq(Nat) /\ ToSet(Append(s, x)) = ToSet(s) \cup {x}
<1>1. /\ Append(s, x) \in Seq(Nat) /\ DOMAIN Append(s, x) = 1..(Len(s) + 1)
      /\ DOMAIN s = 1..Len(s) /\ Len(s) \in Nat
      /\ \A i \in 1..Len(s) : Append(s, x)[i] = s[i]
      /\ Append(s, x)[Len(s) + 1] = x
  OBVIOUS
<1>2. \A i \in 1..(Len(s) + 1) : i \in 1..Len(s) \/ i = Len(s) + 1
  BY <1>1
<1>3. 1..Len(s) \subseteq 1..(Len(s) + 1) /\ Len(s) + 1 \in 1..(Len(s) + 1)
  BY <1>1
<1> QED BY <1>1, <1>2, <1>3 DEF ToSet

LEMMA SetOfSplit ==
  ASSUME NEW s \in Seq(Nat), NEW n \in 0..Len(s)
  PROVE  /\ SubSeq(s, 1, n) \in Seq(Nat) /\ SubSeq(s, n + 1, Len(s)) \in Seq(Nat)
         /\ ToSet(s) = ToSet(SubSeq(s, 1, n)) \cup ToSet(SubSeq(s, n + 1, Len(s)))
         /\ ToSet(SubSeq(s, 1, n)) = {s[i] : i \in 1..n}
         /\ Len(SubSeq(s, 1, n)) = n
<1> DEFINE h == SubSeq(s, 1, n)
           r == SubSeq(s, n + 1, Len(s))
<1>1. /\ h \in Seq(Nat) /\ DOMAIN h = 1..n /\ Len(h) = n /\ \A i \in 1..n : h[i] = s[i]
  OBVIOUS
<1>2. /\ r \in Seq(Nat) /\ DOMAIN r = 1..(Len(s) - n) /\ \A i \in 1..(Len(s) - n) : r[i] = s[n + i]
  OBVIOUS
<1>3. DOMAIN s = 1..Len(s) /\ Len(s) \in Nat /\ n \in Nat
  OBVIOUS
<1> HIDE DEF h, r
<1>4. ToSet(h) = {s[i] : i \in 1..n}
  BY <1>1 DEF ToSet
<1>5. \A i \in 1..Len(s) : i \in 1..n \/ (i - n \in 1..(Len(s) - n) /\ r[i - n] = s[i])
  BY <1>2, <1>3
<1>6. ToSet(s) \subseteq ToSet(h) \cup ToSet(r)
  BY <1>2, <1>3, <1>4, <1>5 DEF ToSet
<1>7. \A i \in 1..(Len(s) - n) : n + i \in 1..Len(s)
  BY <1>3
<1>8. ASSUME NEW x \in ToSet(r) PROVE x \in ToSet(s)
  <2>1. PICK i \in 1..(Len(s) - n) : x = r[i]
    BY <1>2, <1>8 DEF ToSet
  <2>2. n + i \in DOMAIN s /\ s[n + i] = x
    BY <1>2, <1>3, <1>7, <2>1
  <2> QED BY <2>2, Zenon DEF ToSet
<1>9. 1..n \subseteq DOMAIN s
  BY <1>3
<1>10. ToSet(h) \subseteq ToSet(s)
  BY <1>4, <1>9 DEF ToSet
<1> QED BY <1>1, <1>2, <1>4, <1>6, <1>8, <1>10 DEF h, r

LEMMA SetOfShort ==
  ToSet(<<0>>) = {0} /\ ToSet(<<>>) = {} /\ <<0>> \in Seq(Nat) /\ <<>> \in Seq(Nat)
BY DEF ToSet

(* Nothing the queue could not keep is forgotten without being counted.    *)
LEMMA Kept ==
  ASSUME EventsTyped, NEW cap \in Nat, Add(cap)
  PROVE  /\ queue' \in Seq(Nat) /\ spill' \in Seq(Nat) /\ dropped' \in Nat
         /\ ToSet(spill) \subseteq ToSet(spill') /\ dropped' >= dropped
         /\ dropped' > 0 \/ ToSet(queue) \cup {noted + 1} \subseteq ToSet(queue') \cup ToSet(spill')
<1> DEFINE all == Append(queue, noted + 1)
           over == Len(all) - EventsInMemory
<1>0. /\ queue \in Seq(Nat) /\ spill \in Seq(Nat) /\ noted + 1 \in Nat /\ dropped \in Nat
      /\ EventsInMemory \in Nat
  BY EventsAssumption DEF EventsTyped
<1>1. all \in Seq(Nat) /\ ToSet(all) = ToSet(queue) \cup {noted + 1} /\ Len(all) \in Nat
  BY <1>0, SetOfAppend
<1> HIDE DEF all
<1>2. over \in Int
  BY <1>0, <1>1
<1>3. PICK out \in Seq(Nat) :
        /\ out = Queued(all).out /\ Queued(all).keep \in Seq(Nat)
        /\ ToSet(all) = ToSet(out) \cup ToSet(Queued(all).keep)
  <2>1. CASE over <= 0
    <3>1. Queued(all) = [keep |-> all, out |-> <<>>]
      BY <2>1 DEF Queued
    <3>2. Queued(all).keep = all /\ Queued(all).out = <<>>
      BY <3>1
    <3>3. ToSet(all) = ToSet(<<>>) \cup ToSet(all)
      BY SetOfShort
    <3> QED BY <1>1, <3>2, <3>3, SetOfShort
  <2>2. CASE ~(over <= 0)
    <3>1. Queued(all) = [keep |-> SubSeq(all, over + 1, Len(all)), out |-> SubSeq(all, 1, over)]
      BY <2>2 DEF Queued
    <3>2. over \in 0..Len(all)
      BY <1>0, <1>1, <1>2, <2>2
    <3>3. /\ SubSeq(all, 1, over) \in Seq(Nat) /\ SubSeq(all, over + 1, Len(all)) \in Seq(Nat)
          /\ ToSet(all) = ToSet(SubSeq(all, 1, over)) \cup ToSet(SubSeq(all, over + 1, Len(all)))
      BY <1>1, <3>2, SetOfSplit
    <3>4. Queued(all).keep = SubSeq(all, over + 1, Len(all)) /\ Queued(all).out = SubSeq(all, 1, over)
      <4>1. PICK k, o : k = SubSeq(all, over + 1, Len(all)) /\ o = SubSeq(all, 1, over)
        BY Zenon
      <4>2. Queued(all) = [keep |-> k, out |-> o]
        BY <3>1, <4>1, Zenon
      <4>3. Queued(all).keep = k /\ Queued(all).out = o
        BY <4>2
      <4> QED BY <4>1, <4>3, Zenon
    <3> QED BY <3>3, <3>4
  <2> QED BY <2>1, <2>2
<1>4. queue' = Queued(all).keep /\ spill' = SpillAll(out, cap).spill /\ dropped' = SpillAll(out, cap).dropped
  BY <1>3 DEF Add, all
<1> DEFINE room == IF Len(spill) >= cap THEN 0 ELSE cap - Len(spill)
<1>5. Len(spill) \in Nat /\ Len(out) \in Nat /\ room \in Nat
  BY <1>0, <1>3
<1>r. ~(Len(spill) + Len(out) <= cap) => room <= Len(out)
  BY <1>5
<1> HIDE DEF room
<1>6. CASE Len(spill) + Len(out) <= cap
  <2>1. spill' = spill \o SubSeq(out, 1, Len(out)) /\ dropped' = dropped + 0
    BY <1>4, <1>6 DEF SpillAll
  <2>2. SubSeq(out, 1, Len(out)) \in Seq(Nat) /\ SubSeq(out, 1, Len(out)) = out
    BY <1>3, <1>5
  <2>3. spill' \in Seq(Nat) /\ ToSet(spill') = ToSet(spill) \cup ToSet(out)
    <3>1. spill' = spill \o out
      BY <2>1, <2>2
    <3> QED BY <1>0, <1>3, <3>1, SetOfConcat
  <2> QED BY <1>0, <1>1, <1>3, <1>4, <2>1, <2>3
<1>7. CASE ~(Len(spill) + Len(out) <= cap)
  <2>1. spill' = spill \o SubSeq(out, 1, room) /\ dropped' = dropped + (Len(out) - room)
    BY <1>4, <1>7 DEF SpillAll, room
  <2>2. room <= Len(out)
    BY <1>r, <1>7
  <2>3. SubSeq(out, 1, room) \in Seq(Nat)
    BY <1>3, <1>5, <2>2, SetOfSplit
  <2>4. spill' \in Seq(Nat) /\ ToSet(spill) \subseteq ToSet(spill')
    BY <1>0, <2>1, <2>3, SetOfConcat
  <2>5. Len(out) = room => out = <<>>
    BY <1>3, <1>5, <1>7 DEF room
  <2>6. Len(out) # room => dropped' > 0
    BY <1>0, <1>5, <2>1, <2>2
  <2>7. dropped' \in Nat /\ dropped' >= dropped
    BY <1>0, <1>5, <2>1, <2>2
  <2> QED BY <1>1, <1>3, <1>4, <2>4, <2>5, <2>6, <2>7, SetOfShort
<1> QED BY <1>6, <1>7

LEMMA EventsStep == EventsInv /\ [EventsNext]_eventVars => EventsInv'
<1> SUFFICES ASSUME EventsInv, [EventsNext]_eventVars PROVE EventsInv'
  OBVIOUS
<1>0. EventsTyped /\ PostIsHead /\ NoSilentLoss
  BY DEF EventsInv
<1>1. CASE noteChange
  <2>1. PICK cap \in Nat : Add(cap)
    BY <1>1, EventsAssumption DEF noteChange
  <2>2. /\ queue' \in Seq(Nat) /\ spill' \in Seq(Nat) /\ dropped' \in Nat
        /\ ToSet(spill) \subseteq ToSet(spill') /\ dropped' >= dropped
        /\ dropped' > 0 \/ ToSet(queue) \cup {noted + 1} \subseteq ToSet(queue') \cup ToSet(spill')
    BY <1>0, <2>1, Kept
  <2>3. noted' = noted + 1 /\ UNCHANGED <<post, chain, since>> /\ post.at = "idle"
    BY <1>1 DEF noteChange
  <2>4. EventsTyped' /\ PostIsHead'
    BY <1>0, <2>2, <2>3 DEF EventsTyped, PostIsHead
  <2>5. NoSilentLoss'
    <3>1. SUFFICES ASSUME NEW e \in since + 1..noted + 1, e \notin Held', dropped' = 0
                   PROVE  0 \in Held'
      BY <2>2, <2>3 DEF NoSilentLoss
    <3>2. Held \cup {noted + 1} \subseteq Held' /\ dropped = 0
      BY <1>0, <2>2, <2>3, <3>1 DEF Held, EventsTyped
    <3>3. e # noted + 1 /\ e \notin Held
      BY <3>1, <3>2
    <3>4. e \in since + 1..noted
      BY <1>0, <3>1, <3>3 DEF EventsTyped
    <3> QED BY <1>0, <3>2, <3>3, <3>4 DEF NoSilentLoss
  <2> QED BY <2>4, <2>5 DEF EventsInv
<1>2. CASE Take
  <2> DEFINE q0 == IF dropped > 0 THEN <<0>> \o queue ELSE queue
             q == refill(q0)
             m == IF Len(q.queue) > EventsPerPost THEN EventsPerPost ELSE Len(q.queue)
  <2>1. /\ queue' = q.queue /\ spill' = q.spill /\ dropped' = 0
        /\ post' = [at |-> "sent", accepted |-> 0, batch |-> SubSeq(q.queue, 1, m)]
        /\ UNCHANGED <<noted, chain, since>>
    BY <1>2 DEF Take
  <2>2. /\ q0 \in Seq(Nat)
        /\ ToSet(q0) = ToSet(queue) \cup IF dropped > 0 THEN {0} ELSE {}
    <3>1. <<0>> \o queue \in Seq(Nat) /\ ToSet(<<0>> \o queue) = {0} \cup ToSet(queue)
      <4>1. PICK z \in Seq(Nat) : z = <<0>> /\ ToSet(z) = {0}
        BY SetOfShort
      <4>2. z \o queue \in Seq(Nat) /\ ToSet(z \o queue) = ToSet(z) \cup ToSet(queue)
        BY <1>0, SetOfConcat DEF EventsTyped
      <4> QED BY <4>1, <4>2, Zenon
    <3>2. CASE dropped > 0
      BY <3>1, <3>2
    <3>3. CASE ~(dropped > 0)
      BY <1>0, <3>3 DEF EventsTyped
    <3> QED BY <3>2, <3>3
  <2> HIDE DEF q0
  <2>3. /\ q.queue \in Seq(Nat) /\ q.spill \in Seq(Nat)
        /\ ToSet(q.queue) \cup ToSet(q.spill) = ToSet(q0) \cup ToSet(spill)
    BY <1>0, <2>2, SetOfConcat, SetOfShort DEF refill, EventsTyped
  <2> HIDE DEF q
  <2>4. m \in 0..Len(q.queue)
    BY <2>3, EventsAssumption
  <2>5. SubSeq(q.queue, 1, m) \in Seq(Nat) /\ Len(SubSeq(q.queue, 1, m)) = m
    BY <2>3, <2>4, SetOfSplit
  <2>6. \A i \in 1..m : SubSeq(q.queue, 1, m)[i] = q.queue[i]
    BY <2>3, <2>4
  <2> HIDE DEF m
  <2>7. EventsTyped' /\ PostIsHead'
    BY <1>0, <2>1, <2>3, <2>4, <2>5, <2>6 DEF EventsTyped, PostIsHead
  <2>8. Held' = Held \cup IF dropped > 0 THEN {0} ELSE {}
    BY <2>1, <2>2, <2>3 DEF Held
  <2>9. NoSilentLoss'
    BY <1>0, <2>1, <2>8 DEF NoSilentLoss
  <2> QED BY <2>7, <2>9 DEF EventsInv
<1>3. CASE agentEvents
  <2>1. UNCHANGED <<queue, spill, dropped, noted, since>> /\ post.at = "sent"
    BY <1>3 DEF agentEvents
  <2>2. CASE post' = NoPost /\ UNCHANGED chain
    <3>1. EventsTyped' /\ PostIsHead'
      BY <1>0, <2>1, <2>2 DEF EventsTyped, PostIsHead, NoPost
    <3>2. NoSilentLoss'
      BY <1>0, <2>1, <2>2 DEF NoSilentLoss, Held
    <3> QED BY <3>1, <3>2 DEF EventsInv
  <2>3. ASSUME NEW n \in 0..Len(post.batch), chain' = chain \o SubSeq(post.batch, 1, n),
               post' = [post EXCEPT !.at = "answered", !.accepted = n]
        PROVE  EventsInv'
    <3>1. post.batch \in Seq(Nat) /\ chain \in Seq(Nat)
      BY <1>0 DEF EventsTyped
    <3>2. SubSeq(post.batch, 1, n) \in Seq(Nat) /\ ToSet(SubSeq(post.batch, 1, n)) = {post.batch[i] : i \in 1..n}
      BY <3>1, SetOfSplit
    <3>3. chain' \in Seq(Nat) /\ ToSet(chain') = ToSet(chain) \cup {post.batch[i] : i \in 1..n}
      BY <2>3, <3>1, <3>2, SetOfConcat
    <3>4. post'.at = "answered" /\ post'.accepted = n /\ post'.batch = post.batch /\ n \in Nat /\ n <= Len(post.batch)
      BY <1>0, <2>3, <3>1 DEF EventsTyped
    <3>5. post' \in [at : {"idle", "sent", "answered"}, batch : Seq(Nat), accepted : Nat]
      BY <1>0, <2>3, <3>4 DEF EventsTyped
    <3>6. EventsTyped' /\ PostIsHead'
      BY <1>0, <2>1, <3>3, <3>4, <3>5 DEF EventsTyped, PostIsHead
    <3>7. NoSilentLoss'
      BY <1>0, <2>1, <3>3 DEF NoSilentLoss, Held
    <3> QED BY <3>6, <3>7 DEF EventsInv
  <2> QED BY <1>3, <2>2, <2>3 DEF agentEvents
<1>4. CASE Delivered
  <2>1. UNCHANGED <<spill, dropped, noted, chain, since>> /\ post' = NoPost /\ post.at = "answered"
    BY <1>4 DEF Delivered
  <2>2. PostIsHead'
    BY <2>1 DEF PostIsHead, NoPost
  <2>3. CASE queue' = queue
    BY <1>0, <2>1, <2>2, <2>3 DEF EventsInv, EventsTyped, NoPost, NoSilentLoss, Held
  <2>4. CASE queue' = SubSeq(queue, post.accepted + 1, Len(queue))
    <3>1. /\ queue \in Seq(Nat) /\ post.accepted \in 0..Len(queue)
          /\ post.accepted <= Len(post.batch)
      BY <1>0, <2>1 DEF EventsTyped, PostIsHead
    <3>2. queue' \in Seq(Nat) /\ ToSet(queue) = {queue[i] : i \in 1..post.accepted} \cup ToSet(queue')
      BY <2>4, <3>1, SetOfSplit
    <3>3. \A i \in 1..post.accepted : i \in 1..Len(post.batch)
      BY <1>0, <3>1 DEF EventsTyped
    <3>4. \A i \in 1..post.accepted : queue[i] \in ToSet(chain)
      BY <1>0, <2>1, <3>3 DEF PostIsHead
    <3>5. Held' = Held
      BY <2>1, <3>2, <3>4 DEF Held
    <3>6. NoSilentLoss'
      BY <1>0, <2>1, <3>5 DEF NoSilentLoss
    <3> QED BY <1>0, <2>1, <2>2, <3>2, <3>6 DEF EventsInv, EventsTyped, NoPost
  <2> QED BY <1>4, <2>3, <2>4 DEF Delivered
<1>5. CASE EventsDie
  <2>1. /\ queue' = <<>> /\ dropped' = 0 /\ post' = NoPost /\ since' = noted /\ noted' = noted
        /\ UNCHANGED <<spill, chain>>
    BY <1>5 DEF EventsDie
  <2>2. EventsTyped' /\ PostIsHead'
    BY <1>0, <2>1 DEF EventsTyped, PostIsHead, NoPost
  <2>3. NoSilentLoss'
    BY <1>0, <2>1 DEF NoSilentLoss, EventsTyped
  <2> QED BY <2>2, <2>3 DEF EventsInv
<1>6. CASE UNCHANGED eventVars
  BY <1>0, <1>6 DEF eventVars, EventsInv, EventsTyped, PostIsHead, NoSilentLoss, Held
<1> QED BY <1>1, <1>2, <1>3, <1>4, <1>5, <1>6 DEF EventsNext

LEMMA EventsStart == EventsInit => EventsInv
BY DEF EventsInit, EventsInv, EventsTyped, PostIsHead, NoPost, NoSilentLoss

(* The queue may lose events, and never the fact that it did, whatever the *)
(* bounds of memory, file and post, and however often posts are lost, half *)
(* accepted or repeated.                                                   *)
THEOREM LossIsNeverSilent == EventsSpec => []NoSilentLoss
<1>1. EventsInv => NoSilentLoss
  BY DEF EventsInv
<1> QED BY <1>1, EventsStart, EventsStep, PTL DEF EventsSpec

-----------------------------------------------------------------------------
(* The sealing key, the schema and the archives.                           *)

(* A schema is the applied migrations in ascending order.                  *)
SchemaOf(db) ==
  /\ {db.schema[i] : i \in DOMAIN db.schema} = db.applied
  /\ \A i, j \in DOMAIN db.schema : i < j => db.schema[i] < db.schema[j]

DbOK(db) == db.rows \subseteq {db.bound} \ {0} /\ SchemaOf(db)

HostOK(file, db, ca, mixed) ==
  /\ DbOK(db)
  /\ db.file = "none" => ca.sealed = 0
  /\ ~mixed => /\ file # 0 => db.bound \in {0, file}
               /\ ca.sealed # 0 => db.bound # 0 /\ ca.under = db.bound

ArchiveOK(a, mixed) ==
  /\ DbOK(a.db) /\ a.id \in a.db.records
  /\ readBackup(a) => /\ a.db.bound \in {0, a.key}
                      /\ (a.ca.sealed # 0 /\ ~mixed) => a.ca.under = a.key

PastCheck == SessionSteps \ {"migrate", "migrating", "check"}
WithKey == {"unlink", "bind", "act", "ca", "seal"}
Walking == {"root", "pki", "key in"}

(* Past the check, a bound database's key is the file: no later step of a  *)
(* session makes a second key or a second binding.                         *)
KeyHeld(w, file, db) ==
  /\ w.at \in SessionSteps => db.file = "whole" /\ w.id # 0
  /\ (w.at \in PastCheck /\ db.bound # 0) => file = db.bound
  /\ w.at = "link" => w.key # 0
  /\ w.at \in WithKey => w.key # 0 /\ file = w.key
  /\ w.at \in {"ca", "seal"} => db.bound = w.key

(* The transaction of a migration differs from the database in its schema  *)
(* alone, and what is left to apply is above what is applied.              *)
Migrates(w, db) ==
  w.at = "migrating" =>
    /\ w.tx.file = db.file /\ w.tx.bound = db.bound
    /\ w.tx.rows = db.rows /\ w.tx.records = db.records
    /\ DbOK(w.tx) /\ reconcile(w.rel, w.tx.applied)

(* An archive in the making holds its record, and the key file is the one  *)
(* its members are sealed under.                                           *)
Walks(w, file, db, mixed) ==
  /\ w.at = "snapshot" => w.id \in db.records
  /\ w.at \in Walking => /\ DbOK(w.arch.db) /\ w.arch.id \in w.arch.db.records
                         /\ w.arch.db.bound # 0 => file = w.arch.db.bound
  /\ (w.at = "key in" /\ ~mixed /\ w.arch.ca.sealed # 0) => file # 0 /\ w.arch.ca.under = file

(* A restore has the host for itself.  Unless it mixes two installations,  *)
(* there is no key before its own, and no CA before the archive's.         *)
Restores(w, file, db, ca, mixed) ==
  w.at \in RestoreSteps =>
    /\ w.verb = "restore" /\ db.file # "none"
    /\ ArchiveOK(w.arch, mixed) /\ readBackup(w.arch)
    /\ w.at = "db" => db.bound = 0
    /\ w.at # "db" => db = w.arch.db
    /\ ~mixed => /\ file = 0
                 /\ w.arch.ca.sealed # 0 => w.arch.db.bound # 0
                 /\ w.at # "put key" => ca.sealed = 0

WorkOK(w, file, db, ca, mixed) ==
  /\ KeyHeld(w, file, db) /\ Migrates(w, db)
  /\ Walks(w, file, db, mixed) /\ Restores(w, file, db, ca, mixed)

Alone == \A p, q \in KProcs : (kproc[p].at \in RestoreSteps /\ q # p) => kproc[q].at = "idle"

(* What every reachable state satisfies.                                   *)
SealInv ==
  /\ SealTypeOK /\ Alone
  /\ HostOK(kfile, kdb, kca, kused.mixed)
  /\ \A a \in karch : ArchiveOK(a, kused.mixed)
  /\ \A p \in KProcs : WorkOK(kproc[p], kfile, kdb, kca, kused.mixed)

LEMMA SchemaNumbers ==
  SchemaVersions \subseteq Nat /\ KeyIds \subseteq Nat /\ 0 \in KeyIds
BY SealingAssumption DEF SchemaVersions, KeyIds

LEMMA FreshDb ==
  ASSUME NEW f \in {"none", "empty", "whole", "torn"}
  PROVE  /\ EmptyBase(f) \in Databases /\ DbOK(EmptyBase(f))
         /\ EmptyBase(f).file = f /\ EmptyBase(f).bound = 0
<1>1. <<>> \in Seq(SchemaVersions) /\ DOMAIN <<>> = {}
  OBVIOUS
<1>2. EmptyBase(f) \in Databases
  BY <1>1, SchemaNumbers DEF EmptyBase, Databases
<1>3. EmptyBase(f).schema = <<>> /\ EmptyBase(f).applied = {} /\ EmptyBase(f).rows = {}
      /\ EmptyBase(f).file = f /\ EmptyBase(f).bound = 0
  BY DEF EmptyBase
<1>4. DbOK(EmptyBase(f))
  BY <1>1, <1>3 DEF DbOK, SchemaOf
<1> QED BY <1>2, <1>3, <1>4

LEMMA NoWork ==
  /\ NoDB \in Databases /\ NoCA \in AgentCAs /\ NoArchive \in Archives /\ NoProc \in Works
  /\ NoProc.at = "idle" /\ NoCA.sealed = 0
<1>1. NoDB \in Databases
  BY FreshDb DEF NoDB
<1>2. NoCA \in AgentCAs /\ NoCA.sealed = 0
  BY SchemaNumbers DEF NoCA, AgentCAs
<1>3. NoArchive \in Archives
  BY <1>1, <1>2, SchemaNumbers DEF NoArchive, Archives
<1>4. NoProc \in Works
  BY <1>1, <1>3, SchemaNumbers DEF NoProc, VerbAt, Works
<1>5. NoProc.at = "idle"
  BY DEF NoProc, VerbAt
<1> QED BY <1>1, <1>2, <1>3, <1>4, <1>5

(* What starts.                                                            *)
LEMMA StartedWork ==
  ASSUME NEW verb \in {"install", "enroll", "backup", "restore"}, NEW step \in {"migrate", "db"},
         NEW rel \in SUBSET SchemaVersions, NEW id \in KeyIds, NEW a \in Archives
  PROVE  LET w == VerbAt(verb, step, rel, id, a) IN
         w \in Works /\ w.verb = verb /\ w.at = step /\ w.rel = rel /\ w.id = id /\ w.arch = a
<1>1. NoDB \in Databases /\ 0 \in KeyIds
  BY NoWork, SchemaNumbers
<1>2. step \in {"idle"} \cup SessionSteps \cup RestoreSteps
  BY DEF SessionSteps, RestoreSteps
<1> QED BY <1>1, <1>2 DEF VerbAt, Works

(* One migration applied in a transaction.                                 *)
LEMMA StepsApply ==
  ASSUME NEW w \in Works, NEW v \in SchemaVersions
  PROVE  LET n == [w EXCEPT !.tx.schema = Append(@, v), !.tx.applied = @ \cup {v}] IN
         /\ n \in Works /\ n.at = w.at /\ n.rel = w.rel /\ n.id = w.id
         /\ n.tx.schema = Append(w.tx.schema, v) /\ n.tx.applied = w.tx.applied \cup {v}
         /\ n.tx.file = w.tx.file /\ n.tx.bound = w.tx.bound /\ n.tx.rows = w.tx.rows
         /\ n.tx.records = w.tx.records
<1>1. w.tx \in Databases
  BY DEF Works
<1>2. w.tx.schema \in Seq(SchemaVersions) /\ w.tx.applied \in SUBSET SchemaVersions
  BY <1>1 DEF Databases
<1>3. PICK s : s = Append(w.tx.schema, v)
  OBVIOUS
<1>4. PICK a : a = w.tx.applied \cup {v}
  OBVIOUS
<1>5. s \in Seq(SchemaVersions) /\ a \in SUBSET SchemaVersions
  BY <1>2, <1>3, <1>4
<1>6. [w EXCEPT !.tx.schema = Append(@, v), !.tx.applied = @ \cup {v}]
        = [w EXCEPT !.tx.schema = s, !.tx.applied = a]
  BY <1>3, <1>4 DEF Works, Databases
<1>7. LET n == [w EXCEPT !.tx.schema = s, !.tx.applied = a] IN
         /\ n \in Works /\ n.at = w.at /\ n.rel = w.rel /\ n.id = w.id
         /\ n.tx.schema = s /\ n.tx.applied = a
         /\ n.tx.file = w.tx.file /\ n.tx.bound = w.tx.bound /\ n.tx.rows = w.tx.rows
         /\ n.tx.records = w.tx.records
  BY <1>5 DEF Works, Databases
<1> QED BY <1>3, <1>4, <1>6, <1>7

(* An idle process promises nothing.                                       *)
LEMMA IdleOK ==
  ASSUME NEW w, w.at = "idle", NEW f, NEW db, NEW ca, NEW m
  PROVE  WorkOK(w, f, db, ca, m)
BY DEF WorkOK, KeyHeld, Migrates, Walks, Restores, PastCheck, WithKey, Walking, SessionSteps,
       RestoreSteps

(* What a session holds survives what another process does to the database *)
(* meanwhile.                                                              *)
LEMMA OthersDb ==
  ASSUME NEW w, NEW f, NEW db, NEW ca, NEW m, NEW db2, NEW ca2,
         WorkOK(w, f, db, ca, m), w.at \notin RestoreSteps,
         w.at \in SessionSteps => db2.file = "whole",
         db2.bound = db.bound \/ (db.bound = 0 /\ f = db2.bound),
         db.records \subseteq db2.records,
         w.at = "migrating" =>
           db2.file = db.file /\ db2.bound = db.bound /\ db2.rows = db.rows
           /\ db2.records = db.records
  PROVE  WorkOK(w, f, db2, ca2, m)
<1>1. KeyHeld(w, f, db2)
  BY DEF WorkOK, KeyHeld, WithKey, PastCheck, SessionSteps
<1>2. Migrates(w, db2)
  BY DEF WorkOK, Migrates
<1>3. Walks(w, f, db2, m)
  BY DEF WorkOK, Walks
<1>4. Restores(w, f, db2, ca2, m)
  BY DEF Restores
<1> QED BY <1>1, <1>2, <1>3, <1>4 DEF WorkOK

(* The write lock and the types, when one process has moved.               *)
LEMMA TypeKept ==
  ASSUME SealTypeOK, NEW p \in KProcs, NEW w \in Works, kproc' = [kproc EXCEPT ![p] = w],
         kfile' \in KeyIds, kdb' \in Databases, kca' \in AgentCAs, karch' \subseteq Archives,
         ktemps' \subseteq [key : KeyIds, live : BOOLEAN],
         kused' \in [verbs : KeyIds, faults : 0..MaxKFaults, mixed : BOOLEAN],
         klock' \in KProcs \cup {NoBody},
         klock' = p <=> w.at = "migrating",
         klock' # klock => klock \in {p, NoBody} /\ klock' \in {p, NoBody}
  PROVE  SealTypeOK'
<1>1. kproc' \in [KProcs -> Works] /\ kproc'[p] = w /\ \A q \in KProcs \ {p} : kproc'[q] = kproc[q]
  BY DEF SealTypeOK
<1>2. klock' # NoBody => kproc'[klock'].at = "migrating"
  BY <1>1, SealingAssumption DEF SealTypeOK
<1>3. \A q \in KProcs : kproc'[q].at = "migrating" => klock' = q
  BY <1>1, SealingAssumption DEF SealTypeOK
<1> QED BY <1>1, <1>2, <1>3 DEF SealTypeOK

(* A step of one process keeps the invariant if it keeps each part.        *)
LEMMA OneMoved ==
  ASSUME SealInv, NEW p \in KProcs, NEW w \in Works, kproc' = [kproc EXCEPT ![p] = w], SealTypeOK',
         HostOK(kfile', kdb', kca', kused'.mixed),
         \A a \in karch' : ArchiveOK(a, kused'.mixed),
         WorkOK(w, kfile', kdb', kca', kused'.mixed),
         \A q \in KProcs \ {p} : WorkOK(kproc[q], kfile', kdb', kca', kused'.mixed),
         w.at \in RestoreSteps => \A q \in KProcs \ {p} : kproc[q].at = "idle",
         w.at # "idle" => \A q \in KProcs \ {p} : kproc[q].at \notin RestoreSteps
  PROVE  SealInv'
<1>1. kproc'[p] = w /\ \A q \in KProcs \ {p} : kproc'[q] = kproc[q]
  BY DEF SealInv, SealTypeOK
<1>2. Alone'
  BY <1>1 DEF SealInv, Alone
<1>3. \A q \in KProcs : WorkOK(kproc'[q], kfile', kdb', kca', kused'.mixed)
  BY <1>1
<1> QED BY <1>2, <1>3 DEF SealInv

(* A session that is not migrating runs beside sessions, none a restore.   *)
LEMMA Session ==
  ASSUME SealInv, NEW p \in KProcs, kproc[p].at \in SessionSteps
  PROVE  /\ kproc[p] \in Works /\ WorkOK(kproc[p], kfile, kdb, kca, kused.mixed)
         /\ kdb.file = "whole" /\ kproc[p].id # 0
         /\ \A q \in KProcs \ {p} : kproc[q].at \notin RestoreSteps
         /\ kproc[p].at \notin RestoreSteps
<1>1. kproc[p] \in Works /\ WorkOK(kproc[p], kfile, kdb, kca, kused.mixed)
  BY DEF SealInv, SealTypeOK
<1>2. kproc[p].at # "idle" /\ kproc[p].at \notin RestoreSteps
  BY DEF SessionSteps, RestoreSteps
<1>3. \A q \in KProcs \ {p} : kproc[q].at \notin RestoreSteps
  BY <1>2 DEF SealInv, Alone
<1> QED BY <1>1, <1>2, <1>3 DEF WorkOK, KeyHeld

(* A step of a session that leaves the database and the key alone.         *)
LEMMA Quiet ==
  ASSUME SealInv, NEW p \in KProcs, kproc[p].at \in SessionSteps, kproc[p].at # "migrating",
         NEW w \in Works, kproc' = [kproc EXCEPT ![p] = w],
         w.at \notin RestoreSteps, w.at # "migrating",
         UNCHANGED <<kfile, kdb, klock, kused>>,
         ktemps' \subseteq [key : KeyIds, live : BOOLEAN],
         kca' \in AgentCAs, HostOK(kfile, kdb, kca', kused.mixed),
         karch' \subseteq Archives, \A a \in karch' : ArchiveOK(a, kused.mixed),
         WorkOK(w, kfile, kdb, kca', kused.mixed)
  PROVE  SealInv'
<1>1. klock # p
  BY SealingAssumption DEF SealInv, SealTypeOK
<1>2. SealTypeOK'
  <2>1. SealTypeOK /\ klock' = klock
    BY DEF SealInv
  <2> QED BY <1>1, <2>1, TypeKept DEF SealTypeOK
<1>3. ASSUME NEW q \in KProcs \ {p} PROVE WorkOK(kproc[q], kfile', kdb', kca', kused'.mixed)
  <2>1. WorkOK(kproc[q], kfile, kdb, kca, kused.mixed) /\ kproc[q].at \notin RestoreSteps
    BY Session DEF SealInv
  <2>2. kproc[q].at \in SessionSteps => kdb.file = "whole"
    BY <2>1 DEF WorkOK, KeyHeld
  <2>3. WorkOK(kproc[q], kfile, kdb, kca', kused.mixed)
    BY <2>1, <2>2, OthersDb
  <2> QED BY <2>3
<1>4. HostOK(kfile', kdb', kca', kused'.mixed) /\ \A a \in karch' : ArchiveOK(a, kused'.mixed)
  OBVIOUS
<1>5. WorkOK(w, kfile', kdb', kca', kused'.mixed)
  OBVIOUS
<1> QED BY <1>2, <1>3, <1>4, <1>5, Session, OneMoved

(* What is unchanged stays as it was.                                      *)
LEMMA Unchanged ==
  ASSUME SealInv
  PROVE  /\ ktemps \subseteq [key : KeyIds, live : BOOLEAN] /\ kca \in AgentCAs
         /\ karch \subseteq Archives /\ kdb \in Databases /\ kfile \in KeyIds
         /\ HostOK(kfile, kdb, kca, kused.mixed) /\ \A a \in karch : ArchiveOK(a, kused.mixed)
BY DEF SealInv, SealTypeOK

(* A step of a session that changes the database too.                      *)
LEMMA Writes ==
  ASSUME SealInv, NEW p \in KProcs, kproc[p].at \in SessionSteps,
         NEW w \in Works, kproc' = [kproc EXCEPT ![p] = w],
         w.at \notin RestoreSteps, w.at # "migrating",
         UNCHANGED <<kfile, ktemps, karch, kused>>,
         klock' = NoBody, klock \in {p, NoBody},
         kdb' \in Databases, kca' \in AgentCAs, kdb'.file = "whole",
         kdb'.bound = kdb.bound \/ (kdb.bound = 0 /\ kfile = kdb'.bound),
         kdb.records \subseteq kdb'.records,
         HostOK(kfile, kdb', kca', kused.mixed),
         WorkOK(w, kfile, kdb', kca', kused.mixed)
  PROVE  SealInv'
<1>1. SealTypeOK'
  BY TypeKept, SealingAssumption DEF SealInv, SealTypeOK
<1>2. HostOK(kfile', kdb', kca', kused'.mixed) /\ \A a \in karch' : ArchiveOK(a, kused'.mixed)
  BY DEF SealInv
<1>3. ASSUME NEW q \in KProcs \ {p} PROVE WorkOK(kproc[q], kfile', kdb', kca', kused'.mixed)
  <2>1. kproc[q].at # "migrating" /\ kproc[q].at \notin RestoreSteps
    BY Session, SealingAssumption DEF SealInv, SealTypeOK
  <2>2. WorkOK(kproc[q], kfile, kdb, kca, kused.mixed)
    BY DEF SealInv
  <2> QED BY <2>1, <2>2, OthersDb
<1> QED BY <1>1, <1>2, <1>3, Session, OneMoved

(* A process that leaves.                                                  *)
LEMMA Leaves ==
  ASSUME SealInv, NEW p \in KProcs, kproc[p].at \in SessionSteps, kproc[p].at # "migrating", Leave(p),
         UNCHANGED <<kfile, ktemps, kdb, klock, kca, karch, kused>>
  PROVE  SealInv'
<1>1. NoProc \in Works /\ NoProc.at \notin RestoreSteps /\ NoProc.at # "migrating"
  BY NoWork DEF RestoreSteps
<1>2. WorkOK(NoProc, kfile, kdb, kca, kused.mixed)
  BY NoWork, IdleOK
<1> QED BY <1>1, <1>2, Unchanged, Quiet DEF Leave, Proc

(* The steps of a session.                                                 *)

LEMMA openSessionOK ==
  ASSUME SealInv, NEW p \in KProcs, NEW verb \in {"install", "enroll", "backup"},
         NEW rel \in KReleases, openSession(p, verb, rel)
  PROVE  SealInv'
<1> DEFINE id == kused.verbs + 1
           w == VerbAt(verb, "migrate", rel, id, NoArchive)
<1>1. id \in KeyIds /\ id # 0 /\ kused' = [kused EXCEPT !.verbs = id]
  <2>1. kused.verbs < MaxKVerbs /\ kused' = [kused EXCEPT !.verbs = id]
    BY DEF openSession, CountVerb
  <2>2. kused.verbs \in KeyIds
    BY DEF SealInv, SealTypeOK
  <2> QED BY <2>1, <2>2, SealingAssumption DEF KeyIds
<1>2. kused' \in [verbs : KeyIds, faults : 0..MaxKFaults, mixed : BOOLEAN] /\ kused'.mixed = kused.mixed
  BY <1>1 DEF SealInv, SealTypeOK
<1>3. rel \in SUBSET SchemaVersions
  BY DEF SchemaVersions
<1>4. w \in Works /\ w.at = "migrate" /\ w.id = id
  BY <1>1, <1>3, NoWork, StartedWork
<1>5. /\ kdb' \in Databases /\ kdb'.file = "whole" /\ kdb'.bound = kdb.bound /\ kdb'.rows = kdb.rows
      /\ kdb'.records = kdb.records /\ kdb'.schema = kdb.schema /\ kdb'.applied = kdb.applied
  BY DEF SealInv, SealTypeOK, openSession, Databases
<1>6. kproc' = [kproc EXCEPT ![p] = w] /\ kproc[p].at = "idle"
      /\ UNCHANGED <<kfile, ktemps, klock, kca, karch>>
  BY DEF openSession, Proc
<1>7. \A q \in KProcs : kproc[q].at \notin RestoreSteps
  BY DEF openSession, SealInv, WorkOK, Restores
<1>8. klock # p
  BY <1>6, SealingAssumption DEF SealInv, SealTypeOK
<1>9. SealTypeOK'
  <2> HIDE DEF w
  <2>1. w.at # "migrating"
    BY <1>4
  <2>2. klock' # p /\ klock' = klock /\ klock' \in KProcs \cup {NoBody}
    BY <1>6, <1>8 DEF SealInv, SealTypeOK
  <2>3. /\ kfile' \in KeyIds /\ kca' \in AgentCAs /\ karch' \subseteq Archives
        /\ ktemps' \subseteq [key : KeyIds, live : BOOLEAN]
    BY <1>6, Unchanged
  <2> QED BY <1>2, <1>4, <1>5, <1>6, <2>1, <2>2, <2>3, TypeKept DEF SealInv
<1>10. DbOK(kdb') /\ HostOK(kfile', kdb', kca', kused'.mixed)
  BY <1>2, <1>5, <1>6 DEF SealInv, HostOK, DbOK, SchemaOf
<1>11. \A a \in karch' : ArchiveOK(a, kused'.mixed)
  BY <1>2, <1>6 DEF SealInv
<1>12. WorkOK(w, kfile', kdb', kca', kused'.mixed)
  <2> HIDE DEF w
  <2> QED BY <1>1, <1>4, <1>5 DEF WorkOK, KeyHeld, Migrates, Walks, Restores, PastCheck, WithKey,
             Walking, SessionSteps, RestoreSteps
<1>13. ASSUME NEW q \in KProcs \ {p} PROVE WorkOK(kproc[q], kfile', kdb', kca', kused'.mixed)
  <2>1. WorkOK(kproc[q], kfile, kdb, kca, kused.mixed)
    BY DEF SealInv
  <2>2. kproc[q].at = "migrating" => kproc[q].at \in SessionSteps
    BY DEF SessionSteps
  <2>3. kproc[q].at = "migrating" => kdb.file = "whole"
    BY <2>1, <2>2 DEF WorkOK, KeyHeld
  <2> QED BY <1>2, <1>5, <1>6, <1>7, <2>1, <2>3, OthersDb
<1>14. w.at \notin RestoreSteps
  BY <1>4 DEF RestoreSteps
<1> HIDE DEF w
<1> QED BY <1>4, <1>6, <1>7, <1>9, <1>10, <1>11, <1>12, <1>13, <1>14, OneMoved

LEMMA MigrateFSOK ==
  ASSUME SealInv, NEW p \in KProcs, MigrateFS(p)
  PROVE  SealInv'
<1>1. kproc[p].at \in SessionSteps /\ kproc[p].at # "migrating"
  BY DEF MigrateFS, SessionSteps
<1>2. CASE ~reconcile(kproc[p].rel, kdb.applied)
  BY <1>1, <1>2, Leaves DEF MigrateFS
<1>3. CASE reconcile(kproc[p].rel, kdb.applied)
  <2> DEFINE w == [kproc[p] EXCEPT !.at = "migrating", !.tx = kdb]
  <2>1. /\ kproc' = [kproc EXCEPT ![p] = w] /\ klock' = p /\ klock = NoBody
        /\ UNCHANGED <<kfile, ktemps, kdb, kca, karch, kused>>
    BY <1>3 DEF MigrateFS, Proc
  <2>2. w \in Works /\ w.at = "migrating" /\ w.tx = kdb /\ w.rel = kproc[p].rel /\ w.id = kproc[p].id
    <3>1. "migrating" \in SessionSteps
      BY DEF SessionSteps
    <3>2. kproc[p] \in Works /\ kdb \in Databases
      BY <1>1, Session, Unchanged
    <3> QED BY <3>1, <3>2 DEF Works
  <2> HIDE DEF w
  <2>3. SealTypeOK'
    BY <2>1, <2>2, TypeKept DEF SealInv, SealTypeOK
  <2>4. WorkOK(w, kfile, kdb, kca, kused.mixed)
    <3>1. DbOK(kdb) /\ kdb.file = "whole" /\ w.id # 0
      BY <1>1, <2>2, Session DEF SealInv, HostOK
    <3> QED BY <1>3, <2>2, <3>1 DEF WorkOK, KeyHeld, Migrates, Walks, Restores, PastCheck, WithKey,
               Walking, SessionSteps, RestoreSteps
  <2>5. w.at \notin RestoreSteps
    BY <2>2 DEF RestoreSteps
  <2>6. \A q \in KProcs \ {p} : WorkOK(kproc[q], kfile', kdb', kca', kused'.mixed)
    BY <2>1 DEF SealInv
  <2>7. WorkOK(w, kfile', kdb', kca', kused'.mixed) /\ HostOK(kfile', kdb', kca', kused'.mixed)
        /\ \A a \in karch' : ArchiveOK(a, kused'.mixed)
    BY <2>1, <2>4, Unchanged
  <2> QED BY <1>1, <2>1, <2>2, <2>3, <2>5, <2>6, <2>7, Session, OneMoved
<1> QED BY <1>2, <1>3

(* A nonempty set of naturals has a least member, which Min is.            *)
LEMMA MinOfNaturals ==
  ASSUME NEW S \in SUBSET Nat, S # {}
  PROVE  Min(S) \in S /\ \A y \in S : Min(S) <= y
<1>1. PICK x \in S : \A y \in S : ~(<<y, x>> \in OpToRel(<, Nat))
  BY NatLessThanWellFounded, WFMin
<1>2. \A y \in S : ~(y < x)
  BY <1>1 DEF OpToRel
<1>3. \E z \in S : \A y \in S : z <= y
  BY <1>2
<1> QED BY <1>3 DEF Min

(* Appending what is above everything keeps a schema in order.             *)
LEMMA SchemaGrows ==
  ASSUME NEW d \in Databases, NEW e \in Databases, SchemaOf(d), NEW v \in SchemaVersions,
         \A a \in d.applied : v > a,
         e.schema = Append(d.schema, v), e.applied = d.applied \cup {v}
  PROVE  SchemaOf(e)
<1> DEFINE s == d.schema
           t == e.schema
<1>1. s \in Seq(SchemaVersions) /\ SchemaVersions \subseteq Nat /\ t = Append(s, v)
  BY SchemaNumbers DEF Databases
<1>8. d.applied = {s[i] : i \in DOMAIN s} /\ \A i, j \in DOMAIN s : i < j => s[i] < s[j]
  BY DEF SchemaOf
<1> HIDE DEF s, t
<1>2. /\ Len(s) \in Nat /\ DOMAIN s = 1..Len(s) /\ DOMAIN t = 1..(Len(s) + 1)
      /\ \A i \in 1..Len(s) : t[i] = s[i] /\ s[i] \in Nat
      /\ t[Len(s) + 1] = v
  <2>1. Len(s) \in Nat /\ DOMAIN s = 1..Len(s) /\ \A i \in 1..Len(s) : s[i] \in Nat
    <3>1. Len(s) \in Nat /\ DOMAIN s = 1..Len(s) /\ \A i \in 1..Len(s) : s[i] \in SchemaVersions
      <4> HIDE <1>8
      <4> QED BY <1>1
    <3> QED BY <1>1, <3>1
  <2>2. DOMAIN t = 1..(Len(s) + 1) /\ t[Len(s) + 1] = v /\ \A i \in 1..Len(s) : t[i] = s[i]
    BY <1>1
  <2> QED BY <2>1, <2>2
<1>3. \A i \in 1..Len(s) : s[i] \in d.applied
  BY <1>2, <1>8
<1>4. \A i, j \in 1..Len(s) : i < j => s[i] < s[j]
  BY <1>2, <1>8
<1>5. d.applied = {s[i] : i \in 1..Len(s)}
  BY <1>2, <1>8
<1>6. \A i, j \in DOMAIN t : i < j => t[i] < t[j]
  <2> SUFFICES ASSUME NEW i \in DOMAIN t, NEW j \in DOMAIN t, i < j PROVE t[i] < t[j]
    OBVIOUS
  <2>1. i \in 1..Len(s)
    BY <1>2
  <2>2. CASE j \in 1..Len(s)
    BY <1>2, <1>4, <2>1, <2>2
  <2>3. CASE j = Len(s) + 1
    <3>1. v > s[i] /\ v \in Nat
      BY <1>1, <1>3, <2>1
    <3> QED BY <1>2, <2>1, <2>3, <3>1
  <2> QED BY <1>2, <2>2, <2>3
<1>7. {t[i] : i \in DOMAIN t} = d.applied \cup {v}
  <2>1. \A i \in DOMAIN t : i \in 1..Len(s) \/ i = Len(s) + 1
    BY <1>2
  <2>2. \A i \in 1..Len(s) : i \in DOMAIN t /\ t[i] = s[i]
    BY <1>2
  <2>3. Len(s) + 1 \in DOMAIN t
    BY <1>2
  <2> QED BY <1>2, <1>5, <2>1, <2>2, <2>3
<1> QED BY <1>6, <1>7 DEF SchemaOf, t

LEMMA applyMigrationOK ==
  ASSUME SealInv, NEW p \in KProcs, applyMigration(p)
  PROVE  SealInv'
<1> DEFINE todo == kproc[p].rel \ kproc[p].tx.applied
           v == Min(todo)
           w == [kproc[p] EXCEPT !.tx.schema = Append(@, v), !.tx.applied = @ \cup {v}]
<1>1. /\ kproc[p].at = "migrating" /\ todo # {} /\ kproc' = [kproc EXCEPT ![p] = w]
      /\ UNCHANGED <<kfile, ktemps, kdb, klock, kca, karch, kused>>
  BY DEF applyMigration, Proc
<1>2. kproc[p].at \in SessionSteps
  BY <1>1 DEF SessionSteps
<1>3. kproc[p] \in Works /\ WorkOK(kproc[p], kfile, kdb, kca, kused.mixed) /\ kdb.file = "whole"
      /\ kproc[p].id # 0 /\ \A q \in KProcs \ {p} : kproc[q].at \notin RestoreSteps
  BY <1>2, Session
<1>4. todo \in SUBSET SchemaVersions /\ SchemaVersions \subseteq Nat /\ todo \in SUBSET Nat
  BY <1>3, SchemaNumbers DEF Works
<1>5. v \in todo /\ \A y \in todo : v <= y
  <2> HIDE DEF todo
  <2> QED BY <1>1, <1>4, MinOfNaturals
<1>6. v \in SchemaVersions
  BY <1>4, <1>5
<1>7. /\ w \in Works /\ w.at = kproc[p].at /\ w.rel = kproc[p].rel /\ w.id = kproc[p].id
      /\ w.tx.schema = Append(kproc[p].tx.schema, v) /\ w.tx.applied = kproc[p].tx.applied \cup {v}
      /\ w.tx.file = kproc[p].tx.file /\ w.tx.bound = kproc[p].tx.bound
      /\ w.tx.rows = kproc[p].tx.rows /\ w.tx.records = kproc[p].tx.records
  <2> HIDE DEF v
  <2> QED BY <1>3, <1>6, StepsApply
<1>8. /\ DbOK(kproc[p].tx) /\ reconcile(kproc[p].rel, kproc[p].tx.applied)
      /\ kproc[p].tx.file = kdb.file /\ kproc[p].tx.bound = kdb.bound
      /\ kproc[p].tx.rows = kdb.rows /\ kproc[p].tx.records = kdb.records
  BY <1>1, <1>3 DEF WorkOK, Migrates
<1> HIDE DEF w, v
<1>9. SchemaOf(w.tx)
  <2>1. w.tx \in Databases /\ kproc[p].tx \in Databases
    BY <1>3, <1>7 DEF Works
  <2>2. \A a \in kproc[p].tx.applied : v > a
    BY <1>5, <1>8 DEF reconcile
  <2> QED BY <1>6, <1>7, <1>8, <2>1, <2>2, SchemaGrows DEF DbOK
<1>10. reconcile(w.rel, w.tx.applied)
  <2>1. kproc[p].tx.applied \subseteq kproc[p].rel /\ kproc[p].rel \in SUBSET Nat
    BY <1>3, <1>4, <1>8 DEF reconcile, Works
  <2>2. w.tx.applied \subseteq w.rel
    BY <1>5, <1>7, <2>1
  <2>3. ASSUME NEW x \in w.rel \ w.tx.applied, NEW a \in w.tx.applied PROVE x > a
    <3>1. x \in todo /\ x # v /\ x \in Nat /\ v \in Nat
      BY <1>4, <1>5, <1>7, <2>1
    <3>2. CASE a = v
      BY <1>5, <3>1, <3>2
    <3>3. CASE a \in kproc[p].tx.applied
      BY <1>8, <3>1, <3>3 DEF reconcile
    <3> QED BY <1>7, <3>2, <3>3
  <2> QED BY <2>2, <2>3 DEF reconcile
<1>11. WorkOK(w, kfile, kdb, kca, kused.mixed)
  <2>1. w.at = "migrating" /\ DbOK(w.tx)
    BY <1>1, <1>7, <1>8, <1>9 DEF DbOK
  <2> QED BY <1>3, <1>7, <1>8, <1>10, <2>1 DEF WorkOK, KeyHeld, Migrates, Walks, Restores, PastCheck,
             WithKey, Walking, SessionSteps, RestoreSteps
<1>12. SealTypeOK'
  <2>1. SealTypeOK /\ klock = p
    BY <1>1 DEF SealInv, SealTypeOK
  <2> QED BY <1>1, <1>7, <2>1, TypeKept DEF SealTypeOK
<1>13. w.at \notin RestoreSteps
  BY <1>1, <1>7 DEF RestoreSteps
<1>14. \A q \in KProcs \ {p} : WorkOK(kproc[q], kfile', kdb', kca', kused'.mixed)
  BY <1>1 DEF SealInv
<1>15. WorkOK(w, kfile', kdb', kca', kused'.mixed) /\ HostOK(kfile', kdb', kca', kused'.mixed)
        /\ \A a \in karch' : ArchiveOK(a, kused'.mixed)
  BY <1>1, <1>11, Unchanged
<1> QED BY <1>1, <1>3, <1>7, <1>12, <1>13, <1>14, <1>15, OneMoved

LEMMA MigrateCommitOK ==
  ASSUME SealInv, NEW p \in KProcs, MigrateCommit(p)
  PROVE  SealInv'
<1> DEFINE w == [kproc[p] EXCEPT !.at = "check", !.tx = NoDB]
<1>1. /\ kproc[p].at = "migrating" /\ kproc' = [kproc EXCEPT ![p] = w]
      /\ kdb' = kproc[p].tx /\ klock' = NoBody /\ UNCHANGED <<kfile, ktemps, kca, karch, kused>>
  BY DEF MigrateCommit, Proc
<1>2. kproc[p].at \in SessionSteps /\ "check" \in SessionSteps
  BY <1>1 DEF SessionSteps
<1>3. kproc[p] \in Works /\ WorkOK(kproc[p], kfile, kdb, kca, kused.mixed) /\ kdb.file = "whole"
      /\ kproc[p].id # 0 /\ kproc[p].tx \in Databases /\ NoDB \in Databases
  <2>1. kproc[p] \in Works /\ WorkOK(kproc[p], kfile, kdb, kca, kused.mixed) /\ kdb.file = "whole"
        /\ kproc[p].id # 0
    BY <1>2, Session
  <2>2. kproc[p].tx \in Databases
    BY <2>1 DEF Works
  <2> QED BY <2>1, <2>2, NoWork
<1>4. w \in Works /\ w.at = "check" /\ w.id = kproc[p].id
  BY <1>2, <1>3 DEF Works
<1>5. /\ DbOK(kdb') /\ kdb'.file = "whole" /\ kdb'.bound = kdb.bound /\ kdb'.records = kdb.records
  BY <1>1, <1>3 DEF WorkOK, Migrates
<1>6. HostOK(kfile, kdb', kca, kused.mixed)
  BY <1>5 DEF SealInv, HostOK
<1> HIDE DEF w
<1>7. WorkOK(w, kfile, kdb', kca, kused.mixed)
  BY <1>3, <1>4, <1>5 DEF WorkOK, KeyHeld, Migrates, Walks, Restores, PastCheck, WithKey, Walking,
     SessionSteps, RestoreSteps
<1>8. w.at \notin RestoreSteps /\ w.at # "migrating" /\ klock = p
  BY <1>1, <1>4 DEF RestoreSteps, SealInv, SealTypeOK
<1>9. kca' \in AgentCAs /\ kca' = kca
  BY <1>1, Unchanged
<1> QED BY <1>1, <1>2, <1>3, <1>4, <1>5, <1>6, <1>7, <1>8, <1>9, Writes

LEMMA SessionOpenOK ==
  ASSUME SealInv, NEW p \in KProcs, SessionOpen(p)
  PROVE  SealInv'
<1>1. kproc[p].at \in SessionSteps /\ kproc[p].at # "migrating"
  BY DEF SessionOpen, SessionSteps
<1>2. CASE ~checkKeyBinding
  BY <1>1, <1>2, Leaves DEF SessionOpen
<1>3. CASE checkKeyBinding
  <2> DEFINE step == IF kproc[p].verb = "backup" THEN "record" ELSE "key"
             w == [kproc[p] EXCEPT !.at = step]
  <2>1. kproc' = [kproc EXCEPT ![p] = w] /\ UNCHANGED <<kfile, ktemps, kdb, klock, kca, karch, kused>>
    BY <1>3 DEF SessionOpen, At, Proc
  <2>2. kproc[p] \in Works /\ kdb.file = "whole" /\ kproc[p].id # 0
    BY <1>1, Session
  <2>3. step \in {"record", "key"} /\ step \in SessionSteps
    BY DEF SessionSteps
  <2> HIDE DEF step
  <2>4. w \in Works /\ w.at = step /\ w.id = kproc[p].id
    BY <2>2, <2>3 DEF Works
  <2> HIDE DEF w
  <2>5. kdb.bound # 0 => kfile = kdb.bound
    BY <1>3 DEF checkKeyBinding, CheckKey
  <2>6. WorkOK(w, kfile, kdb, kca, kused.mixed)
    BY <2>2, <2>3, <2>4, <2>5 DEF WorkOK, KeyHeld, Migrates, Walks, Restores, PastCheck, WithKey,
       Walking, SessionSteps, RestoreSteps
  <2>7. w.at \notin RestoreSteps /\ w.at # "migrating"
    BY <2>3, <2>4 DEF RestoreSteps
  <2> QED BY <1>1, <2>1, <2>4, <2>6, <2>7, Unchanged, Quiet
<1> QED BY <1>2, <1>3

LEMMA CreateKeyOK ==
  ASSUME SealInv, NEW p \in KProcs, CreateKey(p)
  PROVE  SealInv'
<1>1. kproc[p].at \in SessionSteps /\ kproc[p].at # "migrating" /\ kproc[p].at \in PastCheck
  BY DEF CreateKey, SessionSteps, PastCheck
<1>2. kproc[p] \in Works /\ kdb.file = "whole" /\ kproc[p].id # 0 /\ kfile \in KeyIds
      /\ (kdb.bound # 0 => kfile = kdb.bound) /\ kproc[p].id \in KeyIds
  <2>1. kproc[p] \in Works /\ kdb.file = "whole" /\ kproc[p].id # 0 /\ kfile \in KeyIds
    BY <1>1, Session, Unchanged
  <2>2. kdb.bound # 0 => kfile = kdb.bound
    BY <1>1, Session DEF WorkOK, KeyHeld
  <2> QED BY <2>1, <2>2 DEF Works
<1> DEFINE step == IF kfile # 0 THEN "bind" ELSE "link"
           key == IF kfile # 0 THEN kfile ELSE kproc[p].id
           w == [kproc[p] EXCEPT !.at = step, !.key = key]
<1>3. kproc' = [kproc EXCEPT ![p] = w] /\ UNCHANGED <<kfile, kdb, klock, kca, karch, kused>>
  BY DEF CreateKey, Proc
<1>4. step \in SessionSteps /\ step \in {"bind", "link"} /\ key \in KeyIds /\ key # 0
      /\ (step = "bind" => key = kfile)
  BY <1>2 DEF SessionSteps
<1>5. ktemps' \subseteq [key : KeyIds, live : BOOLEAN]
  <2>1. [key |-> kproc[p].id, live |-> TRUE] \in [key : KeyIds, live : BOOLEAN]
    BY <1>2
  <2>2. ktemps' = ktemps \/ ktemps' = ktemps \cup {[key |-> kproc[p].id, live |-> TRUE]}
    BY DEF CreateKey
  <2> QED BY <2>1, <2>2, Unchanged
<1> HIDE DEF step, key
<1>6. w \in Works /\ w.at = step /\ w.key = key /\ w.id = kproc[p].id
  BY <1>2, <1>4 DEF Works
<1> HIDE DEF w
<1>7. WorkOK(w, kfile, kdb, kca, kused.mixed)
  BY <1>2, <1>4, <1>6 DEF WorkOK, KeyHeld, Migrates, Walks, Restores, PastCheck, WithKey,
     Walking, SessionSteps, RestoreSteps
<1>8. w.at \notin RestoreSteps /\ w.at # "migrating"
  BY <1>4, <1>6 DEF RestoreSteps
<1> QED BY <1>1, <1>3, <1>5, <1>6, <1>7, <1>8, Unchanged, Quiet

LEMMA LinkKeyOK ==
  ASSUME SealInv, NEW p \in KProcs, LinkKey(p)
  PROVE  SealInv'
<1>1. kproc[p].at = "link" /\ kproc[p].at \in SessionSteps /\ kproc[p].at \in PastCheck
  BY DEF LinkKey, SessionSteps, PastCheck
<1>2. kproc[p] \in Works /\ kdb.file = "whole" /\ kproc[p].id # 0 /\ kfile \in KeyIds
      /\ (kdb.bound # 0 => kfile = kdb.bound) /\ kproc[p].key \in KeyIds /\ kproc[p].key # 0
  <2>1. kproc[p] \in Works /\ kdb.file = "whole" /\ kproc[p].id # 0 /\ kfile \in KeyIds
    BY <1>1, Session, Unchanged
  <2>2. (kdb.bound # 0 => kfile = kdb.bound) /\ kproc[p].key # 0
    BY <1>1, Session DEF WorkOK, KeyHeld
  <2> QED BY <2>1, <2>2 DEF Works
<1> DEFINE key == IF kfile # 0 THEN kfile ELSE kproc[p].key
           w == [kproc[p] EXCEPT !.at = "unlink", !.key = key]
<1>3. kproc' = [kproc EXCEPT ![p] = w] /\ kfile' = key /\ UNCHANGED <<kdb, klock, kca, karch, kused>>
  <2>1. CASE kfile = 0
    <3>1. [kproc[p] EXCEPT !.at = "unlink"] = w
      BY <1>2, <2>1 DEF Works
    <3>2. At(p, "unlink") /\ kfile' = key /\ UNCHANGED <<kdb, klock, kca, karch, kused>>
      BY <2>1 DEF LinkKey
    <3> QED BY <3>1, <3>2 DEF At, Proc
  <2>2. CASE kfile # 0
    BY <2>2 DEF LinkKey, Proc
  <2> QED BY <2>1, <2>2
<1>4. key \in KeyIds /\ key # 0 /\ (kfile # 0 => key = kfile) /\ (kdb.bound # 0 => key = kdb.bound)
  BY <1>2
<1>5. ktemps' \subseteq [key : KeyIds, live : BOOLEAN]
  <2>1. ktemps' = ktemps \/ ktemps' \in sweepStaleTemps(ktemps)
    BY DEF LinkKey
  <2> QED BY <2>1, Unchanged DEF sweepStaleTemps
<1> HIDE DEF key
<1>6. w \in Works /\ w.at = "unlink" /\ w.key = key /\ w.id = kproc[p].id
  <2>1. "unlink" \in SessionSteps
    BY DEF SessionSteps
  <2> QED BY <1>2, <1>4, <2>1 DEF Works
<1> HIDE DEF w
<1>7. WorkOK(w, key, kdb, kca, kused.mixed)
  BY <1>2, <1>4, <1>6 DEF WorkOK, KeyHeld, Migrates, Walks, Restores, PastCheck, WithKey,
     Walking, SessionSteps, RestoreSteps
<1>8. w.at \notin RestoreSteps /\ w.at # "migrating"
  BY <1>6 DEF RestoreSteps
<1>9. HostOK(key, kdb, kca, kused.mixed)
  BY <1>4 DEF SealInv, HostOK
<1>10. ASSUME NEW q \in KProcs \ {p} PROVE WorkOK(kproc[q], key, kdb, kca, kused.mixed)
  <2>1. WorkOK(kproc[q], kfile, kdb, kca, kused.mixed) /\ kproc[q].at \notin RestoreSteps
    BY <1>1, Session DEF SealInv
  <2>2. KeyHeld(kproc[q], key, kdb) /\ Migrates(kproc[q], kdb)
    BY <1>4, <2>1 DEF WorkOK, KeyHeld
  <2>3. Walks(kproc[q], key, kdb, kused.mixed)
    BY <1>4, <2>1 DEF WorkOK, Walks
  <2> QED BY <2>1, <2>2, <2>3 DEF WorkOK, Restores
<1>11. SealTypeOK'
  <2>1. SealTypeOK /\ klock # p /\ klock' = klock
    BY <1>1, <1>3, SealingAssumption DEF SealInv, SealTypeOK
  <2> QED BY <1>3, <1>4, <1>5, <1>6, <1>8, <2>1, TypeKept DEF SealTypeOK
<1>12. /\ WorkOK(w, kfile', kdb', kca', kused'.mixed) /\ HostOK(kfile', kdb', kca', kused'.mixed)
       /\ \A a \in karch' : ArchiveOK(a, kused'.mixed)
       /\ \A q \in KProcs \ {p} : WorkOK(kproc[q], kfile', kdb', kca', kused'.mixed)
  BY <1>3, <1>7, <1>9, <1>10, Unchanged
<1> QED BY <1>1, <1>3, <1>6, <1>8, <1>11, <1>12, Session, OneMoved

LEMMA UnlinkTempOK ==
  ASSUME SealInv, NEW p \in KProcs, UnlinkTemp(p)
  PROVE  SealInv'
<1> DEFINE w == [kproc[p] EXCEPT !.at = "bind"]
<1>1. kproc[p].at = "unlink" /\ kproc[p].at \in SessionSteps /\ kproc[p].at \in PastCheck
      /\ kproc[p].at \in WithKey /\ "bind" \in SessionSteps
  BY DEF UnlinkTemp, SessionSteps, PastCheck, WithKey
<1>2. kproc' = [kproc EXCEPT ![p] = w] /\ UNCHANGED <<kfile, kdb, klock, kca, karch, kused>>
      /\ ktemps' \subseteq ktemps
  BY DEF UnlinkTemp, At, Proc
<1>3. kproc[p] \in Works /\ kdb.file = "whole" /\ kproc[p].id # 0
      /\ WorkOK(kproc[p], kfile, kdb, kca, kused.mixed)
  BY <1>1, Session
<1>4. w \in Works /\ w.at = "bind" /\ w.key = kproc[p].key /\ w.id = kproc[p].id
  BY <1>1, <1>3 DEF Works
<1> HIDE DEF w
<1>5. WorkOK(w, kfile, kdb, kca, kused.mixed)
  BY <1>1, <1>3, <1>4 DEF WorkOK, KeyHeld, Migrates, Walks, Restores, PastCheck, WithKey,
     Walking, SessionSteps, RestoreSteps
<1>6. w.at \notin RestoreSteps /\ w.at # "migrating"
  BY <1>4 DEF RestoreSteps
<1>7. ktemps' \subseteq [key : KeyIds, live : BOOLEAN]
  BY <1>2, Unchanged
<1> QED BY <1>1, <1>2, <1>4, <1>5, <1>6, <1>7, Unchanged, Quiet

(* What a binding leaves: bound to this key, and the rest as it was.       *)
LEMMA Binds ==
  ASSUME NEW d \in Databases, DbOK(d), NEW k \in KeyIds, k # 0, CheckKey(k), d = kdb,
         NEW rows \in {d.rows, d.rows \cup {k}}
  PROVE  LET e == [BindKey(d, k) EXCEPT !.rows = rows] IN
         /\ e \in Databases /\ DbOK(e) /\ e.file = d.file /\ e.bound = k /\ e.records = d.records
         /\ d.bound \in {0, k}
<1>1. d.bound \in {0, k}
  BY DEF CheckKey
<1>2. PICK b : b = IF d.bound = 0 THEN k ELSE d.bound
  OBVIOUS
<1>3. b = k
  BY <1>1, <1>2
<1>4. BindKey(d, k) = [d EXCEPT !.bound = b]
  BY <1>2 DEF BindKey, Databases
<1>5. rows \in SUBSET KeyIds
  BY DEF Databases
<1>6. LET e == [[d EXCEPT !.bound = b] EXCEPT !.rows = rows] IN
      /\ e \in Databases /\ e.file = d.file /\ e.bound = b /\ e.records = d.records /\ e.rows = rows
      /\ e.schema = d.schema /\ e.applied = d.applied
  BY <1>3, <1>5 DEF Databases
<1>7. rows \subseteq {k} \ {0}
  BY <1>1 DEF DbOK
<1> QED BY <1>1, <1>3, <1>4, <1>6, <1>7 DEF DbOK, SchemaOf

(* A binding keeps the host's side.                                        *)
LEMMA BindsHost ==
  ASSUME NEW f, NEW d, NEW e, NEW ca, NEW m, HostOK(f, d, ca, m), DbOK(e), e.file = d.file,
         d.bound \in {0, e.bound}, f = e.bound
  PROVE  HostOK(f, e, ca, m)
BY DEF HostOK

LEMMA EnrollTOTPOK ==
  ASSUME SealInv, NEW p \in KProcs, EnrollTOTP(p)
  PROVE  SealInv'
<1>1. kproc[p].at = "bind" /\ kproc[p].at \in SessionSteps /\ kproc[p].at \in WithKey
      /\ klock = NoBody /\ kproc' = [kproc EXCEPT ![p] = NoProc]
      /\ UNCHANGED <<kfile, ktemps, klock, kca, karch, kused>>
  BY DEF EnrollTOTP, SessionSteps, WithKey, Leave, Proc
<1>2. kproc[p] \in Works /\ kdb.file = "whole" /\ kproc[p].key # 0 /\ kfile = kproc[p].key
      /\ kproc[p].key \in KeyIds
  <2>1. kproc[p] \in Works /\ kdb.file = "whole" /\ kproc[p].key # 0 /\ kfile = kproc[p].key
    BY <1>1, Session DEF WorkOK, KeyHeld
  <2> QED BY <2>1 DEF Works
<1>3. CASE ~CheckKey(kproc[p].key)
  <2>1. kdb' = kdb /\ Leave(p)
    BY <1>3 DEF EnrollTOTP
  <2>2. UNCHANGED <<kfile, ktemps, kdb, klock, kca, karch, kused>> /\ kproc[p].at # "migrating"
    BY <1>1, <2>1
  <2> QED BY <1>1, <2>1, <2>2, Leaves
<1>4. CASE CheckKey(kproc[p].key)
  <2> DEFINE k == kproc[p].key
             e == [BindKey(kdb, k) EXCEPT !.rows = kdb.rows \cup {k}]
  <2>0. kdb \in Databases /\ DbOK(kdb)
    BY Unchanged DEF HostOK
  <2>1. kdb' = e
    <3>1. kdb' = [BindKey(kdb, k) EXCEPT !.rows = @ \cup {k}]
      BY <1>4 DEF EnrollTOTP
    <3>2. BindKey(kdb, k).rows = kdb.rows /\ BindKey(kdb, k) \in Databases
      BY <1>2, <2>0 DEF BindKey, Databases
    <3> QED BY <3>1, <3>2 DEF Databases
  <2>2. /\ e \in Databases /\ DbOK(e) /\ e.file = kdb.file /\ e.bound = k /\ e.records = kdb.records
        /\ kdb.bound \in {0, k}
    <3>1. PICK d \in Databases : d = kdb
      BY <2>0
    <3>2. PICK r : r = kdb.rows \cup {k}
      OBVIOUS
    <3>3. PICK j \in KeyIds : j = k
      BY <1>2
    <3>4. r \in {d.rows, d.rows \cup {j}} /\ j # 0 /\ CheckKey(j) /\ DbOK(d)
      BY <1>2, <1>4, <2>0, <3>1, <3>2, <3>3
    <3>5. LET n == [BindKey(d, j) EXCEPT !.rows = r] IN
          /\ n \in Databases /\ DbOK(n) /\ n.file = d.file /\ n.bound = j /\ n.records = d.records
          /\ d.bound \in {0, j}
      BY <3>1, <3>4, Binds
    <3> QED BY <3>1, <3>2, <3>3, <3>5
  <2> HIDE DEF e
  <2>3. HostOK(kfile, e, kca, kused.mixed)
    BY <1>2, <2>2, Unchanged, BindsHost
  <2>4. WorkOK(NoProc, kfile, e, kca, kused.mixed) /\ NoProc \in Works
        /\ NoProc.at \notin RestoreSteps /\ NoProc.at # "migrating"
    BY NoWork, IdleOK DEF RestoreSteps
  <2>5. kca' \in AgentCAs /\ kca' = kca
    BY <1>1, Unchanged
  <2>6. e.bound = kdb.bound \/ (kdb.bound = 0 /\ kfile = e.bound)
    BY <1>2, <2>2
  <2> QED BY <1>1, <1>2, <2>1, <2>2, <2>3, <2>4, <2>5, <2>6, Writes
<1> QED BY <1>3, <1>4

LEMMA InstallReadsBindingOK ==
  ASSUME SealInv, NEW p \in KProcs, InstallReadsBinding(p)
  PROVE  SealInv'
<1> DEFINE step == IF kdb.bound = 0 THEN "act" ELSE "ca"
           w == [kproc[p] EXCEPT !.at = step]
<1>1. kproc[p].at = "bind" /\ kproc[p].at \in SessionSteps /\ kproc[p].at \in WithKey
      /\ kproc[p].at \in PastCheck
  BY DEF InstallReadsBinding, SessionSteps, WithKey, PastCheck
<1>2. kproc' = [kproc EXCEPT ![p] = w] /\ UNCHANGED <<kfile, ktemps, kdb, klock, kca, karch, kused>>
  BY DEF InstallReadsBinding, At, Proc
<1>3. kproc[p] \in Works /\ kdb.file = "whole" /\ kproc[p].id # 0
      /\ WorkOK(kproc[p], kfile, kdb, kca, kused.mixed)
  BY <1>1, Session
<1>4. step \in {"act", "ca"} /\ step \in SessionSteps /\ (step = "ca" => kdb.bound # 0)
  BY DEF SessionSteps
<1> HIDE DEF step
<1>5. w \in Works /\ w.at = step /\ w.key = kproc[p].key /\ w.id = kproc[p].id
  BY <1>3, <1>4 DEF Works
<1> HIDE DEF w
<1>6. kproc[p].key # 0 /\ kfile = kproc[p].key /\ (kdb.bound # 0 => kfile = kdb.bound)
  BY <1>1, <1>3 DEF WorkOK, KeyHeld
<1>7. WorkOK(w, kfile, kdb, kca, kused.mixed)
  BY <1>3, <1>4, <1>5, <1>6 DEF WorkOK, KeyHeld, Migrates, Walks, Restores, PastCheck, WithKey,
     Walking, SessionSteps, RestoreSteps
<1>8. w.at \notin RestoreSteps /\ w.at # "migrating"
  BY <1>4, <1>5 DEF RestoreSteps
<1> QED BY <1>1, <1>2, <1>5, <1>7, <1>8, Unchanged, Quiet

LEMMA InstallBindsOK ==
  ASSUME SealInv, NEW p \in KProcs, InstallBinds(p)
  PROVE  SealInv'
<1>1. kproc[p].at = "act" /\ kproc[p].at \in SessionSteps /\ kproc[p].at \in WithKey
      /\ klock = NoBody /\ UNCHANGED <<kfile, ktemps, klock, kca, karch, kused>>
  BY DEF InstallBinds, SessionSteps, WithKey
<1>2. kproc[p] \in Works /\ kdb.file = "whole" /\ kproc[p].key # 0 /\ kfile = kproc[p].key
      /\ kproc[p].id # 0 /\ kproc[p].key \in KeyIds
  <2>1. kproc[p] \in Works /\ kdb.file = "whole" /\ kproc[p].key # 0 /\ kfile = kproc[p].key
        /\ kproc[p].id # 0
    BY <1>1, Session DEF WorkOK, KeyHeld
  <2> QED BY <2>1 DEF Works
<1>3. CASE ~CheckKey(kproc[p].key)
  <2>1. kdb' = kdb /\ Leave(p)
    BY <1>3 DEF InstallBinds
  <2>2. UNCHANGED <<kfile, ktemps, kdb, klock, kca, karch, kused>> /\ kproc[p].at # "migrating"
    BY <1>1, <2>1
  <2> QED BY <1>1, <2>1, <2>2, Leaves
<1>4. CASE CheckKey(kproc[p].key)
  <2> DEFINE k == kproc[p].key
             e == BindKey(kdb, k)
             w == [kproc[p] EXCEPT !.at = "ca"]
  <2>0. kdb \in Databases /\ DbOK(kdb)
    BY Unchanged DEF HostOK
  <2>1. kdb' = e /\ kproc' = [kproc EXCEPT ![p] = w]
    BY <1>4 DEF InstallBinds, At, Proc
  <2>2. /\ e \in Databases /\ DbOK(e) /\ e.file = kdb.file /\ e.bound = k /\ e.records = kdb.records
        /\ kdb.bound \in {0, k}
    <3>1. PICK d \in Databases : d = kdb
      BY <2>0
    <3>2. PICK j \in KeyIds : j = k
      BY <1>2
    <3>3. j # 0 /\ CheckKey(j) /\ DbOK(d)
      BY <1>2, <1>4, <2>0, <3>1, <3>2
    <3>4. [BindKey(d, j) EXCEPT !.rows = d.rows] = BindKey(d, j)
      BY DEF BindKey, Databases
    <3>5. LET n == [BindKey(d, j) EXCEPT !.rows = d.rows] IN
          /\ n \in Databases /\ DbOK(n) /\ n.file = d.file /\ n.bound = j /\ n.records = d.records
          /\ d.bound \in {0, j}
      BY <3>1, <3>3, Binds
    <3> QED BY <3>1, <3>2, <3>4, <3>5
  <2>3. w \in Works /\ w.at = "ca" /\ w.key = k /\ w.id = kproc[p].id
    <3>1. "ca" \in SessionSteps
      BY DEF SessionSteps
    <3> QED BY <1>2, <3>1 DEF Works
  <2> HIDE DEF e, w
  <2>4. HostOK(kfile, e, kca, kused.mixed)
    BY <1>2, <2>2, Unchanged, BindsHost
  <2>5. WorkOK(w, kfile, e, kca, kused.mixed)
    BY <1>2, <2>2, <2>3 DEF WorkOK, KeyHeld, Migrates, Walks, Restores, PastCheck, WithKey,
       Walking, SessionSteps, RestoreSteps
  <2>6. w.at \notin RestoreSteps /\ w.at # "migrating"
    BY <2>3 DEF RestoreSteps
  <2>7. kca' \in AgentCAs /\ kca' = kca
    BY <1>1, Unchanged
  <2>8. e.bound = kdb.bound \/ (kdb.bound = 0 /\ kfile = e.bound)
    BY <1>2, <2>2
  <2> QED BY <1>1, <1>2, <2>1, <2>2, <2>3, <2>4, <2>5, <2>6, <2>7, <2>8, Writes
<1> QED BY <1>3, <1>4

LEMMA EnsureAgentCAOK ==
  ASSUME SealInv, NEW p \in KProcs, EnsureAgentCA(p)
  PROVE  SealInv'
<1>1. kproc[p].at = "ca" /\ kproc[p].at \in SessionSteps /\ kproc[p].at \in WithKey
      /\ kproc[p].at # "migrating" /\ kproc[p].at \in {"ca", "seal"}
  BY DEF EnsureAgentCA, SessionSteps, WithKey
<1>2. CASE kca.cert # 0
  BY <1>1, <1>2, Leaves DEF EnsureAgentCA
<1>3. CASE kca.cert = 0
  <2> DEFINE w == [kproc[p] EXCEPT !.at = "seal"]
             c == [kca EXCEPT !.cert = kproc[p].id]
  <2>1. kproc' = [kproc EXCEPT ![p] = w] /\ kca' = c
        /\ UNCHANGED <<kfile, ktemps, kdb, klock, karch, kused>>
    BY <1>3 DEF EnsureAgentCA, At, Proc
  <2>2. kproc[p] \in Works /\ kdb.file = "whole" /\ kproc[p].id # 0
        /\ WorkOK(kproc[p], kfile, kdb, kca, kused.mixed) /\ "seal" \in SessionSteps
    BY <1>1, Session DEF SessionSteps
  <2>3. w \in Works /\ w.at = "seal" /\ w.key = kproc[p].key /\ w.id = kproc[p].id
        /\ w.id \in KeyIds
    BY <2>2 DEF Works
  <2>4. c \in AgentCAs /\ c.sealed = kca.sealed /\ c.under = kca.under
    <3>1. kproc[p].id \in KeyIds /\ kca \in AgentCAs
      BY <2>3, Unchanged
    <3> QED BY <3>1 DEF AgentCAs
  <2> HIDE DEF w, c
  <2>5. HostOK(kfile, kdb, c, kused.mixed)
    BY <2>4 DEF SealInv, HostOK
  <2>6. kproc[p].key # 0 /\ kfile = kproc[p].key /\ kdb.bound = kproc[p].key
    BY <1>1, <2>2 DEF WorkOK, KeyHeld
  <2>7. WorkOK(w, kfile, kdb, c, kused.mixed)
    BY <2>2, <2>3, <2>6 DEF WorkOK, KeyHeld, Migrates, Walks, Restores, PastCheck, WithKey,
       Walking, SessionSteps, RestoreSteps
  <2>8. w.at \notin RestoreSteps /\ w.at # "migrating"
    BY <2>3 DEF RestoreSteps
  <2>9. /\ UNCHANGED <<kfile, kdb, klock, kused>> /\ ktemps' \subseteq [key : KeyIds, live : BOOLEAN]
        /\ karch' \subseteq Archives /\ \A a \in karch' : ArchiveOK(a, kused.mixed)
        /\ kca' \in AgentCAs
    BY <2>1, <2>4, Unchanged
  <2> QED BY <1>1, <2>1, <2>3, <2>5, <2>7, <2>8, <2>9, Quiet
<1> QED BY <1>2, <1>3

LEMMA SealAgentCAOK ==
  ASSUME SealInv, NEW p \in KProcs, SealAgentCA(p)
  PROVE  SealInv'
<1> DEFINE c == [kca EXCEPT !.sealed = kproc[p].id, !.under = kproc[p].key]
<1>1. kproc[p].at = "seal" /\ kproc[p].at \in SessionSteps /\ kproc[p].at \in WithKey
      /\ kproc[p].at # "migrating" /\ kproc[p].at \in {"ca", "seal"}
  BY DEF SealAgentCA, SessionSteps, WithKey
<1>2. kproc' = [kproc EXCEPT ![p] = NoProc] /\ kca' = c
      /\ UNCHANGED <<kfile, ktemps, kdb, klock, karch, kused>>
  BY DEF SealAgentCA, Leave, Proc
<1>3. kproc[p] \in Works /\ WorkOK(kproc[p], kfile, kdb, kca, kused.mixed) /\ kdb.file = "whole"
  BY <1>1, Session
<1>4. c \in AgentCAs /\ c.under = kproc[p].key
  <2>1. kproc[p].id \in KeyIds /\ kproc[p].key \in KeyIds /\ kca \in AgentCAs
    BY <1>3, Unchanged DEF Works
  <2> QED BY <2>1 DEF AgentCAs
<1> HIDE DEF c
<1>5. kproc[p].key # 0 /\ kfile = kproc[p].key /\ kdb.bound = kproc[p].key
  BY <1>1, <1>3 DEF WorkOK, KeyHeld
<1>6. HostOK(kfile, kdb, c, kused.mixed)
  BY <1>3, <1>4, <1>5 DEF SealInv, HostOK
<1>7. WorkOK(NoProc, kfile, kdb, c, kused.mixed) /\ NoProc \in Works
      /\ NoProc.at \notin RestoreSteps /\ NoProc.at # "migrating"
  BY NoWork, IdleOK DEF RestoreSteps
<1>8. /\ UNCHANGED <<kfile, kdb, klock, kused>> /\ ktemps' \subseteq [key : KeyIds, live : BOOLEAN]
      /\ karch' \subseteq Archives /\ \A a \in karch' : ArchiveOK(a, kused.mixed)
      /\ kca' \in AgentCAs
  BY <1>2, <1>4, Unchanged
<1> QED BY <1>1, <1>2, <1>6, <1>7, <1>8, Quiet

LEMMA RecordBackupOK ==
  ASSUME SealInv, NEW p \in KProcs, RecordBackup(p)
  PROVE  SealInv'
<1> DEFINE w == [kproc[p] EXCEPT !.at = "snapshot"]
           e == [kdb EXCEPT !.records = @ \cup {kproc[p].id}]
<1>1. kproc[p].at = "record" /\ kproc[p].at \in SessionSteps /\ kproc[p].at \in PastCheck
      /\ klock = NoBody /\ kproc' = [kproc EXCEPT ![p] = w] /\ kdb' = e
      /\ UNCHANGED <<kfile, ktemps, klock, kca, karch, kused>>
  BY DEF RecordBackup, SessionSteps, PastCheck, At, Proc
<1>2. kproc[p] \in Works /\ WorkOK(kproc[p], kfile, kdb, kca, kused.mixed) /\ kdb.file = "whole"
      /\ kproc[p].id # 0 /\ "snapshot" \in SessionSteps
  BY <1>1, Session DEF SessionSteps
<1>3. w \in Works /\ w.at = "snapshot" /\ w.id = kproc[p].id /\ w.id \in KeyIds
  BY <1>2 DEF Works
<1>4. /\ e \in Databases /\ e.file = kdb.file /\ e.bound = kdb.bound /\ e.rows = kdb.rows
      /\ e.records = kdb.records \cup {kproc[p].id} /\ e.schema = kdb.schema /\ e.applied = kdb.applied
  <2>1. kproc[p].id \in KeyIds /\ kdb \in Databases
    BY <1>3, Unchanged
  <2> QED BY <2>1 DEF Databases
<1> HIDE DEF w, e
<1>5. HostOK(kfile, e, kca, kused.mixed)
  BY <1>4 DEF SealInv, HostOK, DbOK, SchemaOf
<1>6. kdb.bound # 0 => kfile = kdb.bound
  BY <1>1, <1>2 DEF WorkOK, KeyHeld
<1>7. WorkOK(w, kfile, e, kca, kused.mixed)
  BY <1>2, <1>3, <1>4, <1>6 DEF WorkOK, KeyHeld, Migrates, Walks, Restores, PastCheck, WithKey,
     Walking, SessionSteps, RestoreSteps
<1>8. w.at \notin RestoreSteps /\ w.at # "migrating"
  BY <1>3 DEF RestoreSteps
<1>9. kca' \in AgentCAs /\ kca' = kca
  BY <1>1, Unchanged
<1> QED BY <1>1, <1>2, <1>3, <1>4, <1>5, <1>7, <1>8, <1>9, Writes

LEMMA CreateBackupOK ==
  ASSUME SealInv, NEW p \in KProcs, CreateBackup(p)
  PROVE  SealInv'
<1> DEFINE w == [kproc[p] EXCEPT !.at = "root", !.arch.db = kdb, !.arch.id = kproc[p].id]
<1>1. kproc[p].at = "snapshot" /\ kproc[p].at \in SessionSteps /\ kproc[p].at \in PastCheck
      /\ kproc[p].at # "migrating" /\ kproc' = [kproc EXCEPT ![p] = w]
      /\ UNCHANGED <<kfile, ktemps, kdb, klock, kca, karch, kused>>
  BY DEF CreateBackup, SessionSteps, PastCheck, Proc, Snapshot
<1>2. kproc[p] \in Works /\ WorkOK(kproc[p], kfile, kdb, kca, kused.mixed) /\ kdb.file = "whole"
      /\ kproc[p].id # 0 /\ "root" \in SessionSteps /\ kdb \in Databases
  BY <1>1, Session, Unchanged DEF SessionSteps
<1>3. kproc[p].arch \in Archives /\ kproc[p].id \in KeyIds
  BY <1>2 DEF Works
<1>4. w \in Works /\ w.at = "root" /\ w.arch.db = kdb /\ w.arch.id = kproc[p].id /\ w.id = kproc[p].id
  BY <1>2, <1>3 DEF Works, Archives
<1> HIDE DEF w
<1>5. (kdb.bound # 0 => kfile = kdb.bound) /\ kproc[p].id \in kdb.records /\ DbOK(kdb)
  BY <1>1, <1>2 DEF WorkOK, KeyHeld, Walks, SealInv, HostOK
<1>6. WorkOK(w, kfile, kdb, kca, kused.mixed)
  BY <1>2, <1>4, <1>5 DEF WorkOK, KeyHeld, Migrates, Walks, Restores, PastCheck, WithKey,
     Walking, SessionSteps, RestoreSteps
<1>7. w.at \notin RestoreSteps /\ w.at # "migrating"
  BY <1>4 DEF RestoreSteps
<1> QED BY <1>1, <1>4, <1>6, <1>7, Unchanged, Quiet

LEMMA addRootOK ==
  ASSUME SealInv, NEW p \in KProcs, addRoot(p)
  PROVE  SealInv'
<1>1. kproc[p].at = "root" /\ kproc[p].at \in SessionSteps /\ kproc[p].at \in PastCheck
      /\ kproc[p].at # "migrating" /\ kproc[p].at \in Walking
      /\ UNCHANGED <<kfile, ktemps, kdb, klock, kca, karch, kused>>
  BY DEF addRoot, SessionSteps, PastCheck, Walking
<1>2. CASE Leave(p)
  BY <1>1, <1>2, Leaves
<1>3. CASE Proc(p, [kproc[p] EXCEPT !.at = "pki", !.listed = kfile # 0])
  <2> DEFINE w == [kproc[p] EXCEPT !.at = "pki", !.listed = kfile # 0]
  <2>1. kproc' = [kproc EXCEPT ![p] = w]
    BY <1>3 DEF Proc
  <2>2. kproc[p] \in Works /\ WorkOK(kproc[p], kfile, kdb, kca, kused.mixed) /\ kdb.file = "whole"
        /\ kproc[p].id # 0 /\ "pki" \in SessionSteps
    BY <1>1, Session DEF SessionSteps
  <2>3. w \in Works /\ w.at = "pki" /\ w.arch = kproc[p].arch /\ w.id = kproc[p].id
    BY <2>2 DEF Works
  <2> HIDE DEF w
  <2>4. WorkOK(w, kfile, kdb, kca, kused.mixed)
    BY <1>1, <2>2, <2>3 DEF WorkOK, KeyHeld, Migrates, Walks, Restores, PastCheck, WithKey,
       Walking, SessionSteps, RestoreSteps
  <2>5. w.at \notin RestoreSteps /\ w.at # "migrating"
    BY <2>3 DEF RestoreSteps
  <2> QED BY <1>1, <2>1, <2>3, <2>4, <2>5, Unchanged, Quiet
<1> QED BY <1>2, <1>3 DEF addRoot

LEMMA addPkiOK ==
  ASSUME SealInv, NEW p \in KProcs, addPki(p)
  PROVE  SealInv'
<1> DEFINE w == [kproc[p] EXCEPT !.at = "key in", !.arch.ca = kca]
<1>1. kproc[p].at = "pki" /\ kproc[p].at \in SessionSteps /\ kproc[p].at \in PastCheck
      /\ kproc[p].at # "migrating" /\ kproc[p].at \in Walking /\ kproc' = [kproc EXCEPT ![p] = w]
      /\ UNCHANGED <<kfile, ktemps, kdb, klock, kca, karch, kused>>
  BY DEF addPki, SessionSteps, PastCheck, Walking, Proc
<1>2. kproc[p] \in Works /\ WorkOK(kproc[p], kfile, kdb, kca, kused.mixed) /\ kdb.file = "whole"
      /\ kproc[p].id # 0 /\ "key in" \in SessionSteps /\ kca \in AgentCAs
  BY <1>1, Session, Unchanged DEF SessionSteps
<1>3. kproc[p].arch \in Archives
  BY <1>2 DEF Works
<1>4. w \in Works /\ w.at = "key in" /\ w.arch.db = kproc[p].arch.db /\ w.arch.id = kproc[p].arch.id
      /\ w.id = kproc[p].id /\ w.arch.ca = kca
  BY <1>2, <1>3 DEF Works, Archives
<1> HIDE DEF w
<1>5. (~kused.mixed /\ kca.sealed # 0) => kfile # 0 /\ kca.under = kfile
  BY <1>1, <1>2 DEF WorkOK, KeyHeld, SealInv, HostOK
<1>6. WorkOK(w, kfile, kdb, kca, kused.mixed)
  BY <1>1, <1>2, <1>4, <1>5 DEF WorkOK, KeyHeld, Migrates, Walks, Restores, PastCheck, WithKey,
     Walking, SessionSteps, RestoreSteps
<1>7. w.at \notin RestoreSteps /\ w.at # "migrating"
  BY <1>4 DEF RestoreSteps
<1> QED BY <1>1, <1>4, <1>6, <1>7, Unchanged, Quiet

LEMMA addKeyOK ==
  ASSUME SealInv, NEW p \in KProcs, addKey(p)
  PROVE  SealInv'
<1> DEFINE k == IF kproc[p].listed THEN kfile ELSE 0
           a == [kproc[p].arch EXCEPT !.key = k]
<1>1. kproc[p].at = "key in" /\ kproc[p].at \in SessionSteps
      /\ kproc[p].at # "migrating" /\ kproc[p].at \in Walking
      /\ kproc' = [kproc EXCEPT ![p] = NoProc] /\ karch' = karch \cup {a}
      /\ UNCHANGED <<kfile, ktemps, kdb, klock, kca, kused>>
  BY DEF addKey, SessionSteps, Walking, Proc, Leave
<1>2. kproc[p] \in Works /\ WorkOK(kproc[p], kfile, kdb, kca, kused.mixed) /\ kfile \in KeyIds
  BY <1>1, Session, Unchanged
<1>3. kproc[p].arch \in Archives /\ k \in KeyIds
  BY <1>2, SchemaNumbers DEF Works
<1>4. k # 0 => k = kfile
  OBVIOUS
<1> HIDE DEF k
<1>5. a \in Archives /\ a.key = k /\ a.db = kproc[p].arch.db /\ a.ca = kproc[p].arch.ca
      /\ a.id = kproc[p].arch.id
  BY <1>3 DEF Archives
<1> HIDE DEF a
<1>6. ArchiveOK(a, kused.mixed)
  BY <1>1, <1>2, <1>4, <1>5 DEF WorkOK, Walks, ArchiveOK, readBackup
<1>7. karch' \subseteq Archives /\ \A b \in karch' : ArchiveOK(b, kused.mixed)
  BY <1>1, <1>5, <1>6, Unchanged
<1>8. WorkOK(NoProc, kfile, kdb, kca, kused.mixed) /\ NoProc \in Works
      /\ NoProc.at \notin RestoreSteps /\ NoProc.at # "migrating"
  BY NoWork, IdleOK DEF RestoreSteps
<1>9. ktemps' \subseteq [key : KeyIds, live : BOOLEAN] /\ kca' \in AgentCAs /\ kca' = kca
      /\ HostOK(kfile, kdb, kca, kused.mixed)
  BY <1>1, Unchanged
<1> QED BY <1>1, <1>7, <1>8, <1>9, Quiet

(* The steps of a restore, deaths and losses.                              *)

(* A step that no one else sees: the others are idle.                      *)
LEMMA AloneMoves ==
  ASSUME SealInv, NEW p \in KProcs, NEW w \in Works, kproc' = [kproc EXCEPT ![p] = w],
         \A q \in KProcs \ {p} : kproc[q].at = "idle",
         kproc[p].at # "migrating", w.at # "migrating",
         kfile' \in KeyIds, kdb' \in Databases, kca' \in AgentCAs,
         UNCHANGED <<ktemps, klock, karch>>,
         kused' \in [verbs : KeyIds, faults : 0..MaxKFaults, mixed : BOOLEAN],
         HostOK(kfile', kdb', kca', kused'.mixed),
         kused.mixed => kused'.mixed,
         WorkOK(w, kfile', kdb', kca', kused'.mixed)
  PROVE  SealInv'
<1>1. klock # p
  BY SealingAssumption DEF SealInv, SealTypeOK
<1>2. SealTypeOK'
  <2>1. SealTypeOK /\ klock' = klock
    BY DEF SealInv
  <2>2. klock' \in KProcs \cup {NoBody} /\ karch' \subseteq Archives
        /\ ktemps' \subseteq [key : KeyIds, live : BOOLEAN]
    BY <2>1 DEF SealTypeOK
  <2> QED BY <1>1, <2>1, <2>2, TypeKept
<1>3. \A a \in karch' : ArchiveOK(a, kused'.mixed)
  BY DEF SealInv, ArchiveOK
<1>4. \A q \in KProcs \ {p} : WorkOK(kproc[q], kfile', kdb', kca', kused'.mixed)
  BY IdleOK
<1>5. \A q \in KProcs \ {p} : kproc[q].at \notin RestoreSteps
  BY DEF RestoreSteps
<1> QED BY <1>2, <1>3, <1>4, <1>5, OneMoved

LEMMA RestoreOK ==
  ASSUME SealInv, NEW p \in KProcs, NEW a \in karch, NEW force \in BOOLEAN, Restore(p, a, force)
  PROVE  SealInv'
<1> DEFINE w == VerbAt("restore", "db", {}, 0, a)
           mixed == kused.mixed \/ force \/ (a.ca.sealed # 0 /\ a.db.bound = 0)
<1>1. /\ AllIdle /\ readBackup(a) /\ (force \/ (kdb.file = "none" /\ kfile = 0))
      /\ kproc' = [kproc EXCEPT ![p] = w] /\ kdb' = EmptyBase("empty")
      /\ UNCHANGED <<kfile, ktemps, klock, kca, karch>>
  BY DEF Restore, Proc
<1>2. kused' \in [verbs : KeyIds, faults : 0..MaxKFaults, mixed : BOOLEAN] /\ kused'.mixed = mixed
  <2>1. kused.verbs < MaxKVerbs
        /\ kused' = [kused EXCEPT !.verbs = @ + 1,
                       !.mixed = @ \/ force \/ (a.ca.sealed # 0 /\ a.db.bound = 0)]
    BY DEF Restore
  <2>2. kused \in [verbs : KeyIds, faults : 0..MaxKFaults, mixed : BOOLEAN]
    BY DEF SealInv, SealTypeOK
  <2>3. kused.verbs + 1 \in KeyIds
    BY <2>1, <2>2, SealingAssumption DEF KeyIds
  <2>4. mixed \in BOOLEAN
    BY <2>2
  <2> QED BY <2>1, <2>2, <2>3, <2>4
<1> HIDE DEF mixed
<1>3. ArchiveOK(a, kused.mixed) /\ a \in Archives /\ a \in karch
  BY DEF SealInv, SealTypeOK
<1>4. w \in Works /\ w.verb = "restore" /\ w.at = "db" /\ w.arch = a
  BY <1>3, SchemaNumbers, StartedWork
<1>5. EmptyBase("empty") \in Databases /\ DbOK(EmptyBase("empty")) /\ EmptyBase("empty").file = "empty"
      /\ EmptyBase("empty").bound = 0
  BY FreshDb
<1> HIDE DEF w
<1>6. kused.mixed => mixed
  BY DEF mixed
<1>7. ArchiveOK(a, mixed)
  BY <1>3, <1>6 DEF ArchiveOK
<1>8. ~mixed => kfile = 0 /\ kca.sealed = 0 /\ (a.ca.sealed # 0 => a.db.bound # 0)
  BY <1>1 DEF mixed, SealInv, HostOK
<1>9. HostOK(kfile, kdb', kca, mixed)
  BY <1>1, <1>5, <1>8 DEF HostOK
<1>10. WorkOK(w, kfile, kdb', kca, mixed)
  BY <1>1, <1>4, <1>5, <1>7, <1>8 DEF WorkOK, KeyHeld, Migrates, Walks, Restores, PastCheck, WithKey,
     Walking, SessionSteps, RestoreSteps
<1>11. kfile' \in KeyIds /\ kca' \in AgentCAs /\ kfile' = kfile /\ kca' = kca
  BY <1>1, Unchanged
<1>12. kproc[p].at # "migrating" /\ \A q \in KProcs \ {p} : kproc[q].at = "idle"
  BY <1>1 DEF AllIdle
<1>13. HostOK(kfile', kdb', kca', kused'.mixed) /\ WorkOK(w, kfile', kdb', kca', kused'.mixed)
       /\ kdb' \in Databases /\ (kused.mixed => kused'.mixed)
  BY <1>1, <1>2, <1>5, <1>6, <1>9, <1>10, <1>11
<1> QED BY <1>1, <1>2, <1>4, <1>11, <1>12, <1>13, AloneMoves

(* A process that restores is alone, and this is what it has.              *)
LEMMA Restoring ==
  ASSUME SealInv, NEW p \in KProcs, kproc[p].at \in RestoreSteps
  PROVE  /\ kproc[p] \in Works /\ kproc[p].at # "migrating"
         /\ \A q \in KProcs \ {p} : kproc[q].at = "idle"
         /\ Restores(kproc[p], kfile, kdb, kca, kused.mixed)
         /\ kproc[p].arch \in Archives /\ kproc[p].arch.db \in Databases /\ kproc[p].arch.ca \in AgentCAs
         /\ kproc[p].arch.key \in KeyIds
         /\ kused \in [verbs : KeyIds, faults : 0..MaxKFaults, mixed : BOOLEAN]
<1>1. kproc[p] \in Works /\ kused \in [verbs : KeyIds, faults : 0..MaxKFaults, mixed : BOOLEAN]
  BY DEF SealInv, SealTypeOK
<1>2. kproc[p].arch \in Archives
  BY <1>1 DEF Works
<1>3. kproc[p].arch.db \in Databases /\ kproc[p].arch.ca \in AgentCAs /\ kproc[p].arch.key \in KeyIds
  BY <1>2 DEF Archives
<1>4. \A q \in KProcs \ {p} : kproc[q].at = "idle"
  BY DEF SealInv, Alone
<1>5. Restores(kproc[p], kfile, kdb, kca, kused.mixed)
  BY DEF SealInv, WorkOK
<1>6. kproc[p].at # "migrating"
  BY DEF RestoreSteps
<1> QED BY <1>1, <1>2, <1>3, <1>4, <1>5, <1>6

LEMMA RestoreDatabaseOK ==
  ASSUME SealInv, NEW p \in KProcs, RestoreDatabase(p)
  PROVE  SealInv'
<1>1. kproc[p].at = "db" /\ kproc[p].at \in RestoreSteps /\ "cert" \in RestoreSteps
      /\ UNCHANGED <<kfile, ktemps, klock, kca, karch, kused>>
  BY DEF RestoreDatabase, RestoreSteps
<1>2. Restores(kproc[p], kfile, kdb, kca, kused.mixed) /\ kproc[p] \in Works
  BY <1>1, Restoring
<1>3. kfile' \in KeyIds /\ kca' \in AgentCAs /\ kfile' = kfile /\ kca' = kca /\ kused' = kused
  BY <1>1, Unchanged
<1>4. CASE At(p, "cert") /\ kdb' = kproc[p].arch.db
  <2> DEFINE w == [kproc[p] EXCEPT !.at = "cert"]
  <2>1. kproc' = [kproc EXCEPT ![p] = w]
    BY <1>4 DEF At, Proc
  <2>2. w \in Works /\ w.at = "cert" /\ w.verb = kproc[p].verb /\ w.arch = kproc[p].arch
    BY <1>1, <1>2 DEF Works
  <2> HIDE DEF w
  <2>3. /\ w.verb = "restore" /\ ArchiveOK(w.arch, kused.mixed) /\ readBackup(w.arch)
        /\ ~kused.mixed => kfile = 0 /\ kca.sealed = 0 /\ (w.arch.ca.sealed # 0 => w.arch.db.bound # 0)
    BY <1>1, <1>2, <2>2 DEF Restores
  <2>4. kdb' = w.arch.db /\ DbOK(kdb') /\ kdb'.file = "whole" /\ kdb' \in Databases
    BY <1>1, <1>4, <2>2, <2>3, Restoring DEF ArchiveOK, readBackup
  <2>5. WorkOK(w, kfile, kdb', kca, kused.mixed) /\ HostOK(kfile, kdb', kca, kused.mixed)
    <3>1. WorkOK(w, kfile, kdb', kca, kused.mixed)
      BY <2>2, <2>3, <2>4 DEF WorkOK, KeyHeld, Migrates, Walks, Restores, PastCheck, WithKey,
         Walking, SessionSteps, RestoreSteps
    <3>2. HostOK(kfile, kdb', kca, kused.mixed)
      BY <2>3, <2>4 DEF HostOK
    <3> QED BY <3>1, <3>2
  <2> QED BY <1>1, <1>3, <2>1, <2>2, <2>4, <2>5, Restoring, AloneMoves
<1>5. CASE kdb.file = "empty" /\ kdb' = [kdb EXCEPT !.file = "torn"] /\ UNCHANGED kproc
  <2>1. kdb' \in Databases /\ kdb'.file = "torn" /\ kdb'.bound = kdb.bound /\ kdb'.rows = kdb.rows
        /\ kdb'.schema = kdb.schema /\ kdb'.applied = kdb.applied
    BY <1>5, Unchanged DEF Databases
  <2>2. HostOK(kfile, kdb', kca, kused.mixed)
    BY <2>1 DEF SealInv, HostOK, DbOK, SchemaOf
  <2>3. Restores(kproc[p], kfile, kdb', kca, kused.mixed)
    BY <1>1, <1>2, <2>1 DEF Restores
  <2>4. WorkOK(kproc[p], kfile, kdb', kca, kused.mixed)
    BY <1>1, <2>3 DEF WorkOK, KeyHeld, Migrates, Walks, PastCheck, WithKey, Walking, SessionSteps
  <2>5. kproc' = [kproc EXCEPT ![p] = kproc[p]]
    BY <1>5 DEF SealInv, SealTypeOK
  <2> QED BY <1>1, <1>3, <2>1, <2>2, <2>4, <2>5, Restoring, AloneMoves
<1> QED BY <1>4, <1>5 DEF RestoreDatabase

LEMMA RestoreCertOK ==
  ASSUME SealInv, NEW p \in KProcs, RestoreCert(p)
  PROVE  SealInv'
<1> DEFINE w == [kproc[p] EXCEPT !.at = "sealed"]
<1>1. kproc[p].at = "cert" /\ kproc[p].at \in RestoreSteps /\ "sealed" \in RestoreSteps
      /\ kproc' = [kproc EXCEPT ![p] = w] /\ UNCHANGED <<kfile, ktemps, kdb, klock, karch, kused>>
  BY DEF RestoreCert, RestoreSteps, At, Proc
<1>2. Restores(kproc[p], kfile, kdb, kca, kused.mixed) /\ kproc[p] \in Works
  BY <1>1, Restoring
<1>3. w \in Works /\ w.at = "sealed" /\ w.verb = kproc[p].verb /\ w.arch = kproc[p].arch
  BY <1>1, <1>2 DEF Works
<1> HIDE DEF w
<1>4. kca' \in AgentCAs /\ kca'.sealed = kca.sealed /\ kca'.under = kca.under
  <2>1. kca \in AgentCAs /\ kproc[p].arch.ca \in AgentCAs
    BY <1>1, Unchanged, Restoring
  <2>2. kproc[p].arch.ca.cert \in KeyIds
    BY <2>1 DEF AgentCAs
  <2>3. kca' = kca \/ kca' = [kca EXCEPT !.cert = kproc[p].arch.ca.cert]
    BY DEF RestoreCert
  <2> QED BY <2>1, <2>2, <2>3 DEF AgentCAs
<1>5. HostOK(kfile, kdb, kca', kused.mixed)
  BY <1>4 DEF SealInv, HostOK
<1>6. WorkOK(w, kfile, kdb, kca', kused.mixed)
  BY <1>1, <1>2, <1>3, <1>4 DEF WorkOK, KeyHeld, Migrates, Walks, Restores, PastCheck, WithKey,
     Walking, SessionSteps, RestoreSteps
<1>7. kfile' \in KeyIds /\ kfile' = kfile /\ kdb' = kdb /\ kused' = kused /\ kdb' \in Databases
      /\ w.at # "migrating"
  BY <1>1, <1>3, Unchanged
<1> QED BY <1>1, <1>3, <1>4, <1>5, <1>6, <1>7, Restoring, AloneMoves

LEMMA RestoreSealedOK ==
  ASSUME SealInv, NEW p \in KProcs, RestoreSealed(p)
  PROVE  SealInv'
<1> DEFINE w == [kproc[p] EXCEPT !.at = "put key"]
           ca == kproc[p].arch.ca
<1>1. kproc[p].at = "sealed" /\ kproc[p].at \in RestoreSteps /\ "put key" \in RestoreSteps
      /\ kproc' = [kproc EXCEPT ![p] = w] /\ UNCHANGED <<kfile, ktemps, kdb, klock, karch, kused>>
  BY DEF RestoreSealed, RestoreSteps, At, Proc
<1>2. Restores(kproc[p], kfile, kdb, kca, kused.mixed) /\ kproc[p] \in Works
  BY <1>1, Restoring
<1>3. w \in Works /\ w.at = "put key" /\ w.verb = kproc[p].verb /\ w.arch = kproc[p].arch
  BY <1>1, <1>2 DEF Works
<1> HIDE DEF w
<1>4. kca' \in AgentCAs /\ (kca' = kca \/ (ca.sealed # 0 /\ kca'.sealed = ca.sealed /\ kca'.under = ca.under))
  <2>1. kca \in AgentCAs /\ ca \in AgentCAs
    BY <1>1, Unchanged, Restoring
  <2>2. ca.sealed \in KeyIds /\ ca.under \in KeyIds
    BY <2>1 DEF AgentCAs
  <2>3. CASE ca.sealed = 0
    BY <2>1, <2>3 DEF RestoreSealed
  <2>4. CASE ca.sealed # 0
    <3>1. kca' = [kca EXCEPT !.sealed = ca.sealed, !.under = ca.under]
      BY <2>4 DEF RestoreSealed
    <3> HIDE DEF ca
    <3> QED BY <2>1, <2>2, <2>4, <3>1 DEF AgentCAs
  <2> QED BY <2>3, <2>4
<1>5. HostOK(kfile, kdb, kca', kused.mixed)
  <2>1. /\ DbOK(kdb) /\ kdb.file # "none" /\ kdb = kproc[p].arch.db
        /\ ~kused.mixed => /\ kca.sealed = 0 /\ kfile = 0
                           /\ ca.sealed # 0 => kdb.bound # 0 /\ ca.under = kdb.bound
    BY <1>1, <1>2 DEF Restores, ArchiveOK, SealInv, HostOK
  <2> HIDE DEF ca
  <2> QED BY <1>4, <2>1 DEF HostOK
<1>6. WorkOK(w, kfile, kdb, kca', kused.mixed)
  BY <1>1, <1>2, <1>3 DEF WorkOK, KeyHeld, Migrates, Walks, Restores, PastCheck, WithKey,
     Walking, SessionSteps, RestoreSteps
<1>7. kfile' \in KeyIds /\ kfile' = kfile /\ kdb' = kdb /\ kused' = kused /\ kdb' \in Databases
      /\ w.at # "migrating"
  BY <1>1, <1>3, Unchanged
<1> HIDE DEF ca
<1> QED BY <1>1, <1>3, <1>4, <1>5, <1>6, <1>7, Restoring, AloneMoves

LEMMA RestoreKeyOK ==
  ASSUME SealInv, NEW p \in KProcs, RestoreKey(p)
  PROVE  SealInv'
<1>1. kproc[p].at = "put key" /\ kproc[p].at \in RestoreSteps
      /\ kproc' = [kproc EXCEPT ![p] = NoProc] /\ kfile' = kproc[p].arch.key
      /\ UNCHANGED <<ktemps, kdb, klock, kca, karch, kused>>
  BY DEF RestoreKey, RestoreSteps, Leave, Proc
<1>2. Restores(kproc[p], kfile, kdb, kca, kused.mixed) /\ kproc[p].arch.key \in KeyIds
  BY <1>1, Restoring
<1>3. kdb = kproc[p].arch.db /\ kdb.bound \in {0, kproc[p].arch.key}
  BY <1>1, <1>2 DEF Restores, ArchiveOK
<1>4. HostOK(kfile', kdb, kca, kused.mixed)
  BY <1>1, <1>3 DEF SealInv, HostOK
<1>5. WorkOK(NoProc, kfile', kdb, kca, kused.mixed) /\ NoProc \in Works /\ NoProc.at # "migrating"
  BY NoWork, IdleOK
<1>6. kca' \in AgentCAs /\ kdb' \in Databases /\ kca' = kca /\ kdb' = kdb /\ kused' = kused
      /\ kfile' \in KeyIds
  BY <1>1, <1>2, Unchanged
<1> QED BY <1>1, <1>4, <1>5, <1>6, Restoring, AloneMoves

LEMMA SealProcDiesOK ==
  ASSUME SealInv, NEW p \in KProcs, SealProcDies(p)
  PROVE  SealInv'
<1>1. /\ kproc[p].at # "idle" /\ KFault /\ kproc' = [kproc EXCEPT ![p] = NoProc]
      /\ klock' = IF klock = p THEN NoBody ELSE klock
      /\ UNCHANGED <<kfile, kdb, kca, karch>>
  BY DEF SealProcDies, Leave, Proc
<1>2. kused' \in [verbs : KeyIds, faults : 0..MaxKFaults, mixed : BOOLEAN] /\ kused'.mixed = kused.mixed
  BY <1>1, SealingAssumption DEF KFault, SealInv, SealTypeOK
<1>3. ktemps' \subseteq [key : KeyIds, live : BOOLEAN]
  <2>1. ktemps \subseteq [key : KeyIds, live : BOOLEAN]
    BY Unchanged
  <2>2. ktemps' = {IF t.key = kproc[p].id THEN [t EXCEPT !.live = FALSE] ELSE t : t \in ktemps}
    BY DEF SealProcDies
  <2> QED BY <2>1, <2>2
<1>4. NoProc \in Works /\ NoProc.at = "idle" /\ NoProc.at \notin RestoreSteps
  BY NoWork DEF RestoreSteps
<1>5. SealTypeOK'
  <2>1. SealTypeOK /\ (klock' = p <=> NoProc.at = "migrating")
    BY <1>1, <1>4, SealingAssumption DEF SealInv
  <2>2. kfile' \in KeyIds /\ kdb' \in Databases /\ kca' \in AgentCAs /\ karch' \subseteq Archives
        /\ klock' \in KProcs \cup {NoBody}
        /\ (klock' # klock => klock \in {p, NoBody} /\ klock' \in {p, NoBody})
    BY <1>1, Unchanged, <2>1 DEF SealTypeOK
  <2> QED BY <1>1, <1>2, <1>3, <1>4, <2>1, <2>2, TypeKept
<1>6. HostOK(kfile', kdb', kca', kused'.mixed) /\ \A a \in karch' : ArchiveOK(a, kused'.mixed)
  BY <1>1, <1>2 DEF SealInv
<1>7. WorkOK(NoProc, kfile', kdb', kca', kused'.mixed)
  BY <1>4, IdleOK
<1>8. \A q \in KProcs \ {p} : WorkOK(kproc[q], kfile', kdb', kca', kused'.mixed)
  BY <1>1, <1>2 DEF SealInv
<1> QED BY <1>1, <1>4, <1>5, <1>6, <1>7, <1>8, OneMoved

(* Nothing runs when a key or a host is lost.                              *)
LEMMA LossOK ==
  ASSUME SealInv, LoseKey \/ LoseHost
  PROVE  SealInv'
<1>1. /\ AllIdle /\ KFault /\ kfile' = 0 /\ UNCHANGED <<klock, karch, kproc>>
      /\ ktemps' \subseteq ktemps
  BY DEF LoseKey, LoseHost
<1>2. /\ kdb' \in Databases /\ kca' \in AgentCAs /\ DbOK(kdb')
      /\ (kdb'.file = "none" => kca'.sealed = 0)
      /\ kca'.sealed # 0 => (kca' = kca /\ kdb' = kdb)
  <2>1. CASE LoseKey
    BY <2>1, Unchanged DEF LoseKey, HostOK
  <2>2. CASE LoseHost
    BY <2>2, NoWork, FreshDb DEF LoseHost, NoDB
  <2> QED BY <2>1, <2>2
<1>3. kused' \in [verbs : KeyIds, faults : 0..MaxKFaults, mixed : BOOLEAN] /\ kused'.mixed = kused.mixed
  BY <1>1, SealingAssumption DEF KFault, SealInv, SealTypeOK
<1>4. SealTypeOK'
  BY <1>1, <1>2, <1>3, SchemaNumbers DEF SealInv, SealTypeOK
<1>5. HostOK(kfile', kdb', kca', kused'.mixed)
  BY <1>1, <1>2, <1>3 DEF SealInv, HostOK
<1>6. \A q \in KProcs : WorkOK(kproc'[q], kfile', kdb', kca', kused'.mixed)
  BY <1>1, IdleOK DEF AllIdle
<1>7. Alone' /\ \A a \in karch' : ArchiveOK(a, kused'.mixed)
  BY <1>1, <1>3 DEF SealInv, Alone
<1> QED BY <1>4, <1>5, <1>6, <1>7 DEF SealInv

(* Inductive.                                                              *)
LEMMA SealInvStart == SealInit => SealInv
<1> SUFFICES ASSUME SealInit PROVE SealInv
  OBVIOUS
<1>1. \A p \in KProcs : kproc[p] = NoProc /\ kproc[p].at = "idle"
  BY NoWork DEF SealInit
<1>2. kused \in [verbs : KeyIds, faults : 0..MaxKFaults, mixed : BOOLEAN]
  BY SealingAssumption, SchemaNumbers DEF SealInit
<1>3. kdb \in Databases /\ DbOK(kdb) /\ kdb.file = "none" /\ kdb.bound = 0
  BY FreshDb DEF SealInit, NoDB
<1>4. SealTypeOK
  <2>1. kproc \in [KProcs -> Works]
    BY NoWork DEF SealInit
  <2>2. kfile \in KeyIds /\ ktemps = {} /\ kca \in AgentCAs /\ karch = {} /\ klock = NoBody
    BY NoWork, SchemaNumbers DEF SealInit
  <2> QED BY <1>1, <1>2, <1>3, <2>1, <2>2, SealingAssumption DEF SealTypeOK
<1>5. HostOK(kfile, kdb, kca, kused.mixed)
  BY <1>3, NoWork DEF SealInit, HostOK
<1>6. Alone /\ (\A a \in karch : ArchiveOK(a, kused.mixed))
  BY <1>1 DEF Alone, SealInit
<1>7. \A p \in KProcs : WorkOK(kproc[p], kfile, kdb, kca, kused.mixed)
  BY <1>1, IdleOK
<1> QED BY <1>4, <1>5, <1>6, <1>7 DEF SealInv

LEMMA SealInvStep ==
  ASSUME SealInv, [SealNext]_sealVars
  PROVE  SealInv'
<1>1. CASE UNCHANGED sealVars
  BY <1>1 DEF sealVars, SealInv, SealTypeOK, Alone
<1>2. ASSUME NEW p \in KProcs, SessionStep(p) PROVE SealInv'
  <2>1. CASE \E verb \in {"install", "enroll", "backup"}, rel \in KReleases : openSession(p, verb, rel)
    BY <2>1, openSessionOK
  <2>2. CASE MigrateFS(p) \/ applyMigration(p) \/ MigrateCommit(p) \/ SessionOpen(p)
    BY <2>2, MigrateFSOK, applyMigrationOK, MigrateCommitOK, SessionOpenOK
  <2>3. CASE CreateKey(p) \/ LinkKey(p) \/ UnlinkTemp(p)
    BY <2>3, CreateKeyOK, LinkKeyOK, UnlinkTempOK
  <2>4. CASE EnrollTOTP(p) \/ InstallReadsBinding(p) \/ InstallBinds(p) \/ EnsureAgentCA(p) \/ SealAgentCA(p)
    BY <2>4, EnrollTOTPOK, InstallReadsBindingOK, InstallBindsOK, EnsureAgentCAOK, SealAgentCAOK
  <2>5. CASE RecordBackup(p) \/ CreateBackup(p) \/ addRoot(p) \/ addPki(p) \/ addKey(p)
    BY <2>5, RecordBackupOK, CreateBackupOK, addRootOK, addPkiOK, addKeyOK
  <2> QED BY <1>2, <2>1, <2>2, <2>3, <2>4, <2>5 DEF SessionStep
<1>3. ASSUME NEW p \in KProcs, RestoreStep(p) PROVE SealInv'
  <2>1. CASE \E a \in karch, force \in BOOLEAN : Restore(p, a, force)
    BY <2>1, RestoreOK
  <2>2. CASE RestoreDatabase(p) \/ RestoreCert(p) \/ RestoreSealed(p) \/ RestoreKey(p)
    BY <2>2, RestoreDatabaseOK, RestoreCertOK, RestoreSealedOK, RestoreKeyOK
  <2> QED BY <1>3, <2>1, <2>2 DEF RestoreStep
<1> QED BY <1>1, <1>2, <1>3, SealProcDiesOK, LossOK DEF SealNext

LEMMA SealInvAlways == SealSpec => []SealInv
<1>1. SealInit => SealInv
  BY SealInvStart
<1>2. SealInv /\ [SealNext]_sealVars => SealInv'
  BY SealInvStep
<1> QED BY <1>1, <1>2, PTL DEF SealSpec

(* Everything sealed on a host opens under the one key it is bound to, and *)
(* everything in an archive a restore accepts opens under the archive's,   *)
(* whatever first seals, backups, deaths, lost keys and hosts and restores *)
(* that died half way came before (secret.Create, BindKey, backup.Create,  *)
(* cmdBackupRestore), for any number of processes, releases and verbs.     *)
THEOREM SealedStaysOpen == SealSpec => []SealedOpens
<1>1. SealInv => SealedOpens
  <2> SUFFICES ASSUME SealInv PROVE SealedOpens
    OBVIOUS
  <2>1. OneSealingKey
    BY DEF SealInv, HostOK, DbOK, OneSealingKey
  <2>2. KeyOpensAll
    BY DEF SealInv, HostOK, KeyOpensAll
  <2>3. ASSUME NEW a \in karch, readBackup(a)
        PROVE  /\ a.db.rows \subseteq {a.key} /\ a.db.bound \in {0, a.key}
               /\ (a.ca.sealed # 0 /\ ~kused.mixed) => a.ca.under = a.key
    BY <2>3 DEF SealInv, ArchiveOK, DbOK
  <2>4. ArchiveRestores
    BY <2>3 DEF ArchiveRestores
  <2>5. BackupHoldsItsRecord
    BY DEF SealInv, ArchiveOK, BackupHoldsItsRecord
  <2> QED BY <2>1, <2>2, <2>4, <2>5 DEF SealedOpens
<1> QED BY <1>1, SealInvAlways, PTL

(* The schema of the database is the recorded migrations, each applied     *)
(* once and in ascending order, whichever processes of whichever releases  *)
(* raced to migrate it, died in it or restored over it (MigrateFS,         *)
(* reconcile, apply).                                                      *)
THEOREM SchemaStaysSound == SealSpec => []SchemaSound
<1>1. SealInv => SchemaSound
  BY DEF SealInv, HostOK, DbOK, SchemaOf, SchemaSound
<1> QED BY <1>1, SealInvAlways, PTL

-----------------------------------------------------------------------------
(* The host's verbs.                                                       *)

Marks == {"no", "found", "placed"}
Links == Revisions \cup {0}
Ownerships == [Comps -> Marks]
FileKinds == {"none", "rev", "own"}
Files == [kind : FileKinds, rev : Links, own : Ownerships, cached : SUBSET Names]
Owners == {"nobody", "operator", "nodary"}
Binaries == [by : Owners, good : BOOLEAN]
Caches == [Names -> {"absent", "pinned", "other"}]
HostDisks == [link : Links, conf : BOOLEAN, db : BOOLEAN, text : Int, image : Links]
Verbs == {"none", "apply", "fetch", "open", "install", "upgrade", "uninstall"}
VerbSteps == {"idle", "signature", "document", "fetch", "extract", "check", "conf", "text", "place",
              "image", "start", "components", "opt", "config", "state"}
Runs == [verb : Verbs, at : VerbSteps, rel : Links, man : Links, todo : SUBSET Comps,
         got : SUBSET Comps, own : Ownerships, moved : BOOLEAN, skip : BOOLEAN, purge : BOOLEAN,
         restart : SUBSET Units, warned : BOOLEAN]
HostUses == [verbs : Nat, faults : Nat]

(* The least of some components is one of them.                            *)
LEMMA MinComp ==
  ASSUME NEW S \in SUBSET Comps, S # {}
  PROVE  Min(S) \in S
<1>1. S \subseteq Nat
  BY HostAssumption DEF Comps
<1>2. PICK x \in S : \A y \in S : ~(<<y, x>> \in OpToRel(<, Nat))
  BY <1>1, NatLessThanWellFounded, WFMin
<1>3. \A y \in S : ~(y < x)
  BY <1>1, <1>2 DEF OpToRel
<1>4. \A y \in S : x <= y
  BY <1>1, <1>3
<1> QED
  BY <1>4 DEF Min

(* The literals the verbs write are of their types.                        *)
LEMMA HostValues ==
  /\ {"no", "found", "placed"} \subseteq Marks
  /\ {"nobody", "operator", "nodary"} \subseteq Owners
  /\ {"none", "rev", "own"} \subseteq FileKinds
  /\ {"none", "apply", "fetch", "open", "install", "upgrade", "uninstall"} \subseteq Verbs
  /\ {"idle", "signature", "document", "fetch", "extract", "check", "conf", "text", "place",
      "image", "start", "components", "opt", "config", "state"} \subseteq VerbSteps
  /\ Releases \subseteq Links /\ Revisions \subseteq Links /\ 0 \in Links
BY HostAssumption DEF Marks, Owners, FileKinds, Verbs, VerbSteps, Links

(* Nothing placed, no file, no binary, no verb.                            *)
LEMMA HostBlank ==
  /\ Nothing \in Ownerships /\ \A c \in Comps : Nothing[c] = "no"
  /\ NoFile \in Files /\ NoFile.own = Nothing /\ NoFile.kind = "none"
  /\ NoBin \in Binaries /\ NoBin.by = "nobody" /\ NoBin.good
  /\ NoVerb \in Runs /\ NoVerb.at = "idle" /\ NoVerb.own = Nothing /\ NoVerb.verb = "none"
  /\ NoVerb.got = {} /\ NoVerb.todo = {}
<1>1. /\ "no" \in Marks /\ "nobody" \in Owners /\ "none" \in Verbs /\ "idle" \in VerbSteps /\ 0 \in Links
      /\ "none" \in FileKinds
  BY HostValues
<1>2. Nothing \in Ownerships /\ \A c \in Comps : Nothing[c] = "no"
  BY <1>1 DEF Nothing, Ownerships
<1>3. NoFile \in Files /\ NoFile.own = Nothing /\ NoFile.kind = "none"
  BY <1>1, <1>2 DEF NoFile, Files
<1>4. NoBin \in Binaries /\ NoBin.by = "nobody" /\ NoBin.good
  BY <1>1 DEF NoBin, Binaries
<1>5. /\ NoVerb \in Runs /\ NoVerb.at = "idle" /\ NoVerb.own = Nothing /\ NoVerb.verb = "none"
      /\ NoVerb.got = {} /\ NoVerb.todo = {}
  BY <1>1, <1>2 DEF NoVerb, Runs
<1> QED
  BY <1>2, <1>3, <1>4, <1>5

HostTyped ==
  /\ hfile \in Files /\ hbin \in [Comps -> Binaries] /\ hcache \in Caches
  /\ hdisk \in HostDisks /\ hproc \in [Units -> Links] /\ hop \in Runs /\ hused \in HostUses

(* What is fetched is pinned until it is placed.                           *)
PinnedOK ==
  /\ \A c \in Comps : hbin[c].by = "nodary" => hbin[c].good
  /\ hop.at = "fetch" => \A c \in hop.got : hcache[<<c, hop.man>>] = "pinned"
  /\ hop.at = "place" => \A c \in hop.todo : hcache[<<c, hop.man>>] = "pinned"

(* What the record, or a run that will write it, calls placed is not the   *)
(* operator's.                                                             *)
OwnedOK ==
  /\ \A c \in Comps : LoadOwnership.own[c] = "placed" => hbin[c].by # "operator"
  /\ \A c \in Comps : hop.own[c] = "placed" => hbin[c].by = "nodary"
  /\ hop.verb = "uninstall" => hop.own = Nothing

(* An upgrade has linked its release, and what it moved from is still to   *)
(* be restarted or runs the link.                                          *)
BounceOK ==
  /\ hop.verb = "uninstall" <=> hop.at \in {"components", "opt", "config", "state"}
  /\ hop.at = "conf" => hop.verb = "install"
  /\ hop.at = "idle" => hop.verb = "none"
  /\ hop.verb = "upgrade" => hdisk.link = hop.rel
  /\ hop.verb = "upgrade" /\ hop.at = "start" /\ hop.moved /\ ~hop.warned =>
       "server" \in hop.restart \/ hproc["server"] = hop.rel

(* A run works with a manifest there is.                                   *)
ManOK ==
  /\ hfile.kind = "rev" => hfile.rev \in Revisions
  /\ hop.at \in {"signature", "document", "fetch", "extract", "check"} => hop.man \in Revisions
  /\ hop.verb = "upgrade" => hop.man \in Revisions
  /\ hop.at = "conf" => hop.rel \in Revisions
  /\ hop.at = "check" => hop.todo # {}
  /\ hop.at = "conf" \/ (hop.verb = "upgrade" /\ hop.at = "text") => hop.got = {}

HostInv == HostTyped /\ ManOK /\ PinnedOK /\ OwnedOK /\ BounceOK

(* The manifest a verb uses is the verified one or the built-in one.       *)
LEMMA EffectiveIs ==
  ASSUME HostInv
  PROVE  /\ \A rel \in Revisions : Effective(rel) \in Revisions
         /\ \A rel \in Links : Effective(rel) \in Links
BY HostValues DEF HostInv, ManOK, Effective, VerifyRevision, Links

(* The record read from the file, or none.                                 *)
LEMMA OwnershipIs ==
  ASSUME HostInv
  PROVE  LoadOwnership.own \in Ownerships /\ LoadOwnership.cached \in SUBSET Names
BY HostBlank DEF HostInv, HostTyped, LoadOwnership, Files, NoFile

(* The run a verb begins with.                                             *)
LEMMA BeginIs ==
  ASSUME HostInv, NEW verb \in Verbs \ {"none", "uninstall", "upgrade"}, NEW rel \in Links, NEW man \in Links,
         NEW at \in {"signature", "fetch", "extract", "conf"}, Begin(verb, at, rel, man)
  PROVE  /\ hop' \in Runs /\ hop'.verb = verb /\ hop'.at = at /\ hop'.rel = rel /\ hop'.man = man
         /\ hop'.todo = Comps /\ hop'.got = {} /\ hop'.own = Nothing
         /\ hop.at = "idle" /\ hused' \in HostUses
<1>1. /\ hop' = [NoVerb EXCEPT !.verb = verb, !.at = at, !.rel = rel, !.man = man, !.todo = Comps]
      /\ hused' = [hused EXCEPT !.verbs = @ + 1] /\ hop.at = "idle"
  BY DEF Begin
<1>2. hused' \in HostUses
  BY <1>1 DEF HostInv, HostTyped, HostUses
<1>3. at \in VerbSteps
  BY HostValues
<1>4. /\ hop' \in Runs /\ hop'.verb = verb /\ hop'.at = at /\ hop'.rel = rel /\ hop'.man = man
      /\ hop'.todo = Comps /\ hop'.got = {} /\ hop'.own = Nothing
  BY <1>1, <1>3, HostBlank DEF Runs
<1> QED
  BY <1>1, <1>2, <1>4

(* A verb begins: nothing is fetched or recorded yet.                      *)
LEMMA BeginStep ==
  ASSUME HostInv, NEW rel \in Releases, NEW rev \in Revisions,
         ComponentsApply(rel, rev) \/ ComponentsFetch(rel) \/ BundleOpen(rel, rev) \/ ServerInstall(rel)
  PROVE  HostInv'
<1>1. rel \in Links /\ rel \in Revisions /\ rev \in Links
  BY HostAssumption, HostValues
<1>2. Effective(rel) \in Revisions /\ Effective(rel) \in Links
  BY <1>1, EffectiveIs
<1>3. ASSUME NEW verb \in {"apply", "fetch", "open", "install"}, NEW man \in Links,
             NEW at \in {"signature", "fetch", "extract", "conf"}, Begin(verb, at, rel, man),
             at = "conf" => verb = "install", at # "conf" => man \in Revisions,
             hdisk' \in HostDisks, UNCHANGED <<hfile, hcache, hbin, hproc>>
      PROVE  HostInv'
  <2>1. verb \in Verbs \ {"none", "uninstall", "upgrade"}
    BY HostValues
  <2>2. /\ hop' \in Runs /\ hop'.verb = verb /\ hop'.at = at /\ hop'.rel = rel /\ hop'.man = man
        /\ hop'.got = {} /\ hop'.own = Nothing /\ hused' \in HostUses
    BY <1>1, <1>3, <2>1, BeginIs
  <2>3. HostTyped'
    BY <1>3, <2>2 DEF HostInv, HostTyped
  <2>4. ManOK'
    BY <1>1, <1>3, <2>2 DEF HostInv, ManOK
  <2>5. PinnedOK'
    BY <1>3, <2>2 DEF HostInv, PinnedOK
  <2>6. OwnedOK'
    BY <1>3, <2>2, HostBlank DEF HostInv, OwnedOK, LoadOwnership
  <2>7. BounceOK'
    BY <1>3, <2>2 DEF BounceOK
  <2> QED
    BY <2>3, <2>4, <2>5, <2>6, <2>7 DEF HostInv
<1>4. hdisk \in HostDisks /\ [hdisk EXCEPT !.link = rel] \in HostDisks
  BY <1>1 DEF HostInv, HostTyped, HostDisks
<1>5. CASE ComponentsApply(rel, rev)
  BY <1>1, <1>3, <1>4, <1>5 DEF ComponentsApply
<1>6. CASE ComponentsFetch(rel)
  BY <1>2, <1>3, <1>4, <1>6 DEF ComponentsFetch
<1>7. CASE BundleOpen(rel, rev)
  BY <1>1, <1>3, <1>4, <1>7 DEF BundleOpen
<1>8. CASE ServerInstall(rel)
  <2>1. 0 \in Links
    BY HostValues
  <2> QED
    BY <1>3, <1>4, <1>8, <2>1 DEF ServerInstall
<1> QED
  BY <1>5, <1>6, <1>7, <1>8

(* A verb ends, or is cut short: only what it left on the host counts.     *)
LEMMA EndedStep ==
  ASSUME HostInv, Ended, hbin' = hbin, hfile' \in Files, hcache' \in Caches, hdisk' \in HostDisks,
         hproc' \in [Units -> Links], hused' \in HostUses,
         hfile'.kind = "rev" => hfile'.rev \in Revisions,
         \A c \in Comps : LoadOwnership'.own[c] = "placed" => hbin[c].by # "operator"
  PROVE  HostInv'
<1>1. hop' = NoVerb
  BY DEF Ended
<1>2. HostTyped' /\ ManOK'
  BY <1>1, HostBlank DEF HostInv, HostTyped, ManOK
<1>3. PinnedOK' /\ OwnedOK' /\ BounceOK'
  BY <1>1, HostBlank DEF HostInv, PinnedOK, OwnedOK, BounceOK
<1> QED
  BY <1>2, <1>3 DEF HostInv

(* The writes of `components apply`.                                       *)
LEMMA ApplyStep ==
  ASSUME HostInv, WriteSignature \/ WriteDocument
  PROVE  HostInv'
<1>1. hop \in Runs /\ hfile \in Files /\ hbin' = hbin /\ UNCHANGED <<hcache, hdisk, hproc, hused>>
  BY DEF HostInv, HostTyped, WriteSignature, WriteDocument
<1>2. CASE WriteSignature
  <2>1. "document" \in VerbSteps /\ hop.at = "signature" /\ hfile' = hfile
    BY <1>2, HostValues DEF WriteSignature
  <2>2. /\ hop' \in Runs /\ hop'.at = "document" /\ hop'.verb = hop.verb /\ hop'.man = hop.man
        /\ hop'.own = hop.own /\ hop'.rel = hop.rel
    BY <1>1, <1>2, <2>1 DEF WriteSignature, Runs
  <2>3. HostTyped' /\ ManOK'
    BY <1>1, <2>1, <2>2 DEF HostInv, HostTyped, ManOK
  <2>4. PinnedOK' /\ OwnedOK' /\ BounceOK'
    BY <1>1, <2>1, <2>2 DEF HostInv, PinnedOK, OwnedOK, BounceOK, LoadOwnership
  <2> QED
    BY <2>3, <2>4 DEF HostInv
<1>3. CASE WriteDocument
  <2>1. hop.man \in Revisions /\ hfile' = [NoFile EXCEPT !.kind = "rev", !.rev = hop.man] /\ Ended
    BY <1>3 DEF WriteDocument, HostInv, ManOK
  <2>2. hfile' \in Files /\ hfile'.kind = "rev" /\ hfile'.rev = hop.man
    <3>1. "rev" \in FileKinds /\ hop.man \in Links
      BY <2>1, HostValues
    <3> QED
      BY <2>1, <3>1, HostBlank DEF Files
  <2>3. LoadOwnership' = NoFile
    BY <2>2 DEF LoadOwnership, NoFile, Nothing
  <2>4. \A c \in Comps : LoadOwnership'.own[c] # "placed"
    BY <2>3, HostBlank
  <2> QED
    BY <1>1, <2>1, <2>2, <2>4, EndedStep DEF HostInv, HostTyped
<1> QED
  BY <1>2, <1>3

(* The artifact fetched is one that is still to be fetched.                *)
LEMMA FetchedIs ==
  ASSUME HostInv, hop.todo # {}
  PROVE  /\ Min(hop.todo) \in hop.todo /\ Min(hop.todo) \in Comps
         /\ Fetched \in Runs /\ Fetched.at = hop.at /\ Fetched.verb = hop.verb
         /\ Fetched.man = hop.man /\ Fetched.own = hop.own /\ Fetched.rel = hop.rel
         /\ Fetched.got = hop.got \cup {Min(hop.todo)}
         /\ [Fetched EXCEPT !.at = "extract"] \in Runs
         /\ [Fetched EXCEPT !.at = "extract"].at = "extract"
         /\ [Fetched EXCEPT !.at = "extract"].verb = hop.verb
         /\ [Fetched EXCEPT !.at = "extract"].man = hop.man
         /\ [Fetched EXCEPT !.at = "extract"].own = hop.own
         /\ [Fetched EXCEPT !.at = "extract"].rel = hop.rel
<1> DEFINE c == Min(hop.todo)
<1>1. hop \in Runs /\ hop.todo \in SUBSET Comps /\ hop.got \in SUBSET Comps
  BY DEF HostInv, HostTyped, Runs
<1>2. c \in hop.todo /\ c \in Comps
  BY <1>1, MinComp
<1>3. hop.todo \ {c} \in SUBSET Comps /\ hop.got \cup {c} \in SUBSET Comps
  BY <1>1, <1>2
<1>4. Fetched = [hop EXCEPT !.todo = @ \ {c}, !.got = @ \cup {c}]
  BY DEF Fetched
<1> HIDE DEF c
<1>5. /\ Fetched \in Runs /\ Fetched.at = hop.at /\ Fetched.verb = hop.verb
      /\ Fetched.man = hop.man /\ Fetched.own = hop.own /\ Fetched.rel = hop.rel
      /\ Fetched.got = hop.got \cup {c}
  BY <1>1, <1>3, <1>4 DEF Runs
<1>6. "extract" \in VerbSteps
  BY HostValues
<1> DEFINE e == [Fetched EXCEPT !.at = "extract"]
<1>7. /\ e \in Runs /\ e.at = "extract" /\ e.verb = Fetched.verb /\ e.man = Fetched.man
      /\ e.own = Fetched.own /\ e.rel = Fetched.rel
  BY <1>5, <1>6 DEF Runs
<1> QED
  BY <1>2, <1>5, <1>7 DEF c

(* One artifact fetched: the cache gains what is pinned, or nothing.       *)
LEMMA FetchOneStep ==
  ASSUME HostInv, FetchOne
  PROVE  HostInv'
<1>1. /\ hop.at = "fetch" /\ hop.todo # {} /\ hop' = Fetched /\ hop.man \in Revisions
      /\ UNCHANGED <<hfile, hbin, hdisk, hproc, hused>>
  BY DEF FetchOne, fetchCached, fetchDownloaded, HostInv, ManOK
<1> DEFINE c == Min(hop.todo)
<1>2. /\ c \in Comps /\ hop' \in Runs /\ hop'.at = "fetch" /\ hop'.verb = hop.verb /\ hop'.man = hop.man
      /\ hop'.own = hop.own /\ hop'.rel = hop.rel /\ hop'.got = hop.got \cup {c}
  BY <1>1, FetchedIs
<1>3. hcache \in Caches /\ <<c, hop.man>> \in Names /\ Name = <<c, hop.man>>
  BY <1>1, <1>2 DEF HostInv, HostTyped, Names, Name
<1>4. \/ hcache' = hcache /\ hcache[Name] = "pinned"
      \/ hcache' = [hcache EXCEPT ![Name] = "pinned"]
  BY DEF FetchOne, fetchCached, fetchDownloaded
<1> HIDE DEF c
<1>5. /\ hcache' \in Caches /\ hcache'[<<c, hop.man>>] = "pinned"
      /\ \A n \in Names : hcache[n] = "pinned" => hcache'[n] = "pinned"
  BY <1>3, <1>4 DEF Caches
<1>6. HostTyped' /\ ManOK'
  BY <1>1, <1>2, <1>5 DEF HostInv, HostTyped, ManOK
<1>7. hop.got \in SUBSET Comps
  BY DEF HostInv, HostTyped, Runs
<1>8. PinnedOK'
  BY <1>1, <1>2, <1>5, <1>7 DEF HostInv, PinnedOK, Names
<1>9. OwnedOK' /\ BounceOK'
  BY <1>1, <1>2 DEF HostInv, OwnedOK, BounceOK, LoadOwnership
<1> QED
  BY <1>6, <1>8, <1>9 DEF HostInv

(* What is left of an upgrade or an install after the fetch.               *)
LEMMA AfterFetchIs ==
  ASSUME HostInv, NEW got \in SUBSET Comps, AfterFetch(got)
  PROVE  /\ hop' \in Runs /\ hop'.at \in {"place", "image", "text"}
         /\ hop'.at = "place" => got # {}
         /\ hop'.at = "text" => hop.verb # "upgrade"
         /\ hop'.verb = hop.verb /\ hop'.man = hop.man
         /\ hop'.own = hop.own /\ hop'.rel = hop.rel /\ hop'.todo = got
<1> DEFINE at == IF got = {} THEN AfterPlace ELSE "place"
<1>1. hop' = [hop EXCEPT !.at = at, !.todo = got, !.got = got]
  BY DEF AfterFetch
<1>2. /\ at \in {"place", "image", "text"} /\ at \in VerbSteps /\ (at = "place" => got # {})
      /\ (at = "text" => hop.verb # "upgrade")
  BY HostValues DEF AfterPlace
<1> HIDE DEF at
<1>3. hop \in Runs
  BY DEF HostInv, HostTyped
<1>4. /\ hop' \in Runs /\ hop'.at = at /\ hop'.verb = hop.verb /\ hop'.man = hop.man
      /\ hop'.own = hop.own /\ hop'.rel = hop.rel /\ hop'.todo = got
  BY <1>1, <1>2, <1>3 DEF Runs
<1> QED
  BY <1>2, <1>4

(* The record of ownership written at the end of PlaceComponents.          *)
LEMMA RecordIs ==
  ASSUME HostInv, NEW own \in Ownerships, NEW cached \in SUBSET Names
  PROVE  /\ Record(own, cached) \in Files /\ Record(own, cached).kind = "own"
         /\ \A c \in Comps : Record(own, cached).own[c]
              = IF own[c] # "no" THEN own[c] ELSE LoadOwnership.own[c]
<1> DEFINE o == [c \in Comps |-> IF own[c] # "no" THEN own[c] ELSE LoadOwnership.own[c]]
<1>1. LoadOwnership.own \in Ownerships /\ LoadOwnership.cached \cup cached \in SUBSET Names
  BY OwnershipIs
<1>2. o \in Ownerships
  BY <1>1 DEF Ownerships
<1>3. Record(own, cached) = [kind |-> "own", rev |-> 0, cached |-> LoadOwnership.cached \cup cached, own |-> o]
  BY DEF Record
<1>4. "own" \in FileKinds /\ 0 \in Links
  BY HostValues
<1>5. \A c \in Comps : o[c] = IF own[c] # "no" THEN own[c] ELSE LoadOwnership.own[c]
  OBVIOUS
<1> HIDE DEF o
<1>6. Record(own, cached) \in Files /\ Record(own, cached).kind = "own" /\ Record(own, cached).own = o
  BY <1>1, <1>2, <1>3, <1>4 DEF Files
<1> QED
  BY <1>5, <1>6

(* Faults only count.                                                      *)
LEMMA FaultCounted ==
  ASSUME HostInv, CountFault
  PROVE  hused' \in HostUses /\ hused' # hused
<1>1. hused \in HostUses /\ hused' = [hused EXCEPT !.faults = @ + 1]
  BY DEF HostInv, HostTyped, CountFault
<1>2. hused' \in HostUses /\ hused'.faults = hused.faults + 1 /\ hused.faults \in Nat
  BY <1>1 DEF HostUses
<1> QED
  BY <1>2

(* The fetch ends: the next step of its verb, with all of it fetched.      *)
LEMMA FetchEndsStep ==
  ASSUME HostInv, FetchFails \/ FetchDone
  PROVE  HostInv'
<1>1. /\ hop.at = "fetch" /\ UNCHANGED <<hsig, hcache, hbin, hdisk, hproc>> /\ hop \in Runs
      /\ hop.man \in Revisions /\ hop.got \in SUBSET Comps /\ {} \in SUBSET Comps
      /\ hused' \in HostUses
  BY FaultCounted DEF FetchFails, FetchDone, HostInv, HostTyped, ManOK, Runs
<1>2. ASSUME NEW got \in SUBSET Comps, AfterFetch(got), hfile' = hfile,
             got = {} \/ got = hop.got
      PROVE  HostInv'
  <2>1. /\ hop' \in Runs /\ hop'.at \in {"place", "image", "text"}
        /\ hop'.verb = hop.verb /\ hop'.man = hop.man
        /\ hop'.own = hop.own /\ hop'.rel = hop.rel /\ hop'.todo = got
        /\ hop'.at = "text" => hop.verb # "upgrade"
    BY <1>2, AfterFetchIs
  <2>2. HostTyped' /\ ManOK'
    BY <1>1, <1>2, <2>1 DEF HostInv, HostTyped, ManOK
  <2>3. PinnedOK'
    BY <1>1, <1>2, <2>1 DEF HostInv, PinnedOK
  <2>4. OwnedOK' /\ BounceOK'
    BY <1>1, <1>2, <2>1 DEF HostInv, OwnedOK, BounceOK, LoadOwnership
  <2> QED
    BY <2>2, <2>3, <2>4 DEF HostInv
<1>3. ASSUME Ended, hfile' \in Files, hfile' = hfile \/ hfile'.kind = "own",
             \A c \in Comps : LoadOwnership'.own[c] = LoadOwnership.own[c]
      PROVE  HostInv'
  BY <1>1, <1>3, EndedStep DEF HostInv, HostTyped, OwnedOK, ManOK
<1>4. CASE FetchFails
  <2>1. hfile' = hfile
    BY <1>4 DEF FetchFails
  <2>2. CASE Ended
    BY <1>3, <2>1, <2>2 DEF HostInv, HostTyped, LoadOwnership
  <2>3. CASE AfterFetch({})
    BY <1>1, <1>2, <2>1, <2>3
  <2> QED
    BY <1>4, <2>2, <2>3 DEF FetchFails
<1>5. CASE FetchDone
  <2>1. CASE hfile' = Record(Nothing, hop.got \X {hop.man}) /\ Ended
    <3>1. hop.got \X {hop.man} \in SUBSET Names /\ Nothing \in Ownerships
      BY <1>1, HostBlank DEF Names
    <3>2. /\ hfile' \in Files /\ hfile'.kind = "own"
          /\ \A c \in Comps : hfile'.own[c] = IF Nothing[c] # "no" THEN Nothing[c] ELSE LoadOwnership.own[c]
      BY <2>1, <3>1, RecordIs
    <3>3. \A c \in Comps : LoadOwnership'.own[c] = LoadOwnership.own[c]
      BY <3>2, HostBlank DEF LoadOwnership
    <3> QED
      BY <1>3, <2>1, <3>2, <3>3
  <2>2. CASE AfterFetch(hop.got) /\ hfile' = hfile
    BY <1>1, <1>2, <2>2
  <2> QED
    BY <1>5, <2>1, <2>2 DEF FetchDone
<1> QED
  BY <1>4, <1>5

(* A bundle's members are renamed into the cache while nothing is fetched. *)
LEMMA BundleStep ==
  ASSUME HostInv, Extract \/ Check \/ OpenDone
  PROVE  HostInv'
<1>1. /\ UNCHANGED <<hfile, hsig, hbin, hdisk, hproc, hused>> /\ hop \in Runs /\ hcache \in Caches
      /\ hop.at \in {"extract", "check"}
  BY DEF Extract, Check, OpenDone, HostInv, HostTyped
<1>2. hcache' \in Caches
  BY <1>1 DEF Extract, Check, OpenDone, Caches
<1>3. CASE Ended
  BY <1>1, <1>2, <1>3, EndedStep DEF HostInv, HostTyped, ManOK, OwnedOK, LoadOwnership
<1>4. ASSUME hop' \in Runs, hop'.at \in {"extract", "check"}, hop'.verb = hop.verb,
             hop'.man = hop.man, hop'.own = hop.own, hop'.rel = hop.rel,
             hop'.at = "check" => hop'.todo # {}
      PROVE  HostInv'
  <2>1. HostTyped' /\ ManOK'
    BY <1>1, <1>2, <1>4 DEF HostInv, HostTyped, ManOK
  <2>2. PinnedOK' /\ OwnedOK' /\ BounceOK'
    BY <1>1, <1>4 DEF HostInv, PinnedOK, OwnedOK, BounceOK, LoadOwnership
  <2> QED
    BY <2>1, <2>2 DEF HostInv
<1>5. CASE Extract
  <2>1. "check" \in VerbSteps
    BY HostValues
  <2>2. /\ hop' \in Runs /\ hop'.at = "check" /\ hop'.verb = hop.verb /\ hop'.man = hop.man
        /\ hop'.own = hop.own /\ hop'.rel = hop.rel /\ hop'.todo = hop.todo /\ hop.todo # {}
    BY <1>1, <1>5, <2>1 DEF Extract, Runs
  <2> QED
    BY <1>4, <2>2
<1>6. CASE Check /\ hop' = [Fetched EXCEPT !.at = "extract"]
  <2>1. hop.todo # {}
    BY <1>6 DEF Check, HostInv, ManOK
  <2> QED
    BY <1>4, <1>6, <2>1, FetchedIs
<1> QED
  BY <1>3, <1>5, <1>6 DEF Check, OpenDone

(* The steps of `server install` and `upgrade` before the components.      *)
LEMMA InstallStep ==
  ASSUME HostInv, (\E rel \in Releases : InstallSh(rel)) \/ InstallConfig \/ WriteUnits
  PROVE  HostInv'
<1>1. /\ UNCHANGED <<hfile, hsig, hcache, hbin, hproc>> /\ hop \in Runs /\ hdisk \in HostDisks
      /\ hused \in HostUses
  BY DEF InstallSh, InstallConfig, WriteUnits, HostInv, HostTyped
<1>2. ASSUME NEW rel \in Releases, InstallSh(rel)
      PROVE  HostInv'
  <2>1. rel \in Links
    BY HostValues
  <2>2. hop.at = "idle" /\ hop' = hop /\ hdisk' \in HostDisks /\ hused' \in HostUses
    BY <1>1, <1>2, <2>1 DEF InstallSh, HostDisks, HostUses
  <2>3. HostTyped' /\ ManOK' /\ PinnedOK' /\ OwnedOK'
    BY <1>1, <2>2 DEF HostInv, HostTyped, ManOK, PinnedOK, OwnedOK, LoadOwnership
  <2>4. hop.verb # "upgrade"
    BY <2>2 DEF HostInv, BounceOK
  <2>5. BounceOK'
    BY <2>2, <2>4 DEF HostInv, BounceOK
  <2> QED
    BY <2>3, <2>5 DEF HostInv
<1>3. CASE InstallConfig
  <2>1. /\ hop.at = "conf" /\ hdisk' = [hdisk EXCEPT !.conf = TRUE, !.db = TRUE] /\ hused' = hused
        /\ hop.rel \in Revisions /\ hop.verb = "install"
    BY <1>3 DEF InstallConfig, HostInv, ManOK, BounceOK
  <2>2. hdisk' \in HostDisks
    BY <1>1, <2>1 DEF HostDisks
  <2>3. PICK offline \in BOOLEAN :
          hop' = [hop EXCEPT !.at = IF offline THEN "text" ELSE "fetch", !.man = Effective(hop.rel)]
    BY <1>3 DEF InstallConfig
  <2> DEFINE at == IF offline THEN "text" ELSE "fetch"
             man == Effective(hop.rel)
  <2>4. at \in VerbSteps /\ at \in {"text", "fetch"} /\ man \in Revisions /\ man \in Links
    BY <2>1, EffectiveIs, HostValues
  <2>5. hop' = [hop EXCEPT !.at = at, !.man = man]
    BY <2>3
  <2> HIDE DEF at, man
  <2>6. /\ hop' \in Runs /\ hop'.at = at /\ hop'.man = man /\ hop'.verb = hop.verb
        /\ hop'.own = hop.own /\ hop'.rel = hop.rel /\ hop'.got = hop.got
    BY <1>1, <2>4, <2>5 DEF Runs
  <2>7. hop.got = {}
    BY <2>1 DEF HostInv, ManOK
  <2>8. HostTyped' /\ ManOK'
    BY <1>1, <2>1, <2>2, <2>4, <2>6 DEF HostInv, HostTyped, ManOK
  <2>9. PinnedOK' /\ OwnedOK' /\ BounceOK'
    BY <1>1, <2>1, <2>4, <2>6, <2>7 DEF HostInv, PinnedOK, OwnedOK, BounceOK, LoadOwnership
  <2> QED
    BY <2>8, <2>9 DEF HostInv
<1>4. CASE WriteUnits
  <2> DEFINE at == IF hop.verb = "upgrade" /\ ~hop.skip THEN "fetch" ELSE "image"
             restart == IF hdisk.text # TextOf(hop.rel) THEN Units ELSE {}
  <2>1. /\ hop.at = "text" /\ hdisk' = [hdisk EXCEPT !.text = TextOf(hop.rel)]
        /\ hop' = [hop EXCEPT !.at = at, !.restart = restart] /\ hused' = hused
    BY <1>4 DEF WriteUnits
  <2>2. hdisk' \in HostDisks /\ hdisk'.link = hdisk.link
    BY <1>1, <2>1 DEF HostDisks, TextOf
  <2>3. /\ at \in {"fetch", "image"} /\ at \in VerbSteps /\ restart \in SUBSET Units
        /\ (at = "fetch" => hop.verb = "upgrade")
    BY HostValues
  <2> HIDE DEF at, restart
  <2>4. /\ hop' \in Runs /\ hop'.at = at /\ hop'.man = hop.man /\ hop'.verb = hop.verb
        /\ hop'.own = hop.own /\ hop'.rel = hop.rel /\ hop'.got = hop.got
    BY <1>1, <2>1, <2>3 DEF Runs
  <2>5. at = "fetch" => hop.got = {} /\ hop.man \in Revisions
    BY <2>1, <2>3 DEF HostInv, ManOK
  <2>6. HostTyped' /\ ManOK'
    BY <1>1, <2>1, <2>2, <2>3, <2>4, <2>5 DEF HostInv, HostTyped, ManOK
  <2>7. PinnedOK' /\ OwnedOK' /\ BounceOK'
    BY <1>1, <2>1, <2>2, <2>3, <2>4, <2>5 DEF HostInv, PinnedOK, OwnedOK, BounceOK, LoadOwnership
  <2> QED
    BY <2>6, <2>7 DEF HostInv
<1> QED
  BY <1>2, <1>3, <1>4

(* `upgrade` moves the link; nothing is fetched or recorded yet.           *)
LEMMA UpgradeStarts ==
  ASSUME HostInv, NEW rel \in Releases, Upgrade(rel)
  PROVE  HostInv'
<1>1. /\ UNCHANGED <<hfile, hsig, hcache, hbin, hproc>> /\ hdisk \in HostDisks /\ hused \in HostUses
      /\ rel \in Links /\ rel \in Revisions
  BY HostValues, HostAssumption DEF Upgrade, HostInv, HostTyped
<1>2. hdisk' \in HostDisks /\ hdisk'.link = rel
  BY <1>1 DEF Upgrade, HostDisks
<1>3. hused' \in HostUses
  BY <1>1 DEF Upgrade, HostUses
<1>4. PICK offline \in BOOLEAN :
        hop' = [NoVerb EXCEPT !.verb = "upgrade", !.at = "text", !.rel = rel, !.man = Effective(rel),
                              !.todo = Comps, !.moved = hdisk.link # rel, !.skip = offline]
  BY DEF Upgrade
<1> DEFINE man == Effective(rel)
           moved == hdisk.link # rel
<1>5. /\ man \in Revisions /\ man \in Links /\ moved \in BOOLEAN
      /\ "upgrade" \in Verbs /\ "text" \in VerbSteps
  BY <1>1, EffectiveIs, HostValues
<1>6. hop' = [NoVerb EXCEPT !.verb = "upgrade", !.at = "text", !.rel = rel, !.man = man,
                            !.todo = Comps, !.moved = moved, !.skip = offline]
  BY <1>4
<1> HIDE DEF man, moved
<1>7. /\ hop' \in Runs /\ hop'.verb = "upgrade" /\ hop'.at = "text" /\ hop'.rel = rel
      /\ hop'.man = man /\ hop'.got = {} /\ hop'.own = Nothing
  BY <1>1, <1>5, <1>6, HostBlank DEF Runs
<1>8. HostTyped' /\ ManOK'
  BY <1>1, <1>2, <1>3, <1>5, <1>7 DEF HostInv, HostTyped, ManOK
<1>9. PinnedOK' /\ OwnedOK' /\ BounceOK'
  BY <1>1, <1>2, <1>7, HostBlank DEF HostInv, PinnedOK, OwnedOK, BounceOK, LoadOwnership
<1> QED
  BY <1>8, <1>9 DEF HostInv

(* The binaries: what is there is found, what is not is copied.            *)
LEMMA PlaceBinaryStep ==
  ASSUME HostInv, PlaceBinary
  PROVE  HostInv'
<1> DEFINE c == Min(hop.todo)
<1>1. /\ UNCHANGED <<hfile, hsig, hcache, hdisk, hproc, hused>> /\ hop.at = "place"
      /\ hop \in Runs /\ hop.own \in Ownerships /\ hop.todo \in SUBSET Comps /\ hop.todo # {}
      /\ hbin \in [Comps -> Binaries]
  BY DEF PlaceBinary, HostInv, HostTyped, Runs
<1>2. c \in hop.todo /\ c \in Comps /\ hop.todo \ {c} \in SUBSET Comps
  BY <1>1, MinComp
<1>3. hcache[Name] = "pinned"
  BY <1>1, <1>2 DEF HostInv, PinnedOK, Name
<1>4. \/ /\ hbin[c].by = "nobody"
         /\ hbin' = [hbin EXCEPT ![c] = [by |-> "nodary", good |-> hcache[Name] = "pinned"]]
         /\ hop' = [hop EXCEPT !.todo = @ \ {c}, !.own[c] = "placed"]
      \/ hop' = [hop EXCEPT !.todo = @ \ {c}, !.own[c] = "found"] /\ hbin' = hbin
  BY DEF PlaceBinary, placeComponent
<1> HIDE DEF c
<1>5. ASSUME NEW m \in Marks, hop' = [hop EXCEPT !.todo = @ \ {c}, !.own[c] = m]
      PROVE  /\ hop' \in Runs /\ hop'.at = "place" /\ hop'.verb = hop.verb /\ hop'.man = hop.man
             /\ hop'.rel = hop.rel /\ hop'.todo = hop.todo \ {c} /\ hop'.own[c] = m
             /\ \A d \in Comps \ {c} : hop'.own[d] = hop.own[d]
  <2>1. [hop.own EXCEPT ![c] = m] \in Ownerships
    BY <1>1, <1>5 DEF Ownerships
  <2>2. /\ hop' \in Runs /\ hop'.at = hop.at /\ hop'.verb = hop.verb /\ hop'.man = hop.man
        /\ hop'.rel = hop.rel /\ hop'.todo = hop.todo \ {c}
        /\ hop'.own = [hop.own EXCEPT ![c] = m]
    BY <1>1, <1>2, <1>5, <2>1 DEF Runs
  <2> QED
    BY <1>1, <1>2, <2>2 DEF Ownerships
<1>6. hop.verb # "uninstall"
  BY <1>1 DEF HostInv, BounceOK
<1>7. CASE /\ hbin[c].by = "nobody"
           /\ hbin' = [hbin EXCEPT ![c] = [by |-> "nodary", good |-> hcache[Name] = "pinned"]]
           /\ hop' = [hop EXCEPT !.todo = @ \ {c}, !.own[c] = "placed"]
  <2>1. "placed" \in Marks /\ "nodary" \in Owners
    BY HostValues
  <2>2. /\ hop' \in Runs /\ hop'.at = "place" /\ hop'.verb = hop.verb /\ hop'.man = hop.man
        /\ hop'.rel = hop.rel /\ hop'.todo = hop.todo \ {c} /\ hop'.own[c] = "placed"
        /\ \A d \in Comps \ {c} : hop'.own[d] = hop.own[d]
    BY <1>5, <1>7, <2>1
  <2>3. [by |-> "nodary", good |-> hcache[Name] = "pinned"] \in Binaries
    BY <1>3, <2>1 DEF Binaries
  <2>4. /\ hbin' \in [Comps -> Binaries] /\ hbin'[c].by = "nodary" /\ hbin'[c].good
        /\ \A d \in Comps \ {c} : hbin'[d] = hbin[d]
    BY <1>1, <1>2, <1>3, <1>7, <2>3
  <2>5. HostTyped' /\ ManOK'
    BY <1>1, <2>2, <2>4 DEF HostInv, HostTyped, ManOK
  <2>6. PinnedOK' /\ BounceOK'
    BY <1>1, <2>2, <2>4 DEF HostInv, PinnedOK, BounceOK
  <2>7. OwnedOK'
    BY <1>1, <1>6, <2>2, <2>4 DEF HostInv, OwnedOK, LoadOwnership
  <2> QED
    BY <2>5, <2>6, <2>7 DEF HostInv
<1>8. CASE hop' = [hop EXCEPT !.todo = @ \ {c}, !.own[c] = "found"] /\ hbin' = hbin
  <2>1. "found" \in Marks
    BY HostValues
  <2>2. /\ hop' \in Runs /\ hop'.at = "place" /\ hop'.verb = hop.verb /\ hop'.man = hop.man
        /\ hop'.rel = hop.rel /\ hop'.todo = hop.todo \ {c} /\ hop'.own[c] = "found"
        /\ \A d \in Comps \ {c} : hop'.own[d] = hop.own[d]
    BY <1>5, <1>8, <2>1
  <2>3. HostTyped' /\ ManOK'
    BY <1>1, <1>8, <2>2 DEF HostInv, HostTyped, ManOK
  <2>4. PinnedOK' /\ BounceOK'
    BY <1>1, <1>8, <2>2 DEF HostInv, PinnedOK, BounceOK
  <2>5. OwnedOK'
    BY <1>1, <1>6, <1>8, <2>2 DEF HostInv, OwnedOK, LoadOwnership
  <2> QED
    BY <2>3, <2>4, <2>5 DEF HostInv
<1> QED
  BY <1>4, <1>7, <1>8

(* PlaceComponents ends: the record holds what was found and placed.       *)
LEMMA PlaceEndsStep ==
  ASSUME HostInv, PlaceFails \/ PlaceDone
  PROVE  HostInv'
<1>1. /\ UNCHANGED <<hsig, hcache, hbin, hdisk, hproc>> /\ hop.at = "place" /\ hop \in Runs
      /\ hop.own \in Ownerships /\ hused' \in HostUses
      /\ hop' = [hop EXCEPT !.at = AfterPlace]
  BY FaultCounted DEF PlaceFails, PlaceDone, HostInv, HostTyped, Runs
<1>2. /\ AfterPlace \in {"image", "text"} /\ AfterPlace \in VerbSteps
      /\ (AfterPlace = "text" => hop.verb # "upgrade")
  BY HostValues DEF AfterPlace
<1>3. /\ hop' \in Runs /\ hop'.at = AfterPlace /\ hop'.verb = hop.verb /\ hop'.man = hop.man
      /\ hop'.own = hop.own /\ hop'.rel = hop.rel
  BY <1>1, <1>2 DEF Runs
<1>4. /\ hfile' \in Files /\ hfile'.kind = "rev" => hfile'.rev \in Revisions
      /\ \A c \in Comps : LoadOwnership'.own[c] = "placed" =>
           LoadOwnership.own[c] = "placed" \/ hop.own[c] = "placed"
  <2>1. CASE hfile' = hfile
    BY <2>1 DEF HostInv, HostTyped, ManOK, LoadOwnership
  <2>2. CASE hfile' = Record(hop.own, {})
    <3>1. /\ hfile' \in Files /\ hfile'.kind = "own"
          /\ \A c \in Comps : hfile'.own[c] = IF hop.own[c] # "no" THEN hop.own[c] ELSE LoadOwnership.own[c]
      BY <1>1, <2>2, RecordIs
    <3> QED
      BY <3>1 DEF LoadOwnership
  <2> QED
    BY <2>1, <2>2 DEF PlaceFails, PlaceDone
<1>5. hfile' \in Files
  <2>1. CASE hfile' = hfile
    BY <2>1 DEF HostInv, HostTyped
  <2>2. CASE hfile' = Record(hop.own, {})
    BY <1>1, <2>2, RecordIs
  <2> QED
    BY <2>1, <2>2 DEF PlaceFails, PlaceDone
<1>6. HostTyped' /\ ManOK'
  BY <1>1, <1>2, <1>3, <1>4, <1>5 DEF HostInv, HostTyped, ManOK
<1>7. PinnedOK' /\ BounceOK'
  BY <1>1, <1>2, <1>3 DEF HostInv, PinnedOK, BounceOK
<1>8. OwnedOK'
  BY <1>1, <1>3, <1>4 DEF HostInv, OwnedOK
<1> QED
  BY <1>6, <1>7, <1>8 DEF HostInv

(* The restarts: those of an upgrade that moved include the server.        *)
LEMMA ImageStep ==
  ASSUME HostInv, WritePlaneImage
  PROVE  HostInv'
<1> DEFINE man == IF hop.verb = "upgrade" THEN hop.man ELSE Effective(hop.rel)
           again == IF hop.verb = "install" THEN {u \in Units : hproc[u] = 0} ELSE restartSet(man)
<1>1. /\ hop.at = "image" /\ UNCHANGED <<hfile, hsig, hcache, hbin, hproc, hused>>
      /\ hdisk' = [hdisk EXCEPT !.image = man]
      /\ hop' = [hop EXCEPT !.at = "start", !.todo = {}, !.restart = again]
      /\ hop \in Runs /\ hdisk \in HostDisks
  BY DEF WritePlaneImage, HostInv, HostTyped
<1>2. hop.restart \in SUBSET Units /\ hop.man \in Links /\ hop.rel \in Links
  BY <1>1 DEF Runs
<1>3. man \in Links /\ again \in SUBSET Units
  BY <1>2, EffectiveIs DEF restartSet
<1>4. hop.verb = "upgrade" /\ hop.moved => "server" \in again
  BY DEF restartSet, Units
<1>5. "start" \in VerbSteps /\ {} \in SUBSET Comps
  BY HostValues
<1> HIDE DEF man, again
<1>6. hdisk' \in HostDisks /\ hdisk'.link = hdisk.link
  BY <1>1, <1>3 DEF HostDisks
<1>7. /\ hop' \in Runs /\ hop'.at = "start" /\ hop'.verb = hop.verb /\ hop'.man = hop.man
      /\ hop'.own = hop.own /\ hop'.rel = hop.rel /\ hop'.restart = again
      /\ hop'.moved = hop.moved /\ hop'.warned = hop.warned
  BY <1>1, <1>3, <1>5 DEF Runs
<1>8. HostTyped' /\ ManOK'
  BY <1>1, <1>6, <1>7 DEF HostInv, HostTyped, ManOK
<1>9. PinnedOK' /\ OwnedOK'
  BY <1>1, <1>7 DEF HostInv, PinnedOK, OwnedOK, LoadOwnership, BounceOK
<1>10. BounceOK'
  BY <1>1, <1>4, <1>6, <1>7 DEF HostInv, BounceOK
<1> QED
  BY <1>8, <1>9, <1>10 DEF HostInv

(* One unit restarted, or a restart that fails.                            *)
LEMMA RestartStep ==
  ASSUME HostInv, NEW u \in hop.restart, hop.at = "start",
         UNCHANGED <<hfile, hsig, hcache, hbin, hdisk>>,
         \/ /\ hproc' = [hproc EXCEPT ![u] = Started(u)]
            /\ hop' = [hop EXCEPT !.restart = @ \ {u}] /\ hused' = hused
         \/ /\ hop' = [hop EXCEPT !.restart = @ \ {u}, !.warned = TRUE] /\ CountFault /\ hproc' = hproc
  PROVE  HostInv'
<1>1. hop \in Runs /\ hproc \in [Units -> Links] /\ hdisk \in HostDisks
  BY DEF HostInv, HostTyped
<1>2. /\ hop.restart \in SUBSET Units /\ hop.restart \ {u} \in SUBSET Units /\ u \in Units
  BY <1>1 DEF Runs
<1>3. hused' \in HostUses
  BY FaultCounted DEF HostInv, HostTyped
<1>4. Started(u) \in Links
  BY <1>1 DEF Started, HostDisks
<1>5. /\ hop' \in Runs /\ hop'.at = "start" /\ hop'.verb = hop.verb /\ hop'.man = hop.man
      /\ hop'.own = hop.own /\ hop'.rel = hop.rel /\ hop'.restart = hop.restart \ {u}
      /\ hop'.moved = hop.moved
      /\ hop'.warned = hop.warned \/ hop'.warned
  BY <1>1, <1>2 DEF Runs
<1>6. hproc' \in [Units -> Links]
  BY <1>1, <1>2, <1>4
<1>7. hop.verb = "upgrade" /\ ~hop'.warned /\ hop.moved =>
        "server" \in hop'.restart \/ hproc'["server"] = hop.rel
  <2>1. CASE /\ hproc' = [hproc EXCEPT ![u] = Started(u)]
             /\ hop' = [hop EXCEPT !.restart = @ \ {u}]
    <3>1. hop'.warned = hop.warned
      BY <1>1, <2>1 DEF Runs
    <3>2. u = "server" => hproc'["server"] = hdisk.link
      BY <1>1, <1>2, <2>1 DEF Started
    <3>3. u # "server" => hproc'["server"] = hproc["server"]
      BY <1>1, <2>1
    <3> QED
      BY <1>5, <3>1, <3>2, <3>3 DEF HostInv, BounceOK
  <2>2. CASE hop' = [hop EXCEPT !.restart = @ \ {u}, !.warned = TRUE]
    <3>1. hop'.warned
      BY <1>1, <2>2 DEF Runs
    <3> QED
      BY <3>1
  <2> QED
    BY <2>1, <2>2
<1>8. HostTyped' /\ ManOK'
  BY <1>1, <1>3, <1>5, <1>6 DEF HostInv, HostTyped, ManOK
<1>9. PinnedOK' /\ OwnedOK'
  BY <1>5 DEF HostInv, PinnedOK, OwnedOK, LoadOwnership, BounceOK
<1>10. BounceOK'
  BY <1>5, <1>7 DEF HostInv, BounceOK
<1> QED
  BY <1>8, <1>9, <1>10 DEF HostInv

(* `uninstall`: what is removed is what the record says was placed.        *)
LEMMA UninstallStep ==
  ASSUME HostInv,
         (\E purge \in BOOLEAN : Uninstall(purge)) \/ RemoveComponents \/ RemoveOpt
           \/ RemoveConfig \/ PurgeState
  PROVE  HostInv'
<1>1. hop \in Runs /\ hdisk \in HostDisks /\ hused \in HostUses /\ hcache \in Caches
      /\ hbin \in [Comps -> Binaries]
  BY DEF HostInv, HostTyped
<1>2. "uninstall" \in Verbs /\ {"components", "opt", "state"} \subseteq VerbSteps /\ 0 \in Links
      /\ "config" \in VerbSteps
  BY HostValues
<1>3. ASSUME NEW purge \in BOOLEAN, Uninstall(purge)
      PROVE  HostInv'
  <2>1. /\ hop' \in Runs /\ hop'.verb = "uninstall" /\ hop'.at = "components" /\ hop'.own = Nothing
    BY <1>2, <1>3, HostBlank DEF Uninstall, Runs
  <2>0. /\ hused' = [hused EXCEPT !.verbs = @ + 1] /\ hproc' = [u \in Units |-> 0]
        /\ hdisk' = [hdisk EXCEPT !.text = 0]
    BY <1>3 DEF Uninstall
  <2>2. hused' \in HostUses
    BY <1>1, <2>0 DEF HostUses
  <2>3. hdisk' \in HostDisks /\ hproc' \in [Units -> Links]
    <3>1. hdisk' \in HostDisks
      BY <1>1, <2>0 DEF HostDisks
    <3> QED
      BY <1>2, <2>0, <3>1
  <2>4. UNCHANGED <<hfile, hsig, hcache, hbin>>
    BY <1>3 DEF Uninstall
  <2>5. HostTyped' /\ ManOK'
    BY <2>1, <2>2, <2>3, <2>4 DEF HostInv, HostTyped, ManOK
  <2>6. PinnedOK' /\ OwnedOK' /\ BounceOK'
    BY <2>1, <2>4, HostBlank DEF HostInv, PinnedOK, OwnedOK, BounceOK, LoadOwnership
  <2> QED
    BY <2>5, <2>6 DEF HostInv
<1>4. CASE RemoveComponents
  <2>1. /\ hop.at = "components" /\ UNCHANGED <<hfile, hsig, hdisk, hproc>>
        /\ hop' = [hop EXCEPT !.at = "opt"] /\ hused' \in HostUses
    BY <1>1, <1>4, FaultCounted DEF RemoveComponents
  <2>2. PICK stuck \in SUBSET Removable :
          hbin' = [c \in Comps |-> IF c \in Removable \ stuck THEN NoBin ELSE hbin[c]]
    BY <1>4 DEF RemoveComponents
  <2>3. hcache' \in Caches
    BY <1>1, <1>4 DEF RemoveComponents, Caches
  <2>4. hbin' \in [Comps -> Binaries] /\ \A c \in Comps : hbin'[c] = hbin[c] \/ hbin'[c] = NoBin
    BY <1>1, <2>2, HostBlank
  <2>5. hop' \in Runs /\ hop'.at = "opt" /\ hop'.verb = hop.verb /\ hop'.own = hop.own
    BY <1>1, <1>2, <2>1 DEF Runs
  <2>6. hop.verb = "uninstall" /\ hop.own = Nothing
    BY <2>1 DEF HostInv, BounceOK, OwnedOK
  <2>7. HostTyped' /\ ManOK'
    BY <2>1, <2>3, <2>4, <2>5, <2>6 DEF HostInv, HostTyped, ManOK
  <2>8. PinnedOK' /\ BounceOK'
    BY <2>1, <2>4, <2>5, <2>6, HostBlank DEF HostInv, PinnedOK, BounceOK
  <2>9. OwnedOK'
    BY <2>1, <2>4, <2>5, <2>6, HostBlank DEF HostInv, OwnedOK, LoadOwnership
  <2> QED
    BY <2>7, <2>8, <2>9 DEF HostInv
<1>5. ASSUME NEW at \in {"config", "state"}, hop' = [hop EXCEPT !.at = at],
             hdisk' \in HostDisks, hfile' = hfile \/ hfile' = NoFile,
             hop.verb = "uninstall", UNCHANGED <<hcache, hbin, hproc, hused>>
      PROVE  HostInv'
  <2>1. hop' \in Runs /\ hop'.at = at /\ hop'.verb = "uninstall" /\ hop'.own = hop.own
    BY <1>1, <1>2, <1>5 DEF Runs
  <2>2. hfile' \in Files /\ (hfile'.kind = "rev" => hfile'.rev \in Revisions)
    BY <1>5, HostBlank DEF HostInv, HostTyped, ManOK
  <2>3. \A c \in Comps : LoadOwnership'.own[c] = "placed" => LoadOwnership.own[c] = "placed"
    BY <1>5, HostBlank DEF LoadOwnership
  <2>4. HostTyped' /\ ManOK'
    BY <1>5, <2>1, <2>2 DEF HostInv, HostTyped, ManOK
  <2>5. PinnedOK' /\ OwnedOK' /\ BounceOK'
    BY <1>5, <2>1, <2>3 DEF HostInv, PinnedOK, OwnedOK, BounceOK
  <2> QED
    BY <2>4, <2>5 DEF HostInv
<1>6. CASE RemoveOpt
  <2>1. hdisk' \in HostDisks
    BY <1>1, <1>2, <1>6 DEF RemoveOpt, HostDisks
  <2> QED
    BY <1>5, <1>6, <2>1 DEF RemoveOpt, HostInv, BounceOK
<1>7. CASE RemoveConfig
  <2>1. hdisk' \in HostDisks
    BY <1>1, <1>2, <1>7 DEF RemoveConfig, HostDisks
  <2>2. /\ hfile' = NoFile /\ UNCHANGED <<hcache, hbin, hproc, hused>> /\ hop.verb = "uninstall"
    BY <1>7 DEF RemoveConfig, HostInv, BounceOK
  <2>3. CASE hop' = [hop EXCEPT !.at = "state"]
    BY <1>5, <2>1, <2>2, <2>3
  <2>4. CASE Ended
    <3>1. hfile' \in Files /\ hfile'.kind # "rev" /\ LoadOwnership' = NoFile
      BY <2>2, HostBlank DEF LoadOwnership, NoFile
    <3>2. \A c \in Comps : LoadOwnership'.own[c] # "placed"
      BY <3>1, HostBlank
    <3> QED
      BY <1>1, <2>1, <2>2, <2>4, <3>1, <3>2, EndedStep DEF HostInv, HostTyped
  <2> QED
    BY <1>7, <2>3, <2>4 DEF RemoveConfig
<1>8. CASE PurgeState
  <2>1. hdisk' \in HostDisks /\ hcache' \in Caches
    BY <1>1, <1>8 DEF PurgeState, HostDisks, Caches
  <2> QED
    BY <1>1, <1>8, <2>1, EndedStep DEF PurgeState, HostInv, HostTyped, ManOK, OwnedOK, LoadOwnership
<1> QED
  BY <1>3, <1>4, <1>6, <1>7, <1>8

(* A verb that is killed leaves what it wrote.                             *)
LEMMA KilledStep ==
  ASSUME HostInv, Killed
  PROVE  HostInv'
<1>1. /\ UNCHANGED <<hfile, hsig, hcache, hbin, hdisk>> /\ Ended /\ CountFault
      /\ hproc' \in {hproc, [u \in Units |-> IF hproc[u] = 0 THEN 0 ELSE Started(u)]}
  BY DEF Killed
<1>2. hproc' \in [Units -> Links]
  <2>1. hproc \in [Units -> Links] /\ hdisk.link \in Links /\ hdisk.image \in Links /\ 0 \in Links
    BY HostValues DEF HostInv, HostTyped, HostDisks
  <2> QED
    BY <1>1, <2>1 DEF Started
<1> QED
  BY <1>1, <1>2, FaultCounted, EndedStep DEF HostInv, HostTyped, ManOK, OwnedOK, LoadOwnership

(* The operator puts a binary of its own where there is none.              *)
LEMMA OperatorStep ==
  ASSUME HostInv, NEW c \in Comps, OperatorPlaces(c)
  PROVE  HostInv'
<1>1. /\ hop.at = "idle" /\ hbin[c].by = "nobody" /\ LoadOwnership.own[c] # "placed"
      /\ hbin' = [hbin EXCEPT ![c] = [by |-> "operator", good |-> TRUE]]
      /\ UNCHANGED <<hfile, hsig, hcache, hdisk, hproc, hop, hused>>
      /\ hbin \in [Comps -> Binaries]
  BY DEF OperatorPlaces, HostInv, HostTyped
<1>2. [by |-> "operator", good |-> TRUE] \in Binaries
  BY HostValues DEF Binaries
<1>3. /\ hbin' \in [Comps -> Binaries] /\ hbin'[c].by = "operator"
      /\ \A d \in Comps \ {c} : hbin'[d] = hbin[d]
  BY <1>1, <1>2
<1>4. HostTyped' /\ ManOK' /\ BounceOK'
  BY <1>1, <1>3 DEF HostInv, HostTyped, ManOK, BounceOK
<1>5. PinnedOK' /\ OwnedOK'
  BY <1>1, <1>3 DEF HostInv, PinnedOK, OwnedOK, LoadOwnership
<1> QED
  BY <1>4, <1>5 DEF HostInv

(* The empty host.                                                         *)
LEMMA HostStart == HostInit => HostInv
<1> SUFFICES ASSUME HostInit PROVE HostInv
  OBVIOUS
<1>1. /\ hfile = NoFile /\ hop = NoVerb /\ hbin = [c \in Comps |-> NoBin] /\ 0 \in Links
      /\ hcache = [n \in Names |-> "absent"] /\ hproc = [u \in Units |-> 0]
      /\ hdisk = [link |-> 0, conf |-> FALSE, db |-> FALSE, text |-> 0, image |-> 0]
      /\ hused = [verbs |-> 0, faults |-> 0]
  BY HostValues DEF HostInit
<1>2. hdisk \in HostDisks
  BY <1>1 DEF HostDisks
<1>3. hused \in HostUses
  BY <1>1 DEF HostUses
<1>4. hcache \in Caches
  BY <1>1 DEF Caches
<1>5. hbin \in [Comps -> Binaries] /\ \A c \in Comps : hbin[c] = NoBin
  BY <1>1, HostBlank
<1>6. hproc \in [Units -> Links]
  BY <1>1
<1>7. HostTyped /\ ManOK
  BY <1>1, <1>2, <1>3, <1>4, <1>5, <1>6, HostBlank DEF HostTyped, ManOK
<1>8. PinnedOK /\ OwnedOK /\ BounceOK
  BY <1>1, <1>5, HostBlank DEF PinnedOK, OwnedOK, BounceOK, LoadOwnership
<1> QED
  BY <1>7, <1>8 DEF HostInv

(* Every step keeps it.                                                    *)
LEMMA HostStep ==
  ASSUME HostInv, [HostNext]_hostVars
  PROVE  HostInv'
<1>1. CASE UNCHANGED hostVars
  BY <1>1 DEF hostVars, HostInv, HostTyped, ManOK, PinnedOK, OwnedOK, BounceOK, LoadOwnership
<1>2. CASE \E rel \in Releases :
             \/ ComponentsFetch(rel) \/ InstallSh(rel) \/ ServerInstall(rel) \/ Upgrade(rel)
             \/ \E rev \in Revisions : ComponentsApply(rel, rev) \/ BundleOpen(rel, rev)
  <2>1. ASSUME NEW rel \in Releases, ComponentsFetch(rel) \/ ServerInstall(rel) PROVE HostInv'
    <3>1. rel \in Revisions
      BY HostAssumption
    <3> QED
      BY <2>1, <3>1, BeginStep
  <2> QED
    BY <1>2, <2>1, BeginStep, InstallStep, UpgradeStarts
<1>3. CASE RestartUnit \/ RestartUnitFails
  BY <1>3, RestartStep DEF RestartUnit, RestartUnitFails
<1>4. CASE StartDone
  BY <1>4, EndedStep DEF StartDone, HostInv, HostTyped, ManOK, OwnedOK, LoadOwnership
<1>5. CASE WriteSignature \/ WriteDocument \/ FetchOne \/ FetchFails \/ FetchDone \/ Extract \/ Check
             \/ OpenDone \/ InstallConfig \/ WriteUnits
  BY <1>5, ApplyStep, FetchOneStep, FetchEndsStep, BundleStep, InstallStep
<1>6. CASE PlaceBinary \/ PlaceFails \/ PlaceDone \/ WritePlaneImage
  BY <1>6, PlaceBinaryStep, PlaceEndsStep, ImageStep
<1>7. CASE \/ \E purge \in BOOLEAN : Uninstall(purge)
           \/ RemoveComponents \/ RemoveOpt \/ RemoveConfig \/ PurgeState
           \/ Killed \/ \E c \in Comps : OperatorPlaces(c)
  BY <1>7, UninstallStep, KilledStep, OperatorStep
<1> QED
  BY <1>1, <1>2, <1>3, <1>4, <1>5, <1>6, <1>7 DEF HostNext

(* Only a copy, a removal and the operator touch the binaries.             *)
LEMMA TheirsKept ==
  ASSUME HostInv, HostNext, NEW c \in Comps, hbin[c].by = "operator"
  PROVE  hbin'[c] = hbin[c]
<1>1. hbin \in [Comps -> Binaries] /\ hop.todo \in SUBSET Comps
  BY DEF HostInv, HostTyped, Runs
<1>2. CASE PlaceBinary
  <2>1. hop.todo # {}
    BY <1>2 DEF PlaceBinary
  <2>2. Min(hop.todo) \in Comps
    BY <1>1, <2>1, MinComp
  <2> QED
    BY <1>1, <1>2, <2>2 DEF PlaceBinary, placeComponent
<1>3. CASE RemoveComponents
  <2>1. c \notin Removable
    BY DEF Removable, HostInv, OwnedOK
  <2> QED
    BY <1>3, <2>1 DEF RemoveComponents
<1>4. ASSUME NEW d \in Comps, OperatorPlaces(d) PROVE hbin'[c] = hbin[c]
  BY <1>1, <1>4 DEF OperatorPlaces
<1>5. CASE hbin' = hbin
  BY <1>5
<1>6. PlaceBinary \/ RemoveComponents \/ (\E d \in Comps : OperatorPlaces(d)) \/ hbin' = hbin
  BY DEF HostNext, ComponentsFetch, InstallSh, ServerInstall, Upgrade, ComponentsApply, BundleOpen,
     WriteSignature, WriteDocument, FetchOne, FetchFails, FetchDone, Extract, Check, OpenDone,
     InstallConfig, WriteUnits, PlaceFails, PlaceDone, WritePlaneImage, RestartUnit,
     RestartUnitFails, StartDone, Uninstall, RemoveOpt, RemoveConfig, PurgeState, Killed
<1> QED
  BY <1>2, <1>3, <1>4, <1>5, <1>6

(* The verbs are safe (the run's VerbsAreSafe), for any number of          *)
(* components, releases, revisions, verbs and faults: what nodary placed   *)
(* is what a manifest pins, what the operator placed is never touched, and *)
(* an upgrade that moved restarts what it moved (fetchOne, PlaceComponents,*)
(* removeComponents, applyUpgrade).                                        *)
THEOREM VerbsKeepHost == HostSpec => VerbsAreSafe
<1>1. HostSpec => []HostInv
  BY HostStart, HostStep, PTL DEF HostSpec
<1>2. HostInv => PlacedIsPinned
  BY DEF HostInv, PinnedOK, PlacedIsPinned
<1> DEFINE Intact == \A c \in Comps : hbin[c].by = "operator" => hbin'[c] = hbin[c]
           Bounced ==
             hop.verb = "upgrade" /\ hop.at = "start" /\ hop'.at = "idle" /\ hused' = hused
               /\ hop.moved /\ ~hop.warned
             => hproc["server"] = hop.rel /\ hdisk.link = hop.rel
<1>3. ASSUME HostInv, [HostNext]_hostVars PROVE Intact
  <2>1. CASE HostNext
    BY <1>3, <2>1, TheirsKept
  <2>2. CASE UNCHANGED hostVars
    BY <2>2 DEF hostVars
  <2> QED
    BY <1>3, <2>1, <2>2
<1>4. ASSUME HostInv, [HostNext]_hostVars PROVE Bounced
  <2> SUFFICES ASSUME hop.verb = "upgrade", hop.at = "start", hop'.at = "idle", hused' = hused,
                      hop.moved, ~hop.warned
               PROVE  hproc["server"] = hop.rel /\ hdisk.link = hop.rel
    OBVIOUS
  <2>1. hop.restart = {}
    <3>1. HostNext
      BY <1>4 DEF hostVars
    <3>2. StartDone \/ Killed \/ RestartUnit \/ RestartUnitFails
      BY <3>1 DEF HostNext, ComponentsFetch, InstallSh, ServerInstall, Upgrade, ComponentsApply,
         BundleOpen, Begin, WriteSignature, WriteDocument, FetchOne, FetchFails, FetchDone, Extract,
         Check, OpenDone, InstallConfig, WriteUnits, PlaceBinary, PlaceFails, PlaceDone,
         WritePlaneImage, Uninstall, RemoveComponents, RemoveOpt, RemoveConfig, PurgeState,
         OperatorPlaces
    <3>3. ~Killed
      BY <1>4, FaultCounted DEF Killed
    <3>4. ~RestartUnit /\ ~RestartUnitFails
      <4>1. hop \in Runs
        BY <1>4 DEF HostInv, HostTyped
      <4> QED
        BY <4>1 DEF RestartUnit, RestartUnitFails, Runs
    <3> QED
      BY <3>2, <3>3, <3>4 DEF StartDone
  <2> QED
    BY <1>4, <2>1 DEF HostInv, BounceOK
<1> HIDE DEF Intact, Bounced
<1>5. HostInv /\ [HostNext]_hostVars => [Intact /\ Bounced]_hostVars
  BY <1>3, <1>4
<1>6. HostSpec => [][Intact]_hostVars /\ [][Bounced]_hostVars
  BY <1>1, <1>5, PTL DEF HostSpec
<1> USE DEF Intact, Bounced
<1>7. HostSpec => TheirsUntouched
  BY <1>6 DEF TheirsUntouched
<1>8. HostSpec => UpgradeBouncesMoved
  BY <1>6 DEF UpgradeBouncesMoved
<1>9. HostSpec => []PlacedIsPinned
  BY <1>1, <1>2, PTL
<1> QED
  BY <1>7, <1>8, <1>9 DEF VerbsAreSafe
=============================================================================

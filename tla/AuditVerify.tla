---------------------------- MODULE AuditVerify ----------------------------
(***************************************************************************)
(* `nodary audit verify` (internal/cli/audit.go over                       *)
(* internal/audit/verify.go) run beside the log it reads: the database is  *)
(* appended to, delivered to the mirror, pruned and exported from, and     *)
(* what is on disk may have been damaged.  verify's walk is a machine that *)
(* pulls lines into a window of pending records and takes them out in      *)
(* sequence; the reference it is held to is Intact, a definition over the  *)
(* whole sequence of lines.                                                *)
(*                                                                         *)
(* Data abstraction.  A hash is a pair: <<n, 0>> for the record the log    *)
(* itself wrote at sequence n, <<n, k>> for one of a table rewritten from  *)
(* k on, <<n, -1>> for one of another installation; <<0, 0>> is genesis.   *)
(* true says whether the record's content hashes to the hash it carries    *)
(* (Record.Compute).  A line ParseLine refuses is Unreadable.              *)
(***************************************************************************)
EXTENDS Integers, Sequences, FiniteSets

CONSTANTS
  ReorderWindow,  \* reorderWindow
  MaxSeq,         \* bound: records committed
  MaxLines,       \* bound: lines of the mirror
  MaxDamage       \* bound: damages

ASSUME AuditVerifyAssumption ==
  /\ ReorderWindow \in Nat \ {0} /\ MaxSeq \in Nat /\ MaxLines \in Nat
  /\ MaxDamage \in Nat

VARIABLES
  vrows,    \* the audit table, by sequence number
  vcut,     \* installation.pruned_through_seq and _hash, as a sequence number
  vtip,     \* the last sequence number ever committed
  vfile,    \* the lines of the mirror
  vcmd,     \* the command: its step, flags, results so far
  vwalk,    \* verify's locals
  vdamage   \* the damages done, and how the log moved since the command began

verifyVars == <<vrows, vcut, vtip, vfile, vcmd, vwalk, vdamage>>

Own(n) == <<n, 0>>
RewrittenHash(n, k) == IF n < k THEN Own(n) ELSE <<n, k>>
ForeignHash(n) == IF n = 0 THEN Own(0) ELSE <<n, -1>>

Line(n, h, p, true) ==
  [seq |-> n, hash |-> h, prev |-> p, true |-> true,
   install |-> IF h[2] = -1 THEN "b" ELSE "a"]
Genuine(n) == Line(n, Own(n), Own(n - 1), TRUE)
Altered(n) == Line(n, Own(n), Own(n - 1), FALSE)
Rewritten(n, k) == Line(n, RewrittenHash(n, k), RewrittenHash(n - 1, k), TRUE)
Alien(n) == Line(n, ForeignHash(n), ForeignHash(n - 1), TRUE)
Unreadable == Line(0, Own(0), Own(0), FALSE)

RangeOf(s) == {s[i] : i \in DOMAIN s}
SeqsOf(S) == {r.seq : r \in S}
LowestOf(S) == CHOOSE r \in S : \A q \in S : r.seq <= q.seq

Stopped == [at |-> "idle", mirror |-> FALSE, db |-> FALSE, anchor |-> -1,
            chain |-> "none", file |-> "none", cmp |-> "none", snap |-> {}]
Fresh(src, genesis, anchor) ==
  [src |-> src, genesis |-> genesis, anchor |-> anchor, pos |-> 0,
   pending |-> {}, prev |-> Genuine(0), next |-> 0, started |-> FALSE,
   bad |-> FALSE, paused |-> FALSE, eof |-> FALSE, verdict |-> "none", first |-> Genuine(0),
   fragment |-> FALSE]

VerifyTypeOK ==
  /\ \A r \in vrows : r.seq \in 1..MaxSeq
  /\ vcut \in 0..vtip /\ vtip \in 0..MaxSeq
  /\ Len(vfile) <= MaxLines
  /\ Cardinality(vwalk.pending) <= ReorderWindow
  /\ \A r, q \in vwalk.pending : r.seq = q.seq => r = q

-----------------------------------------------------------------------------
(* The log, and what may happen to it.                                     *)

Idle == vcmd.at = "idle"
Moved == vdamage' = [vdamage EXCEPT !.still = FALSE]

(* Act commits the next record (module AuditLog).                          *)
Commit ==
  /\ vtip < MaxSeq
  /\ vdamage.done = 0
  /\ vtip' = vtip + 1
  /\ vrows' = vrows \cup {Genuine(vtip + 1)}
  /\ Moved
  /\ UNCHANGED <<vcut, vfile, vcmd, vwalk>>

(* Delivery after the commit: several processes append, in any order.      *)
Deliver(n) ==
  /\ Len(vfile) < MaxLines
  /\ n \in 1..vtip
  /\ n \notin SeqsOf(RangeOf(vfile))
  /\ vdamage.done = 0
  /\ vfile' = Append(vfile, Genuine(n))
  /\ Moved
  /\ UNCHANGED <<vrows, vcut, vtip, vcmd, vwalk>>

(* The retention prune: rows through n go and the anchor says so.          *)
Prune(n) ==
  /\ n \in (vcut + 1)..(vtip - 1)
  /\ vdamage.done = 0
  /\ vrows' = {r \in vrows : r.seq > n}
  /\ vcut' = n
  /\ vdamage' = [vdamage EXCEPT !.still = FALSE, !.pruned = TRUE]
  /\ UNCHANGED <<vtip, vfile, vcmd, vwalk>>

(* Rows of the table in ascending order: ORDER BY seq.                     *)
Ordered(S) ==
  [i \in 1..Cardinality(S) |->
     CHOOSE r \in S : Cardinality({q \in S : q.seq < r.seq}) = i - 1]

(* audit export --from-seq n --format jsonl, appended to a destination     *)
(* that fell behind: exportOrder's ascending, unlimited Walk.              *)
Export(n) ==
  LET rows == Ordered({r \in vrows : r.seq >= n}) IN
  /\ Idle
  /\ rows /= <<>>
  /\ Len(vfile) + Len(rows) <= MaxLines
  /\ vfile' = vfile \o rows
  /\ Moved
  /\ UNCHANGED <<vrows, vcut, vtip, vcmd, vwalk>>

Damaged == Idle /\ vdamage.done < MaxDamage
           /\ vdamage' = [vdamage EXCEPT !.still = FALSE, !.done = @ + 1]

(* A line of the file is replaced, torn, or lost.                          *)
DamageFile(i, r) ==
  /\ Damaged
  /\ vfile' = [vfile EXCEPT ![i] = r]
  /\ UNCHANGED <<vrows, vcut, vtip, vcmd, vwalk>>

LoseLine(i) ==
  /\ Damaged
  /\ vfile' = SubSeq(vfile, 1, i - 1) \o SubSeq(vfile, i + 1, Len(vfile))
  /\ UNCHANGED <<vrows, vcut, vtip, vcmd, vwalk>>

(* A row is altered or deleted, or the table is rewritten from k on with   *)
(* every hash recomputed.                                                  *)
DamageRows(k, S) ==
  /\ Damaged
  /\ vrows' = {r \in vrows : r.seq < k} \cup S
  /\ UNCHANGED <<vcut, vtip, vfile, vcmd, vwalk>>

RowDamages(k) ==
  LET after == {r \in vrows : r.seq > k} IN
  {after, after \cup {Altered(k)}, {Rewritten(n, k) : n \in k..vtip}, {}}

-----------------------------------------------------------------------------
(* verify.                                                                 *)

Walk(w) == vwalk' = w
Broken(w, kind) == [w EXCEPT !.verdict = kind]

(* sameRecord: the second record of a sequence number is a redelivery only *)
(* if it hashes to what it carries and carries the same hash.              *)
sameRecord(held, r) ==
  IF ~r.true THEN "altered" ELSE IF held.hash = r.hash THEN "same" ELSE "out of order"

(* Mutant: whatever is behind the walk is a late duplicate.                *)
LateDropped(w, r) == w

(* fill: a line behind the walk is the record just taken again, or it is   *)
(* out of order.                                                           *)
LateLine(w, r) ==
  LET same == IF r.seq = w.prev.seq THEN sameRecord(w.prev, r) ELSE "out of order"
  IN  IF same = "same" THEN w ELSE Broken(w, same)

(* Mutant: a repeated sequence number is skipped unread.                   *)
fillSkipsRepeats(w, r) ==
  IF r.seq \in SeqsOf(w.pending) THEN w
  ELSE IF w.started /\ r.seq < w.next THEN LateLine(w, r)
  ELSE [w EXCEPT !.pending = @ \cup {r}]

(* One turn of fill for a line read.                                       *)
fill(w, r) ==
  IF r.seq \in SeqsOf(w.pending)
  THEN LET held == CHOOSE q \in w.pending : q.seq = r.seq
           same == IF held.install /= r.install THEN "mixed" ELSE sameRecord(held, r)
       IN  IF same = "same" THEN w ELSE Broken(w, same)
  ELSE IF w.started /\ r.seq < w.next THEN LateLine(w, r)
  ELSE [w EXCEPT !.pending = @ \cup {r}]

(* ParseLine: exactly the fields of a record, each of its type, or refused.*)
ParseLine(r) == r /= Unreadable

(* readerRecords: a line is a record, or it is the error the walk reports  *)
(* when it runs out of records; it ends this fill, and the next goes on.   *)
readerRecords(w, r) ==
  IF ParseLine(r) THEN fill(w, r) ELSE [w EXCEPT !.bad = TRUE, !.paused = TRUE]

Source == IF vwalk.src = "rows" THEN Ordered(vcmd.snap) ELSE vfile

(* fill goes on until the source ends or fails, or the window is full.     *)
Filled(w) == w.eof \/ w.paused \/ Cardinality(w.pending) = ReorderWindow

Pull ==
  LET w == [vwalk EXCEPT !.pos = @ + 1]
  IN  IF vwalk.pos = Len(Source) THEN Walk([vwalk EXCEPT !.eof = TRUE])
      ELSE Walk(readerRecords(w, Source[w.pos]))

(* After the first fill: where the chain starts, and what it must follow.  *)
startAt(w) ==
  LET first == LowestOf(w.pending)
      go == [w EXCEPT !.started = TRUE, !.next = first.seq, !.first = first,
                      !.fragment = first.seq /= 1]
  IN  IF w.pending = {} THEN [w EXCEPT !.verdict = IF w.bad THEN "unreadable" ELSE "ok"]
      ELSE IF w.anchor >= 0
           THEN IF first.seq = w.anchor + 1 /\ first.prev = Own(w.anchor) THEN go
                ELSE Broken(w, "not anchored")
      ELSE IF first.seq = 1 \/ w.genesis
           THEN IF first.seq = 1 /\ first.prev = Own(0) THEN go ELSE Broken(w, "not genesis")
      ELSE go

(* Mutant: the walk does not stop at what is missing.                      *)
takeNextOver(w) ==
  LET r == LowestOf(w.pending) IN
  IF w.pending = {} THEN [w EXCEPT !.verdict = IF w.bad THEN "unreadable" ELSE "ok"]
  ELSE IF ~r.true THEN Broken(w, "altered")
  ELSE [w EXCEPT !.paused = FALSE, !.pending = @ \ {r}, !.prev = r, !.next = r.seq + 1]

(* The loop's body: the next sequence number is taken out and checked.     *)
takeNext(w) ==
  LET r == CHOOSE q \in w.pending : q.seq = w.next
      firstTaken == w.next = w.first.seq
  IN  IF w.next \notin SeqsOf(w.pending)
      THEN [w EXCEPT !.verdict =
              IF w.bad THEN "unreadable" ELSE IF w.pending /= {} THEN "gap" ELSE "ok"]
      ELSE IF ~firstTaken /\ r.install /= w.prev.install THEN Broken(w, "mixed")
      ELSE IF ~firstTaken /\ r.prev /= w.prev.hash THEN Broken(w, "broken")
      ELSE IF ~r.true THEN Broken(w, "altered")
      ELSE [w EXCEPT !.paused = FALSE, !.pending = @ \ {r}, !.prev = r, !.next = @ + 1]

verify ==
  /\ vcmd.at \in {"chain", "file"}
  /\ vwalk.verdict = "none"
  /\ IF ~Filled(vwalk) THEN Pull
     ELSE IF ~vwalk.started THEN Walk(startAt(vwalk))
     ELSE Walk(takeNext(vwalk))
  /\ UNCHANGED <<vrows, vcut, vtip, vfile, vcmd, vdamage>>

-----------------------------------------------------------------------------
(* The command.                                                            *)

(* Mutant: an empty table is an empty chain.                               *)
ChainVerdictPlain == vwalk.verdict

(* emptyChainIsGenuine: no record, and an installation was minted.         *)
ChainVerdict ==
  IF vwalk.verdict = "ok" /\ vcmd.snap = {} /\ vtip > 0 THEN "gap" ELSE vwalk.verdict

BeginFile(c) ==
  /\ vcmd' = [c EXCEPT !.at = "file"]
  /\ vwalk' = Fresh("file", FALSE, c.anchor)

Finish(c) == vcmd' = [c EXCEPT !.at = "done"] /\ UNCHANGED vwalk

(* cmdAuditVerify: --mirror or not, a database or not (with a mirror, its  *)
(* absence is no error), an anchor only for a mirror.  VerifyDB reads the  *)
(* anchor, then the rows, from genesis unless a prune recorded a cut.      *)
cmdAuditVerify(mirror, withDB, anchor) ==
  /\ Idle
  /\ mirror \/ (withDB /\ anchor = -1)
  /\ vdamage' = [vdamage EXCEPT !.still = TRUE]
  /\ LET c == [Stopped EXCEPT !.mirror = mirror, !.db = withDB, !.anchor = anchor,
                              !.snap = vrows]
     IN  IF withDB
         THEN /\ vcmd' = [c EXCEPT !.at = "chain"]
              /\ vwalk' = IF vcut = 0 THEN Fresh("rows", TRUE, -1)
                          ELSE Fresh("rows", FALSE, vcut)
         ELSE BeginFile(c)
  /\ UNCHANGED <<vrows, vcut, vtip, vfile>>

ChainDone ==
  /\ vcmd.at = "chain"
  /\ vwalk.verdict /= "none"
  /\ LET c == [vcmd EXCEPT !.chain = ChainVerdict]
     IN  IF c.mirror THEN BeginFile(c) ELSE Finish(c)
  /\ UNCHANGED <<vrows, vcut, vtip, vfile, vdamage>>

(* VerifyMirror: a fragment is joined to the record before it if the       *)
(* database still holds that record.                                       *)
VerifyMirror(w) ==
  LET before == {r \in vrows : r.seq = w.first.seq - 1} IN
  IF w.verdict = "ok" /\ w.fragment /\ vcmd.db /\ vcmd.anchor = -1
     /\ \E r \in before : r.hash /= w.first.prev
  THEN "not anchored" ELSE w.verdict

(* The rows are queried for Compare before the file is opened again.       *)
FileDone ==
  /\ vcmd.at = "file"
  /\ vwalk.verdict /= "none"
  /\ LET c == [vcmd EXCEPT !.file = VerifyMirror(vwalk)]
     IN  IF c.db /\ c.file = "ok"
         THEN vcmd' = [c EXCEPT !.at = "compare", !.snap = vrows] /\ UNCHANGED vwalk
         ELSE Finish(c)
  /\ UNCHANGED <<vrows, vcut, vtip, vfile, vdamage>>

(* bySequence: what comes out of the window in order; a line further back  *)
(* is skipped by the caller.                                               *)
bySequence(lines) ==
  {lines[i] : i \in {j \in DOMAIN lines :
     Cardinality({lines[k].seq : k \in {m \in 1..(j - 1) : lines[m].seq > lines[j].seq}})
       < ReorderWindow}}

(* Mutant: only how much each side holds is compared.                      *)
CompareCounts(rows, lines) ==
  IF SeqsOf(lines) \ SeqsOf(rows) /= {} THEN "ahead" ELSE "ok"

(* Mutant: a mirror that trails the database is not its pair.              *)
CompareStrict(rows, lines) ==
  IF SeqsOf(lines) = SeqsOf(rows) THEN "ok" ELSE "behind"

(* Compare, and Assessment.OK of it: behind is ordinary.                   *)
Compare(rows, lines) ==
  IF rows /= {} /\ \E r \in lines, q \in rows : r.install /= q.install THEN "installs"
  ELSE IF \E r \in lines, q \in rows : r.seq = q.seq /\ r.hash /= q.hash THEN "diverged"
  ELSE IF SeqsOf(lines) \subseteq SeqsOf(rows) THEN "ok" ELSE "ahead"

CompareDone ==
  /\ vcmd.at = "compare"
  /\ vcmd' = [vcmd EXCEPT !.at = "done",
                          !.cmp = Compare(vcmd.snap, bySequence(vfile))]
  /\ UNCHANGED <<vrows, vcut, vtip, vfile, vwalk, vdamage>>

(* Assessment.OK: the exit code.                                           *)
AssessmentOK == {vcmd.chain, vcmd.file, vcmd.cmp} \subseteq {"none", "ok"}

Exit ==
  /\ vcmd.at = "done"
  /\ vcmd' = Stopped
  /\ vwalk' = Fresh("rows", FALSE, -1)
  /\ UNCHANGED <<vrows, vcut, vtip, vfile, vdamage>>

-----------------------------------------------------------------------------
VerifyInit ==
  /\ vrows = {} /\ vcut = 0 /\ vtip = 0 /\ vfile = <<>>
  /\ vcmd = Stopped
  /\ vwalk = Fresh("rows", FALSE, -1)
  /\ vdamage = [done |-> 0, still |-> FALSE, pruned |-> FALSE]

VerifyNext ==
  \/ Commit
  \/ \E n \in 1..MaxSeq : Deliver(n) \/ Prune(n) \/ Export(n)
  \/ \E i \in DOMAIN vfile :
       \/ \E r \in {Unreadable} \cup {Altered(n) : n \in 1..vtip}
                   \cup {Alien(n) : n \in 1..vtip} \cup {Rewritten(n, n) : n \in 1..vtip} :
            DamageFile(i, r)
       \/ LoseLine(i)
  \/ \E k \in 1..vtip : \E S \in RowDamages(k) : DamageRows(k, S)
  \/ \E m, d \in BOOLEAN, a \in (-1)..MaxSeq : cmdAuditVerify(m, d, a)
  \/ verify \/ ChainDone \/ FileDone \/ CompareDone \/ Exit

VerifySpec == VerifyInit /\ [][VerifyNext]_verifyVars

-----------------------------------------------------------------------------
(* What the walk promises of the lines it read.                            *)

(* One chain: each record hashes to what it carries, follows the one       *)
(* before it in sequence and by hash, and all are of one installation.     *)
OneChain(S) ==
  /\ \A r \in S : r.true /\ r /= Unreadable
  /\ \A r, q \in S : r.seq = q.seq => r = q
  /\ \A r, q \in S : r.install = q.install
  /\ \A r \in S : \/ \A q \in S : r.seq <= q.seq
                  \/ \E q \in S : r.seq = q.seq + 1 /\ r.prev = q.hash

(* No line comes after ReorderWindow records of higher sequence numbers.   *)
InWindow(lines) ==
  \A j \in DOMAIN lines :
    Cardinality({lines[k].seq : k \in {m \in 1..(j - 1) : lines[m].seq > lines[j].seq}})
      < ReorderWindow

StartsRight(S, genesis, anchor) ==
  S /= {} => LET f == LowestOf(S) IN
    IF anchor >= 0 THEN f.seq = anchor + 1 /\ f.prev = Own(anchor)
    ELSE (f.seq = 1 \/ genesis) => (f.seq = 1 /\ f.prev = Own(0))

Intact(lines, genesis, anchor) ==
  LET S == RangeOf(lines) IN
  OneChain(S) /\ InWindow(lines) /\ StartsRight(S, genesis, anchor)

(* verify accepts exactly the files and tables that hold one intact chain, *)
(* starting where it must, with no line displaced further than the window: *)
(* however the lines were interleaved or repeated, and whatever of them    *)
(* was altered, lost, torn, rewritten or taken from another installation.  *)
VerdictIsIntact ==
  (vcmd.at \in {"chain", "file"} /\ vwalk.verdict /= "none") =>
    LET read == SubSeq(Source, 1, vwalk.pos) IN
    (vwalk.verdict = "ok") = Intact(read, vwalk.genesis, vwalk.anchor)

(* A record that was delivered and rewritten in the database afterwards is *)
(* never reported as verified beside that mirror, even when every hash of  *)
(* the database was recomputed.                                            *)
RewriteShows ==
  (vcmd.at = "done" /\ vcmd.db /\ vcmd.mirror /\ AssessmentOK) =>
    \A r \in vcmd.snap : \A i \in DOMAIN vfile :
      vfile[i].seq = r.seq => vfile[i].hash = r.hash

(* The database alone: records that were deleted, other than the newest,   *)
(* always show, a prune's own cut excepted.                                *)
DeletionShows ==
  (vcmd.at = "done" /\ vcmd.chain = "ok" /\ vdamage.still) =>
    SeqsOf(vrows) = {n \in (vcut + 1)..vtip : \E r \in vrows : r.seq >= n}
    /\ (vtip > 0 => vrows /= {})

(* An installation nobody touched, whose mirror holds a gapless run, and   *)
(* whose database was never pruned, verifies if it stands still.           *)
HealthyVerifies ==
  (/\ vcmd.at = "done" /\ vdamage.still /\ vdamage.done = 0 /\ ~vdamage.pruned
   /\ vcmd.anchor = -1 /\ InWindow(vfile)
   /\ \A n \in 1..vtip : (\E i \in DOMAIN vfile : vfile[i].seq > n) =>
        (\E i \in DOMAIN vfile : vfile[i].seq = n)) => AssessmentOK

(* What `audit verify` prints of an installation is true of it: rewritten  *)
(* and deleted records show, and an untouched one passes.                  *)
AssessmentIsTrue == RewriteShows /\ DeletionShows /\ HealthyVerifies

(* The mirror keeps proving what the pruned range said: an untouched,      *)
(* pruned installation with its whole mirror verifies.                     *)
PrunedVerifies ==
  (/\ vcmd.at = "done" /\ vdamage.still /\ vdamage.done = 0
   /\ vcmd.anchor = -1 /\ InWindow(vfile)
   /\ SeqsOf(RangeOf(vfile)) = 1..vtip) => AssessmentOK
=============================================================================

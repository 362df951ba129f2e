----------------------------- MODULE Versioned -----------------------------
(***************************************************************************)
(* What the configuration promises its readers: a value and the history of *)
(* every value it has had.  A change appends what it leaves behind; the    *)
(* only thing that moves without a revision is a node joining, which       *)
(* nothing but its own certificate decides (internal/api/enroll.go).       *)
(***************************************************************************)
EXTENDS Sequences

VARIABLES
  value,    \* what config.Read returns
  history   \* the snapshots of table revision, in the order of seq

(* A change of the configuration: one revision, holding the new value.     *)
Commit == history' = Append(history, value')

(* A host enrolls: its row is added, and every other object stays.         *)
Join ==
  /\ history' = history
  /\ \E n \in DOMAIN value.nodes :
        /\ value.nodes[n] = "none"
        /\ value' = [value EXCEPT !.nodes[n] = "pending"]

VersionedNext == Commit \/ Join
VersionedSpec ==
  /\ history # <<>> /\ value = history[Len(history)]
  /\ [][VersionedNext]_<<value, history>>
=============================================================================

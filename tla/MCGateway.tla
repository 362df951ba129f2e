------------------------------ MODULE MCGateway ------------------------------
(* Instances of Gateway for TLC.                                           *)
EXTENDS Gateway, TLC

Symmetry == Permutations(Requests)

Roles == [u \in Users |-> "member"]

(* alice has a tighter ceiling of her own under a global one, which a      *)
(* second table takes away while requests are in flight.  Everybody's role *)
(* has one request a minute, and three tokens a minute are shared by all.  *)
Shared == {Row("member", 1, 0, 0, 0), Row("global", 3, 3, 0, 2)}
Mixed == { Shared, Shared \cup {Row("alice", 0, 0, 0, 1)} }
OwnUnderGlobal == { {Row("alice", 0, 0, 0, 1), Row("global", 0, 0, 0, 2)} }

(* A budget of two tokens a day, one request at a time.                    *)
Budget == { {Row("alice", 0, 0, 2, 1)} }
=============================================================================

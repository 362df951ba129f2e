----------------------------- MODULE MCCeremony -----------------------------
(* Instances of Ceremony for TLC.                                          *)
EXTENDS Ceremony, TLC

Symmetry == Permutations(Attempts)

MCCall(u, k, o, d, w) == [user |-> u, key |-> k, op |-> o, dry |-> d, who |-> w]

(* A key used for minting a token by two callers and for another change;   *)
(* changes without a key, with a dry run first; and the profile swapped.   *)
MCCalls ==
  { MCCall("ann", "k", "mint", FALSE, "person"),
    MCCall("bob", "k", "mint", FALSE, "unattended"),
    MCCall("ann", "k", "build", FALSE, "person"),
    MCCall("ann", NoKey, "edit", TRUE, "person"),
    MCCall("ann", NoKey, "edit", FALSE, "person"),
    MCCall("bob", NoKey, "policy", FALSE, "local") }

(* A dry run and the real thing under one key.                             *)
MCDryFirst ==
  { MCCall("ann", "k", "mint", TRUE, "person"),
    MCCall("ann", "k", "mint", FALSE, "person") }
=============================================================================

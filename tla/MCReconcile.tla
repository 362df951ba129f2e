----------------------------- MODULE MCReconcile -----------------------------
(* Two deployments, two cards, and the node.toml contents the runs use.    *)
EXTENDS Reconcile

MCCards == 1..2
MCWhole == [deny |-> {}, max |-> 2, cards |-> MCCards]
(* The backend of the first deployment is no longer allowed, or there is  *)
(* room for one deployment only.                                           *)
MCNarrower == {MCWhole, [MCWhole EXCEPT !.deny = {1}], [MCWhole EXCEPT !.max = 1]}
(* One card is withheld.                                                   *)
MCFewerCards == {MCWhole, [MCWhole EXCEPT !.cards = {2}]}
MCAllChanges == Kinds
MCConfigOnly == {"config"}
MCNodeOnly == {"node.toml"}
MCNodeAndWindow == {"node.toml", "window"}
=============================================================================

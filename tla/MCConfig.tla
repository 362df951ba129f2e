------------------------------ MODULE MCConfig ------------------------------
(* ConfigRevision for TLC: one node with two cards and two ports, two      *)
(* deployments of one model, one of them on a registered backend.          *)
EXTENDS ConfigRevision

VARIABLE focus

MCFirst == [NoSnap EXCEPT
  !.nodes["n"] = "approved", !.policy = "default", !.grants = {"r"},
  !.models["m"] = [in |-> TRUE, backend |-> "sg", origin |-> "near"],
  !.deps = [d \in CDeps |-> [in |-> TRUE, model |-> "m", node |-> "n",
                             backend |-> IF d = 1 THEN "sg" ELSE "cb",
                             cards |-> {d}, port |-> IF d = 1 THEN 1 ELSE 0, off |-> FALSE]],
  !.routes["r"] = [in |-> TRUE, members |-> {1}],
  !.backends["cb"] = "openai"]
MCRunsOn == {<<"sg", "n">>, <<"cb", "n">>}
MCReads == {<<"sg", "m">>, <<"cb", "m">>}
MCDenied == {<<"regulated", "far">>}

MCInit == ConfigInit /\ focus \in {"host", "server"}
(* A behaviour ends with the last revision the bound allows.               *)
MCNext ==
  /\ UNCHANGED focus /\ Len(revs) < MaxRevisions
  /\ \/ focus = "host" /\ HostNext
     \/ focus = "server" /\ ServerNext
MCSpec == MCInit /\ [][MCNext]_<<configVars, focus>>
=============================================================================

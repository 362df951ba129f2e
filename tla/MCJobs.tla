------------------------------- MODULE MCJobs -------------------------------
(* The jobs that run beside the request path, for TLC: staging, backend    *)
(* preparation, self-upgrade and the event queue of a node; verification   *)
(* of the trail, the HTTP sink, the gateway's configuration sync, the host *)
(* verbs and the sealing key, schema and archives of a control plane.      *)
(* They share no variable, so no property of one depends on the others'    *)
(* steps: the first state picks the one that moves, and the run is the sum *)
(* of their state spaces, not the product.                                 *)
EXTENDS Staging, Prepare, NodeEvents, AuditVerify, HttpSink, GatewaySync, Host, Sealing

VARIABLE focus

allVars == <<stagingVars, prepareVars, eventVars, verifyVars, httpVars, syncVars,
             hostVars, sealVars, focus>>

Init ==
  /\ StagingInit /\ PrepareInit /\ EventsInit /\ VerifyInit /\ HttpInit /\ SyncInit /\ HostInit
  /\ SealInit
  /\ focus \in {"staging", "build", "upgrade", "events", "verify", "http", "sync", "host", "seal"}
  /\ focus # "build" => want = CHOOSE i \in Inputs : TRUE

Next ==
  /\ UNCHANGED focus
  /\ \/ focus = "staging" /\ StagingNext
        /\ UNCHANGED <<prepareVars, eventVars, verifyVars, httpVars, syncVars, hostVars, sealVars>>
     \/ focus \in {"build", "upgrade"} /\ (IF focus = "build" THEN BuildNext ELSE UpgradeNext)
        /\ UNCHANGED <<stagingVars, eventVars, verifyVars, httpVars, syncVars, hostVars, sealVars>>
     \/ focus = "events" /\ EventsNext
        /\ UNCHANGED <<stagingVars, prepareVars, verifyVars, httpVars, syncVars, hostVars, sealVars>>
     \/ focus = "verify" /\ VerifyNext
        /\ UNCHANGED <<stagingVars, prepareVars, eventVars, httpVars, syncVars, hostVars, sealVars>>
     \/ focus = "http" /\ HttpNext
        /\ UNCHANGED <<stagingVars, prepareVars, eventVars, verifyVars, syncVars, hostVars, sealVars>>
     \/ focus = "sync" /\ SyncNext
        /\ UNCHANGED <<stagingVars, prepareVars, eventVars, verifyVars, httpVars, hostVars, sealVars>>
     \/ focus = "host" /\ HostNext
        /\ UNCHANGED <<stagingVars, prepareVars, eventVars, verifyVars, httpVars, syncVars, sealVars>>
     \/ focus = "seal" /\ SealNext
        /\ UNCHANGED <<stagingVars, prepareVars, eventVars, verifyVars, httpVars, syncVars, hostVars>>

Spec == Init /\ [][Next]_allVars
=============================================================================

------------------------------ MODULE MCAccess ------------------------------
(* Identity and Enrollment for TLC.  They share no state, so one of them   *)
(* moves in a behaviour and the other keeps its initial state: focus says  *)
(* which.  Identity is looked at twice: slow logins that may fail, without *)
(* the requests that follow them, and requests, with logins that succeed.  *)
(* So is Enrollment: one name with faults, and hosts that change names.    *)
EXTENDS Identity, Enrollment, TLC

VARIABLE focus

MCInit == IdentityInit /\ EnrollInit /\ focus \in {"lockout", "accounts", "enroll", "rename"}

MCNext ==
  /\ UNCHANGED focus
  /\ \/ focus = "lockout" /\ LoginNext /\ setup'.made <= 1 /\ UNCHANGED enrollVars
     \/ /\ focus = "accounts" /\ IdentityNext /\ itime' <= 1 /\ UNCHANGED enrollVars
        /\ \A r \in Requests : req'[r].at \in {"login", "verified"} => req'[r].ok
     \/ /\ focus = "enroll" /\ EnrollNext /\ UNCHANGED identityVars
        /\ \A h \in Hosts : wire'[h].name # "m"
     \/ /\ focus = "rename" /\ EnrollNext /\ UNCHANGED identityVars
        /\ efaults' = 0 /\ signed' <= 3 /\ etime' <= 2
        /\ \A n \in NodeNames : granted'[n] = "pending"

MCSpec == MCInit /\ [][MCNext]_<<identityVars, enrollVars, focus>>

Symmetry == Permutations(Requests) \cup Permutations(Hosts)
=============================================================================

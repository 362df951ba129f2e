----------------------------- MODULE MCAuditLog -----------------------------
(* Instances of AuditLog for TLC.                                          *)
EXTENDS AuditLog

OneServer == [a \in Actors |-> "server"]
OneActEach == [a \in Actors |-> IF a = "a1" THEN "server" ELSE "cli"]
NoSinks == <<>>
OneSink == <<"file">>

(* One run, two families of behaviours, chosen at the start: mutations     *)
(* under deaths and failing sinks while the clock stands still, and        *)
(* mutations and prunes under a clock that moves both ways while nothing   *)
(* outside the database fails and a record is delivered at once.  Every    *)
(* step is a step of AuditLog.                                             *)
VARIABLE focus

FocusInit == Init /\ focus \in {"faults", "prunes"}

Faults == focus = "faults" /\ clock' = clock /\ \A a \in Actors : act'[a].kind # "prune"
Prunes ==
  /\ focus = "prunes" /\ UNCHANGED <<up, crashes, outside>>
  /\ \A a \in Actors : pc[a] \in {"emit", "mark"} => pc'[a] # pc[a]

FocusNext == Next /\ UNCHANGED focus /\ (Faults \/ Prunes)

FocusSpec == FocusInit /\ [][FocusNext]_<<vars, focus>>
=============================================================================

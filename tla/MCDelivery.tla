----------------------------- MODULE MCDelivery -----------------------------
(* Instances of Delivery for TLC.                                          *)
EXTENDS Delivery

(* Two acts of one server process, sharing its Delivery.                   *)
OneServer == [a \in Actors |-> "server"]

(* One act per process: a server and a CLI invocation beside it.           *)
OneActEach == [a \in Actors |-> IF a = "a1" THEN "server" ELSE "cli"]

OneSink == <<"file">>
TwoSinks == <<"file", "syslog">>
=============================================================================

---------------------------- MODULE MCHttpServices ----------------------------
(* HttpServices for TLC. Three processes on two ports: a service and its mock *)
(* in one scenario and one of them again in the next, or one service in three *)
(* scenarios. Two attempts: one that is refused and goes on, one that raises. *)
EXTENDS HttpServices
=============================================================================

-------------------------- MODULE MCAggregatorSession --------------------------
(* AggregatorSession for TLC, with one service: the DVO writer shares nothing  *)
(* with the aggregator but the stack of cleanups, which holds two processes as *)
(* soon as the aggregator was started again. Its two processes are one of this *)
(* scenario, and one that the scenario started before, or that an earlier      *)
(* scenario has left behind.                                                   *)
EXTENDS AggregatorSession

CONSTANT aggregator

MCServices  == {aggregator}
MCProcesses == {<<aggregator, 1>>, <<aggregator, 2>>}
================================================================================

----------------------------- MODULE MCServiceLog -----------------------------
(* ServiceLog for TLC. Two threads: one for behave and one for a log left behind *)
(* or a query; two clusters; three logs in a run, so that a scenario purges what *)
(* an earlier one published while an abandoned log is still to come. Threads and *)
(* clusters are model values, but no symmetry: a liveness property is checked.   *)
EXTENDS ServiceLog
=============================================================================

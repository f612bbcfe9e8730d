------------------------ MODULE MCExtractorLifecycle ------------------------
(* ExtractorLifecycle for TLC: the .cfg gives the processes as model values. *)
(* Three are enough for both services in one scenario and a third start in a *)
(* later scenario of the same run. No symmetry: a liveness property is       *)
(* checked.                                                                  *)
EXTENDS ExtractorLifecycle
=============================================================================

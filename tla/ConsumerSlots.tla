---------------------------- MODULE ConsumerSlots ----------------------------
(***************************************************************************)
(* What after_scenario promises about the consumers of a behave run        *)
(* ("to have one kafka consumer at a time", features/environment.py:98-99):*)
(* every service has one slot. A consumer joins only during a scenario and *)
(* only when the slot of its service is free, and a scenario is closed     *)
(* only when all slots are free again. ExtractorLifecycle implements this. *)
(***************************************************************************)
CONSTANTS Services, Procs

VARIABLES
  open,      \* a scenario is open
  consumers  \* service -> the set of its live consumers

vars == <<open, consumers>>

Init ==
  /\ open = FALSE
  /\ consumers = [s \in Services |-> {}]

Open ==
  /\ ~open
  /\ open' = TRUE
  /\ UNCHANGED consumers

Join(s, p) ==
  /\ open
  /\ consumers[s] = {}
  /\ consumers' = [consumers EXCEPT ![s] = {p}]
  /\ UNCHANGED open

Leave(s) ==
  /\ open
  /\ consumers[s] # {}
  /\ consumers' = [consumers EXCEPT ![s] = {}]
  /\ UNCHANGED open

Close ==
  /\ open
  /\ \A s \in Services : consumers[s] = {}
  /\ open' = FALSE
  /\ UNCHANGED consumers

Next ==
  \/ Open
  \/ \E s \in Services, p \in Procs : Join(s, p)
  \/ \E s \in Services : Leave(s)
  \/ Close

Spec == Init /\ [][Next]_vars
=============================================================================

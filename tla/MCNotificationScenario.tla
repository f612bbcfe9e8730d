------------------------ MODULE MCNotificationScenario ------------------------
(* NotificationScenario for TLC. Two scenarios of up to four steps each, so    *)
(* that the second one meets what the first one left in the topic and in both  *)
(* databases, and so that a run can be prepared, made, repeated and checked.   *)
(* A run sends nothing, or two events that differ. A reported row is for one   *)
(* of two event types, which are alike, and a prepared one has the time of the *)
(* first run: of the two either may be found.                                  *)
EXTENDS NotificationScenario

CONSTANTS c1, r1, r2

Symmetry == Permutations(Toggles) \cup Permutations(EventTypes)
ReportsDef == {{r1, r2}}
RunsDef ==
  LET low == [cluster |-> c1, rules |-> {r1}]
      both == [cluster |-> c1, rules |-> {r1, r2}]
  IN  {<<>>, <<low, both>>}
OutputsDef == {{"clean", "finished", "reported"}}
=============================================================================

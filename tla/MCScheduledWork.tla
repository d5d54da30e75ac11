-------------------------- MODULE MCScheduledWork --------------------------
(* Instances of ScheduledWork for TLC: f is the 14:30 template, g one that  *)
(* starts at its target, r and q requests of the user.                      *)
EXTENDS ScheduledWork

CONSTANTS f, g, r, q

LeadOf == [s \in Schedules |-> IF s = f THEN 1 ELSE 0]
AskedOf == [x \in Requests |-> 1]

\* The publish time is a time of the day: a moved target keeps it.
DeadlineOf == [c \in Cycles |-> 3]
=============================================================================

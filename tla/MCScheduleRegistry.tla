------------------------- MODULE MCScheduleRegistry -------------------------
(* One default and one template the user may create. *)
EXTENDS ScheduleRegistry, TLC

CONSTANTS daily, own, a, b, damaged

MCSchedules == {daily, own}
MCStatus == {"active", "paused"}
MCDefaults == {daily}
MCConfigs == {a, b}
Interchangeable == Permutations(MCConfigs)
=============================================================================

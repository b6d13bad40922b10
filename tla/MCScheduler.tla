----------------------------- MODULE MCScheduler -----------------------------
(* The scheduler as kernel_main uses it: TASKS_CAP = 4, ring of 3 + idle.     *)
EXTENDS Scheduler
==============================================================================

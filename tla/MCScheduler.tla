----------------------------- MODULE MCScheduler -----------------------------
(* Two events, three instants: enough for a stale entry to be due before,  *)
(* with and after a live one of the same and of another event.               *)
EXTENDS Scheduler

MCInstant == 0..2
===============================================================================

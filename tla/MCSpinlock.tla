----------------------------- MODULE MCSpinlock -----------------------------
(* Four threads, so that two can wait while a third holds the lock and the
   fourth tries.  The run checks progress, so no symmetry reduction. *)
EXTENDS Spinlock
=============================================================================

------------------------------- MODULE Mutex -------------------------------
(***************************************************************************)
(* What a mutual-exclusion lock promises: at most one thread is inside the *)
(* critical section, a thread inside came through Acquire, and the lock    *)
(* is not left free for ever while somebody wants it.  Which of the        *)
(* waiting threads gets it is left open: the lock is not fair.             *)
(***************************************************************************)
CONSTANT Caller

VARIABLES wanting,   \* threads inside a blocking lock call
          inside     \* threads between a successful acquire and the release

vars == <<wanting, inside>>

Init ==
  /\ wanting = {}
  /\ \/ inside = {}
     \/ \E t \in Caller : inside = {t}    \* a lock constructed locked

Request(t) ==
  /\ t \notin wanting \cup inside
  /\ wanting' = wanting \cup {t}
  /\ UNCHANGED inside

\* The lock goes to a waiting thread, or to one that only tries.
Acquire(t) ==
  /\ inside = {}
  /\ inside' = {t}
  /\ wanting' = wanting \ {t}

Release(t) ==
  /\ inside = {t}
  /\ inside' = {}
  /\ UNCHANGED wanting

Next == \E t \in Caller : Request(t) \/ Acquire(t) \/ Release(t)

Fairness ==
  /\ WF_vars(\E t \in wanting : Acquire(t))
  /\ \A t \in Caller : WF_vars(Release(t))

Safety == Init /\ [][Next]_vars
Spec == Safety /\ Fairness
=============================================================================

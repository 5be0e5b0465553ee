------------------------------ MODULE Spinlock ------------------------------
(***************************************************************************)
(* stateplex/core/spinlock.h: a test-and-test-and-set lock.  lock() reads  *)
(* mState until it is clear, then exchanges it with 1, and starts over     *)
(* when the exchange returns 1: another thread was faster between the read *)
(* and the exchange.  tryLock() makes one read and at most one exchange.   *)
(* Every read, exchange and release of the word is a step of its own.      *)
(***************************************************************************)
EXTENDS Naturals

CONSTANTS Caller,
          locked     \* the constructor's argument, made by one of the threads

ASSUME LockedAssumption == locked \in BOOLEAN

VARIABLES mState,    \* the word of the lock: 0 free, 1 taken
          position   \* where each thread is in lock() / tryLock()

lockVars == <<mState, position>>

\* "idle"     outside every call and not holding the lock
\* "spin"     in the inner loop of lock()
\* "set"      lock() saw mState = 0 and is about to exchange it
\* "trySet"   tryLock() saw mState = 0 and is about to exchange it
\* "critical" between a successful lock() / tryLock() and unlock()
Position == {"idle", "spin", "set", "trySet", "critical"}

\* Spinlock(locked): a lock that starts taken belongs to the thread that made it.
LockInit ==
  /\ mState = IF locked THEN 1 ELSE 0
  /\ \E maker \in Caller :
       position = [t \in Caller |-> IF locked /\ t = maker THEN "critical" ELSE "idle"]

-----------------------------------------------------------------------------
lock(t) ==
  /\ position[t] = "idle"
  /\ position' = [position EXCEPT ![t] = "spin"]
  /\ UNCHANGED mState

\* while (mState); the reads that find it taken change nothing.
Spin(t) ==
  /\ position[t] = "spin"
  /\ mState = 0
  /\ position' = [position EXCEPT ![t] = "set"]
  /\ UNCHANGED mState

\* __sync_lock_test_and_set stores 1 whatever it found.
TestAndSet(t, loser) ==
  /\ position' = [position EXCEPT ![t] = IF mState = 0 THEN "critical" ELSE loser]
  /\ mState' = 1

\* Slips of these steps, for the mutants: the result of the exchange ignored;
\* a release by a thread that lost tryLock().
LockSetIgnoringResult(t) ==
  /\ position[t] = "set"
  /\ TestAndSet(t, "critical")

TryLockSetReleasing(t) ==
  /\ position[t] = "trySet"
  /\ position' = [position EXCEPT ![t] = IF mState = 0 THEN "critical" ELSE "idle"]
  /\ mState' = 0

TryLockSetHolding(t) ==
  /\ position[t] = "trySet"
  /\ position' = [position EXCEPT ![t] = "idle"]
  /\ mState' = 1

LockSet(t) ==
  /\ position[t] = "set"
  /\ TestAndSet(t, "spin")

\* tryLock() that finds the lock taken returns false and leaves no trace.
tryLock(t) ==
  /\ position[t] = "idle"
  /\ mState = 0
  /\ position' = [position EXCEPT ![t] = "trySet"]
  /\ UNCHANGED mState

TryLockSet(t) ==
  /\ position[t] = "trySet"
  /\ TestAndSet(t, "idle")

unlock(t) ==
  /\ position[t] = "critical"
  /\ mState' = 0
  /\ position' = [position EXCEPT ![t] = "idle"]

Step(t) == Spin(t) \/ LockSet(t) \/ TryLockSet(t) \/ unlock(t)

LockNext == \E t \in Caller : lock(t) \/ tryLock(t) \/ Step(t)

\* A thread inside a call, or inside the critical section, keeps running;
\* nothing makes a thread start a call.
LockFairness == \A t \in Caller : WF_lockVars(Step(t))

LockSafety == LockInit /\ [][LockNext]_lockVars
LockSpec == LockSafety /\ LockFairness

-----------------------------------------------------------------------------
LockTypeOK ==
  /\ mState \in {0, 1}
  /\ position \in [Caller -> Position]

Holders == {t \in Caller : position[t] = "critical"}

\* No two threads are between acquire and release: the dispatcher's message
\* queues and the recycled allocator rely on it (dispatcher.cpp, run()).
MutualExclusion ==
  \A t, u \in Holders : t = u

\* The word tells the truth: it is 1 exactly while somebody holds the lock.
\* A losing exchange that stored 1 over a lock released meanwhile would
\* leave it taken for ever.
WordMatchesHolder == mState = 1 <=> Holders # {}

\* The lock implements the abstract mutex, progress included: a thread in
\* the loop of lock() is wanting; tryLock() never is.
M == INSTANCE Mutex
       WITH wanting <- {t \in Caller : position[t] \in {"spin", "set"}},
            inside <- Holders
ImplementsMutex == M!Spec
=============================================================================

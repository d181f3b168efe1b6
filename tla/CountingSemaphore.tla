------------------------- MODULE CountingSemaphore -------------------------
(* What the users of struct semaphore rely on (the queue threads of        *)
(* nv-kthread-q.c, os_acquire_mutex() and os_acquire_semaphore()): a count *)
(* that down() and down_trylock() take from when it is positive and up()   *)
(* adds to.                                                                *)
EXTENDS Naturals

CONSTANTS Threads, INITIAL

VARIABLES value,    \* the count
          waiting   \* the threads inside down()

Init == value = INITIAL /\ waiting = {}

Call(t) == t \notin waiting /\ waiting' = waiting \cup {t} /\ UNCHANGED value

Acquire(t) ==
  /\ t \in waiting /\ value > 0
  /\ value' = value - 1 /\ waiting' = waiting \ {t}

TryAcquire(t) ==
  /\ t \notin waiting /\ value > 0
  /\ value' = value - 1 /\ UNCHANGED waiting

Release(t) == t \notin waiting /\ value' = value + 1 /\ UNCHANGED waiting

Next == \E t \in Threads : Call(t) \/ Acquire(t) \/ TryAcquire(t) \/ Release(t)

Spec == Init /\ [][Next]_<<value, waiting>>
=============================================================================

----------------------------- MODULE Semaphore -----------------------------
(* struct semaphore of the Nanos port (common/inc/nv-nanos.h): a count and *)
(* a list of suspended contexts, both changed under the semaphore's spin   *)
(* lock only.  Each critical section is one step; what down() and up() do  *)
(* outside of it, suspending a context and resuming one, are others.       *)
(*                                                                         *)
(* down() queues the context before it is suspended, so up() may take it   *)
(* from the list while it still runs; it then spins until the context has  *)
(* been saved.  up() does not hand its unit over: the woken thread goes    *)
(* back to the beginning of down(), and another one may be faster.         *)
EXTENDS Integers, Sequences, SequencesExt, FiniteSets

CONSTANTS Threads,
          NO_THREAD,
          INITIAL,      \* the count given to sema_init()
          MAX_VALUE     \* bound on the count

ASSUME SemaphoreAssumption ==
  /\ IsFiniteSet(Threads) /\ NO_THREAD \notin Threads
  /\ INITIAL \in Nat /\ MAX_VALUE \in Nat /\ INITIAL <= MAX_VALUE

VARIABLES value, waiters,
          frame_full,   \* is the context of the thread saved
          pc,           \* what the thread is doing
          next          \* the context that up() has to resume

vars == <<value, waiters, frame_full, pc, next>>

TypeOK ==
  /\ value \in 0 .. MAX_VALUE
  /\ waiters \in Seq(Threads)
  /\ frame_full \in [Threads -> BOOLEAN]
  /\ pc \in [Threads -> {"idle", "down", "suspending", "suspended", "wakeup"}]
  /\ next \in [Threads -> Threads \cup {NO_THREAD}]

sema_init ==
  /\ value = INITIAL
  /\ waiters = << >>
  /\ frame_full = [t \in Threads |-> FALSE]
  /\ pc = [t \in Threads |-> "idle"]
  /\ next = [t \in Threads |-> NO_THREAD]

(* A thread enters down().                                                 *)
Call(t) ==
  /\ pc[t] = "idle"
  /\ pc' = [pc EXCEPT ![t] = "down"]
  /\ UNCHANGED <<value, waiters, frame_full, next>>

(* Mistake: a context that was resumed finds the list empty and goes on.   *)
down_NoRetry(t) ==
  /\ pc[t] = "down"
  /\ IF value > 0
     THEN /\ value' = value - 1
          /\ pc' = [pc EXCEPT ![t] = "idle"]
          /\ UNCHANGED waiters
     ELSE IF waiters = << >>
     THEN pc' = [pc EXCEPT ![t] = "idle"] /\ UNCHANGED <<value, waiters>>
     ELSE /\ waiters' = Append(waiters, t)
          /\ pc' = [pc EXCEPT ![t] = "suspending"]
          /\ UNCHANGED value
  /\ UNCHANGED <<frame_full, next>>

(* The critical section of down(), from its label begin on.                *)
down(t) ==
  /\ pc[t] = "down"
  /\ IF value > 0
     THEN /\ value' = value - 1
          /\ pc' = [pc EXCEPT ![t] = "idle"]
          /\ UNCHANGED waiters
     ELSE /\ waiters' = Append(waiters, t)
          /\ pc' = [pc EXCEPT ![t] = "suspending"]
          /\ UNCHANGED value
  /\ UNCHANGED <<frame_full, next>>

(* context_suspend() saves the context and runs another one.               *)
context_suspend(t) ==
  /\ pc[t] = "suspending"
  /\ pc' = [pc EXCEPT ![t] = "suspended"]
  /\ frame_full' = [frame_full EXCEPT ![t] = TRUE]
  /\ UNCHANGED <<value, waiters, next>>

down_trylock(t) ==
  /\ pc[t] = "idle"
  /\ value > 0
  /\ value' = value - 1
  /\ UNCHANGED <<waiters, frame_full, pc, next>>

(* Mistake: the woken context stays on the list.                           *)
up_KeepsWaiter(t) ==
  /\ pc[t] = "idle" /\ value < MAX_VALUE
  /\ value' = value + 1
  /\ IF waiters = << >>
     THEN UNCHANGED <<pc, next>>
     ELSE /\ next' = [next EXCEPT ![t] = Head(waiters)]
          /\ pc' = [pc EXCEPT ![t] = "wakeup"]
  /\ UNCHANGED <<waiters, frame_full>>

(* Mistake: only the first unit wakes a waiter.                            *)
up_WakesOnFirst(t) ==
  /\ pc[t] = "idle" /\ value < MAX_VALUE
  /\ value' = value + 1
  /\ IF waiters = << >> \/ value > 0
     THEN UNCHANGED <<waiters, pc, next>>
     ELSE /\ next' = [next EXCEPT ![t] = Head(waiters)]
          /\ waiters' = Tail(waiters)
          /\ pc' = [pc EXCEPT ![t] = "wakeup"]
  /\ UNCHANGED frame_full

(* The critical section of up().                                           *)
up(t) ==
  /\ pc[t] = "idle" /\ value < MAX_VALUE
  /\ value' = value + 1
  /\ IF waiters = << >>
     THEN UNCHANGED <<waiters, pc, next>>
     ELSE /\ next' = [next EXCEPT ![t] = Head(waiters)]
          /\ waiters' = Tail(waiters)
          /\ pc' = [pc EXCEPT ![t] = "wakeup"]
  /\ UNCHANGED frame_full

(* The rest of up(): the loop over frame_is_full(), then                   *)
(* context_schedule_return().                                              *)
Wakeup(t) ==
  /\ pc[t] = "wakeup"
  /\ frame_full[next[t]]
  /\ pc' = [pc EXCEPT ![t] = "idle", ![next[t]] = "down"]
  /\ frame_full' = [frame_full EXCEPT ![next[t]] = FALSE]
  /\ next' = [next EXCEPT ![t] = NO_THREAD]
  /\ UNCHANGED <<value, waiters>>

(* What a thread inside down() or up() does next.                          *)
Step(t) == down(t) \/ context_suspend(t) \/ Wakeup(t)

Next == \E t \in Threads : Call(t) \/ down_trylock(t) \/ up(t) \/ Step(t)

Spec == sema_init /\ [][Next]_vars

(* The contexts are scheduled.                                             *)
FairSpec == Spec /\ \A t \in Threads : WF_vars(Step(t))

-----------------------------------------------------------------------------
(* Correctness.                                                            *)

Asleep == {t \in Threads : pc[t] \in {"suspending", "suspended"}}

(* The contexts some up() has taken from the list and not yet resumed.     *)
Taken == {next[t] : t \in {u \in Threads : pc[u] = "wakeup"}}

(* The list node of a context (mutex_l) is in use once: a suspended thread *)
(* is on the list or in the hands of exactly one up(), never in both, so   *)
(* none is resumed twice and none is forgotten.                            *)
WokenOnce ==
  /\ ToSet(waiters) \cap Taken = {}
  /\ ToSet(waiters) \cup Taken = Asleep
  /\ \A i, j \in DOMAIN waiters : i # j => waiters[i] # waiters[j]
  /\ \A t, u \in Threads :
       t # u /\ pc[t] = "wakeup" /\ pc[u] = "wakeup" => next[t] # next[u]

Takers == {t \in Threads : pc[t] = "down"} \cup Taken

(* No wake-up is lost: while threads sleep on the list, every unit of the  *)
(* count has a thread on its way to the test at the beginning of down().   *)
UnitsHaveTakers ==
  waiters # << >> => value <= Cardinality(Takers)

(* down() and up() implement the counting semaphore their callers assume.  *)
Counting == INSTANCE CountingSemaphore WITH
              waiting <- {t \in Threads : pc[t] \in {"down", "suspending", "suspended"}}

ImplementsCounting == Counting!Spec

(* A unit does not stay untaken beside a thread that sleeps for it.        *)
UnitsTaken == (value > 0 /\ waiters # << >>) ~> (value = 0 \/ waiters = << >>)
=============================================================================

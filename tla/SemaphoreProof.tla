--------------------------- MODULE SemaphoreProof ---------------------------
(* Proofs about the semaphore of nv-nanos.h for every set of threads and   *)
(* every initial count.                                                    *)
EXTENDS Semaphore, FiniteSetTheorems, TLAPS

(* A context that up() resumes has been saved, WokenOnce says that it      *)
(* sleeps; the rest of the invariant is what the runs check.               *)
IInv == TypeOK /\ WokenOnce /\ UnitsHaveTakers

(* sema_init() establishes the invariant.                                  *)
LEMMA InitIInv == sema_init => IInv
<1> SUFFICES ASSUME sema_init PROVE IInv
  OBVIOUS
<1> USE DEF sema_init
<1>1. TypeOK
  BY SemaphoreAssumption DEF TypeOK
<1>2. WokenOnce
  BY DEF WokenOnce, Taken, Asleep, ToSet
<1>3. QED
  BY <1>1, <1>2 DEF IInv, UnitsHaveTakers

(* What an append and a removal do to the set of waiters.                  *)
LEMMA AppendWaiter ==
  ASSUME NEW s \in Seq(Threads), NEW t \in Threads, t \notin ToSet(s),
         \A i, j \in DOMAIN s : i # j => s[i] # s[j]
  PROVE  /\ Append(s, t) \in Seq(Threads)
         /\ ToSet(Append(s, t)) = ToSet(s) \cup {t}
         /\ \A i, j \in DOMAIN Append(s, t) :
              i # j => Append(s, t)[i] # Append(s, t)[j]
<1> DEFINE r == Append(s, t)
<1>1. /\ r \in Seq(Threads) /\ DOMAIN r = 1 .. Len(s) + 1
      /\ DOMAIN s = 1 .. Len(s) /\ Len(s) \in Nat
      /\ \A i \in 1 .. Len(s) : r[i] = s[i]
      /\ r[Len(s) + 1] = t
  OBVIOUS
<1> HIDE DEF r
<1>2. ToSet(r) = ToSet(s) \cup {t}
  BY <1>1 DEF ToSet
<1>3. \A i \in DOMAIN s : s[i] # t
  BY DEF ToSet
<1>4. \A i, j \in DOMAIN r : i # j => r[i] # r[j]
  BY <1>1, <1>3
<1>5. QED
  BY <1>1, <1>2, <1>4 DEF r

(* What taking the first waiter does to the set of waiters.                *)
LEMMA RemoveWaiter ==
  ASSUME NEW s \in Seq(Threads), s # << >>,
         \A i, j \in DOMAIN s : i # j => s[i] # s[j]
  PROVE  /\ Head(s) \in Threads /\ Head(s) \in ToSet(s)
         /\ Tail(s) \in Seq(Threads)
         /\ ToSet(Tail(s)) = ToSet(s) \ {Head(s)}
         /\ \A i, j \in DOMAIN Tail(s) : i # j => Tail(s)[i] # Tail(s)[j]
<1> DEFINE r == Tail(s)
           h == Head(s)
<1>1. /\ r \in Seq(Threads) /\ DOMAIN r = 1 .. Len(s) - 1
      /\ DOMAIN s = 1 .. Len(s) /\ Len(s) \in Nat /\ Len(s) >= 1
      /\ \A i \in 1 .. Len(s) - 1 : r[i] = s[i + 1]
      /\ h = s[1] /\ h \in Threads
  OBVIOUS
<1> HIDE DEF r, h
<1>2. h \in ToSet(s)
  BY <1>1 DEF ToSet
<1>3. ToSet(r) = ToSet(s) \ {h}
  <2>1. ASSUME NEW x \in ToSet(r) PROVE x \in ToSet(s) \ {h}
    <3>1. PICK i \in 1 .. Len(s) - 1 : x = r[i]
      BY <1>1 DEF ToSet
    <3>2. i + 1 \in DOMAIN s /\ 1 \in DOMAIN s /\ i + 1 # 1 /\ x = s[i + 1]
      BY <1>1, <3>1
    <3>3. QED
      BY <1>1, <3>2 DEF ToSet
  <2>2. ASSUME NEW x \in ToSet(s), x # h PROVE x \in ToSet(r)
    <3>1. PICK i \in 1 .. Len(s) : x = s[i]
      BY <1>1 DEF ToSet
    <3>2. i - 1 \in 1 .. Len(s) - 1 /\ r[i - 1] = s[(i - 1) + 1] /\ (i - 1) + 1 = i
      BY <1>1, <2>2, <3>1, SMTT(30)
    <3>3. QED
      BY <1>1, <3>1, <3>2, SMTT(30) DEF ToSet
  <2>3. QED
    BY <2>1, <2>2
<1>4. ASSUME NEW i \in DOMAIN r, NEW j \in DOMAIN r, i # j PROVE r[i] # r[j]
  <2>1. /\ i + 1 \in DOMAIN s /\ j + 1 \in DOMAIN s /\ i + 1 # j + 1
        /\ r[i] = s[i + 1] /\ r[j] = s[j + 1]
    BY <1>1, <1>4
  <2>2. QED
    BY <2>1
<1>5. QED
  BY <1>1, <1>2, <1>3, <1>4, SMTT(30) DEF r, h

-----------------------------------------------------------------------------
(* Each step keeps the list nodes apart.                                   *)

(* The contexts on the list or taken by up() are sleeping threads, and the *)
(* threads on their way to a unit are finitely many.                       *)
LEMMA Fingers ==
  ASSUME TypeOK, WokenOnce
  PROVE  /\ IsFiniteSet(Takers) /\ Takers \subseteq Threads
         /\ Taken \subseteq Asleep /\ ToSet(waiters) \subseteq Asleep
         /\ \A t \in Threads : pc[t] = "wakeup" =>
              next[t] \in Taken /\ next[t] \in Asleep /\ next[t] \in Threads
<1>1. Taken \subseteq Asleep /\ ToSet(waiters) \subseteq Asleep
  BY DEF WokenOnce
<1>2. Takers \subseteq Threads
  BY <1>1 DEF Takers, Asleep
<1>3. IsFiniteSet(Takers)
  BY <1>2, SemaphoreAssumption, FS_Subset, SMTT(30)
<1>4. \A t \in Threads : pc[t] = "wakeup" =>
        next[t] \in Taken /\ next[t] \in Asleep /\ next[t] \in Threads
  BY <1>1 DEF Taken, Asleep
<1>5. QED
  BY <1>1, <1>2, <1>3, <1>4, SMTT(30)

(* Entering down() preserves the invariant.                                *)
LEMMA CallStep ==
  ASSUME IInv, NEW t \in Threads, Call(t)
  PROVE  IInv'
<1> USE DEF Call
<1>1. TypeOK /\ WokenOnce /\ UnitsHaveTakers /\ pc \in [Threads -> {"idle", "down", "suspending", "suspended", "wakeup"}]
  BY DEF IInv, TypeOK
<1>2. TypeOK'
  BY <1>1 DEF TypeOK
<1>3. Taken' = Taken /\ Asleep' = Asleep
  BY <1>1 DEF Taken, Asleep
<1>4. WokenOnce'
  BY <1>1, <1>3 DEF WokenOnce
<1>5. Takers' = Takers \cup {t}
  BY <1>1, <1>3 DEF Takers
<1>6. Cardinality(Takers') >= Cardinality(Takers) /\ Cardinality(Takers) \in Nat
      /\ Cardinality(Takers') \in Nat
  <2>1. IsFiniteSet(Takers) /\ t \notin Takers
    BY <1>1, Fingers DEF Takers, Asleep
  <2>2. Cardinality(Takers) \in Nat
    BY <2>1, FS_CardinalityType
  <2>3. Cardinality(Takers \cup {t}) = Cardinality(Takers) + 1
    BY <2>1, FS_AddElement, Zenon
  <2>4. QED
    BY <1>5, <2>2, <2>3, SMTT(30)
<1>7. UnitsHaveTakers'
  BY <1>1, <1>6 DEF UnitsHaveTakers, TypeOK
<1>8. QED
  BY <1>2, <1>4, <1>7, SMTT(30) DEF IInv

(* The critical section of down() preserves the invariant.                 *)
LEMMA DownStep ==
  ASSUME IInv, NEW t \in Threads, down(t)
  PROVE  IInv'
<1>1. /\ TypeOK /\ WokenOnce /\ UnitsHaveTakers /\ value \in 0 .. MAX_VALUE
      /\ pc \in [Threads -> {"idle", "down", "suspending", "suspended", "wakeup"}]
      /\ waiters \in Seq(Threads) /\ MAX_VALUE \in Nat
  BY SemaphoreAssumption DEF IInv, TypeOK
<1>2. pc[t] = "down" /\ UNCHANGED <<frame_full, next>> /\ t \in Takers
  BY DEF down, Takers
<1>3. CASE value > 0
  <2>1. /\ value' = value - 1 /\ pc' = [pc EXCEPT ![t] = "idle"]
        /\ UNCHANGED waiters
    BY <1>3 DEF down
  <2>2. TypeOK'
    <3>1. value' \in 0 .. MAX_VALUE
      BY <1>1, <1>3, <2>1, SMTT(30)
    <3>2. QED
      BY <1>1, <1>2, <2>1, <3>1, Zenon DEF TypeOK
  <2>3. Taken' = Taken /\ Asleep' = Asleep
    BY <1>1, <1>2, <2>1, SMTT(30) DEF Taken, Asleep
  <2>4. WokenOnce'
    BY <1>1, <1>2, <2>1, <2>3, SMTT(30) DEF WokenOnce
  <2>5. t \notin Taken
    BY <1>1, <1>2, Fingers, SMTT(30) DEF Asleep
  <2>6. Takers' = Takers \ {t}
    BY <1>1, <2>1, <2>3, <2>5, SMTT(30) DEF Takers
  <2>7. Cardinality(Takers') = Cardinality(Takers) - 1 /\ Cardinality(Takers) \in Nat
    BY <1>1, <1>2, <2>6, Fingers, FS_RemoveElement, FS_CardinalityType, SMTT(30)
  <2>8. UnitsHaveTakers'
    BY <1>1, <2>1, <2>7, SMTT(30) DEF UnitsHaveTakers
  <2>9. QED
    BY <2>2, <2>4, <2>8, SMTT(30) DEF IInv
<1>4. CASE ~(value > 0)
  <2>1. /\ waiters' = Append(waiters, t) /\ value' = value /\ value = 0
        /\ pc' = [pc EXCEPT ![t] = "suspending"]
    BY <1>1, <1>4 DEF down
  <2>2. t \notin ToSet(waiters) /\ t \notin Taken
    BY <1>1, <1>2, Fingers, SMTT(30) DEF Asleep
  <2>3. /\ waiters' \in Seq(Threads) /\ ToSet(waiters') = ToSet(waiters) \cup {t}
        /\ \A i, j \in DOMAIN waiters' : i # j => waiters'[i] # waiters'[j]
    BY <1>1, <2>1, <2>2, AppendWaiter, SMTT(30) DEF WokenOnce
  <2>4. TypeOK'
    BY <1>1, <1>2, <2>1, <2>3, SMTT(30) DEF TypeOK
  <2>5. Taken' = Taken /\ Asleep' = Asleep \cup {t}
    BY <1>1, <1>2, <2>1, SMTT(30) DEF Taken, Asleep
  <2>6. /\ ToSet(waiters') \cap Taken' = {}
        /\ ToSet(waiters') \cup Taken' = Asleep'
    BY <1>1, <2>2, <2>3, <2>5, SMTT(30) DEF WokenOnce
  <2>7. \A u, v \in Threads :
          u # v /\ pc'[u] = "wakeup" /\ pc'[v] = "wakeup" => next'[u] # next'[v]
    BY <1>1, <1>2, <2>1, SMTT(30) DEF WokenOnce
  <2>8. WokenOnce'
    BY <2>3, <2>6, <2>7, SMTT(30) DEF WokenOnce
  <2>9. UnitsHaveTakers'
    <3>1. IsFiniteSet(Takers') /\ Cardinality(Takers') \in Nat
      <4>1. Takers' \subseteq Threads
        BY <1>1, <2>5, Fingers, SMTT(30) DEF Takers, Asleep
      <4>2. QED
        BY <4>1, SemaphoreAssumption, FS_Subset, FS_CardinalityType, SMTT(30)
    <3>2. QED
      BY <2>1, <3>1 DEF UnitsHaveTakers
  <2>10. QED
    BY <2>4, <2>8, <2>9, SMTT(30) DEF IInv
<1>5. QED
  BY <1>3, <1>4

(* context_suspend() and down_trylock() preserve the invariant.            *)
LEMMA QuietStep ==
  ASSUME IInv, NEW t \in Threads, context_suspend(t) \/ down_trylock(t)
  PROVE  IInv'
<1>1. /\ TypeOK /\ WokenOnce /\ UnitsHaveTakers /\ value \in 0 .. MAX_VALUE
      /\ pc \in [Threads -> {"idle", "down", "suspending", "suspended", "wakeup"}]
      /\ MAX_VALUE \in Nat
  BY SemaphoreAssumption DEF IInv, TypeOK
<1>2. TypeOK' /\ value' \in Nat /\ value' <= value
      /\ UNCHANGED <<waiters, next>>
  <2>1. CASE context_suspend(t)
    <3>1. TypeOK'
      BY <1>1, <2>1, Zenon DEF TypeOK, context_suspend
    <3>2. QED
      BY <1>1, <2>1, <3>1, SMTT(30) DEF context_suspend
  <2>2. CASE down_trylock(t)
    <3>1. value' \in 0 .. MAX_VALUE /\ value' \in Nat /\ value' <= value
      BY <1>1, <2>2 DEF down_trylock
    <3>2. TypeOK'
      BY <1>1, <2>2, <3>1, Zenon DEF TypeOK, down_trylock
    <3>3. QED
      BY <2>2, <3>1, <3>2, SMTT(30) DEF down_trylock
  <2>3. QED
    BY <2>1, <2>2
<1>3. Taken' = Taken /\ Asleep' = Asleep /\ Takers' = Takers
  BY <1>1 DEF Taken, Asleep, Takers, context_suspend, down_trylock
<1>4. \A u \in Threads : pc'[u] = "wakeup" <=> pc[u] = "wakeup"
  BY <1>1 DEF context_suspend, down_trylock
<1>5. WokenOnce'
  BY <1>1, <1>2, <1>3, <1>4, SMTT(30) DEF WokenOnce
<1>6. UnitsHaveTakers'
  BY <1>1, <1>2, <1>3, Fingers, FS_CardinalityType, SMTT(30) DEF UnitsHaveTakers
<1>7. QED
  BY <1>2, <1>5, <1>6, SMTT(30) DEF IInv

(* The critical section of up() preserves the invariant.                   *)
LEMMA UpStep ==
  ASSUME IInv, NEW t \in Threads, up(t)
  PROVE  IInv'
<1>1. /\ TypeOK /\ WokenOnce /\ UnitsHaveTakers /\ value \in 0 .. MAX_VALUE
      /\ pc \in [Threads -> {"idle", "down", "suspending", "suspended", "wakeup"}]
      /\ next \in [Threads -> Threads \cup {NO_THREAD}]
      /\ waiters \in Seq(Threads) /\ MAX_VALUE \in Nat
  BY SemaphoreAssumption DEF IInv, TypeOK
<1>2. /\ pc[t] = "idle" /\ value' = value + 1 /\ UNCHANGED frame_full
      /\ value' \in 0 .. MAX_VALUE
  BY <1>1, SMTT(30) DEF up
<1>3. CASE waiters = << >>
  <2>1. UNCHANGED <<waiters, pc, next>>
    BY <1>3 DEF up
  <2>2. TypeOK'
    BY <1>1, <1>2, <2>1, Zenon DEF TypeOK
  <2>3. WokenOnce'
    BY <1>1, <2>1, SMTT(30) DEF WokenOnce, Taken, Asleep
  <2>4. QED
    BY <1>3, <2>1, <2>2, <2>3, SMTT(30) DEF IInv, UnitsHaveTakers
<1>4. CASE waiters # << >>
  <2> DEFINE h == Head(waiters)
  <2>1. /\ next' = [next EXCEPT ![t] = h] /\ waiters' = Tail(waiters)
        /\ pc' = [pc EXCEPT ![t] = "wakeup"]
    BY <1>4 DEF up
  <2>2. /\ h \in Threads /\ h \in ToSet(waiters)
        /\ waiters' \in Seq(Threads) /\ ToSet(waiters') = ToSet(waiters) \ {h}
        /\ \A i, j \in DOMAIN waiters' : i # j => waiters'[i] # waiters'[j]
    BY <1>1, <1>4, <2>1, RemoveWaiter, SMTT(30) DEF WokenOnce
  <2> HIDE DEF h
  <2>3. TypeOK'
    BY <1>1, <1>2, <2>1, <2>2, Zenon DEF TypeOK
  <2>4. h \in Asleep /\ h \notin Taken /\ h \notin Takers
    BY <1>1, <2>2, Fingers, SMTT(30) DEF WokenOnce, Takers, Asleep
  <2>5. Taken' = Taken \cup {h}
    <3>1. \A u \in Threads : u # t => pc'[u] = pc[u] /\ next'[u] = next[u]
      BY <1>1, <2>1, SMTT(30)
    <3>2. pc'[t] = "wakeup" /\ next'[t] = h
      BY <1>1, <2>1, SMTT(30)
    <3>3. QED
      BY <1>2, <3>1, <3>2, SMTT(30) DEF Taken
  <2>6. Asleep' = Asleep
    BY <1>1, <1>2, <2>1, SMTT(30) DEF Asleep
  <2>7. /\ ToSet(waiters') \cap Taken' = {}
        /\ ToSet(waiters') \cup Taken' = Asleep'
    BY <1>1, <2>2, <2>4, <2>5, <2>6, SMTT(30) DEF WokenOnce
  <2>8. ASSUME NEW u \in Threads, NEW v \in Threads,
               u # v, pc'[u] = "wakeup", pc'[v] = "wakeup"
        PROVE  next'[u] # next'[v]
    <3>1. \A w \in Threads : w # t /\ pc'[w] = "wakeup" =>
            next'[w] = next[w] /\ next[w] \in Taken /\ pc[w] = "wakeup"
      BY <1>1, <2>1, Fingers, SMTT(30)
    <3>2. next'[t] = h
      BY <1>1, <2>1, SMTT(30)
    <3>3. QED
      BY <1>1, <2>4, <2>8, <3>1, <3>2, SMTT(30) DEF WokenOnce
  <2>9. WokenOnce'
    BY <2>2, <2>7, <2>8, SMTT(30) DEF WokenOnce
  <2>10. Takers' = Takers \cup {h}
    BY <1>1, <1>2, <2>1, <2>5, SMTT(30) DEF Takers
  <2>11. Cardinality(Takers') = Cardinality(Takers) + 1 /\ Cardinality(Takers) \in Nat
    BY <1>1, <2>4, <2>10, Fingers, FS_AddElement, FS_CardinalityType, SMTT(30)
  <2>12. UnitsHaveTakers'
    BY <1>1, <1>2, <1>4, <2>11, SMTT(30) DEF UnitsHaveTakers
  <2>13. QED
    BY <2>3, <2>9, <2>12, SMTT(30) DEF IInv
<1>5. QED
  BY <1>3, <1>4

(* Resuming the context up() has taken preserves the invariant.            *)
LEMMA WakeupStep ==
  ASSUME IInv, NEW t \in Threads, Wakeup(t)
  PROVE  IInv'
<1>1. /\ TypeOK /\ WokenOnce /\ UnitsHaveTakers
      /\ pc \in [Threads -> {"idle", "down", "suspending", "suspended", "wakeup"}]
      /\ next \in [Threads -> Threads \cup {NO_THREAD}]
  BY DEF IInv, TypeOK
<1> DEFINE n == next[t]
<1>2. /\ pc[t] = "wakeup" /\ n \in Taken /\ n \in Asleep /\ n \in Threads /\ n # t
  BY <1>1, Fingers, SMTT(30) DEF Wakeup, Asleep
<1>3. /\ pc' = [[pc EXCEPT ![t] = "idle"] EXCEPT ![n] = "down"]
      /\ frame_full' = [frame_full EXCEPT ![n] = FALSE]
      /\ next' = [next EXCEPT ![t] = NO_THREAD]
      /\ UNCHANGED <<value, waiters>>
  BY <1>1, <1>2, SMTT(30) DEF Wakeup
<1> HIDE DEF n
<1>4. /\ pc'[t] = "idle" /\ pc'[n] = "down" /\ next'[t] = NO_THREAD
      /\ \A u \in Threads \ {t, n} : pc'[u] = pc[u]
      /\ \A u \in Threads \ {t} : next'[u] = next[u]
      /\ pc' \in [Threads -> {"idle", "down", "suspending", "suspended", "wakeup"}]
      /\ next' \in [Threads -> Threads \cup {NO_THREAD}]
  BY <1>1, <1>2, <1>3, SMTT(30)
<1>5. TypeOK'
  BY <1>1, <1>2, <1>3, <1>4, Zenon DEF TypeOK
<1>6. /\ Asleep' = Asleep \ {n} /\ pc[n] \in {"suspending", "suspended"}
  BY <1>2, <1>4, SMTT(30) DEF Asleep
<1>7. \A u \in Threads : pc'[u] = "wakeup" <=> (pc[u] = "wakeup" /\ u # t)
  BY <1>2, <1>4, <1>6, SMTT(30)
<1>8. Taken' = Taken \ {n}
  <2>1. \A u \in Threads : u # t /\ pc[u] = "wakeup" => next[u] # n
    BY <1>1, <1>2, SMTT(30) DEF WokenOnce, n
  <2>2. n = next[t]
    BY DEF n
  <2>3. QED
    BY <1>2, <1>4, <1>7, <2>1, <2>2, SMTT(30) DEF Taken
<1>9. WokenOnce'
  <2>1. /\ ToSet(waiters') \cap Taken' = {}
        /\ ToSet(waiters') \cup Taken' = Asleep'
    BY <1>1, <1>2, <1>3, <1>6, <1>8, SMTT(30) DEF WokenOnce
  <2>2. \A u, v \in Threads :
          u # v /\ pc'[u] = "wakeup" /\ pc'[v] = "wakeup" => next'[u] # next'[v]
    BY <1>1, <1>4, <1>7, SMTT(30) DEF WokenOnce
  <2>3. QED
    BY <1>1, <1>3, <2>1, <2>2, SMTT(30) DEF WokenOnce
<1>10. Takers' = Takers
  BY <1>2, <1>4, <1>8, SMTT(30) DEF Takers
<1>11. UnitsHaveTakers'
  BY <1>1, <1>3, <1>10, SMTT(30) DEF UnitsHaveTakers
<1>12. QED
  BY <1>5, <1>9, <1>11, SMTT(30) DEF IInv

-----------------------------------------------------------------------------
(* The theorems.                                                           *)

(* Every step of the semaphore preserves the invariant.                    *)
LEMMA NextIInv == IInv /\ [Next]_vars => IInv'
<1> SUFFICES ASSUME IInv, [Next]_vars PROVE IInv'
  OBVIOUS
<1>1. CASE Next
  BY <1>1, CallStep, DownStep, QuietStep, UpStep, WakeupStep, SMTT(30) DEF Next, Step
<1>2. CASE UNCHANGED vars
  BY <1>2 DEF IInv, TypeOK, WokenOnce, UnitsHaveTakers, Takers, Taken, Asleep, vars
<1>3. QED
  BY <1>1, <1>2

(* The inductive invariant of down(), down_trylock() and up().             *)
THEOREM Invariance == Spec => []IInv
BY InitIInv, NextIInv, PTL DEF Spec

(* A context that sleeps in down() is on the list or about to be resumed   *)
(* by exactly one up(): it is neither resumed twice nor forgotten.         *)
THEOREM WokenOnceCorrect == Spec => []WokenOnce
<1>1. IInv => WokenOnce
  BY DEF IInv
<1>2. QED
  BY <1>1, Invariance, PTL

(* up() loses no wake-up: as long as threads sleep on the list, each unit  *)
(* of the count has a thread on its way to take it.                        *)
THEOREM UnitsHaveTakersCorrect == Spec => []UnitsHaveTakers
<1>1. IInv => UnitsHaveTakers
  BY DEF IInv
<1>2. QED
  BY <1>1, Invariance, PTL

(* down(), down_trylock() and up() implement a counting semaphore: every   *)
(* step takes or gives one unit, or is invisible to the callers.           *)
THEOREM Refinement == Spec => ImplementsCounting
<1> DEFINE W == {t \in Threads : pc[t] \in {"down", "suspending", "suspended"}}
<1>1. sema_init => Counting!Init
  BY DEF sema_init, Counting!Init
<1>2. IInv /\ [Next]_vars => [Counting!Next]_<<value, W>>
  <2> SUFFICES ASSUME IInv, [Next]_vars
               PROVE  Counting!Next \/ UNCHANGED <<value, W>>
    OBVIOUS
  <2>1. /\ TypeOK /\ WokenOnce
        /\ pc \in [Threads -> {"idle", "down", "suspending", "suspended", "wakeup"}]
        /\ value \in Nat
    BY SemaphoreAssumption DEF IInv, TypeOK
  <2>2. ASSUME NEW t \in Threads, Call(t) PROVE Counting!Call(t)
    BY <2>1, <2>2, SMTT(30) DEF Call, Counting!Call
  <2>3. ASSUME NEW t \in Threads, down(t)
        PROVE  Counting!Acquire(t) \/ UNCHANGED <<value, W>>
    BY <2>1, <2>3 DEF down, Counting!Acquire
  <2>4. ASSUME NEW t \in Threads, context_suspend(t) PROVE UNCHANGED <<value, W>>
    BY <2>1, <2>4, SMTT(30) DEF context_suspend
  <2>5. ASSUME NEW t \in Threads, down_trylock(t) PROVE Counting!TryAcquire(t)
    BY <2>1, <2>5, SMTT(30) DEF down_trylock, Counting!TryAcquire
  <2>6. ASSUME NEW t \in Threads, up(t) PROVE Counting!Release(t)
    BY <2>1, <2>6, SMTT(30) DEF up, Counting!Release
  <2>7. ASSUME NEW t \in Threads, Wakeup(t) PROVE UNCHANGED <<value, W>>
    <3>1. /\ pc[t] = "wakeup" /\ next[t] \in Threads /\ next[t] # t
          /\ pc[next[t]] \in {"suspending", "suspended"}
      BY <2>1, <2>7, Fingers, SMTT(30) DEF Wakeup, Asleep
    <3>2. pc' = [[pc EXCEPT ![t] = "idle"] EXCEPT ![next[t]] = "down"] /\ value' = value
      BY <2>1, <2>7, <3>1, SMTT(30) DEF Wakeup
    <3>3. QED
      BY <2>1, <3>1, <3>2, SMTT(30)
  <2>8. CASE UNCHANGED vars
    BY <2>8 DEF vars
  <2>9. QED
    BY <2>2, <2>3, <2>4, <2>5, <2>6, <2>7, <2>8, SMTT(30) DEF Next, Step, Counting!Next
<1>3. QED
  BY <1>1, <1>2, Invariance, PTL DEF Spec, ImplementsCounting, Counting!Spec
=============================================================================

--------------------------- MODULE GpuLocksSteps ----------------------------
(***************************************************************************)
(* The inductive invariant of GpuLocks, and the steps inside               *)
(* _rmGpuLocksAcquire() and _rmGpuLocksRelease() and of the threads and    *)
(* interrupt handlers that call them, each of which keeps it.              *)
(* GpuLocksProof continues with the thread that has the API lock and       *)
(* states the theorems.                                                    *)
(*                                                                         *)
(* The invariant speaks of slots: what a thread holds is the lock call in  *)
(* progress (slot 0) and what its callers keep (slots 1 .. Len(held)).  A  *)
(* GPU is in one slot of one thread.  The parts of the invariant that a    *)
(* lock call changes take the state as parameters, so that what the loop   *)
(* of _rmGpuLocksAcquire() starts from, in the middle of a critical        *)
(* section, can be described by the same formulas.                         *)
(***************************************************************************)
EXTENDS GpuLocks, TLAPS

LockRec ==
  [count : Int, bRunning : BOOLEAN, bSignaled : BOOLEAN,
   threadId : All \cup {NO_THREAD}, pWaitSema : Nat \cup {NO_SEMA}]

CallRec ==
  [pc : {"idle", "sleep", "woken", "leave", "left", "locked", "release",
         "wake", "again"},
   kind : {"none", "all", "group", "device", "isr", "alloc", "free"},
   level : {"passive", "irq", "cond"}, todo : SUBSET Gpus,
   got : SUBSET Gpus, gpu : Gpus \cup {0}, mask : SUBSET Gpus,
   wake : SUBSET Gpus, retry : BOOLEAN]

HeldRec == [kind : {"all", "group", "device", "isr"}, mask : SUBSET Gpus]

HeldType == [All -> Seq(HeldRec)]

WaitPcs == {"sleep", "woken", "leave", "left"}

(* The GPUs whose lock is allocated: the lockable ones, and the one that   *)
(* the thread with the API lock is adding or has not destroyed yet.        *)
Live == gpusLockableMask \cup
        (IF api.pc \in {"alloc", "removed", "drain"} THEN {api.gpu} ELSE {})

Slot(cl, hl, t, i) ==
  IF i = 0 THEN cl[t].got \cup cl[t].mask ELSE hl[t][i].mask

(* A GPU is in one slot of one thread.                                     *)
Exclusive(cl, hl) ==
  \A t, u \in All : \A i \in 0 .. Len(hl[t]), j \in 0 .. Len(hl[u]) :
    \A g \in Gpus : g \in Slot(cl, hl, t, i) /\ g \in Slot(cl, hl, u, j)
                      => t = u /\ i = j

(* A GPU in a slot is locked, by the thread on record.                     *)
OnRecord(locks, cl, hl, live, dfr) ==
  \A t \in All : \A i \in 0 .. Len(hl[t]) : \A g \in Slot(cl, hl, t, i) :
    /\ g \in live /\ locks[g].bRunning
    /\ locks[g].threadId = (IF t \in dfr THEN NO_THREAD ELSE t)

(* What has been acquired is in gpusLockedMask.                            *)
InMask(cl, hl, locked) ==
  \A t \in All :
    /\ cl[t].pc \in {"locked", "release"} =>
         cl[t].got \cup cl[t].mask \subseteq locked
    /\ \A i \in 1 .. Len(hl[t]) : hl[t][i].mask \subseteq locked

WaitSet(cl, g) == {t \in All : cl[t].gpu = g /\ cl[t].pc \in WaitPcs}

(* n is the number of elements of D.                                       *)
Counts(n, D) ==
  /\ n \in Nat
  /\ \E f \in [1 .. n -> D] : /\ \A i, j \in 1 .. n : f[i] = f[j] => i = j
                              /\ \A d \in D : \E i \in 1 .. n : f[i] = d

(* How many waiters the count of a lock says there are.                    *)
Sleeping(lock) == 1 - (IF lock.bRunning THEN 1 ELSE 0) - lock.count

Counted(locks, cl) ==
  \A g \in Gpus : locks[g].pWaitSema # NO_SEMA =>
    Counts(Sleeping(locks[g]), WaitSet(cl, g))

(* A thread waits for an allocated lock only.                              *)
WaitsLive(locks, cl, live) ==
  /\ \A t \in All : cl[t].pc \in WaitPcs => cl[t].gpu \in live
  /\ \A g \in live : locks[g].pWaitSema # NO_SEMA

LockInv(locks, cl, hl, locked, live, dfr) ==
  /\ Exclusive(cl, hl)
  /\ OnRecord(locks, cl, hl, live, dfr)
  /\ InMask(cl, hl, locked)
  /\ Counted(locks, cl)
  /\ WaitsLive(locks, cl, live)

(* What a lock call has and has not at each of its points.                 *)
CallShape(c) ==
  /\ c.pc = "idle" => c = NoCall
  /\ c.pc \in WaitPcs => c.level # "cond" /\ c.mask = {} /\ c.gpu \in Gpus
  /\ c.pc = "locked" => c.mask = {}
  /\ c.pc = "release" => c.got \subseteq c.mask
  /\ c.pc \in {"wake", "again"} => c.got = {} /\ c.mask = {}
  /\ c.pc = "again" => c.kind = "all"

ShapeInv ==
  /\ \A t \in All : CallShape(call[t])
  /\ \A t \in deferred : call[t].pc = "idle" /\ Len(held[t]) = 1

(* The GPUs that a lock call has locked, waits for or has still to look at *)
Reach(c) ==
  c.got \cup c.todo \cup (IF c.pc \in {"sleep", "woken"} THEN {c.gpu} ELSE {})

(* The thread with the API lock: its lock call, and how the GPUs it adds   *)
(* and removes relate to those that are attached.                          *)
ApiInv ==
  /\ api.pc # "idle" => api.gpu \in Gpus
  /\ IF api.pc \in {"added", "detached", "free", "unwind"}
     THEN /\ api.gpu \in gpusLockableMask \ attached
          /\ gpusLockableMask \subseteq attached \cup {api.gpu}
     ELSE gpusLockableMask \subseteq attached
  /\ api.pc = "shutdown" => api.gpu \in attached
  /\ api.pc \in {"alloc", "removed", "drain"} => api.gpu \notin gpusLockableMask
  /\ api.pc # "shutdown" => held[API] = << >>
  /\ api.pc = "shutdown" =>
       /\ Len(held[API]) <= 1
       /\ call[API].pc # "idle" => held[API] = << >>
  /\ api.pc = "idle" => call[API].pc = "idle"
  /\ api.pc \in {"alloc", "free", "unwind"} =>
       /\ call[API].pc \in WaitPcs \cup {"locked"}
       /\ call[API].kind \in {"alloc", "free"}
       /\ gpusLockableMask \cap attached \subseteq Reach(call[API])
       /\ call[API].pc = "locked" => call[API].todo = {}
  /\ api.pc \in {"added", "detached", "removed", "drain"} =>
       /\ call[API].pc \in {"idle", "release", "wake"}
       /\ call[API].kind # "all"

LocksAll(t) ==
  \/ call[t].kind = "all"
  \/ \E i \in 1 .. Len(held[t]) : held[t][i].kind = "all"

(* All GPUs are still all GPUs when they are released, as the GPU of the   *)
(* caller stays attached.                                                  *)
AllInv ==
  /\ \A t \in All : \A i \in 1 .. Len(held[t]) :
       held[t][i].kind = "all" => held[t][i].mask = gpusLockableMask
  /\ \A t \in Threads : LocksAll(t) =>
       user[t] \in attached /\ (api.pc = "shutdown" => user[t] # api.gpu)

IInv ==
  /\ TypeOK
  /\ ShapeInv
  /\ LockInv(gpuLocks, call, held, gpusLockedMask, Live, deferred)
  /\ ApiInv
  /\ AllInv

-----------------------------------------------------------------------------
(* Only the call of one thread, or one lock, changes.                      *)
OnlyOf(t, cl, cl2) == \A u \in All \ {t} : cl2[u] = cl[u]

OnlyLock(g, locks, locks2) == \A h \in Gpus \ {g} : locks2[h] = locks[h]

(* Counting one more, one less, and none.                                  *)
LEMMA CountsMore ==
  ASSUME NEW n, NEW D, Counts(n, D), NEW b, b \notin D
  PROVE  Counts(n + 1, D \cup {b})
<1>1. PICK f \in [1 .. n -> D] : /\ \A i, j \in 1 .. n : f[i] = f[j] => i = j
                                /\ \A d \in D : \E i \in 1 .. n : f[i] = d
  BY Zenon DEF Counts
<1>2. n \in Nat
  BY Zenon DEF Counts
<1> DEFINE g == [i \in 1 .. n + 1 |-> IF i = n + 1 THEN b ELSE f[i]]
<1>3. g \in [1 .. n + 1 -> D \cup {b}]
  BY <1>2
<1>4. /\ g[n + 1] = b /\ n + 1 \in 1 .. n + 1
      /\ \A i \in 1 .. n : g[i] = f[i] /\ g[i] \in D /\ i \in 1 .. n + 1
      /\ \A i \in 1 .. n + 1 : i = n + 1 \/ i \in 1 .. n
  BY <1>2
<1> HIDE DEF g
<1>5. \A i, j \in 1 .. n + 1 : g[i] = g[j] => i = j
  BY <1>1, <1>4, Zenon
<1>6. \A d \in D \cup {b} : \E i \in 1 .. n + 1 : g[i] = d
  BY <1>1, <1>4, Zenon
<1>7. n + 1 \in Nat
  BY <1>2
<1> QED
  BY <1>3, <1>5, <1>6, <1>7, Zenon DEF Counts

LEMMA CountsLess ==
  ASSUME NEW n, NEW D, Counts(n, D), NEW b \in D
  PROVE  n # 0 /\ n - 1 \in Nat /\ Counts(n - 1, D \ {b})
<1>1. PICK f \in [1 .. n -> D] : /\ \A i, j \in 1 .. n : f[i] = f[j] => i = j
                                /\ \A d \in D : \E i \in 1 .. n : f[i] = d
  BY Zenon DEF Counts
<1>2. PICK k \in 1 .. n : f[k] = b
  BY <1>1, Zenon
<1>3. n \in Nat /\ n # 0 /\ n - 1 \in Nat
  BY <1>2 DEF Counts
<1> DEFINE g == [i \in 1 .. n - 1 |-> IF i < k THEN f[i] ELSE f[i + 1]]
<1>4. /\ \A i \in 1 .. n - 1 : i \in 1 .. n /\ i + 1 \in 1 .. n
      /\ \A i \in 1 .. n - 1 : g[i] = IF i < k THEN f[i] ELSE f[i + 1]
  BY <1>3
<1>5. g \in [1 .. n - 1 -> D \ {b}]
  <2>1. \A i \in 1 .. n - 1 : g[i] \in D \ {b}
    BY <1>1, <1>2, <1>3, <1>4
  <2> QED
    BY <2>1, Zenon
<1> HIDE DEF g
<1>6. \A i, j \in 1 .. n - 1 : g[i] = g[j] => i = j
  BY <1>1, <1>2, <1>3, <1>4
<1>7. ASSUME NEW d \in D \ {b}
      PROVE  \E i \in 1 .. n - 1 : g[i] = d
  <2>1. PICK m \in 1 .. n : f[m] = d
    BY <1>1, Zenon
  <2>2. CASE m < k
    <3>1. m \in 1 .. n - 1 /\ g[m] = d
      BY <1>3, <1>4, <2>1, <2>2
    <3> QED
      BY <3>1, Zenon
  <2>3. CASE ~(m < k)
    <3>1. m - 1 \in 1 .. n - 1 /\ ~(m - 1 < k) /\ (m - 1) + 1 = m
      BY <1>2, <1>3, <2>1, <2>3
    <3>2. g[m - 1] = d
      BY <1>4, <2>1, <3>1, Zenon
    <3> QED
      BY <3>1, <3>2, Zenon
  <2> QED
    BY <2>2, <2>3, Zenon
<1> QED
  BY <1>3, <1>5, <1>6, <1>7, Zenon DEF Counts

LEMMA CountsNone ==
  ASSUME NEW D
  PROVE  Counts(0, D) <=> D = {}
<1>1. 1 .. 0 = {}
  OBVIOUS
<1>2. ASSUME D = {} PROVE Counts(0, D)
  <2>1. [i \in 1 .. 0 |-> i] \in [1 .. 0 -> D]
    BY <1>1, Zenon
  <2> QED
    BY <1>1, <1>2, <2>1, Zenon DEF Counts
<1>3. ASSUME Counts(0, D) PROVE D = {}
  BY <1>1, <1>3, Zenon DEF Counts
<1> QED
  BY <1>2, <1>3, Zenon

(* The count of a lock that is free, that is released, that is taken.      *)
LEMMA FreshCount ==
  ASSUME NEW lock, ~lock.bRunning, lock.count = 1
  PROVE  Sleeping(lock) = 0
<1>1. Sleeping(lock) = 1 - 0 - 1
  BY Zenon DEF Sleeping
<1> QED
  BY <1>1

LEMMA Unlocks ==
  ASSUME NEW lock, NEW lock2, lock.bRunning, ~lock2.bRunning,
         lock.count \in Int, lock2.count = lock.count + 1
  PROVE  Sleeping(lock2) = Sleeping(lock)
<1>1. (IF lock.bRunning THEN 1 ELSE 0) = 1 /\ (IF lock2.bRunning THEN 1 ELSE 0) = 0
  BY Zenon
<1> QED
  BY <1>1 DEF Sleeping

LEMMA Locking ==
  ASSUME NEW lock, NEW lock2, ~lock.bRunning, lock2.bRunning,
         lock.count \in Int, lock2.count = lock.count
  PROVE  Sleeping(lock2) = Sleeping(lock) - 1
<1>1. (IF lock.bRunning THEN 1 ELSE 0) = 0 /\ (IF lock2.bRunning THEN 1 ELSE 0) = 1
  BY Zenon
<1> QED
  BY <1>1 DEF Sleeping

(* What is in a slot.                                                      *)
LEMMA SlotGpus ==
  ASSUME NEW cl \in [All -> CallRec], NEW hl \in HeldType,
         NEW t \in All, NEW i \in 0 .. Len(hl[t])
  PROVE  Slot(cl, hl, t, i) \subseteq Gpus
<1>1. CASE i = 0
  BY <1>1, Zenon DEF Slot, CallRec
<1>2. CASE i # 0
  <2>1. hl[t] \in Seq(HeldRec) /\ i \in 1 .. Len(hl[t])
    BY <1>2 DEF HeldType
  <2>2. hl[t][i] \in HeldRec
    BY <2>1
  <2> QED
    BY <2>2, <1>2, Zenon DEF Slot, HeldRec
<1> QED
  BY <1>1, <1>2, Zenon

LEMMA HeldAt ==
  ASSUME NEW hl \in HeldType, NEW t \in All
  PROVE  hl[t] \in Seq(HeldRec)
BY Zenon DEF HeldType

Puts(hl, hl2, t, s) ==
  hl \in HeldType /\ s \in Seq(HeldRec) /\ hl2 = [hl EXCEPT ![t] = s]

HasPut(hl, hl2, t, s) ==
  hl2 \in HeldType /\ hl2[t] = s /\ \A u \in All \ {t} : hl2[u] = hl[u]

LEMMA HeldPut ==
  ASSUME NEW hl, NEW hl2, NEW t \in All, NEW s, Puts(hl, hl2, t, s)
  PROVE  HasPut(hl, hl2, t, s)
BY Zenon DEF HeldType, Puts, HasPut

LEMMA HeldLen ==
  ASSUME NEW hl \in HeldType, NEW t \in All
  PROVE  Len(hl[t]) \in Nat
<1>1. hl[t] \in Seq(HeldRec)
  BY Zenon DEF HeldType
<1> QED
  BY <1>1

LEMMA NotAll ==
  ASSUME NEW t, call[t].kind = "none", Len(held[t]) = 0
  PROVE  ~LocksAll(t)
BY DEF LocksAll

(* The parts of the invariant, at one slot or at two.                      *)
LEMMA ExclusiveAt ==
  ASSUME NEW cl, NEW hl, Exclusive(cl, hl), NEW t \in All, NEW u \in All,
         NEW i \in 0 .. Len(hl[t]), NEW j \in 0 .. Len(hl[u]), NEW g \in Gpus,
         g \in Slot(cl, hl, t, i), g \in Slot(cl, hl, u, j)
  PROVE  t = u /\ i = j
BY Zenon DEF Exclusive

(* Slots that only lose locks still share none.                            *)
Within(cl, hl, cl2, hl2) ==
  \A u \in All : \A i \in 0 .. Len(hl2[u]) :
    i \in 0 .. Len(hl[u]) /\ \A h \in Slot(cl2, hl2, u, i) : h \in Slot(cl, hl, u, i)

LEMMA ExclusiveWithin ==
  ASSUME NEW cl, NEW hl, NEW cl2, NEW hl2, Exclusive(cl, hl),
         Within(cl, hl, cl2, hl2)
  PROVE  Exclusive(cl2, hl2)
<1> SUFFICES ASSUME NEW t \in All, NEW u \in All, NEW i \in 0 .. Len(hl2[t]),
                    NEW j \in 0 .. Len(hl2[u]), NEW g \in Gpus,
                    g \in Slot(cl2, hl2, t, i), g \in Slot(cl2, hl2, u, j)
             PROVE  t = u /\ i = j
  BY Zenon DEF Exclusive
<1>1. /\ i \in 0 .. Len(hl[t]) /\ g \in Slot(cl, hl, t, i)
      /\ j \in 0 .. Len(hl[u]) /\ g \in Slot(cl, hl, u, j)
  BY Zenon DEF Within
<1> QED
  BY <1>1, Zenon DEF Exclusive

LEMMA InMaskAt ==
  ASSUME NEW cl, NEW hl, NEW locked, InMask(cl, hl, locked), NEW t \in All,
         NEW i \in 1 .. Len(hl[t])
  PROVE  hl[t][i].mask \subseteq locked
BY Zenon DEF InMask

-----------------------------------------------------------------------------
(* _rmGpuLocksAcquire(): what the loop takes and what it waits for.        *)
TakenLock(lock, t) ==
  [lock EXCEPT !.count = @ - 1, !.bRunning = TRUE, !.threadId = t]

Takes(t, c, locks, take, wait) ==
  /\ take \cap wait = {}
  /\ \A g \in take : c.level = "cond" \/ locks[g].count > 0
  /\ gpuLocks' = [g \in Gpus |->
       IF g \in take THEN TakenLock(locks[g], t)
       ELSE IF g \in wait THEN [locks[g] EXCEPT !.count = @ - 1]
       ELSE locks[g]]

HasAll(t, c, take, wait) ==
  /\ wait = {} /\ gpusLockableMask \cap c.todo \subseteq take
  /\ call' = [call EXCEPT ![t] = [c EXCEPT !.pc = "locked", !.todo = {},
                                          !.got = c.got \cup take]]
  /\ gpusLockedMask' = gpusLockedMask \cup (c.got \cup take)

WaitsFor(t, c, take, wait, g) ==
  /\ wait = {g} /\ c.level # "cond"
  /\ \A h \in gpusLockableMask \cap c.todo : h \in take \/ h = g \/ h > g
  /\ call' = [call EXCEPT ![t] =
       [c EXCEPT !.pc = "sleep", !.gpu = g, !.got = c.got \cup take,
                 !.todo = {h \in c.todo : h > g}]]
  /\ gpusLockedMask' = gpusLockedMask

LEMMA LoopIs ==
  ASSUME NEW t \in All, NEW c \in CallRec, NEW locks \in [Gpus -> LockRec],
         gpusLockableMask \in SUBSET Gpus, Loop(t, c, locks)
  PROVE  \E take, wait \in SUBSET (gpusLockableMask \cap c.todo) :
           /\ Takes(t, c, locks, take, wait)
           /\ \/ HasAll(t, c, take, wait)
              \/ \E g \in wait : WaitsFor(t, c, take, wait, g)
<1> DEFINE live == c.todo \cap gpusLockableMask
           busy == {g \in live : c.level # "cond" /\ locks[g].count <= 0}
           take == {g \in live : \A b \in busy : g < b}
           wait == {g \in busy : \A b \in busy : g <= b}
<1>1. \A g \in live : g \in Gpus /\ g \in Nat /\ locks[g].count \in Int
  BY GpuLocksAssumption, Zenon DEF CallRec, LockRec
<1>2. /\ \A g : g \in busy <=> /\ g \in live /\ c.level # "cond"
                              /\ locks[g].count <= 0
      /\ \A g : g \in take <=> g \in live /\ \A b \in busy : g < b
      /\ \A g : g \in wait <=> g \in busy /\ \A b \in busy : g <= b
  BY Zenon
<1>3. gpuLocks' = [g \in Gpus |->
        CASE g \in take -> [locks[g] EXCEPT !.count = @ - 1,
                               !.bRunning = TRUE, !.threadId = t]
          [] g \in wait -> [locks[g] EXCEPT !.count = @ - 1]
          [] OTHER -> locks[g]]
  BY Zenon DEF Loop
<1>4. \/ /\ busy = {}
         /\ call' = [call EXCEPT ![t] =
              [c EXCEPT !.pc = "locked", !.todo = {},
                        !.got = c.got \cup take]]
         /\ gpusLockedMask' = gpusLockedMask \cup (c.got \cup take)
      \/ \E g \in wait :
           /\ call' = [call EXCEPT ![t] =
                [c EXCEPT !.pc = "sleep", !.gpu = g,
                          !.got = c.got \cup take,
                          !.todo = {h \in c.todo : h > g}]]
           /\ gpusLockedMask' = gpusLockedMask
  BY Zenon DEF Loop
<1>5. live = gpusLockableMask \cap c.todo
  BY Zenon
<1> HIDE DEF live, busy, take, wait
<1>6. take \subseteq live /\ wait \subseteq busy /\ busy \subseteq live
  BY <1>2, Zenon
<1>7. take \cap busy = {}
  <2> SUFFICES ASSUME NEW g, g \in take, g \in busy PROVE FALSE
    BY Zenon
  <2>1. g < g /\ g \in Nat
    BY <1>1, <1>2, Zenon
  <2> QED
    BY <2>1
<1>8. \A g \in take : c.level = "cond" \/ locks[g].count > 0
  <2> SUFFICES ASSUME NEW g \in take, c.level # "cond"
               PROVE  locks[g].count > 0
    BY Zenon
  <2>1. locks[g].count \in Int /\ ~(locks[g].count <= 0)
    BY <1>1, <1>2, <1>7, Zenon
  <2> QED
    BY <2>1
<1>9. busy = {} => wait = {}
  BY <1>6, Zenon
<1>10. busy = {} => live \subseteq take
  BY <1>2, Zenon
<1>11. ASSUME NEW g \in wait
       PROVE  /\ wait = {g} /\ c.level # "cond"
              /\ \A h \in live : h \in take \/ h = g \/ h > g
  <2>1. g \in Nat /\ g \in busy
    BY <1>1, <1>6, Zenon
  <2>2. ASSUME NEW h \in wait PROVE h = g
    <3>1. h \in Nat /\ h <= g /\ g <= h
      BY <1>1, <1>2, <1>6, Zenon
    <3> QED
      BY <3>1, <2>1
  <2>3. ASSUME NEW h \in live, ~(h > g), h # g PROVE h \in take
    <3>1. h \in Nat /\ h < g
      BY <1>1, <2>1, <2>3
    <3>2. ASSUME NEW b \in busy PROVE h < b
      <4>1. b \in Nat /\ g <= b
        BY <1>1, <1>2, <1>6, Zenon
      <4> QED
        BY <3>1, <4>1, <2>1
    <3> QED
      BY <3>2, <1>2, Zenon
  <2> QED
    BY <2>1, <2>2, <2>3, <1>2, Zenon
<1>12. Takes(t, c, locks, take, wait)
  <2>1. take \cap wait = {}
    BY <1>6, <1>7, Zenon
  <2> QED
    BY <1>3, <1>8, <2>1, Zenon DEF TakenLock, Takes
<1>13. \/ HasAll(t, c, take, wait)
       \/ \E g \in wait : WaitsFor(t, c, take, wait, g)
  BY <1>4, <1>5, <1>9, <1>10, <1>11, Zenon DEF HasAll, WaitsFor
<1> take \in SUBSET (gpusLockableMask \cap c.todo)
  BY <1>5, <1>6, Zenon
<1> wait \in SUBSET (gpusLockableMask \cap c.todo)
  BY <1>5, <1>6, Zenon
<1> QED
  BY <1>12, <1>13, Zenon

(* The loop keeps the invariant of the locks.  It starts from locks, which *)
(* the critical section may have changed, with the thread no longer among  *)
(* the waiters.                                                            *)
CondFree(c, locks) ==
  c.level = "cond" => \A g \in c.todo : ~locks[g].bRunning

LEMMA LoopLocks ==
  ASSUME NEW t \in All, NEW c \in CallRec, NEW locks \in [Gpus -> LockRec],
         NEW cl \in [All -> CallRec], NEW hl, NEW live, NEW dfr,
         call \in [All -> CallRec], gpusLockableMask \in SUBSET Gpus,
         gpusLockableMask \subseteq live, t \notin dfr,
         live \in SUBSET Gpus, hl \in HeldType,
         OnlyOf(t, call, cl),
         cl[t].got = c.got, cl[t].mask = {}, c.mask = {},
         cl[t].pc \notin WaitPcs,
         CondFree(c, locks),
         LockInv(locks, cl, hl, gpusLockedMask, live, dfr),
         Loop(t, c, locks)
  PROVE  LockInv(gpuLocks', call', hl, gpusLockedMask', live, dfr)
<1> \A u \in All \ {t} : cl[u] = call[u]
  BY Zenon DEF OnlyOf
<1>1. PICK take, wait \in SUBSET (gpusLockableMask \cap c.todo) :
        /\ Takes(t, c, locks, take, wait)
        /\ \/ HasAll(t, c, take, wait)
           \/ \E g \in wait : WaitsFor(t, c, take, wait, g)
  BY LoopIs, Zenon
<1>2. \A g \in take :
        /\ g \in Gpus /\ g \in live /\ g \in c.todo
        /\ gpuLocks'[g].count = locks[g].count - 1
        /\ gpuLocks'[g].bRunning /\ gpuLocks'[g].threadId = t
        /\ gpuLocks'[g].pWaitSema = locks[g].pWaitSema
  <2> SUFFICES ASSUME NEW g \in take
               PROVE  /\ g \in Gpus /\ g \in live /\ g \in c.todo
                      /\ gpuLocks'[g].count = locks[g].count - 1
                      /\ gpuLocks'[g].bRunning /\ gpuLocks'[g].threadId = t
                      /\ gpuLocks'[g].pWaitSema = locks[g].pWaitSema
    BY Zenon
  <2>1. g \in Gpus /\ g \in live /\ g \in c.todo
    BY Zenon
  <2>2. gpuLocks'[g] = TakenLock(locks[g], t)
    BY <1>1, <2>1, Zenon DEF Takes
  <2>3. locks[g] \in LockRec
    BY <2>1, Zenon
  <2> QED
    BY <2>1, <2>2, <2>3, Zenon DEF TakenLock, LockRec
<1>3. \A g \in Gpus \ take :
        /\ gpuLocks'[g].count = locks[g].count - (IF g \in wait THEN 1 ELSE 0)
        /\ gpuLocks'[g].bRunning = locks[g].bRunning
        /\ gpuLocks'[g].threadId = locks[g].threadId
        /\ gpuLocks'[g].pWaitSema = locks[g].pWaitSema
  <2> SUFFICES ASSUME NEW g \in Gpus \ take
               PROVE  /\ gpuLocks'[g].count =
                           locks[g].count - (IF g \in wait THEN 1 ELSE 0)
                      /\ gpuLocks'[g].bRunning = locks[g].bRunning
                      /\ gpuLocks'[g].threadId = locks[g].threadId
                      /\ gpuLocks'[g].pWaitSema = locks[g].pWaitSema
    BY Zenon
  <2>1. gpuLocks'[g] = IF g \in wait THEN [locks[g] EXCEPT !.count = @ - 1]
                                     ELSE locks[g]
    BY <1>1, Zenon DEF Takes
  <2>2. locks[g] \in LockRec
    BY Zenon
  <2> QED
    BY <2>1, <2>2 DEF LockRec
<1>4. \A u \in All \ {t} : call'[u] = cl[u]
  BY <1>1, Zenon DEF HasAll, WaitsFor
<1>5. /\ call'[t].got = c.got \cup take /\ call'[t].mask = {}
      /\ \/ /\ call'[t].pc = "locked" /\ wait = {}
            /\ gpusLockedMask' = gpusLockedMask \cup (c.got \cup take)
         \/ /\ call'[t].pc = "sleep" /\ wait = {call'[t].gpu}
            /\ gpusLockedMask' = gpusLockedMask
  <2>1. CASE HasAll(t, c, take, wait)
    <3>1. call'[t] = [c EXCEPT !.pc = "locked", !.todo = {},
                               !.got = c.got \cup take]
      BY <2>1, Zenon DEF HasAll
    <3> QED
      BY <3>1, <2>1, Zenon DEF CallRec, HasAll
  <2>2. CASE \E g \in wait : WaitsFor(t, c, take, wait, g)
    <3>1. PICK g \in wait : WaitsFor(t, c, take, wait, g)
      BY <2>2, Zenon
    <3>2. call'[t] = [c EXCEPT !.pc = "sleep", !.gpu = g,
                               !.got = c.got \cup take,
                               !.todo = {h \in c.todo : h > g}]
      BY <3>1, Zenon DEF WaitsFor
    <3> QED
      BY <3>1, <3>2, Zenon DEF CallRec, WaitsFor
  <2> QED
    BY <1>1, <2>1, <2>2, Zenon
<1>7. wait \subseteq live /\ wait \subseteq Gpus
  BY <1>1, Zenon
<1>8. \A g \in Gpus : locks[g].count \in Int /\ locks[g].bRunning \in BOOLEAN
  BY Zenon DEF LockRec
<1>9. /\ Exclusive(cl, hl) /\ OnRecord(locks, cl, hl, live, dfr)
      /\ InMask(cl, hl, gpusLockedMask) /\ Counted(locks, cl)
      /\ WaitsLive(locks, cl, live)
  BY Zenon DEF LockInv
<1>10. \A g \in take : ~locks[g].bRunning
  <2> SUFFICES ASSUME NEW g \in take PROVE ~locks[g].bRunning
    BY Zenon
  <2>1. CASE c.level = "cond"
    BY <2>1, <1>2, Zenon DEF CondFree
  <2>2. CASE c.level # "cond"
    <3>1. locks[g].count > 0 /\ locks[g].pWaitSema # NO_SEMA
      BY <1>1, <1>2, <1>9, <2>2, Zenon DEF WaitsLive, Takes
    <3>2. Sleeping(locks[g]) \in Nat
      BY <3>1, <1>2, <1>9, Zenon DEF Counted, Counts
    <3> QED
      BY <3>1, <3>2, <1>2, <1>8 DEF Sleeping
  <2> QED
    BY <2>1, <2>2, Zenon
<1>11. \A u \in All : \A i \in 0 .. Len(hl[u]) :
         Slot(call', hl, u, i) = IF u = t /\ i = 0
                                 THEN Slot(cl, hl, u, i) \cup take
                                 ELSE Slot(cl, hl, u, i)
  BY <1>4, <1>5, Zenon DEF Slot
<1>12. \A u \in All : \A i \in 0 .. Len(hl[u]) : \A g \in take :
         g \notin Slot(cl, hl, u, i)
  BY <1>9, <1>10, Zenon DEF OnRecord
<1>14. Exclusive(call', hl)
  <2> SUFFICES ASSUME NEW u \in All, NEW v \in All, NEW i \in 0 .. Len(hl[u]),
                      NEW j \in 0 .. Len(hl[v]), NEW g \in Gpus,
                      g \in Slot(call', hl, u, i), g \in Slot(call', hl, v, j)
               PROVE  u = v /\ i = j
    BY Zenon DEF Exclusive
  <2>1. CASE g \in take
    <3>1. (u = t /\ i = 0) /\ (v = t /\ j = 0)
      BY <2>1, <1>11, <1>12
    <3> QED
      BY <3>1, Zenon
  <2>2. CASE g \notin take
    <3>1. g \in Slot(cl, hl, u, i) /\ g \in Slot(cl, hl, v, j)
      BY <2>2, <1>11, Zenon
    <3> QED
      BY <3>1, <1>9, Zenon DEF Exclusive
  <2> QED
    BY <2>1, <2>2, Zenon
<1>15. OnRecord(gpuLocks', call', hl, live, dfr)
  <2> SUFFICES ASSUME NEW u \in All, NEW i \in 0 .. Len(hl[u]),
                      NEW g \in Slot(call', hl, u, i)
               PROVE  /\ g \in live /\ gpuLocks'[g].bRunning
                      /\ gpuLocks'[g].threadId =
                           (IF u \in dfr THEN NO_THREAD ELSE u)
    BY Zenon DEF OnRecord
  <2>1. CASE g \in take
    <3>1. u = t
      BY <2>1, <1>11, <1>12, Zenon
    <3> QED
      BY <3>1, <2>1, <1>2, Zenon
  <2>2. CASE g \notin take
    <3>1. g \in Slot(cl, hl, u, i)
      BY <2>2, <1>11, Zenon
    <3>2. /\ g \in live /\ locks[g].bRunning
          /\ locks[g].threadId = (IF u \in dfr THEN NO_THREAD ELSE u)
      BY <3>1, <1>9, Zenon DEF OnRecord
    <3>3. g \in Gpus
      BY <3>1, SlotGpus, Zenon
    <3> QED
      BY <3>2, <3>3, <2>2, <1>3, Zenon
  <2> QED
    BY <2>1, <2>2, Zenon
<1>16. InMask(call', hl, gpusLockedMask')
  BY <1>4, <1>5, <1>9, Zenon DEF InMask
<1>17. Counted(gpuLocks', call')
  <2> SUFFICES ASSUME NEW g \in Gpus, gpuLocks'[g].pWaitSema # NO_SEMA
               PROVE  Counts(Sleeping(gpuLocks'[g]), WaitSet(call', g))
    BY Zenon DEF Counted
  <2>1. Counts(Sleeping(locks[g]), WaitSet(cl, g))
    BY <1>2, <1>3, <1>9, Zenon DEF Counted
  <2>3. CASE g \in wait
    <3>1. call'[t].pc = "sleep" /\ call'[t].gpu = g
      BY <2>3, <1>5, Zenon
    <3>2. WaitSet(call', g) = WaitSet(cl, g) \cup {t} /\ t \notin WaitSet(cl, g)
      BY <3>1, <1>4 DEF WaitSet, WaitPcs
    <3>3. g \notin take
      BY <2>3, <1>1, Zenon DEF Takes
    <3>4. Sleeping(gpuLocks'[g]) = Sleeping(locks[g]) + 1
      BY <3>3, <2>3, <1>3, <1>8 DEF Sleeping
    <3> QED
      BY <3>2, <3>4, <2>1, CountsMore
  <2>4. CASE g \notin wait
    <3>1. ~(call'[t].pc \in WaitPcs /\ call'[t].gpu = g)
      BY <2>4, <1>5, Zenon DEF WaitPcs
    <3>2. WaitSet(call', g) = WaitSet(cl, g)
      BY <3>1, <1>4, Zenon DEF WaitSet
    <3>3. Sleeping(gpuLocks'[g]) = Sleeping(locks[g])
      <4>1. CASE g \in take
        BY <4>1, <1>2, <1>8, <1>10 DEF Sleeping
      <4>2. CASE g \notin take
        BY <4>2, <2>4, <1>3, <1>8 DEF Sleeping
      <4> QED
        BY <4>1, <4>2, Zenon
    <3> QED
      BY <3>2, <3>3, <2>1, Zenon
  <2> QED
    BY <2>3, <2>4, Zenon
<1>18. WaitsLive(gpuLocks', call', live)
  <2>1. \A u \in All : call'[u].pc \in WaitPcs => call'[u].gpu \in live
    BY <1>4, <1>5, <1>7, <1>9, Zenon DEF WaitsLive, WaitPcs
  <2>2. \A g \in live \cap Gpus : gpuLocks'[g].pWaitSema # NO_SEMA
    BY <1>2, <1>3, <1>9, Zenon DEF WaitsLive
  <2> QED
    BY <2>1, <2>2, Zenon DEF WaitsLive
<1> QED
  BY <1>14, <1>15, <1>16, <1>17, <1>18, Zenon DEF LockInv

-----------------------------------------------------------------------------
(* Steps that neither take nor release a lock, nor begin or end a wait.    *)
QuietLock(locks, locks2) ==
  \A g \in Gpus :
    /\ locks2[g].count = locks[g].count
    /\ locks2[g].bRunning = locks[g].bRunning
    /\ locks2[g].threadId = locks[g].threadId
    /\ locks2[g].pWaitSema = NO_SEMA <=> locks[g].pWaitSema = NO_SEMA

QuietCall(cl, cl2) ==
  \A t \in All :
    /\ cl2[t].got \cup cl2[t].mask = cl[t].got \cup cl[t].mask
    /\ cl2[t].pc \in WaitPcs <=> cl[t].pc \in WaitPcs
    /\ cl2[t].pc \in WaitPcs => cl2[t].gpu = cl[t].gpu
    /\ cl2[t].pc \in {"locked", "release"} =>
         \/ cl[t].pc \in {"locked", "release"}
         \/ cl2[t].got \cup cl2[t].mask = {}

LEMMA QuietLocks ==
  ASSUME NEW locks, NEW locks2, NEW cl, NEW cl2,
         NEW hl \in HeldType, NEW locked,
         NEW live \in SUBSET Gpus, NEW dfr,
         LockInv(locks, cl, hl, locked, live, dfr),
         QuietLock(locks, locks2), QuietCall(cl, cl2)
  PROVE  LockInv(locks2, cl2, hl, locked, live, dfr)
<1>1. \A t \in All : \A i \in 0 .. Len(hl[t]) :
        Slot(cl2, hl, t, i) = Slot(cl, hl, t, i)
  BY Zenon DEF Slot, QuietCall
<1>2. Exclusive(cl2, hl)
  <2>1. Exclusive(cl, hl)
    BY Zenon DEF LockInv
  <2> QED
    BY <2>1, <1>1 DEF Exclusive
<1>3. OnRecord(locks2, cl2, hl, live, dfr)
  <2>1. OnRecord(locks, cl, hl, live, dfr)
    BY Zenon DEF LockInv
  <2> QED
    BY <2>1, <1>1 DEF OnRecord, QuietLock
<1>4. InMask(cl2, hl, locked)
  <2>1. InMask(cl, hl, locked)
    BY Zenon DEF LockInv
  <2> QED
    BY <2>1, Zenon DEF InMask, QuietCall
<1>5. Counted(locks2, cl2)
  <2>1. Counted(locks, cl)
    BY Zenon DEF LockInv
  <2>2. \A g \in Gpus : WaitSet(cl2, g) = WaitSet(cl, g)
    BY Zenon DEF WaitSet, QuietCall
  <2>3. \A g \in Gpus :
          /\ Sleeping(locks2[g]) = Sleeping(locks[g])
          /\ locks2[g].pWaitSema = NO_SEMA <=> locks[g].pWaitSema = NO_SEMA
    BY Zenon DEF QuietLock, Sleeping
  <2> QED
    BY <2>1, <2>2, <2>3, Zenon DEF Counted
<1>6. WaitsLive(locks2, cl2, live)
  <2>1. WaitsLive(locks, cl, live)
    BY Zenon DEF LockInv
  <2> QED
    BY <2>1, Zenon DEF WaitsLive, QuietLock, QuietCall
<1> QED
  BY <1>2, <1>3, <1>4, <1>5, <1>6, Zenon DEF LockInv

(* Steps of one thread that move what it holds from slot to slot: f says   *)
(* where the contents of a slot were before.                               *)
OnlyMine(t, cl, cl2, hl, hl2) ==
  \A u \in All \ {t} : cl2[u] = cl[u] /\ hl2[u] = hl[u]

Moves(t, cl, cl2, hl, hl2, f) ==
  \A i \in 0 .. Len(hl2[t]) : Slot(cl2, hl2, t, i) # {} =>
    /\ f[i] \in 0 .. Len(hl[t])
    /\ Slot(cl2, hl2, t, i) \subseteq Slot(cl, hl, t, f[i])
    /\ \A j \in 0 .. Len(hl2[t]) :
         Slot(cl2, hl2, t, j) # {} /\ f[i] = f[j] => i = j

LEMMA MovedLocks ==
  ASSUME NEW locks, NEW cl, NEW cl2, NEW hl, NEW hl2, NEW locked, NEW live,
         NEW dfr, NEW t \in All, NEW f,
         LockInv(locks, cl, hl, locked, live, dfr), InMask(cl2, hl2, locked),
         OnlyMine(t, cl, cl2, hl, hl2), Moves(t, cl, cl2, hl, hl2, f),
         cl[t].pc \notin WaitPcs, cl2[t].pc \notin WaitPcs
  PROVE  LockInv(locks, cl2, hl2, locked, live, dfr)
<1> \A u \in All \ {t} : cl2[u] = cl[u] /\ hl2[u] = hl[u]
  BY Zenon DEF OnlyMine
<1> \A i \in 0 .. Len(hl2[t]) : Slot(cl2, hl2, t, i) # {} =>
      /\ f[i] \in 0 .. Len(hl[t])
      /\ Slot(cl2, hl2, t, i) \subseteq Slot(cl, hl, t, f[i])
      /\ \A j \in 0 .. Len(hl2[t]) :
           Slot(cl2, hl2, t, j) # {} /\ f[i] = f[j] => i = j
  BY Zenon DEF Moves
<1>1. \A u \in All \ {t} : /\ Len(hl2[u]) = Len(hl[u])
                          /\ \A i : Slot(cl2, hl2, u, i) = Slot(cl, hl, u, i)
  BY Zenon DEF Slot
<1>2. Exclusive(cl2, hl2)
  <2>1. Exclusive(cl, hl)
    BY Zenon DEF LockInv
  <2> SUFFICES ASSUME NEW u \in All, NEW v \in All,
                      NEW i \in 0 .. Len(hl2[u]), NEW j \in 0 .. Len(hl2[v]),
                      NEW g \in Gpus,
                      g \in Slot(cl2, hl2, u, i), g \in Slot(cl2, hl2, v, j)
               PROVE  u = v /\ i = j
    BY Zenon DEF Exclusive
  <2>2. CASE u = t /\ v = t
    <3>1. /\ f[i] \in 0 .. Len(hl[t]) /\ g \in Slot(cl, hl, t, f[i])
          /\ f[j] \in 0 .. Len(hl[t]) /\ g \in Slot(cl, hl, t, f[j])
      BY <2>2, Zenon
    <3>2. f[i] = f[j]
      BY <3>1, <2>1 DEF Exclusive
    <3>3. Slot(cl2, hl2, t, i) # {} /\ Slot(cl2, hl2, t, j) # {}
      BY <2>2, Zenon
    <3> QED
      BY <3>2, <3>3, <2>2, Zenon
  <2>3. CASE u = t /\ v # t
    <3>1. /\ f[i] \in 0 .. Len(hl[t]) /\ g \in Slot(cl, hl, t, f[i])
          /\ j \in 0 .. Len(hl[v]) /\ g \in Slot(cl, hl, v, j)
      BY <2>3, <1>1, Zenon
    <3> QED
      BY <3>1, <2>1, <2>3, Zenon DEF Exclusive
  <2>4. CASE u # t /\ v = t
    <3>1. /\ f[j] \in 0 .. Len(hl[t]) /\ g \in Slot(cl, hl, t, f[j])
          /\ i \in 0 .. Len(hl[u]) /\ g \in Slot(cl, hl, u, i)
      BY <2>4, <1>1, Zenon
    <3> QED
      BY <3>1, <2>1, <2>4, Zenon DEF Exclusive
  <2>5. CASE u # t /\ v # t
    <3>1. /\ i \in 0 .. Len(hl[u]) /\ g \in Slot(cl, hl, u, i)
          /\ j \in 0 .. Len(hl[v]) /\ g \in Slot(cl, hl, v, j)
      BY <2>5, <1>1, Zenon
    <3> QED
      BY <3>1, <2>1, Zenon DEF Exclusive
  <2> QED
    BY <2>2, <2>3, <2>4, <2>5, Zenon
<1>3. OnRecord(locks, cl2, hl2, live, dfr)
  <2>1. OnRecord(locks, cl, hl, live, dfr)
    BY Zenon DEF LockInv
  <2> SUFFICES ASSUME NEW u \in All, NEW i \in 0 .. Len(hl2[u]),
                      NEW g \in Slot(cl2, hl2, u, i)
               PROVE  /\ g \in live /\ locks[g].bRunning
                      /\ locks[g].threadId =
                           (IF u \in dfr THEN NO_THREAD ELSE u)
    BY Zenon DEF OnRecord
  <2>2. CASE u = t
    <3>1. f[i] \in 0 .. Len(hl[t]) /\ g \in Slot(cl, hl, t, f[i])
      BY <2>2, Zenon
    <3> QED
      BY <3>1, <2>1, <2>2 DEF OnRecord
  <2>3. CASE u # t
    <3>1. i \in 0 .. Len(hl[u]) /\ g \in Slot(cl, hl, u, i)
      BY <2>3, <1>1, Zenon
    <3> QED
      BY <3>1, <2>1 DEF OnRecord
  <2> QED
    BY <2>2, <2>3, Zenon
<1>4. Counted(locks, cl2)
  <2>1. Counted(locks, cl)
    BY Zenon DEF LockInv
  <2>2. \A g \in Gpus : WaitSet(cl2, g) = WaitSet(cl, g)
    BY Zenon DEF WaitSet
  <2> QED
    BY <2>1, <2>2, Zenon DEF Counted
<1>5. WaitsLive(locks, cl2, live)
  <2>1. WaitsLive(locks, cl, live)
    BY Zenon DEF LockInv
  <2> QED
    BY <2>1, Zenon DEF WaitsLive
<1> QED
  BY <1>2, <1>3, <1>4, <1>5, Zenon DEF LockInv

(* The waiters without one of them.                                        *)
LEMMA OneWaiterLess ==
  ASSUME NEW cl, NEW cl2, NEW t \in All, NEW g,
         OnlyOf(t, cl, cl2),
         cl[t].pc \in WaitPcs, cl[t].gpu = g, cl2[t].pc \notin WaitPcs
  PROVE  /\ \A n : Counts(n, WaitSet(cl, g)) => Counts(n - 1, WaitSet(cl2, g))
         /\ \A h : h # g => WaitSet(cl2, h) = WaitSet(cl, h)
<1>1. t \in WaitSet(cl, g) /\ WaitSet(cl2, g) = WaitSet(cl, g) \ {t}
  BY DEF WaitSet, OnlyOf
<1>2. \A n : Counts(n, WaitSet(cl, g)) => Counts(n - 1, WaitSet(cl2, g))
  BY <1>1, CountsLess
<1>3. \A h : h # g => WaitSet(cl2, h) = WaitSet(cl, h)
  BY Zenon DEF WaitSet, OnlyOf
<1> QED
  BY <1>2, <1>3, Zenon

(* A thread that waited takes the lock.                                    *)
Wakes(t, g, locks, locks2, cl, cl2) ==
  /\ cl[t].pc \in WaitPcs /\ cl[t].gpu = g /\ \A h : h \notin cl[t].mask
  /\ ~locks[g].bRunning
  /\ OnlyLock(g, locks, locks2)
  /\ locks2[g].count = locks[g].count /\ locks2[g].bRunning
  /\ locks2[g].threadId = t /\ locks2[g].pWaitSema = locks[g].pWaitSema
  /\ OnlyOf(t, cl, cl2)
  /\ \A h : h \in cl2[t].got <=> h \in cl[t].got \/ h = g
  /\ \A h : h \notin cl2[t].mask
  /\ cl2[t].pc \notin WaitPcs \cup {"locked", "release"}

LEMMA WakingLocks ==
  ASSUME NEW locks \in [Gpus -> LockRec], NEW locks2, NEW cl, NEW cl2,
         NEW hl \in HeldType, NEW locked,
         NEW live \in SUBSET Gpus, NEW dfr, NEW t \in All, NEW g \in Gpus,
         LockInv(locks, cl, hl, locked, live, dfr), t \notin dfr,
         Wakes(t, g, locks, locks2, cl, cl2)
  PROVE  LockInv(locks2, cl2, hl, locked, live, dfr)
<1>1. /\ Exclusive(cl, hl) /\ OnRecord(locks, cl, hl, live, dfr)
      /\ InMask(cl, hl, locked) /\ Counted(locks, cl)
      /\ WaitsLive(locks, cl, live)
  BY Zenon DEF LockInv
<1>2. /\ \A n : Counts(n, WaitSet(cl, g)) => Counts(n - 1, WaitSet(cl2, g))
      /\ \A h : h # g => WaitSet(cl2, h) = WaitSet(cl, h)
  <2>1. cl[t].pc \in WaitPcs /\ cl[t].gpu = g /\ OnlyOf(t, cl, cl2)
    BY Zenon DEF Wakes
  <2>2. cl2[t].pc \notin WaitPcs
    BY Zenon DEF Wakes
  <2> QED
    BY <2>1, <2>2, OneWaiterLess
<1>3. \A u \in All \ {t} : cl2[u] = cl[u]
  BY Zenon DEF Wakes, OnlyOf
<1>4. \A h \in Gpus \ {g} : locks2[h] = locks[h]
  BY Zenon DEF Wakes, OnlyLock
<1>5. \A u \in All : \A i, h : h \in Slot(cl2, hl, u, i) =>
        h \in Slot(cl, hl, u, i) \/ (h = g /\ u = t /\ i = 0)
  BY <1>3, Zenon DEF Slot, Wakes
<1>6. \A u \in All : \A i \in 0 .. Len(hl[u]) : g \notin Slot(cl, hl, u, i)
  BY <1>1, Zenon DEF OnRecord, Wakes
<1>7. Exclusive(cl2, hl)
  <2> SUFFICES ASSUME NEW u \in All, NEW v \in All, NEW i \in 0 .. Len(hl[u]),
                      NEW j \in 0 .. Len(hl[v]), NEW h \in Gpus,
                      h \in Slot(cl2, hl, u, i), h \in Slot(cl2, hl, v, j)
               PROVE  u = v /\ i = j
    BY Zenon DEF Exclusive
  <2>1. CASE h = g
    <3>1. u = t /\ i = 0
      BY <2>1, <1>5, <1>6
    <3>2. v = t /\ j = 0
      BY <2>1, <1>5, <1>6
    <3> QED
      BY <3>1, <3>2, Zenon
  <2>2. CASE h # g
    <3>1. h \in Slot(cl, hl, u, i) /\ h \in Slot(cl, hl, v, j)
      BY <2>2, <1>5, Zenon
    <3> QED
      BY <3>1, <1>1, ExclusiveAt, Zenon
  <2> QED
    BY <2>1, <2>2, Zenon
<1>8. \A h \in Gpus : locks2[h].pWaitSema = locks[h].pWaitSema
  BY <1>4, Zenon DEF Wakes
<1>9. OnRecord(locks2, cl2, hl, live, dfr)
  <2> SUFFICES ASSUME NEW u \in All, NEW i \in 0 .. Len(hl[u]),
                      NEW h \in Slot(cl2, hl, u, i)
               PROVE  /\ h \in live /\ locks2[h].bRunning
                      /\ locks2[h].threadId =
                           (IF u \in dfr THEN NO_THREAD ELSE u)
    BY Zenon DEF OnRecord
  <2>1. CASE h = g
    <3>1. u = t
      BY <2>1, <1>5, <1>6, Zenon
    <3>2. g \in live
      BY <1>1, Zenon DEF WaitsLive, Wakes
    <3> QED
      BY <3>1, <3>2, <2>1, Zenon DEF Wakes
  <2>2. CASE h # g
    <3>1. h \in Slot(cl, hl, u, i)
      BY <2>2, <1>5, Zenon
    <3>2. /\ h \in live /\ locks[h].bRunning
          /\ locks[h].threadId = (IF u \in dfr THEN NO_THREAD ELSE u)
      BY <3>1, <1>1, Zenon DEF OnRecord
    <3>3. locks2[h] = locks[h]
      BY <3>2, <2>2, <1>4, Zenon
    <3> QED
      BY <3>2, <3>3, Zenon
  <2> QED
    BY <2>1, <2>2, Zenon
<1>10. InMask(cl2, hl, locked)
  BY <1>1, <1>3, Zenon DEF InMask, Wakes
<1>11. Counted(locks2, cl2)
  <2> SUFFICES ASSUME NEW h \in Gpus, locks2[h].pWaitSema # NO_SEMA
               PROVE  Counts(Sleeping(locks2[h]), WaitSet(cl2, h))
    BY Zenon DEF Counted
  <2>1. Counts(Sleeping(locks[h]), WaitSet(cl, h))
    BY <1>1, <1>8, Zenon DEF Counted
  <2>2. CASE h = g
    <3>1. Sleeping(locks2[g]) = Sleeping(locks[g]) - 1
      <4>1. /\ locks2[g].count = locks[g].count
            /\ locks2[g].bRunning /\ ~locks[g].bRunning
        BY Zenon DEF Wakes
      <4>2. locks[g].count \in Int
        BY Zenon DEF LockRec
      <4> QED
        BY <4>1, <4>2, Locking, Zenon
    <3> QED
      BY <3>1, <2>1, <2>2, <1>2, Zenon
  <2>3. CASE h # g
    <3>1. WaitSet(cl2, h) = WaitSet(cl, h) /\ locks2[h] = locks[h]
      BY <2>3, <1>2, <1>4, Zenon
    <3> QED
      BY <3>1, <2>1, Zenon
  <2> QED
    BY <2>2, <2>3, Zenon
<1>12. WaitsLive(locks2, cl2, live)
  BY <1>1, <1>3, <1>8, Zenon DEF WaitsLive, Wakes
<1> QED
  BY <1>7, <1>9, <1>10, <1>11, <1>12, Zenon DEF LockInv

LEMMA WokenLocks ==
  ASSUME NEW locks \in [Gpus -> LockRec], NEW locks2,
         NEW cl \in [All -> CallRec], NEW cl2,
         NEW hl \in HeldType, NEW locked,
         NEW live \in SUBSET Gpus, NEW dfr, NEW t \in All, NEW g \in Gpus,
         LockInv(locks, cl, hl, locked, live, dfr),
         t \notin dfr, cl[t].pc \in WaitPcs, cl[t].gpu = g, cl[t].mask = {},
         ~locks[g].bRunning,
         OnlyLock(g, locks, locks2),
         locks2[g].count = locks[g].count, locks2[g].bRunning,
         locks2[g].threadId = t, locks2[g].pWaitSema = locks[g].pWaitSema,
         OnlyOf(t, cl, cl2),
         cl2[t].got = cl[t].got \cup {g}, cl2[t].mask = {},
         cl2[t].pc \notin WaitPcs \cup {"locked", "release"}
  PROVE  LockInv(locks2, cl2, hl, locked, live, dfr)
<1>1. \A h : /\ h \notin cl[t].mask /\ h \notin cl2[t].mask
             /\ h \in cl2[t].got <=> h \in cl[t].got \/ h = g
  BY Zenon
<1>2. Wakes(t, g, locks, locks2, cl, cl2)
  BY <1>1, Zenon DEF Wakes
<1> QED
  BY <1>2, WakingLocks, Zenon

(* A thread that waited is not counted any more.                           *)
Leaves(t, g, locks, locks2, cl, cl2) ==
  /\ cl[t].pc \in WaitPcs /\ cl[t].gpu = g
  /\ OnlyLock(g, locks, locks2)
  /\ locks2[g].count = locks[g].count + 1
  /\ locks2[g].bRunning = locks[g].bRunning
  /\ locks2[g].threadId = locks[g].threadId
  /\ locks2[g].pWaitSema = locks[g].pWaitSema
  /\ OnlyOf(t, cl, cl2)
  /\ cl2[t].got = cl[t].got /\ cl2[t].mask = cl[t].mask
  /\ cl2[t].pc \notin WaitPcs \cup {"locked", "release"}

LEMMA LeavingLocks ==
  ASSUME NEW locks \in [Gpus -> LockRec], NEW locks2, NEW cl, NEW cl2,
         NEW hl \in HeldType, NEW locked,
         NEW live \in SUBSET Gpus, NEW dfr, NEW t \in All, NEW g \in Gpus,
         LockInv(locks, cl, hl, locked, live, dfr),
         Leaves(t, g, locks, locks2, cl, cl2)
  PROVE  LockInv(locks2, cl2, hl, locked, live, dfr)
<1>1. /\ Exclusive(cl, hl) /\ OnRecord(locks, cl, hl, live, dfr)
      /\ InMask(cl, hl, locked) /\ Counted(locks, cl)
      /\ WaitsLive(locks, cl, live)
  BY Zenon DEF LockInv
<1>2. /\ \A n : Counts(n, WaitSet(cl, g)) => Counts(n - 1, WaitSet(cl2, g))
      /\ \A h : h # g => WaitSet(cl2, h) = WaitSet(cl, h)
  <2>1. cl[t].pc \in WaitPcs /\ cl[t].gpu = g /\ OnlyOf(t, cl, cl2)
    BY Zenon DEF Leaves
  <2>2. cl2[t].pc \notin WaitPcs
    BY Zenon DEF Leaves
  <2> QED
    BY <2>1, <2>2, OneWaiterLess
<1>3. \A u \in All \ {t} : cl2[u] = cl[u]
  BY Zenon DEF Leaves, OnlyOf
<1>4. \A h \in Gpus \ {g} : locks2[h] = locks[h]
  BY Zenon DEF Leaves, OnlyLock
<1>5. \A u \in All : cl2[u].got = cl[u].got /\ cl2[u].mask = cl[u].mask
  BY <1>3, Zenon DEF Leaves
<1>6. \A u \in All : \A i, h : h \in Slot(cl2, hl, u, i) => h \in Slot(cl, hl, u, i)
  BY <1>5, Zenon DEF Slot
<1>7. \A h \in Gpus : /\ locks2[h].bRunning = locks[h].bRunning
                     /\ locks2[h].threadId = locks[h].threadId
                     /\ locks2[h].pWaitSema = locks[h].pWaitSema
  BY <1>4, Zenon DEF Leaves
<1>8. Exclusive(cl2, hl)
  <2>1. Within(cl, hl, cl2, hl)
    BY <1>6, Zenon DEF Within
  <2> QED
    BY <1>1, <2>1, ExclusiveWithin, Zenon
<1>9. OnRecord(locks2, cl2, hl, live, dfr)
  <2> SUFFICES ASSUME NEW u \in All, NEW i \in 0 .. Len(hl[u]),
                      NEW h \in Slot(cl2, hl, u, i)
               PROVE  /\ h \in live /\ locks2[h].bRunning
                      /\ locks2[h].threadId =
                           (IF u \in dfr THEN NO_THREAD ELSE u)
    BY Zenon DEF OnRecord
  <2>1. /\ h \in live /\ locks[h].bRunning
        /\ locks[h].threadId = (IF u \in dfr THEN NO_THREAD ELSE u)
    BY <1>1, <1>6, Zenon DEF OnRecord
  <2>2. h \in Gpus
    BY <2>1, Zenon
  <2> QED
    BY <2>1, <2>2, <1>7, Zenon
<1>10. InMask(cl2, hl, locked)
  BY <1>1, <1>3, Zenon DEF InMask, Leaves
<1>11. Counted(locks2, cl2)
  <2> SUFFICES ASSUME NEW h \in Gpus, locks2[h].pWaitSema # NO_SEMA
               PROVE  Counts(Sleeping(locks2[h]), WaitSet(cl2, h))
    BY Zenon DEF Counted
  <2>1. Counts(Sleeping(locks[h]), WaitSet(cl, h))
    BY <1>1, <1>7, Zenon DEF Counted
  <2>2. CASE h = g
    <3>1. Sleeping(locks2[g]) = Sleeping(locks[g]) - 1
      <4>1. locks2[g].count = locks[g].count + 1
        BY Zenon DEF Leaves
      <4>2. locks[g].count \in Int
        BY Zenon DEF LockRec
      <4> QED
        BY <4>1, <4>2, <1>7 DEF Sleeping
    <3> QED
      BY <3>1, <2>1, <2>2, <1>2, Zenon
  <2>3. CASE h # g
    <3>1. WaitSet(cl2, h) = WaitSet(cl, h) /\ locks2[h] = locks[h]
      BY <2>3, <1>2, <1>4, Zenon
    <3> QED
      BY <3>1, <2>1, Zenon
  <2> QED
    BY <2>2, <2>3, Zenon
<1>12. WaitsLive(locks2, cl2, live)
  BY <1>1, <1>3, <1>7, Zenon DEF WaitsLive, Leaves
<1> QED
  BY <1>8, <1>9, <1>10, <1>11, <1>12, Zenon DEF LockInv

LEMMA LeftLocks ==
  ASSUME NEW locks \in [Gpus -> LockRec], NEW locks2, NEW cl, NEW cl2,
         NEW hl \in HeldType, NEW locked,
         NEW live \in SUBSET Gpus, NEW dfr, NEW t \in All, NEW g \in Gpus,
         LockInv(locks, cl, hl, locked, live, dfr),
         cl[t].pc \in WaitPcs, cl[t].gpu = g,
         OnlyLock(g, locks, locks2),
         locks2[g].count = locks[g].count + 1,
         locks2[g].bRunning = locks[g].bRunning,
         locks2[g].threadId = locks[g].threadId,
         locks2[g].pWaitSema = locks[g].pWaitSema,
         OnlyOf(t, cl, cl2),
         cl2[t].got = cl[t].got, cl2[t].mask = cl[t].mask,
         cl2[t].pc \notin WaitPcs \cup {"locked", "release"}
  PROVE  LockInv(locks2, cl2, hl, locked, live, dfr)
<1>1. Leaves(t, g, locks, locks2, cl, cl2)
  BY Zenon DEF Leaves
<1> QED
  BY <1>1, LeavingLocks, Zenon

(* _rmGpuLocksRelease(): the locks in the mask have no holder any more.    *)
Freed(locks, locks2, mask) ==
  /\ \A g \in Gpus \ mask : locks2[g] = locks[g]
  /\ \A g \in mask :
       /\ locks2[g].count = locks[g].count + 1 /\ ~locks2[g].bRunning
       /\ locks2[g].pWaitSema = locks[g].pWaitSema

Frees(t, cl, cl2, mask) ==
  /\ cl[t].pc = "release" /\ mask = cl[t].mask
  /\ \A g : g \in cl[t].got => g \in mask
  /\ OnlyOf(t, cl, cl2) /\ \A g : g \notin cl2[t].got /\ g \notin cl2[t].mask
  /\ cl2[t].pc \notin WaitPcs

LEMMA FreeingLocks ==
  ASSUME NEW locks \in [Gpus -> LockRec], NEW locks2, NEW cl, NEW cl2,
         NEW hl \in HeldType, NEW locked,
         NEW live \in SUBSET Gpus, NEW dfr, NEW t \in All,
         NEW mask \in SUBSET Gpus,
         LockInv(locks, cl, hl, locked, live, dfr),
         Freed(locks, locks2, mask), Frees(t, cl, cl2, mask)
  PROVE  LockInv(locks2, cl2, hl, locked \ mask, live, dfr)
<1>1. /\ Exclusive(cl, hl) /\ OnRecord(locks, cl, hl, live, dfr)
      /\ InMask(cl, hl, locked) /\ Counted(locks, cl)
      /\ WaitsLive(locks, cl, live)
  BY Zenon DEF LockInv
<1>2. \A u \in All \ {t} : cl2[u] = cl[u]
  BY Zenon DEF Frees, OnlyOf
<1>3. \A u \in All : 0 \in 0 .. Len(hl[u])
  BY HeldLen
<1>4. \A g \in mask : g \in Slot(cl, hl, t, 0)
  BY Zenon DEF Frees, Slot
<1>5. \A u \in All : \A i, h : h \in Slot(cl2, hl, u, i) =>
        h \in Slot(cl, hl, u, i) /\ (u # t \/ i # 0)
  BY <1>2, Zenon DEF Slot, Frees
<1>6. ASSUME NEW u \in All, NEW i \in 0 .. Len(hl[u]), u # t \/ i # 0,
             NEW h \in Slot(cl, hl, u, i)
      PROVE  h \notin mask
  <2> SUFFICES ASSUME h \in mask PROVE FALSE
    BY Zenon
  <2>1. h \in Gpus /\ h \in Slot(cl, hl, t, 0)
    BY <1>4, Zenon
  <2> QED
    BY <2>1, <1>1, <1>3, <1>6, ExclusiveAt, Zenon
<1>7. Exclusive(cl2, hl)
  <2>1. Within(cl, hl, cl2, hl)
    BY <1>5, Zenon DEF Within
  <2> QED
    BY <1>1, <2>1, ExclusiveWithin, Zenon
<1>8. OnRecord(locks2, cl2, hl, live, dfr)
  <2> SUFFICES ASSUME NEW u \in All, NEW i \in 0 .. Len(hl[u]),
                      NEW h \in Slot(cl2, hl, u, i)
               PROVE  /\ h \in live /\ locks2[h].bRunning
                      /\ locks2[h].threadId =
                           (IF u \in dfr THEN NO_THREAD ELSE u)
    BY Zenon DEF OnRecord
  <2>1. h \in Slot(cl, hl, u, i) /\ (u # t \/ i # 0)
    BY <1>5, Zenon
  <2>2. h \notin mask
    BY <2>1, <1>6, Zenon
  <2>3. /\ h \in live /\ locks[h].bRunning
        /\ locks[h].threadId = (IF u \in dfr THEN NO_THREAD ELSE u)
    BY <2>1, <1>1, Zenon DEF OnRecord
  <2>4. locks2[h] = locks[h]
    BY <2>2, <2>3, Zenon DEF Freed
  <2> QED
    BY <2>3, <2>4, Zenon
<1>9. InMask(cl2, hl, locked \ mask)
  <2> SUFFICES ASSUME NEW u \in All
               PROVE  /\ cl2[u].pc \in {"locked", "release"} =>
                           cl2[u].got \cup cl2[u].mask \subseteq locked \ mask
                      /\ \A i \in 1 .. Len(hl[u]) :
                           hl[u][i].mask \subseteq locked \ mask
    BY Zenon DEF InMask
  <2>1. ASSUME NEW i \in 1 .. Len(hl[u]), NEW h \in hl[u][i].mask
        PROVE  h \in locked \ mask
    <3>1. i \in 0 .. Len(hl[u]) /\ i # 0
      BY HeldLen
    <3>2. h \in Slot(cl, hl, u, i)
      BY <2>1, <3>1, Zenon DEF Slot
    <3>3. h \in locked
      BY <2>1, <1>1, InMaskAt, Zenon
    <3> QED
      BY <3>1, <3>2, <3>3, <1>6, Zenon
  <2>2. ASSUME cl2[u].pc \in {"locked", "release"},
               NEW h \in cl2[u].got \cup cl2[u].mask
        PROVE  h \in locked \ mask
    <3>1. u # t
      BY <2>2, Zenon DEF Frees
    <3>2. cl2[u] = cl[u]
      BY <3>1, <1>2, Zenon
    <3>3. h \in Slot(cl, hl, u, 0)
      BY <2>2, <3>2, Zenon DEF Slot
    <3>4. h \in locked
      BY <2>2, <3>2, <1>1, Zenon DEF InMask
    <3> QED
      BY <3>1, <3>3, <3>4, <1>3, <1>6, Zenon
  <2> QED
    BY <2>1, <2>2, Zenon
<1>10. \A h \in Gpus : locks2[h].pWaitSema = locks[h].pWaitSema
  BY Zenon DEF Freed
<1>11. Counted(locks2, cl2)
  <2> SUFFICES ASSUME NEW h \in Gpus, locks2[h].pWaitSema # NO_SEMA
               PROVE  Counts(Sleeping(locks2[h]), WaitSet(cl2, h))
    BY Zenon DEF Counted
  <2>1. WaitSet(cl2, h) = WaitSet(cl, h)
    <3>1. cl[t].pc \notin WaitPcs /\ cl2[t].pc \notin WaitPcs
      BY Zenon DEF Frees, WaitPcs
    <3> QED
      BY <3>1, <1>2, Zenon DEF WaitSet
  <2>2. Counts(Sleeping(locks[h]), WaitSet(cl, h))
    BY <1>1, <1>10, Zenon DEF Counted
  <2>3. CASE h \in mask
    <3>1. locks[h].bRunning
      BY <2>3, <1>1, <1>3, <1>4, Zenon DEF OnRecord
    <3>2. ~locks2[h].bRunning /\ locks2[h].count = locks[h].count + 1
      BY <2>3, Zenon DEF Freed
    <3>3. locks[h].count \in Int
      BY Zenon DEF LockRec
    <3>4. Sleeping(locks2[h]) = Sleeping(locks[h])
      BY <3>1, <3>2, <3>3, Unlocks, Zenon
    <3> QED
      BY <3>4, <2>1, <2>2, Zenon
  <2>4. CASE h \notin mask
    <3>1. locks2[h] = locks[h]
      BY <2>4, Zenon DEF Freed
    <3> QED
      BY <3>1, <2>1, <2>2, Zenon
  <2> QED
    BY <2>3, <2>4, Zenon
<1>12. WaitsLive(locks2, cl2, live)
  BY <1>1, <1>2, <1>10, Zenon DEF WaitsLive, Frees
<1> QED
  BY <1>7, <1>8, <1>9, <1>11, <1>12, Zenon DEF LockInv

LEMMA FreedLocks ==
  ASSUME NEW locks \in [Gpus -> LockRec], NEW locks2,
         NEW cl \in [All -> CallRec], NEW cl2,
         NEW hl \in HeldType, NEW locked,
         NEW live \in SUBSET Gpus, NEW dfr, NEW t \in All,
         LockInv(locks, cl, hl, locked, live, dfr),
         cl[t].pc = "release", cl[t].got \subseteq cl[t].mask,
         Freed(locks, locks2, cl[t].mask),
         OnlyOf(t, cl, cl2), cl2[t].got = {}, cl2[t].mask = {},
         cl2[t].pc \notin WaitPcs
  PROVE  LockInv(locks2, cl2, hl, locked \ cl[t].mask, live, dfr)
<1>1. cl[t].mask \in SUBSET Gpus
  BY Zenon DEF CallRec
<1>2. Frees(t, cl, cl2, cl[t].mask)
  BY Zenon DEF Frees
<1> QED
  BY <1>1, <1>2, FreeingLocks, Zenon

(* rmDeviceGpuLockSetOwner(): another owner on record.                     *)
Handed(t, locks, locks2, mask, dfr2) ==
  \A g \in Gpus :
    /\ locks2[g].count = locks[g].count
    /\ locks2[g].bRunning = locks[g].bRunning
    /\ locks2[g].pWaitSema = locks[g].pWaitSema
    /\ locks2[g].threadId = IF g \in mask
                            THEN (IF t \in dfr2 THEN NO_THREAD ELSE t)
                            ELSE locks[g].threadId

OthersKept(t, hl, hl2, dfr, dfr2) ==
  \A u \in All \ {t} : hl2[u] = hl[u] /\ (u \in dfr2 <=> u \in dfr)

Hands(t, cl, hl, hl2, mask) ==
  /\ Len(hl[t]) = 1 /\ hl[t][1].mask = mask
  /\ \A g : g \notin cl[t].got /\ g \notin cl[t].mask
  /\ Len(hl2[t]) = 1 /\ hl2[t][1].mask = mask

LEMMA HandingLocks ==
  ASSUME NEW locks, NEW locks2, NEW cl, NEW hl, NEW hl2, NEW locked,
         NEW live \in SUBSET Gpus, NEW dfr, NEW dfr2, NEW t \in All, NEW mask,
         LockInv(locks, cl, hl, locked, live, dfr),
         Handed(t, locks, locks2, mask, dfr2),
         OthersKept(t, hl, hl2, dfr, dfr2), Hands(t, cl, hl, hl2, mask)
  PROVE  LockInv(locks2, cl, hl2, locked, live, dfr2)
<1>1. /\ Exclusive(cl, hl) /\ OnRecord(locks, cl, hl, live, dfr)
      /\ InMask(cl, hl, locked) /\ Counted(locks, cl)
      /\ WaitsLive(locks, cl, live)
  BY Zenon DEF LockInv
<1>2. /\ \A i \in 0 .. Len(hl[t]) : i = 0 \/ i = 1
      /\ 1 \in 0 .. Len(hl[t])
      /\ \A i \in 1 .. Len(hl[t]) : i = 1
      /\ 1 \in 1 .. Len(hl[t]) /\ 1 # 0
  <2>1. Len(hl[t]) = 1
    BY Zenon DEF Hands
  <2>2. /\ \A i \in 0 .. 1 : i = 0 \/ i = 1
        /\ 1 \in 0 .. 1 /\ \A i \in 1 .. 1 : i = 1
        /\ 1 \in 1 .. 1 /\ 1 # 0
    OBVIOUS
  <2> QED
    BY <2>1, <2>2, Zenon
<1>3. \A u \in All : Len(hl2[u]) = Len(hl[u])
  BY Zenon DEF OthersKept, Hands
<1>4. \A u \in All : \A i \in 1 .. Len(hl[u]) : hl2[u][i].mask = hl[u][i].mask
  BY <1>2, Zenon DEF OthersKept, Hands
<1>5. \A i \in 0 .. Len(hl[t]) : \A h \in Slot(cl, hl2, t, i) :
        i = 1 /\ h \in mask
  BY <1>2, Zenon DEF Slot, Hands
<1>6. \A u \in All : \A i \in 0 .. Len(hl[u]) : \A h \in Slot(cl, hl2, u, i) :
        h \in Slot(cl, hl, u, i)
  <2>1. \A h \in mask : h \in Slot(cl, hl, t, 1)
    BY <1>2, Zenon DEF Slot, Hands
  <2>2. \A u \in All \ {t} : \A i : Slot(cl, hl2, u, i) = Slot(cl, hl, u, i)
    BY Zenon DEF OthersKept, Slot
  <2> QED
    BY <2>1, <2>2, <1>5, Zenon
<1>7. Exclusive(cl, hl2)
  <2>1. Within(cl, hl, cl, hl2)
    BY <1>3, <1>6, Zenon DEF Within
  <2> QED
    BY <1>1, <2>1, ExclusiveWithin, Zenon
<1>8. OnRecord(locks2, cl, hl2, live, dfr2)
  <2> SUFFICES ASSUME NEW u \in All, NEW i \in 0 .. Len(hl[u]),
                      NEW g \in Slot(cl, hl2, u, i)
               PROVE  /\ g \in live /\ locks2[g].bRunning
                      /\ locks2[g].threadId =
                           (IF u \in dfr2 THEN NO_THREAD ELSE u)
    BY <1>3, Zenon DEF OnRecord
  <2>1. /\ g \in live /\ locks[g].bRunning
        /\ locks[g].threadId = (IF u \in dfr THEN NO_THREAD ELSE u)
    BY <1>1, <1>6, Zenon DEF OnRecord
  <2>2. g \in Gpus
    BY <2>1, Zenon
  <2>3. locks2[g].bRunning
    BY <2>1, <2>2, Zenon DEF Handed
  <2>4. CASE u = t
    <3>1. g \in mask
      BY <2>4, <1>5, Zenon
    <3> QED
      BY <3>1, <2>1, <2>2, <2>3, <2>4, Zenon DEF Handed
  <2>5. CASE u # t
    <3>1. g \notin mask
      <4> SUFFICES ASSUME g \in mask PROVE FALSE
        BY Zenon
      <4>1. g \in Slot(cl, hl, t, 1)
        BY <1>2, Zenon DEF Slot, Hands
      <4>2. g \in Slot(cl, hl, u, i)
        BY <1>6, Zenon
      <4> QED
        BY <4>1, <4>2, <2>2, <2>5, <1>1, <1>2, ExclusiveAt, Zenon
    <3>2. u \in dfr2 <=> u \in dfr
      BY <2>5, Zenon DEF OthersKept
    <3>3. locks2[g].threadId = locks[g].threadId
      BY <3>1, <2>2, Zenon DEF Handed
    <3> QED
      BY <3>2, <3>3, <2>1, <2>3, Zenon
  <2> QED
    BY <2>4, <2>5, Zenon
<1>9. InMask(cl, hl2, locked)
  BY <1>1, <1>3, <1>4, Zenon DEF InMask
<1>10. Counted(locks2, cl)
  <2>1. \A g \in Gpus : /\ Sleeping(locks2[g]) = Sleeping(locks[g])
                        /\ locks2[g].pWaitSema = locks[g].pWaitSema
    BY Zenon DEF Sleeping, Handed
  <2> QED
    BY <1>1, <2>1, Zenon DEF Counted
<1>11. WaitsLive(locks2, cl, live)
  <2>1. \A g \in Gpus : locks2[g].pWaitSema = locks[g].pWaitSema
    BY Zenon DEF Handed
  <2> QED
    BY <1>1, <2>1, Zenon DEF WaitsLive
<1> QED
  BY <1>7, <1>8, <1>9, <1>10, <1>11, Zenon DEF LockInv

LEMMA HandedLocks ==
  ASSUME NEW locks \in [Gpus -> LockRec], NEW locks2, NEW cl,
         NEW hl \in HeldType, NEW hl2, NEW locked,
         NEW live \in SUBSET Gpus, NEW dfr, NEW dfr2, NEW t \in All,
         LockInv(locks, cl, hl, locked, live, dfr),
         Len(hl[t]) = 1, cl[t].got = {}, cl[t].mask = {},
         Handed(t, locks, locks2, hl[t][1].mask, dfr2),
         OthersKept(t, hl, hl2, dfr, dfr2),
         Len(hl2[t]) = 1, hl2[t][1].mask = hl[t][1].mask
  PROVE  LockInv(locks2, cl, hl2, locked, live, dfr2)
<1>1. Hands(t, cl, hl, hl2, hl[t][1].mask)
  BY Zenon DEF Hands
<1> QED
  BY <1>1, HandingLocks, Zenon

(* Nobody holds or waits for a lock that is not allocated.                 *)
LEMMA NobodyThere ==
  ASSUME NEW locks, NEW cl \in [All -> CallRec],
         NEW hl \in HeldType, NEW locked,
         NEW live \in SUBSET Gpus, NEW dfr,
         LockInv(locks, cl, hl, locked, live, dfr), NEW g, g \notin live
  PROVE  /\ WaitSet(cl, g) = {}
         /\ \A u \in All : \A i \in 0 .. Len(hl[u]) : g \notin Slot(cl, hl, u, i)
<1>1. WaitSet(cl, g) = {}
  BY Zenon DEF LockInv, WaitsLive, WaitSet
<1>2. \A u \in All : \A i \in 0 .. Len(hl[u]) : g \notin Slot(cl, hl, u, i)
  BY Zenon DEF LockInv, OnRecord
<1> QED
  BY <1>1, <1>2, Zenon

(* rmGpuLockAlloc() makes a lock that nobody holds or waits for.           *)
LEMMA NewLocks ==
  ASSUME NEW locks \in [Gpus -> LockRec], NEW locks2,
         NEW cl \in [All -> CallRec], NEW hl \in HeldType,
         NEW locked, NEW live \in SUBSET Gpus, NEW dfr,
         LockInv(locks, cl, hl, locked, live, dfr),
         NEW g \in Gpus, g \notin live,
         OnlyLock(g, locks, locks2), locks2[g] = NewLock
  PROVE  LockInv(locks2, cl, hl, locked, live \cup {g}, dfr)
<1> \A h \in Gpus \ {g} : locks2[h] = locks[h]
  BY Zenon DEF OnlyLock
<1>1. /\ Exclusive(cl, hl) /\ OnRecord(locks, cl, hl, live, dfr)
      /\ InMask(cl, hl, locked) /\ Counted(locks, cl)
      /\ WaitsLive(locks, cl, live)
  BY Zenon DEF LockInv
<1>2. /\ WaitSet(cl, g) = {}
      /\ \A u \in All : \A i \in 0 .. Len(hl[u]) : g \notin Slot(cl, hl, u, i)
  BY NobodyThere, Zenon
<1>3. /\ locks2[g].count = 1 /\ locks2[g].bRunning = FALSE
      /\ locks2[g].pWaitSema = 0 /\ NO_SEMA # 0
  BY GpuLocksAssumption DEF NewLock, NoLock
<1>4. OnRecord(locks2, cl, hl, live \cup {g}, dfr)
  <2> SUFFICES ASSUME NEW u \in All, NEW i \in 0 .. Len(hl[u]),
                      NEW h \in Slot(cl, hl, u, i)
               PROVE  /\ h \in live /\ locks2[h].bRunning
                      /\ locks2[h].threadId =
                           (IF u \in dfr THEN NO_THREAD ELSE u)
    BY Zenon DEF OnRecord
  <2>1. /\ h \in live /\ h # g /\ locks[h].bRunning
        /\ locks[h].threadId = (IF u \in dfr THEN NO_THREAD ELSE u)
    BY <1>1 DEF OnRecord
  <2>2. locks2[h] = locks[h]
    BY <2>1, Zenon
  <2> QED
    BY <2>1, <2>2, Zenon
<1>5. Counted(locks2, cl)
  <2> SUFFICES ASSUME NEW h \in Gpus, locks2[h].pWaitSema # NO_SEMA
               PROVE  Counts(Sleeping(locks2[h]), WaitSet(cl, h))
    BY Zenon DEF Counted
  <2>1. CASE h = g
    <3>1. Sleeping(locks2[g]) = 0
      <4>1. ~locks2[g].bRunning
        BY <1>3, Zenon
      <4> QED
        BY <4>1, <1>3, FreshCount, Zenon
    <3> QED
      BY <3>1, <2>1, <1>2, CountsNone, Zenon
  <2>2. CASE h # g
    <3>1. locks2[h] = locks[h]
      BY <2>2, Zenon
    <3> QED
      BY <3>1, <1>1, Zenon DEF Counted
  <2> QED
    BY <2>1, <2>2, Zenon
<1>6. WaitsLive(locks2, cl, live \cup {g})
  BY <1>1, <1>3, Zenon DEF WaitsLive
<1> QED
  BY <1>1, <1>4, <1>5, <1>6, Zenon DEF LockInv

(* rmGpuLockFree() destroys a lock whose count says that nobody holds it   *)
(* or waits for it.                                                        *)
LEMMA DestroyedLocks ==
  ASSUME NEW locks \in [Gpus -> LockRec], NEW locks2,
         NEW cl \in [All -> CallRec], NEW hl \in HeldType,
         NEW locked, NEW live \in SUBSET Gpus, NEW dfr,
         LockInv(locks, cl, hl, locked, live, dfr),
         NEW g \in live, locks[g].count > 0,
         OnlyLock(g, locks, locks2), locks2[g] = NoLock
  PROVE  LockInv(locks2, cl, hl, locked, live \ {g}, dfr)
<1> \A h \in Gpus \ {g} : locks2[h] = locks[h]
  BY Zenon DEF OnlyLock
<1>1. /\ Exclusive(cl, hl) /\ OnRecord(locks, cl, hl, live, dfr)
      /\ InMask(cl, hl, locked) /\ Counted(locks, cl)
      /\ WaitsLive(locks, cl, live)
  BY Zenon DEF LockInv
<1>2. ~locks[g].bRunning /\ Counts(0, WaitSet(cl, g))
  <2>1. Counts(Sleeping(locks[g]), WaitSet(cl, g))
    BY <1>1, Zenon DEF Counted, WaitsLive
  <2>2. Sleeping(locks[g]) \in Nat
    BY <2>1, Zenon DEF Counts
  <2>3. ~locks[g].bRunning /\ Sleeping(locks[g]) = 0
    BY <2>2 DEF Sleeping, LockRec
  <2> QED
    BY <2>1, <2>3, Zenon
<1>3. WaitSet(cl, g) = {}
  BY <1>2, CountsNone, Zenon
<1>4. \A u \in All : \A i \in 0 .. Len(hl[u]) : g \notin Slot(cl, hl, u, i)
  BY <1>1, <1>2, Zenon DEF OnRecord
<1>5. OnRecord(locks2, cl, hl, live \ {g}, dfr)
  <2> SUFFICES ASSUME NEW u \in All, NEW i \in 0 .. Len(hl[u]),
                      NEW h \in Slot(cl, hl, u, i)
               PROVE  /\ h \in live \ {g} /\ locks2[h].bRunning
                      /\ locks2[h].threadId =
                           (IF u \in dfr THEN NO_THREAD ELSE u)
    BY Zenon DEF OnRecord
  <2>0. h # g
    BY <1>4, Zenon
  <2>1. /\ h \in live /\ locks[h].bRunning
        /\ locks[h].threadId = (IF u \in dfr THEN NO_THREAD ELSE u)
    BY <1>1, Zenon DEF OnRecord
  <2>2. locks2[h] = locks[h]
    BY <2>0, <2>1, Zenon
  <2> QED
    BY <2>0, <2>1, <2>2, Zenon
<1>6. Counted(locks2, cl)
  <2> SUFFICES ASSUME NEW h \in Gpus, locks2[h].pWaitSema # NO_SEMA
               PROVE  Counts(Sleeping(locks2[h]), WaitSet(cl, h))
    BY Zenon DEF Counted
  <2>1. h # g
    <3>1. NoLock.pWaitSema = NO_SEMA
      BY Zenon DEF NoLock
    <3> QED
      BY <3>1, Zenon
  <2>2. locks2[h] = locks[h]
    BY <2>1, Zenon
  <2> QED
    BY <2>2, <1>1, Zenon DEF Counted
<1>7. WaitsLive(locks2, cl, live \ {g})
  <2>1. \A u \in All : cl[u].pc \in WaitPcs => cl[u].gpu \in live \ {g}
    BY <1>1, <1>3, Zenon DEF WaitsLive, WaitSet
  <2>2. \A h \in live \ {g} : locks2[h] = locks[h]
    BY Zenon
  <2> QED
    BY <2>1, <2>2, <1>1, Zenon DEF WaitsLive
<1> QED
  BY <1>1, <1>5, <1>6, <1>7, Zenon DEF LockInv

-----------------------------------------------------------------------------
(* The types of the variables that a lock call changes.                    *)
LEMMA Typed ==
  ASSUME TypeOK
  PROVE  /\ gpuLocks \in [Gpus -> LockRec] /\ call \in [All -> CallRec]
         /\ held \in HeldType
         /\ gpusLockableMask \in SUBSET Gpus /\ gpusLockedMask \in SUBSET Gpus
         /\ attached \subseteq gpusLockableMask
<1>1. gpuLocks \in [Gpus -> LockRec]
  BY Zenon DEF TypeOK, LockRec
<1>2. call \in [All -> CallRec]
  BY Zenon DEF TypeOK, CallRec
<1>3. held \in HeldType
  BY Zenon DEF TypeOK, HeldRec, HeldType
<1>4. /\ gpusLockableMask \subseteq Gpus /\ gpusLockedMask \subseteq Gpus
      /\ attached \subseteq gpusLockableMask
  BY Zenon DEF TypeOK
<1> QED
  BY <1>1, <1>2, <1>3, <1>4, Zenon

(* The records that the actions make.                                      *)
LEMMA LockedCall ==
  ASSUME NEW c \in CallRec, NEW G \in SUBSET Gpus
  PROVE  [c EXCEPT !.pc = "locked", !.todo = {}, !.got = G] \in CallRec
<1> DEFINE c1 == [c EXCEPT !.pc = "locked"]
<1>1. c1 \in CallRec
  BY Zenon DEF CallRec
<1> HIDE DEF c1
<1> DEFINE c2 == [c1 EXCEPT !.todo = {}]
<1>2. c2 \in CallRec
  BY <1>1, Zenon DEF CallRec
<1> HIDE DEF c2
<1>3. [c2 EXCEPT !.got = G] \in CallRec
  BY <1>2, Zenon DEF CallRec
<1> QED
  BY <1>3, Zenon DEF c1, c2

LEMMA SleepingCall ==
  ASSUME NEW c \in CallRec, NEW G \in SUBSET Gpus, NEW H \in SUBSET Gpus,
         NEW g \in Gpus
  PROVE  [c EXCEPT !.pc = "sleep", !.gpu = g, !.got = G, !.todo = H] \in CallRec
<1> DEFINE c1 == [c EXCEPT !.pc = "sleep"]
<1>1. c1 \in CallRec
  BY Zenon DEF CallRec
<1> HIDE DEF c1
<1> DEFINE c2 == [c1 EXCEPT !.gpu = g]
<1>2. c2 \in CallRec
  BY <1>1, Zenon DEF CallRec
<1> HIDE DEF c2
<1> DEFINE c3 == [c2 EXCEPT !.got = G]
<1>3. c3 \in CallRec
  BY <1>2, Zenon DEF CallRec
<1> HIDE DEF c3
<1>4. [c3 EXCEPT !.todo = H] \in CallRec
  BY <1>3, Zenon DEF CallRec
<1> QED
  BY <1>4, Zenon DEF c1, c2, c3

LEMMA LockUpdate ==
  ASSUME NEW lock \in LockRec, NEW n \in Int, NEW b \in BOOLEAN,
         NEW t \in All \cup {NO_THREAD}
  PROVE  /\ [lock EXCEPT !.count = n] \in LockRec
         /\ [lock EXCEPT !.count = n, !.bRunning = b, !.threadId = t] \in LockRec
<1> DEFINE l1 == [lock EXCEPT !.count = n]
<1>1. l1 \in LockRec
  BY Zenon DEF LockRec
<1> HIDE DEF l1
<1> DEFINE l2 == [l1 EXCEPT !.bRunning = b]
<1>2. l2 \in LockRec
  BY <1>1, Zenon DEF LockRec
<1> HIDE DEF l2
<1>3. [l2 EXCEPT !.threadId = t] \in LockRec
  BY <1>2, Zenon DEF LockRec
<1> QED
  BY <1>1, <1>3, Zenon DEF l1, l2

LEMMA NoCallIs ==
  /\ NoCall \in CallRec /\ NoCall.pc = "idle" /\ NoCall.kind = "none"
  /\ NoCall.got = {} /\ NoCall.mask = {} /\ NoCall.todo = {}
  /\ NoCall.level = "passive"
  /\ CallShape(NoCall)
<1>1. /\ NoCall \in CallRec /\ NoCall.pc = "idle" /\ NoCall.kind = "none"
      /\ NoCall.got = {} /\ NoCall.mask = {} /\ NoCall.todo = {}
      /\ NoCall.level = "passive"
  BY Zenon DEF NoCall, CallRec
<1> QED
  BY <1>1, Zenon DEF CallShape, WaitPcs

LEMMA LiveGpus ==
  ASSUME TypeOK, ApiInv
  PROVE  Live \in SUBSET Gpus /\ gpusLockableMask \subseteq Live
  BY Typed, Zenon DEF ApiInv, Live

(* What the loop leaves behind, apart from the locks.                      *)
LEMMA LoopCall ==
  ASSUME NEW t \in All, NEW c \in CallRec, NEW locks \in [Gpus -> LockRec],
         call \in [All -> CallRec], gpusLockableMask \in SUBSET Gpus,
         gpusLockedMask \in SUBSET Gpus, c.mask = {}, Loop(t, c, locks)
  PROVE  /\ gpuLocks' \in [Gpus -> LockRec] /\ call' \in [All -> CallRec]
         /\ gpusLockedMask' \in SUBSET Gpus /\ OnlyOf(t, call, call')
         /\ CallShape(call'[t]) /\ call'[t].pc \in {"sleep", "locked"}
         /\ call'[t].kind = c.kind
         /\ call'[t].pc = "locked" => call'[t].todo = {}
         /\ gpusLockableMask \cap (c.got \cup c.todo) \subseteq Reach(call'[t])
<1>1. PICK take, wait \in SUBSET (gpusLockableMask \cap c.todo) :
        /\ Takes(t, c, locks, take, wait)
        /\ \/ HasAll(t, c, take, wait)
           \/ \E g \in wait : WaitsFor(t, c, take, wait, g)
  BY LoopIs, Zenon
<1>2. take \subseteq Gpus /\ wait \subseteq Gpus /\ c.got \subseteq Gpus
  BY Zenon DEF CallRec
<1>3. gpuLocks' \in [Gpus -> LockRec]
  <2>1. ASSUME NEW lock \in LockRec
        PROVE  /\ TakenLock(lock, t) \in LockRec
               /\ [lock EXCEPT !.count = @ - 1] \in LockRec
    <3> DEFINE n == lock.count - 1
               b == TRUE
    <3>1. n \in Int /\ b \in BOOLEAN
      BY DEF LockRec
    <3>2. t \in All \cup {NO_THREAD}
      BY Zenon
    <3> HIDE DEF n, b
    <3>3. /\ [lock EXCEPT !.count = n] \in LockRec
          /\ [lock EXCEPT !.count = n, !.bRunning = b, !.threadId = t] \in LockRec
      BY <3>1, <3>2, LockUpdate, Zenon
    <3> QED
      BY <3>3, Zenon DEF TakenLock, n, b
  <2>2. \A g \in Gpus : locks[g] \in LockRec
    BY Zenon
  <2> QED
    BY <1>1, <2>1, <2>2, Zenon DEF Takes
<1>4. CASE HasAll(t, c, take, wait)
  <2> DEFINE d == [c EXCEPT !.pc = "locked", !.todo = {},
                            !.got = c.got \cup take]
  <2>1. /\ call' = [call EXCEPT ![t] = d]
        /\ gpusLockableMask \cap c.todo \subseteq take
        /\ gpusLockedMask' = gpusLockedMask \cup (c.got \cup take)
    BY <1>4, Zenon DEF HasAll
  <2>2. /\ d \in CallRec /\ d.pc = "locked" /\ d.mask = {}
        /\ d.kind = c.kind /\ d.todo = {} /\ d.got = c.got \cup take
    <3> DEFINE G == c.got \cup take
    <3>1. G \in SUBSET Gpus
      BY <1>2, Zenon
    <3>2. d = [c EXCEPT !.pc = "locked", !.todo = {}, !.got = G]
      BY Zenon
    <3> HIDE DEF d, G
    <3>3. d \in CallRec
      BY <3>1, <3>2, LockedCall, Zenon
    <3>4. /\ d.pc = "locked" /\ d.mask = {}
          /\ d.kind = c.kind /\ d.todo = {} /\ d.got = G
      BY <3>2, Zenon DEF CallRec
    <3> QED
      BY <3>3, <3>4, Zenon DEF G
  <2> HIDE DEF d
  <2>3. call'[t] = d /\ call' \in [All -> CallRec] /\ OnlyOf(t, call, call')
    BY <2>1, <2>2, Zenon DEF OnlyOf
  <2>4. CallShape(d)
    BY <2>2, Zenon DEF CallShape, WaitPcs
  <2>5. gpusLockableMask \cap (c.got \cup c.todo) \subseteq Reach(d)
    BY <2>1, <2>2, Zenon DEF Reach
  <2> QED
    BY <1>2, <1>3, <2>1, <2>2, <2>3, <2>4, <2>5, Zenon
<1>5. CASE \E g \in wait : WaitsFor(t, c, take, wait, g)
  <2>1. PICK g \in wait : WaitsFor(t, c, take, wait, g)
    BY <1>5, Zenon
  <2> DEFINE d == [c EXCEPT !.pc = "sleep", !.gpu = g, !.got = c.got \cup take,
                            !.todo = {h \in c.todo : h > g}]
  <2>2. /\ call' = [call EXCEPT ![t] = d] /\ c.level # "cond"
        /\ \A h \in gpusLockableMask \cap c.todo : h \in take \/ h = g \/ h > g
        /\ gpusLockedMask' = gpusLockedMask
    BY <2>1, Zenon DEF WaitsFor
  <2>3. /\ d \in CallRec /\ d.pc = "sleep" /\ d.mask = {} /\ d.gpu = g
        /\ d.level = c.level
        /\ d.kind = c.kind /\ d.got = c.got \cup take
        /\ d.todo = {h \in c.todo : h > g}
    <3> DEFINE G == c.got \cup take
               H == {h \in c.todo : h > g}
    <3>1. G \in SUBSET Gpus
      BY <1>2, Zenon
    <3>2. H \in SUBSET Gpus
      BY Zenon DEF CallRec
    <3>3. d = [c EXCEPT !.pc = "sleep", !.gpu = g, !.got = G, !.todo = H]
          /\ g \in Gpus
      BY <1>2, Zenon
    <3> HIDE DEF d, G, H
    <3>4. d \in CallRec
      BY <3>1, <3>2, <3>3, SleepingCall, Zenon
    <3>5. /\ d.pc = "sleep" /\ d.mask = {} /\ d.gpu = g
          /\ d.level = c.level /\ d.kind = c.kind
          /\ d.got = G /\ d.todo = H
      BY <3>3, Zenon DEF CallRec
    <3> QED
      BY <3>4, <3>5, Zenon DEF G, H
  <2> HIDE DEF d
  <2>4. call'[t] = d /\ call' \in [All -> CallRec] /\ OnlyOf(t, call, call')
    BY <2>2, <2>3, Zenon DEF OnlyOf
  <2>5. CallShape(d)
    BY <2>2, <2>3, <1>2, Zenon DEF CallShape, WaitPcs
  <2>6. gpusLockableMask \cap (c.got \cup c.todo) \subseteq Reach(d)
    BY <2>2, <2>3, Zenon DEF Reach
  <2> QED
    BY <1>3, <2>2, <2>3, <2>4, <2>5, <2>6, Zenon
<1> QED
  BY <1>1, <1>4, <1>5, Zenon

(* How a lock call goes on, from c to d.                                   *)
Advance(c, d) ==
  /\ c.pc \in WaitPcs \cup {"release", "wake", "again"}
  /\ d.kind \in {c.kind, "none"}
  /\ c.pc \in WaitPcs =>
       /\ d.pc \in WaitPcs \cup {"locked"} /\ d.kind = c.kind
       /\ gpusLockableMask \cap Reach(c) \subseteq Reach(d)
       /\ d.pc = "locked" => d.todo = {}
  /\ c.pc \in {"release", "wake"} => d.pc \in {"idle", "wake"} \/ c.kind = "all"

(* A step within a lock call keeps the invariant if it keeps the invariant *)
(* of the locks.                                                           *)
LEMMA MidCall ==
  ASSUME IInv, NEW t \in All,
         gpuLocks' \in [Gpus -> LockRec], call' \in [All -> CallRec],
         gpusLockedMask' \in SUBSET Gpus, UNCHANGED <<ApiVars, CallerVars>>,
         OnlyOf(t, call, call'), CallShape(call'[t]),
         Advance(call[t], call'[t]),
         LockInv(gpuLocks', call', held, gpusLockedMask', Live, deferred)
  PROVE  IInv'
<1>1. TypeOK /\ ShapeInv /\ ApiInv /\ AllInv
  BY Zenon DEF IInv
<1>2. /\ UNCHANGED gpusLockableMask /\ UNCHANGED attached /\ UNCHANGED api
      /\ UNCHANGED changes /\ UNCHANGED held /\ UNCHANGED deferred
      /\ UNCHANGED user /\ UNCHANGED calls
  BY Zenon DEF ApiVars, CallerVars
<1>3. TypeOK'
  <2>1. gpuLocks' \in [Gpus ->
          [count : Int, bRunning : BOOLEAN, bSignaled : BOOLEAN,
           threadId : All \cup {NO_THREAD}, pWaitSema : Nat \cup {NO_SEMA}]]
    BY Zenon DEF LockRec
  <2>2. call' \in [All ->
         [pc : {"idle", "sleep", "woken", "leave", "left", "locked", "release",
                "wake", "again"},
          kind : {"none", "all", "group", "device", "isr", "alloc", "free"},
          level : {"passive", "irq", "cond"}, todo : SUBSET Gpus,
          got : SUBSET Gpus, gpu : Gpus \cup {0}, mask : SUBSET Gpus,
          wake : SUBSET Gpus, retry : BOOLEAN]]
    BY Zenon DEF CallRec
  <2>3. gpusLockedMask' \subseteq Gpus
    BY Zenon
  <2> QED
    BY <1>1, <1>2, <2>1, <2>2, <2>3, Zenon DEF TypeOK
<1>4. ShapeInv'
  <2>1. \A u \in All : CallShape(call'[u])
    BY <1>1, Zenon DEF ShapeInv, OnlyOf
  <2>2. t \notin deferred /\ deferred \subseteq All
    BY <1>1, Zenon DEF ShapeInv, WaitPcs, TypeOK, All, Advance
  <2>3. \A u \in deferred : call'[u].pc = "idle" /\ Len(held[u]) = 1
    BY <1>1, <2>2, Zenon DEF ShapeInv, OnlyOf
  <2> QED
    BY <1>2, <2>1, <2>3, Zenon DEF ShapeInv
<1>5. Live' = Live
  BY <1>2, Zenon DEF Live
<1>6. ApiInv'
  <2>1. CASE t # API
    <3>1. call'[API] = call[API]
      BY <2>1, Zenon DEF OnlyOf, All
    <3> QED
      BY <1>1, <1>2, <3>1, Zenon DEF ApiInv
  <2>2. CASE t = API
    <3>1. call[API].pc # "idle"
      BY <2>2, Zenon DEF WaitPcs, Advance
    <3>2. api.pc \in {"alloc", "free", "unwind"} => call[API].pc \in WaitPcs
      BY <1>1, <2>2, Zenon DEF ApiInv, WaitPcs, Advance
    <3>3. api.pc \in {"added", "detached", "removed", "drain"} =>
            call[API].pc \in {"release", "wake"} /\ call[API].kind # "all"
      BY <1>1, <2>2, <3>1, Zenon DEF ApiInv, Advance
    <3>4. api.pc # "idle"
      BY <1>1, <3>1, Zenon DEF ApiInv
    <3> QED
      BY <1>1, <1>2, <2>2, <3>1, <3>2, <3>3, <3>4, Zenon DEF ApiInv, Advance
  <2> QED
    BY <2>1, <2>2, Zenon
<1>7. AllInv'
  <2>1. \A u \in All : call'[u].kind = "all" => call[u].kind = "all"
    BY Zenon DEF OnlyOf, Advance
  <2>2. \A u \in Threads : LocksAll(u)' => LocksAll(u)
    BY <1>2, <2>1, Zenon DEF LocksAll, All
  <2> QED
    BY <1>1, <1>2, <2>2, Zenon DEF AllInv
<1> QED
  BY <1>2, <1>3, <1>4, <1>5, <1>6, <1>7, Zenon DEF IInv

-----------------------------------------------------------------------------
(* Updates of one field of one thread or lock.                             *)
SameSlot(c, d) ==
  /\ d.kind = c.kind /\ d.level = c.level /\ d.todo = c.todo
  /\ d.got = c.got /\ d.gpu = c.gpu /\ d.mask = c.mask /\ d.wake = c.wake

Pcs == {"idle", "sleep", "woken", "leave", "left", "locked", "release", "wake",
        "again"}

SetPc(cl, cl2, t, p) == cl2 = [cl EXCEPT ![t].pc = p]

SetSema(locks, locks2, g, v) == locks2 = [locks EXCEPT ![g].pWaitSema = v]

SemaIs(locks, locks2, g, v) ==
  \A h \in Gpus :
    /\ locks2[h].count = locks[h].count /\ locks2[h].bRunning = locks[h].bRunning
    /\ locks2[h].threadId = locks[h].threadId
    /\ locks2[h].pWaitSema = IF h = g THEN v ELSE locks[h].pWaitSema

LEMMA PcOf ==
  ASSUME NEW cl \in [All -> CallRec], NEW t \in All, NEW p \in Pcs,
         NEW cl2, SetPc(cl, cl2, t, p)
  PROVE  /\ cl2 \in [All -> CallRec] /\ OnlyOf(t, cl, cl2)
         /\ cl2[t].pc = p /\ SameSlot(cl[t], cl2[t])
<1> DEFINE c == cl[t]
           d == [c EXCEPT !.pc = p]
<1>1. c \in CallRec
  BY Zenon
<1>2. cl2 = [cl EXCEPT ![t] = d]
  BY Zenon DEF SetPc
<1> HIDE DEF c
<1>3. d \in CallRec /\ d.pc = p
  BY <1>1, Zenon DEF CallRec, Pcs
<1>4. SameSlot(c, d)
  BY <1>1, Zenon DEF CallRec, SameSlot
<1> HIDE DEF d
<1>5. cl2 \in [All -> CallRec] /\ OnlyOf(t, cl, cl2) /\ cl2[t] = d
  BY <1>2, <1>3, Zenon DEF OnlyOf
<1> QED
  BY <1>3, <1>4, <1>5, Zenon DEF c

LEMMA SemaOf ==
  ASSUME NEW locks \in [Gpus -> LockRec], NEW g,
         NEW v \in Nat \cup {NO_SEMA},
         NEW locks2, SetSema(locks, locks2, g, v)
  PROVE  locks2 \in [Gpus -> LockRec] /\ SemaIs(locks, locks2, g, v)
<1>1. ASSUME NEW h \in Gpus
      PROVE  /\ locks2[h] \in LockRec
             /\ locks2[h].count = locks[h].count
             /\ locks2[h].bRunning = locks[h].bRunning
             /\ locks2[h].threadId = locks[h].threadId
             /\ locks2[h].pWaitSema = IF h = g THEN v ELSE locks[h].pWaitSema
  <2> DEFINE l == locks[h]
             m == [l EXCEPT !.pWaitSema = v]
  <2>1. l \in LockRec
    BY Zenon
  <2>2. locks2[h] = IF h = g THEN m ELSE l
    BY Zenon DEF SetSema
  <2> HIDE DEF l
  <2>3. /\ m \in LockRec /\ m.count = l.count /\ m.bRunning = l.bRunning
        /\ m.threadId = l.threadId /\ m.pWaitSema = v
    BY <2>1, Zenon DEF LockRec
  <2> HIDE DEF m
  <2> QED
    BY <2>1, <2>2, <2>3, Zenon DEF l
<1>2. locks2 \in [Gpus -> LockRec]
  <2>1. locks2 = [h \in Gpus |-> locks2[h]]
    BY Zenon DEF SetSema
  <2> QED
    BY <1>1, <2>1, Zenon
<1> QED
  BY <1>1, <1>2, Zenon DEF SemaIs

LEMMA QuietStep ==
  ASSUME IInv, NEW t \in All,
         gpuLocks' \in [Gpus -> LockRec], call' \in [All -> CallRec],
         UNCHANGED gpusLockedMask, UNCHANGED <<ApiVars, CallerVars>>,
         OnlyOf(t, call, call'), CallShape(call'[t]),
         Advance(call[t], call'[t]),
         QuietLock(gpuLocks, gpuLocks'), QuietCall(call, call')
  PROVE  IInv'
<1>1. /\ TypeOK /\ ApiInv
      /\ LockInv(gpuLocks, call, held, gpusLockedMask, Live, deferred)
  BY Zenon DEF IInv
<1>2. /\ held \in HeldType /\ gpusLockedMask \in SUBSET Gpus
      /\ Live \in SUBSET Gpus
  BY <1>1, Typed, LiveGpus, Zenon
<1>3. LockInv(gpuLocks', call', held, gpusLockedMask', Live, deferred)
  <2>1. LockInv(gpuLocks', call', held, gpusLockedMask, Live, deferred)
    BY <1>1, <1>2, QuietLocks, Zenon
  <2> QED
    BY <2>1, Zenon
<1>4. gpusLockedMask' \in SUBSET Gpus
  BY <1>2, Zenon
<1> QED
  BY <1>3, <1>4, MidCall, Zenon

(* What the lemmas on the actions start from.                              *)
LEMMA InvOf ==
  ASSUME IInv, NEW t \in All
  PROVE  /\ gpuLocks \in [Gpus -> LockRec] /\ call \in [All -> CallRec]
         /\ gpusLockableMask \in SUBSET Gpus /\ gpusLockedMask \in SUBSET Gpus
         /\ Live \in SUBSET Gpus /\ gpusLockableMask \subseteq Live
         /\ LockInv(gpuLocks, call, held, gpusLockedMask, Live, deferred)
         /\ CallShape(call[t])
         /\ call[t].pc # "idle" => t \notin deferred
<1>1. /\ TypeOK /\ ApiInv /\ ShapeInv
      /\ LockInv(gpuLocks, call, held, gpusLockedMask, Live, deferred)
  BY Zenon DEF IInv
<1> QED
  BY <1>1, Typed, LiveGpus, Zenon DEF ShapeInv

(* portSyncSemaphoreAcquire()                                              *)
LEMMA SleepStep ==
  ASSUME IInv, NEW t \in All, Sleep(t)
  PROVE  IInv'
<1> DEFINE g == call[t].gpu
           v == gpuLocks[g].pWaitSema - 1
<1>1. /\ gpuLocks \in [Gpus -> LockRec] /\ call \in [All -> CallRec]
      /\ CallShape(call[t])
  BY InvOf, Zenon
<1>2. /\ call[t].pc = "sleep" /\ gpuLocks[g].pWaitSema \in Nat \ {0}
      /\ gpuLocks' = [gpuLocks EXCEPT ![g].pWaitSema = v]
      /\ call' = [call EXCEPT ![t].pc = "woken"]
      /\ UNCHANGED gpusLockedMask /\ UNCHANGED <<ApiVars, CallerVars>>
  BY Zenon DEF Sleep
<1>3. v \in Nat \cup {NO_SEMA} /\ v # NO_SEMA
  BY <1>2, GpuLocksAssumption
<1> HIDE DEF v
<1>4. /\ call' \in [All -> CallRec] /\ OnlyOf(t, call, call')
      /\ call'[t].pc = "woken" /\ SameSlot(call[t], call'[t])
  <2>1. "woken" \in Pcs /\ SetPc(call, call', t, "woken")
    BY <1>2, Zenon DEF Pcs, SetPc
  <2> QED
    BY <1>1, <2>1, PcOf, Zenon
<1>5. gpuLocks' \in [Gpus -> LockRec] /\ SemaIs(gpuLocks, gpuLocks', g, v)
  <2>1. SetSema(gpuLocks, gpuLocks', g, v)
    BY <1>2, Zenon DEF SetSema
  <2> QED
    BY <1>1, <1>3, <2>1, SemaOf, Zenon
<1>6. QuietLock(gpuLocks, gpuLocks')
  BY <1>2, <1>3, <1>5, GpuLocksAssumption DEF QuietLock, SemaIs
<1>7. QuietCall(call, call')
  BY <1>2, <1>4, Zenon DEF QuietCall, OnlyOf, SameSlot, WaitPcs
<1>8. CallShape(call'[t])
  BY <1>1, <1>2, <1>4, Zenon DEF CallShape, SameSlot, WaitPcs
<1>9. Advance(call[t], call'[t])
  BY <1>2, <1>4, Zenon DEF WaitPcs, SameSlot, Advance, Reach
<1> QED
  BY <1>2, <1>4, <1>5, <1>6, <1>7, <1>8, <1>9, QuietStep, Zenon

(* The semaphore is passed on.                                             *)
LEMMA LeaveStep ==
  ASSUME IInv, NEW t \in All, Leave(t)
  PROVE  IInv'
<1> DEFINE g == call[t].gpu
           v == gpuLocks[g].pWaitSema + 1
<1>1. /\ gpuLocks \in [Gpus -> LockRec] /\ call \in [All -> CallRec]
      /\ CallShape(call[t]) /\ WaitsLive(gpuLocks, call, Live)
      /\ Live \in SUBSET Gpus
  BY InvOf, Zenon DEF LockInv
<1>2. /\ call[t].pc = "leave"
      /\ gpuLocks' = [gpuLocks EXCEPT ![g].pWaitSema = v]
      /\ call' = [call EXCEPT ![t].pc = "left"]
      /\ UNCHANGED gpusLockedMask /\ UNCHANGED <<ApiVars, CallerVars>>
  BY Zenon DEF Leave
<1>3. g \in Gpus /\ gpuLocks[g].pWaitSema # NO_SEMA
  BY <1>1, <1>2, Zenon DEF WaitsLive, WaitPcs
<1>4. v \in Nat \cup {NO_SEMA} /\ v # NO_SEMA
  <2>1. gpuLocks[g] \in LockRec
    BY <1>1, <1>3, Zenon
  <2>2. gpuLocks[g].pWaitSema \in Nat
    BY <1>3, <2>1, Zenon DEF LockRec
  <2> QED
    BY <2>2, GpuLocksAssumption
<1> HIDE DEF v
<1>5. /\ call' \in [All -> CallRec] /\ OnlyOf(t, call, call')
      /\ call'[t].pc = "left" /\ SameSlot(call[t], call'[t])
  <2>1. "left" \in Pcs /\ SetPc(call, call', t, "left")
    BY <1>2, Zenon DEF Pcs, SetPc
  <2> QED
    BY <1>1, <2>1, PcOf, Zenon
<1>6. gpuLocks' \in [Gpus -> LockRec] /\ SemaIs(gpuLocks, gpuLocks', g, v)
  <2>1. SetSema(gpuLocks, gpuLocks', g, v)
    BY <1>2, Zenon DEF SetSema
  <2> QED
    BY <1>1, <1>4, <2>1, SemaOf, Zenon
<1>7. QuietLock(gpuLocks, gpuLocks')
  BY <1>3, <1>4, <1>6, Zenon DEF QuietLock, SemaIs
<1>8. QuietCall(call, call')
  BY <1>2, <1>5, Zenon DEF QuietCall, OnlyOf, SameSlot, WaitPcs
<1>9. CallShape(call'[t])
  BY <1>1, <1>2, <1>5, Zenon DEF CallShape, SameSlot, WaitPcs
<1>10. Advance(call[t], call'[t])
  BY <1>2, <1>5, Zenon DEF WaitPcs, SameSlot, Advance, Reach
<1> QED
  BY <1>2, <1>5, <1>6, <1>7, <1>8, <1>9, <1>10, QuietStep, Zenon

(* One lock is replaced.                                                   *)
LEMMA OneLock ==
  ASSUME NEW locks \in [Gpus -> LockRec], NEW g \in Gpus, NEW m \in LockRec,
         NEW locks2, locks2 = [locks EXCEPT ![g] = m]
  PROVE  /\ locks2 \in [Gpus -> LockRec] /\ locks2[g] = m
         /\ OnlyLock(g, locks, locks2)
  BY Zenon DEF OnlyLock

(* The loop, from the state in which a step has brought the locks.         *)
LEMMA LoopStep ==
  ASSUME IInv, NEW t \in All, NEW c \in CallRec,
         NEW locks \in [Gpus -> LockRec], NEW cl \in [All -> CallRec],
         OnlyOf(t, call, cl), cl[t].got = c.got, cl[t].mask = {}, c.mask = {},
         cl[t].pc \notin WaitPcs, CondFree(c, locks), t \notin deferred,
         LockInv(locks, cl, held, gpusLockedMask, Live, deferred),
         Loop(t, c, locks)
  PROVE  /\ LockInv(gpuLocks', call', held, gpusLockedMask', Live, deferred)
         /\ gpuLocks' \in [Gpus -> LockRec] /\ call' \in [All -> CallRec]
         /\ gpusLockedMask' \in SUBSET Gpus /\ OnlyOf(t, call, call')
         /\ CallShape(call'[t]) /\ call'[t].pc \in {"sleep", "locked"}
         /\ call'[t].kind = c.kind
         /\ call'[t].pc = "locked" => call'[t].todo = {}
         /\ gpusLockableMask \cap (c.got \cup c.todo) \subseteq Reach(call'[t])
<1>1. /\ call \in [All -> CallRec]
      /\ gpusLockableMask \in SUBSET Gpus /\ gpusLockedMask \in SUBSET Gpus
      /\ Live \in SUBSET Gpus /\ gpusLockableMask \subseteq Live
  BY InvOf, Zenon
<1>2. held \in HeldType
  BY Typed, Zenon DEF IInv
<1>3. LockInv(gpuLocks', call', held, gpusLockedMask', Live, deferred)
  BY <1>1, <1>2, LoopLocks, Zenon
<1> QED
  BY <1>1, <1>3, LoopCall, Zenon

(* The lock was freed, another thread was faster, or the thread takes it.  *)
LEMMA WokenStep ==
  ASSUME IInv, NEW t \in All, Woken(t)
  PROVE  IInv'
<1> DEFINE g == call[t].gpu
           signal == [gpuLocks EXCEPT ![g].bSignaled = FALSE]
           locks == [signal EXCEPT ![g].bRunning = TRUE, ![g].threadId = t]
           c == [call[t] EXCEPT !.got = @ \cup {g}]
<1>1. /\ gpuLocks \in [Gpus -> LockRec] /\ call \in [All -> CallRec]
      /\ Live \in SUBSET Gpus /\ CallShape(call[t])
      /\ call[t].pc # "idle" => t \notin deferred
      /\ LockInv(gpuLocks, call, held, gpusLockedMask, Live, deferred)
  BY InvOf, Zenon
<1>2. call[t].pc = "woken" /\ UNCHANGED <<ApiVars, CallerVars>>
  BY Zenon DEF Woken
<1>3. /\ g \in Gpus /\ t \notin deferred /\ call[t].pc \in WaitPcs
      /\ call[t].mask = {} /\ call[t].level # "cond" /\ call[t] \in CallRec
      /\ gpuLocks[g] \in LockRec /\ call[t].gpu = g
  BY <1>1, <1>2, Zenon DEF CallShape, WaitPcs
<1> HIDE DEF g
<1>4. ASSUME g \notin gpusLockableMask,
             call' = [call EXCEPT ![t].pc = "leave"],
             UNCHANGED <<gpuLocks, gpusLockedMask>>
      PROVE  IInv'
  <2>1. /\ call' \in [All -> CallRec] /\ OnlyOf(t, call, call')
        /\ call'[t].pc = "leave" /\ SameSlot(call[t], call'[t])
    <3>1. "leave" \in Pcs /\ SetPc(call, call', t, "leave")
      BY <1>4, Zenon DEF Pcs, SetPc
    <3> QED
      BY <1>1, <3>1, PcOf, Zenon
  <2>2. gpuLocks' \in [Gpus -> LockRec] /\ QuietLock(gpuLocks, gpuLocks')
    BY <1>1, <1>4, Zenon DEF QuietLock
  <2>3. QuietCall(call, call')
    BY <1>2, <2>1, Zenon DEF QuietCall, OnlyOf, SameSlot, WaitPcs
  <2>4. CallShape(call'[t])
    BY <1>3, <2>1, Zenon DEF CallShape, SameSlot, WaitPcs
  <2>5. Advance(call[t], call'[t])
    BY <1>2, <1>3, <1>4, <2>1, Zenon DEF WaitPcs, SameSlot, Advance, Reach
  <2>6. UNCHANGED gpusLockedMask
    BY <1>4, Zenon
  <2> QED
    BY <1>2, <2>1, <2>2, <2>3, <2>4, <2>5, <2>6, QuietStep, Zenon
<1>5. /\ signal \in [Gpus -> LockRec]
      /\ \A h \in Gpus : /\ signal[h].count = gpuLocks[h].count
                        /\ signal[h].bRunning = gpuLocks[h].bRunning
                        /\ signal[h].threadId = gpuLocks[h].threadId
                        /\ signal[h].pWaitSema = gpuLocks[h].pWaitSema
      /\ OnlyLock(g, gpuLocks, signal)
  <2> DEFINE l == gpuLocks[g]
             m == [l EXCEPT !.bSignaled = FALSE]
  <2>1. signal = [gpuLocks EXCEPT ![g] = m]
    BY Zenon
  <2>2. l \in LockRec
    BY <1>3, Zenon
  <2> HIDE DEF l
  <2>3. /\ m \in LockRec /\ m.count = l.count /\ m.bRunning = l.bRunning
        /\ m.threadId = l.threadId /\ m.pWaitSema = l.pWaitSema
    <3>1. \A b \in BOOLEAN : [l EXCEPT !.bSignaled = b] \in LockRec
      BY <2>2, Zenon DEF LockRec
    <3>2. m \in LockRec
      BY <3>1, Zenon
    <3> QED
      BY <2>2, <3>2, Zenon DEF LockRec
  <2> HIDE DEF m, signal
  <2>4. /\ signal \in [Gpus -> LockRec] /\ signal[g] = m
        /\ OnlyLock(g, gpuLocks, signal)
    BY <1>1, <1>3, <2>1, <2>3, OneLock, Zenon
  <2> QED
    BY <2>3, <2>4, Zenon DEF l, OnlyLock
<1> HIDE DEF signal
<1>6. ASSUME gpuLocks' = signal, call' = [call EXCEPT ![t].pc = "sleep"],
             UNCHANGED gpusLockedMask
      PROVE  IInv'
  <2>1. /\ call' \in [All -> CallRec] /\ OnlyOf(t, call, call')
        /\ call'[t].pc = "sleep" /\ SameSlot(call[t], call'[t])
    <3>1. "sleep" \in Pcs /\ SetPc(call, call', t, "sleep")
      BY <1>6, Zenon DEF Pcs, SetPc
    <3> QED
      BY <1>1, <3>1, PcOf, Zenon
  <2>2. gpuLocks' \in [Gpus -> LockRec] /\ QuietLock(gpuLocks, gpuLocks')
    BY <1>5, <1>6, Zenon DEF QuietLock
  <2>3. QuietCall(call, call')
    BY <1>2, <2>1, Zenon DEF QuietCall, OnlyOf, SameSlot, WaitPcs
  <2>4. CallShape(call'[t])
    BY <1>3, <2>1, Zenon DEF CallShape, SameSlot, WaitPcs
  <2>5. Advance(call[t], call'[t])
    BY <1>2, <2>1, Zenon DEF WaitPcs, SameSlot, Advance, Reach
  <2> QED
    BY <1>2, <1>6, <2>1, <2>2, <2>3, <2>4, <2>5, QuietStep, Zenon
<1>7. ASSUME ~gpuLocks[g].bRunning, Loop(t, c, locks)
      PROVE  IInv'
  <2>1. /\ locks \in [Gpus -> LockRec] /\ OnlyLock(g, gpuLocks, locks)
        /\ locks[g].count = gpuLocks[g].count /\ locks[g].bRunning
        /\ locks[g].threadId = t
        /\ locks[g].pWaitSema = gpuLocks[g].pWaitSema
    <3> DEFINE l == signal[g]
               l1 == [l EXCEPT !.bRunning = TRUE]
               m == [l1 EXCEPT !.threadId = t]
    <3>1. locks = [signal EXCEPT ![g] = m]
      BY <1>3, <1>5, Zenon
    <3>2. l \in LockRec
      BY <1>3, <1>5, Zenon
    <3> HIDE DEF l
    <3>3. /\ l1 \in LockRec /\ l1.count = l.count
          /\ l1.bRunning = TRUE /\ l1.pWaitSema = l.pWaitSema
      <4>1. \A b \in BOOLEAN : [l EXCEPT !.bRunning = b] \in LockRec
        BY <3>2, Zenon DEF LockRec
      <4>2. l1 \in LockRec
        BY <4>1, Zenon
      <4> QED
        BY <3>2, <4>2, Zenon DEF LockRec
    <3> HIDE DEF l1
    <3>4. /\ m \in LockRec /\ m.count = l1.count /\ m.bRunning = l1.bRunning
          /\ m.threadId = t /\ m.pWaitSema = l1.pWaitSema
      BY <3>3, Zenon DEF LockRec
    <3> HIDE DEF m, locks
    <3>5. /\ locks \in [Gpus -> LockRec] /\ locks[g] = m
          /\ OnlyLock(g, signal, locks)
      BY <1>3, <1>5, <3>1, <3>4, OneLock, Zenon
    <3>6. OnlyLock(g, gpuLocks, locks)
      BY <1>5, <3>5, Zenon DEF OnlyLock
    <3> QED
      BY <1>3, <1>5, <3>3, <3>4, <3>5, <3>6, SMTT(30) DEF l
  <2> HIDE DEF locks
  <2>2. /\ c \in CallRec /\ c.got = call[t].got \cup {g} /\ c.mask = {}
        /\ c.level # "cond" /\ c.kind = call[t].kind /\ c.todo = call[t].todo
    BY <1>3, Zenon DEF CallRec
  <2> HIDE DEF c
  <2> DEFINE d == [c EXCEPT !.pc = "idle"]
             cl == [call EXCEPT ![t] = d]
  <2>3. d \in CallRec /\ d.pc = "idle" /\ d.got = c.got /\ d.mask = c.mask
    BY <2>2, Zenon DEF CallRec
  <2> HIDE DEF d
  <2>4. cl \in [All -> CallRec] /\ OnlyOf(t, call, cl) /\ cl[t] = d
    BY <1>1, <2>3, Zenon DEF OnlyOf
  <2> HIDE DEF cl
  <2>5. /\ cl[t].got = c.got /\ cl[t].mask = {}
        /\ cl[t].pc \notin WaitPcs \cup {"locked", "release"}
        /\ cl[t].pc \notin WaitPcs /\ CondFree(c, locks)
    BY <2>2, <2>3, <2>4, Zenon DEF WaitPcs, CondFree
  <2>6. LockInv(locks, cl, held, gpusLockedMask, Live, deferred)
    <3>1. held \in HeldType
      BY Typed, Zenon DEF IInv
    <3>2. cl[t].got = call[t].got \cup {g}
      BY <2>2, <2>5
    <3> QED
      BY <1>1, <1>3, <1>7, <2>1, <2>4, <2>5, <3>1, <3>2, WokenLocks, Zenon
  <2>7. /\ LockInv(gpuLocks', call', held, gpusLockedMask', Live, deferred)
        /\ gpuLocks' \in [Gpus -> LockRec] /\ call' \in [All -> CallRec]
        /\ gpusLockedMask' \in SUBSET Gpus /\ OnlyOf(t, call, call')
        /\ CallShape(call'[t]) /\ call'[t].pc \in {"sleep", "locked"}
        /\ call'[t].kind = c.kind
        /\ call'[t].pc = "locked" => call'[t].todo = {}
        /\ gpusLockableMask \cap (c.got \cup c.todo) \subseteq Reach(call'[t])
    BY <1>3, <1>7, <2>1, <2>2, <2>4, <2>5, <2>6, LoopStep, Zenon
  <2>8. Advance(call[t], call'[t])
    <3>1. Reach(call[t]) = c.got \cup c.todo
      BY <1>2, <1>3, <2>2, Zenon DEF Reach
    <3> QED
      BY <1>2, <2>2, <2>7, <3>1, Zenon DEF Advance, WaitPcs
  <2> QED
    BY <1>2, <2>7, <2>8, MidCall, Zenon
<1> QED
  BY <1>4, <1>6, <1>7, Zenon DEF Woken, signal, g

(* The lock is gone for good: the thread no longer counts as a waiter, and *)
(* the loop goes on.                                                       *)
LEMMA NextInstanceStep ==
  ASSUME IInv, NEW t \in All, NextInstance(t)
  PROVE  IInv'
<1> DEFINE g == call[t].gpu
           c == call[t]
           locks == [gpuLocks EXCEPT ![g].count = @ + 1]
           cl == [call EXCEPT ![t].pc = "idle"]
<1>1. /\ gpuLocks \in [Gpus -> LockRec] /\ call \in [All -> CallRec]
      /\ Live \in SUBSET Gpus /\ CallShape(call[t])
      /\ call[t].pc # "idle" => t \notin deferred
      /\ LockInv(gpuLocks, call, held, gpusLockedMask, Live, deferred)
  BY InvOf, Zenon
<1>2. /\ call[t].pc = "left" /\ UNCHANGED <<ApiVars, CallerVars>>
      /\ Loop(t, c, locks)
  BY Zenon DEF NextInstance
<1>3. /\ g \in Gpus /\ t \notin deferred /\ call[t].pc \in WaitPcs
      /\ c.mask = {} /\ c.level # "cond" /\ c \in CallRec /\ c = call[t]
      /\ gpuLocks[g] \in LockRec /\ call[t].gpu = g
  BY <1>1, <1>2, Zenon DEF CallShape, WaitPcs
<1> HIDE DEF g
<1>4. /\ locks \in [Gpus -> LockRec] /\ OnlyLock(g, gpuLocks, locks)
      /\ locks[g].count = gpuLocks[g].count + 1
      /\ locks[g].bRunning = gpuLocks[g].bRunning
      /\ locks[g].threadId = gpuLocks[g].threadId
      /\ locks[g].pWaitSema = gpuLocks[g].pWaitSema
  <2> DEFINE l == gpuLocks[g]
             m == [l EXCEPT !.count = @ + 1]
  <2>1. locks = [gpuLocks EXCEPT ![g] = m]
    BY Zenon
  <2>2. l \in LockRec
    BY <1>3, Zenon
  <2> HIDE DEF l
  <2>3. /\ m \in LockRec /\ m.count = l.count + 1 /\ m.bRunning = l.bRunning
        /\ m.threadId = l.threadId /\ m.pWaitSema = l.pWaitSema
    BY <2>2 DEF LockRec
  <2> HIDE DEF m, locks
  <2>4. /\ locks \in [Gpus -> LockRec] /\ locks[g] = m
        /\ OnlyLock(g, gpuLocks, locks)
    BY <1>1, <1>3, <2>1, <2>3, OneLock, Zenon
  <2> QED
    BY <2>3, <2>4, Zenon DEF l
<1> HIDE DEF locks
<1>5. /\ cl \in [All -> CallRec] /\ OnlyOf(t, call, cl)
      /\ cl[t].pc = "idle" /\ SameSlot(call[t], cl[t])
  <2>1. "idle" \in Pcs /\ SetPc(call, cl, t, "idle")
    BY Zenon DEF Pcs, SetPc
  <2> QED
    BY <1>1, <2>1, PcOf, Zenon
<1> HIDE DEF cl
<1>6. /\ cl[t].got = call[t].got /\ cl[t].mask = call[t].mask
      /\ cl[t].mask = {} /\ cl[t].got = c.got
      /\ cl[t].pc \notin WaitPcs \cup {"locked", "release"}
      /\ cl[t].pc \notin WaitPcs /\ CondFree(c, locks)
  BY <1>3, <1>5, Zenon DEF WaitPcs, CondFree, SameSlot
<1>7. LockInv(locks, cl, held, gpusLockedMask, Live, deferred)
  <2>1. held \in HeldType
    BY Typed DEF IInv
  <2> QED
    BY <1>1, <1>3, <1>4, <1>5, <1>6, <2>1, LeftLocks, Zenon
<1> HIDE DEF c
<1>8. /\ LockInv(gpuLocks', call', held, gpusLockedMask', Live, deferred)
      /\ gpuLocks' \in [Gpus -> LockRec] /\ call' \in [All -> CallRec]
      /\ gpusLockedMask' \in SUBSET Gpus /\ OnlyOf(t, call, call')
      /\ CallShape(call'[t]) /\ call'[t].pc \in {"sleep", "locked"}
      /\ call'[t].kind = c.kind
      /\ call'[t].pc = "locked" => call'[t].todo = {}
      /\ gpusLockableMask \cap (c.got \cup c.todo) \subseteq Reach(call'[t])
  BY <1>2, <1>3, <1>4, <1>5, <1>6, <1>7, LoopStep, Zenon
<1>9. Advance(call[t], call'[t])
  <2>1. Reach(call[t]) = c.got \cup c.todo
    BY <1>2, <1>3, Zenon DEF Reach
  <2> QED
    BY <1>2, <1>3, <1>8, <2>1, Zenon DEF Advance, WaitPcs
<1> QED
  BY <1>2, <1>8, <1>9, MidCall, Zenon

(* What an acquire hands to the loop.                                      *)
LoopFrom(t, k, mask) ==
  \E c \in CallRec :
    /\ c.got = {} /\ c.mask = {} /\ c.todo = mask /\ c.kind = k
    /\ CondFree(c, gpuLocks) /\ Loop(t, c, gpuLocks)

LEMMA AcquireIs ==
  ASSUME NEW t, NEW k \in {"all", "group", "device", "isr"},
         NEW mask \in SUBSET Gpus, NEW l \in {"passive", "irq", "cond"},
         NEW r \in BOOLEAN, Acquire(t, k, mask, l, r)
  PROVE  LoopFrom(t, k, mask)
<1> DEFINE c1 == [NoCall EXCEPT !.kind = k]
           c2 == [c1 EXCEPT !.level = l]
           c3 == [c2 EXCEPT !.todo = mask]
           c4 == [c3 EXCEPT !.retry = r]
<1>1. c1 \in CallRec /\ c1.got = {} /\ c1.mask = {} /\ c1.kind = k
  BY NoCallIs, Zenon DEF CallRec
<1> HIDE DEF c1
<1>2. /\ c2 \in CallRec /\ c2.got = {} /\ c2.mask = {} /\ c2.kind = k
      /\ c2.level = l
  BY <1>1, Zenon DEF CallRec
<1> HIDE DEF c2
<1>3. /\ c3 \in CallRec /\ c3.got = {} /\ c3.mask = {} /\ c3.kind = k
      /\ c3.level = l /\ c3.todo = mask
  BY <1>2, Zenon DEF CallRec
<1> HIDE DEF c3
<1>4. /\ c4 \in CallRec /\ c4.got = {} /\ c4.mask = {} /\ c4.kind = k
      /\ c4.level = l /\ c4.todo = mask
  BY <1>3, Zenon DEF CallRec
<1>5. c4 = [NoCall EXCEPT !.kind = k, !.level = l, !.todo = mask, !.retry = r]
  BY Zenon DEF c1, c2, c3
<1> HIDE DEF c4
<1>6. Loop(t, c4, gpuLocks) /\ Available(mask, l)
  BY <1>5, Zenon DEF Acquire
<1>7. CondFree(c4, gpuLocks)
  BY <1>4, <1>6, Zenon DEF CondFree, Available
<1> QED
  BY <1>4, <1>6, <1>7, Zenon DEF LoopFrom

(* The second attempt to lock all GPUs.                                    *)
LEMMA AgainStep ==
  ASSUME IInv, NEW t \in All, Again(t)
  PROVE  IInv'
<1>1. /\ gpuLocks \in [Gpus -> LockRec] /\ call \in [All -> CallRec]
      /\ gpusLockableMask \in SUBSET Gpus
      /\ CallShape(call[t])
      /\ call[t].pc # "idle" => t \notin deferred
      /\ LockInv(gpuLocks, call, held, gpusLockedMask, Live, deferred)
  BY InvOf, Zenon
<1>2. call[t].pc = "again" /\ UNCHANGED <<ApiVars, CallerVars>>
  BY Zenon DEF Again
<1>3. call[t].level \in {"passive", "irq", "cond"}
  BY <1>1, Zenon DEF CallRec
<1>4. PICK c \in CallRec :
        /\ c.got = {} /\ c.mask = {} /\ c.todo = gpusLockableMask
        /\ c.kind = "all"
        /\ CondFree(c, gpuLocks) /\ Loop(t, c, gpuLocks)
  <2>1. ASSUME NEW r \in BOOLEAN,
               Acquire(t, "all", gpusLockableMask, call[t].level, r)
        PROVE  LoopFrom(t, "all", gpusLockableMask)
    <3>1. "all" \in {"all", "group", "device", "isr"}
      BY Zenon
    <3> QED
      BY <1>1, <1>3, <2>1, <3>1, AcquireIs, Zenon
  <2>2. Acquire(t, "all", gpusLockableMask, call[t].level, TRUE)
    BY Zenon DEF Again
  <2> QED
    BY <2>1, <2>2, Zenon DEF LoopFrom
<1>5. /\ call[t].got = c.got /\ call[t].mask = {} /\ call[t].kind = "all"
      /\ call[t].pc \notin WaitPcs /\ t \notin deferred
      /\ OnlyOf(t, call, call)
  <2>1. t \notin deferred /\ OnlyOf(t, call, call)
    BY <1>1, <1>2, Zenon DEF OnlyOf
  <2> QED
    BY <1>1, <1>2, <1>4, <2>1, Zenon DEF CallShape, WaitPcs
<1>6. /\ LockInv(gpuLocks', call', held, gpusLockedMask', Live, deferred)
      /\ gpuLocks' \in [Gpus -> LockRec] /\ call' \in [All -> CallRec]
      /\ gpusLockedMask' \in SUBSET Gpus /\ OnlyOf(t, call, call')
      /\ CallShape(call'[t]) /\ call'[t].pc \in {"sleep", "locked"}
      /\ call'[t].kind = c.kind
  BY <1>1, <1>4, <1>5, LoopStep, Zenon
<1>7. Advance(call[t], call'[t])
  BY <1>2, <1>4, <1>5, <1>6, Zenon DEF Advance, WaitPcs
<1> QED
  BY <1>2, <1>6, <1>7, MidCall, Zenon

(* What is left to do of a release.                                        *)
LEMMA RestIs ==
  ASSUME NEW c \in CallRec, c.got = {}, c.mask = {}
  PROVE  /\ Rest(c) \in CallRec /\ Rest(c).got = {} /\ Rest(c).mask = {}
         /\ Rest(c).pc \in {"idle", "wake", "again"}
         /\ Rest(c).pc = "again" => c.kind = "all"
         /\ Rest(c).kind \in {c.kind, "none"} /\ CallShape(Rest(c))
<1> DEFINE d == Rest(c)
<1>1. \/ d = [c EXCEPT !.pc = "wake"]
      \/ c.kind = "all" /\ d = [c EXCEPT !.pc = "again"]
      \/ d = NoCall
  BY Zenon DEF Rest
<1> HIDE DEF d
<1>2. /\ d \in CallRec /\ d.got = {} /\ d.mask = {}
      /\ d.pc \in {"idle", "wake", "again"} /\ d.kind \in {c.kind, "none"}
      /\ d.pc = "again" => d.kind = "all" /\ c.kind = "all"
      /\ d.pc = "idle" => d = NoCall
  <2>1. CASE d = [c EXCEPT !.pc = "wake"]
    BY <2>1, Zenon DEF CallRec
  <2>2. CASE c.kind = "all" /\ d = [c EXCEPT !.pc = "again"]
    BY <2>2, Zenon DEF CallRec
  <2>3. CASE d = NoCall
    BY <2>3, NoCallIs, Zenon
  <2> QED
    BY <1>1, <2>1, <2>2, <2>3, Zenon
<1>3. CallShape(d)
  BY <1>2, Zenon DEF CallShape, WaitPcs
<1> QED
  BY <1>2, <1>3, Zenon DEF d

(* A semaphore is released, which may be destroyed or new by now.          *)
LEMMA WakeStep ==
  ASSUME IInv, NEW t \in All, Wake(t)
  PROVE  IInv'
<1> DEFINE g == Max(call[t].wake)
           c == [call[t] EXCEPT !.wake = @ \ {g}]
           s == gpuLocks[g].pWaitSema
           v == IF s = NO_SEMA THEN s ELSE s + 1
<1>1. /\ gpuLocks \in [Gpus -> LockRec] /\ call \in [All -> CallRec]
      /\ call[t] \in CallRec /\ CallShape(call[t])
  BY InvOf, Zenon
<1>2. /\ call[t].pc = "wake" /\ UNCHANGED <<ApiVars, CallerVars>>
      /\ UNCHANGED gpusLockedMask
  BY Zenon DEF Wake
<1>3. SetSema(gpuLocks, gpuLocks', g, v) /\ call' = [call EXCEPT ![t] = Rest(c)]
  <2>1. SetSema(gpuLocks, gpuLocks', g, v)
    BY Zenon DEF Wake, SetSema
  <2>2. call' = [call EXCEPT ![t] = Rest(c)]
    BY Zenon DEF Wake
  <2> QED
    BY <2>1, <2>2, Zenon
<1> HIDE DEF g
<1>4. /\ c \in CallRec /\ c.got = {} /\ c.mask = {} /\ c.kind = call[t].kind
      /\ call[t].got = {} /\ call[t].mask = {}
  BY <1>1, <1>2, Zenon DEF CallShape, CallRec
<1> HIDE DEF c
<1> DEFINE d == Rest(c)
<1>5. /\ d \in CallRec /\ d.got = {} /\ d.mask = {} /\ CallShape(d)
      /\ d.pc \in {"idle", "wake", "again"} /\ d.kind \in {c.kind, "none"}
      /\ d.pc = "again" => c.kind = "all"
  BY <1>4, RestIs, Zenon
<1> HIDE DEF d
<1>6. call' \in [All -> CallRec] /\ call'[t] = d /\ OnlyOf(t, call, call')
  BY <1>1, <1>3, <1>5 DEF OnlyOf, d
<1>7. gpuLocks' \in [Gpus -> LockRec] /\ QuietLock(gpuLocks, gpuLocks')
  <2>1. CASE g \in Gpus
    <3>1. s \in Nat \cup {NO_SEMA}
      BY <1>1, <2>1, Zenon DEF LockRec
    <3> HIDE DEF s
    <3>2. v \in Nat \cup {NO_SEMA} /\ (v = NO_SEMA <=> s = NO_SEMA)
      BY <3>1, GpuLocksAssumption
    <3> HIDE DEF v
    <3>3. gpuLocks' \in [Gpus -> LockRec] /\ SemaIs(gpuLocks, gpuLocks', g, v)
      BY <1>1, <1>3, <3>2, SemaOf, Zenon
    <3> QED
      BY <3>2, <3>3, Zenon DEF SemaIs, QuietLock, s
  <2>2. CASE g \notin Gpus
    <3>1. gpuLocks' = gpuLocks
      BY <1>1, <1>3, <2>2, Zenon DEF SetSema
    <3> QED
      BY <1>1, <3>1, Zenon DEF QuietLock
  <2> QED
    BY <2>1, <2>2, Zenon
<1>8. QuietCall(call, call')
  BY <1>2, <1>4, <1>5, <1>6, SMTT(30) DEF QuietCall, OnlyOf, WaitPcs
<1>9. Advance(call[t], call'[t]) /\ CallShape(call'[t])
  BY <1>2, <1>4, <1>5, <1>6, Zenon DEF Advance, WaitPcs
<1> QED
  BY <1>2, <1>6, <1>7, <1>8, <1>9, QuietStep, Zenon

(* _rmGpuLocksRelease(): by InMask, what a call releases is locked.        *)
LEMMA ReleaseLocksStep ==
  ASSUME IInv, NEW t \in All, ReleaseLocks(t)
  PROVE  IInv'
<1> DEFINE mask == call[t].mask
           wake == {g \in mask : gpuLocks[g].count < 0 /\ ~gpuLocks[g].bSignaled}
<1>1. /\ gpuLocks \in [Gpus -> LockRec] /\ call \in [All -> CallRec]
      /\ call[t] \in CallRec /\ CallShape(call[t]) /\ gpusLockedMask \in SUBSET Gpus
      /\ Live \in SUBSET Gpus
      /\ LockInv(gpuLocks, call, held, gpusLockedMask, Live, deferred)
  BY InvOf, Zenon
<1>2. call[t].pc = "release" /\ UNCHANGED <<ApiVars, CallerVars>>
  BY Zenon DEF ReleaseLocks
<1>3. call[t].got \subseteq mask /\ mask \in SUBSET Gpus
  BY <1>1, <1>2, Zenon DEF CallShape, CallRec
<1>4. mask \cap gpusLockedMask = mask
  BY <1>1, <1>2, Zenon DEF LockInv, InMask
<1>5. /\ gpusLockedMask' = gpusLockedMask \ mask
      /\ gpuLocks' = [g \in Gpus |->
           IF g \in mask
           THEN [gpuLocks[g] EXCEPT !.count = @ + 1, !.bRunning = FALSE,
                   !.threadId = NO_THREAD, !.bSignaled = @ \/ g \in wake]
           ELSE gpuLocks[g]]
      /\ call' = [call EXCEPT ![t] =
           Rest([call[t] EXCEPT !.got = {}, !.mask = {}, !.wake = wake,
                                !.retry = @ \/ wake # {}])]
  BY <1>4, Zenon DEF ReleaseLocks
<1>6. wake \in SUBSET Gpus
  BY <1>3, Zenon
<1>7. ASSUME NEW g \in mask
      PROVE  /\ gpuLocks'[g] \in LockRec
             /\ gpuLocks'[g].count = gpuLocks[g].count + 1
             /\ ~gpuLocks'[g].bRunning
             /\ gpuLocks'[g].pWaitSema = gpuLocks[g].pWaitSema
  <2> DEFINE l == gpuLocks[g]
             sg == l.bSignaled \/ g \in wake
             f == FALSE
             l1 == [l EXCEPT !.count = @ + 1]
             l2 == [l1 EXCEPT !.bRunning = f]
             l3 == [l2 EXCEPT !.threadId = NO_THREAD]
             l4 == [l3 EXCEPT !.bSignaled = sg]
  <2>1. l \in LockRec
    BY <1>1, <1>3, Zenon
  <2>2. gpuLocks'[g] = l4
    BY <1>3, <1>5, Zenon
  <2>3. sg \in BOOLEAN /\ f \in BOOLEAN /\ ~f
    BY Zenon
  <2> HIDE DEF l, sg, f
  <2>4. l1 \in LockRec /\ l1.count = l.count + 1 /\ l1.pWaitSema = l.pWaitSema
    BY <2>1 DEF LockRec
  <2> HIDE DEF l1
  <2>5. /\ l2 \in LockRec /\ l2.count = l1.count /\ l2.pWaitSema = l1.pWaitSema
        /\ l2.bRunning = f
    BY <2>3, <2>4, Zenon DEF LockRec
  <2> HIDE DEF l2
  <2>6. /\ l3 \in LockRec /\ l3.count = l2.count /\ l3.pWaitSema = l2.pWaitSema
        /\ l3.bRunning = l2.bRunning
    BY <2>5, Zenon DEF LockRec
  <2> HIDE DEF l3
  <2>7. /\ l4 \in LockRec /\ l4.count = l3.count /\ l4.pWaitSema = l3.pWaitSema
        /\ l4.bRunning = l3.bRunning
    BY <2>3, <2>6, Zenon DEF LockRec
  <2> HIDE DEF l4
  <2> QED
    BY <2>2, <2>3, <2>4, <2>5, <2>6, <2>7, Zenon DEF l
<1>8. \A g \in Gpus \ mask : gpuLocks'[g] = gpuLocks[g]
  BY <1>5, Zenon
<1>9. gpuLocks' \in [Gpus -> LockRec] /\ Freed(gpuLocks, gpuLocks', mask)
  <2>1. \A g \in Gpus : gpuLocks'[g] \in LockRec
    BY <1>1, <1>7, <1>8, Zenon
  <2>2. gpuLocks' = [g \in Gpus |-> gpuLocks'[g]]
    BY <1>5, Zenon
  <2>3. gpuLocks' \in [Gpus -> LockRec]
    BY <2>1, <2>2, Zenon
  <2> QED
    BY <1>7, <1>8, <2>3, Zenon DEF Freed
<1>10. PICK c \in CallRec : /\ c.got = {} /\ c.mask = {} /\ c.kind = call[t].kind
                           /\ call' = [call EXCEPT ![t] = Rest(c)]
  <2> DEFINE l == call[t]
             r == l.retry \/ wake # {}
             c1 == [l EXCEPT !.got = {}]
             c2 == [c1 EXCEPT !.mask = {}]
             c3 == [c2 EXCEPT !.wake = wake]
             c4 == [c3 EXCEPT !.retry = r]
  <2>1. call' = [call EXCEPT ![t] = Rest(c4)]
    BY <1>5, Zenon
  <2>2. l \in CallRec
    BY <1>1, Zenon
  <2>3. r \in BOOLEAN
    BY Zenon
  <2> HIDE DEF r
  <2>4. l.kind = call[t].kind
    BY Zenon
  <2> HIDE DEF l, wake
  <2>5. c1 \in CallRec /\ c1.got = {} /\ c1.kind = l.kind
    BY <2>2, Zenon DEF CallRec
  <2> HIDE DEF c1
  <2>6. c2 \in CallRec /\ c2.got = {} /\ c2.mask = {} /\ c2.kind = l.kind
    BY <2>5, Zenon DEF CallRec
  <2> HIDE DEF c2
  <2>7. c3 \in CallRec /\ c3.got = {} /\ c3.mask = {} /\ c3.kind = l.kind
    BY <1>6, <2>6, Zenon DEF CallRec
  <2> HIDE DEF c3
  <2>8. c4 \in CallRec /\ c4.got = {} /\ c4.mask = {} /\ c4.kind = l.kind
    BY <2>3, <2>7, Zenon DEF CallRec
  <2> HIDE DEF c4
  <2>9. c4.kind = call[t].kind
    BY <2>4, <2>8, Zenon
  <2> QED
    BY <2>1, <2>8, <2>9, Zenon
<1> DEFINE d == Rest(c)
<1>11. /\ d \in CallRec /\ d.got = {} /\ d.mask = {} /\ CallShape(d)
       /\ d.pc \in {"idle", "wake", "again"} /\ d.kind \in {c.kind, "none"}
       /\ d.pc = "again" => c.kind = "all"
  BY <1>10, RestIs, Zenon
<1>12. call' \in [All -> CallRec] /\ call'[t] = d /\ OnlyOf(t, call, call')
  BY <1>1, <1>10, <1>11, Zenon DEF OnlyOf
<1> HIDE DEF d, mask, wake
<1>13. LockInv(gpuLocks', call', held, gpusLockedMask', Live, deferred)
  <2>1. held \in HeldType
    BY Typed, Zenon DEF IInv
  <2>2. call'[t].got = {} /\ call'[t].mask = {} /\ call'[t].pc \notin WaitPcs
    BY <1>11, <1>12 DEF WaitPcs
  <2> QED
    BY <1>1, <1>2, <1>3, <1>5, <1>9, <1>12, <2>1, <2>2, FreedLocks, Zenon
         DEF mask
<1>14. Advance(call[t], call'[t]) /\ CallShape(call'[t])
  BY <1>2, <1>10, <1>11, <1>12, Zenon DEF Advance, WaitPcs
<1>15. gpusLockedMask' \in SUBSET Gpus
  <2>1. gpusLockedMask' = gpusLockedMask \ mask
    BY <1>5, Zenon
  <2> QED
    BY <1>1, <2>1, Zenon
<1> QED
  BY <1>2, <1>9, <1>12, <1>13, <1>14, <1>15, MidCall, Zenon

-----------------------------------------------------------------------------
(* The callers.  What a step of one of them has to say about itself.       *)
AllKept(t) ==
  /\ \A i \in 1 .. Len(held'[t]) :
       held'[t][i].kind = "all" => held'[t][i].mask = gpusLockableMask
  /\ t \in Threads /\ LocksAll(t)' =>
       user'[t] \in attached /\ (api.pc = "shutdown" => user'[t] # api.gpu)
  /\ \A u \in Threads \ {t} : user'[u] = user[u]

Defers(t) ==
  /\ deferred' \subseteq Threads
  /\ \A u \in deferred' : u # t => u \in deferred
  /\ t \in deferred' => call'[t].pc = "idle" /\ Len(held'[t]) = 1

LEMMA CallerStep ==
  ASSUME IInv, NEW t \in All,
         gpuLocks' \in [Gpus -> LockRec], call' \in [All -> CallRec],
         gpusLockedMask' \in SUBSET Gpus, held' \in HeldType,
         user' \in [Threads -> Gpus \cup {0}], calls' \in 0 .. MAX_CALLS,
         UNCHANGED ApiVars, OnlyMine(t, call, call', held, held'),
         CallShape(call'[t]), AllKept(t), Defers(t), t = API => ApiInv',
         LockInv(gpuLocks', call', held', gpusLockedMask', Live, deferred')
  PROVE  IInv'
<1>1. TypeOK /\ ShapeInv /\ ApiInv /\ AllInv
  BY Zenon DEF IInv
<1>2. /\ UNCHANGED gpusLockableMask /\ UNCHANGED attached /\ UNCHANGED api
      /\ UNCHANGED changes
  BY Zenon DEF ApiVars
<1>3. TypeOK'
  <2>1. gpuLocks' \in [Gpus ->
          [count : Int, bRunning : BOOLEAN, bSignaled : BOOLEAN,
           threadId : All \cup {NO_THREAD}, pWaitSema : Nat \cup {NO_SEMA}]]
    BY Zenon DEF LockRec
  <2>2. call' \in [All ->
         [pc : {"idle", "sleep", "woken", "leave", "left", "locked", "release",
                "wake", "again"},
          kind : {"none", "all", "group", "device", "isr", "alloc", "free"},
          level : {"passive", "irq", "cond"}, todo : SUBSET Gpus,
          got : SUBSET Gpus, gpu : Gpus \cup {0}, mask : SUBSET Gpus,
          wake : SUBSET Gpus, retry : BOOLEAN]]
    BY Zenon DEF CallRec
  <2>3. gpusLockedMask' \subseteq Gpus /\ deferred' \subseteq Threads
    BY Zenon DEF Defers
  <2>4. held' \in [All -> Seq([kind : {"all", "group", "device", "isr"},
                               mask : SUBSET Gpus])]
    BY Zenon DEF HeldRec, HeldType
  <2> QED
    BY <1>1, <1>2, <2>1, <2>2, <2>3, <2>4, Zenon DEF TypeOK
<1>4. ShapeInv'
  <2>1. \A u \in All : CallShape(call'[u])
    BY <1>1, Zenon DEF ShapeInv, OnlyMine
  <2>2. \A u \in deferred' : call'[u].pc = "idle" /\ Len(held'[u]) = 1
    <3> SUFFICES ASSUME NEW u \in deferred'
                 PROVE  call'[u].pc = "idle" /\ Len(held'[u]) = 1
      BY Zenon
    <3>1. CASE u = t
      BY <3>1, Zenon DEF Defers
    <3>2. CASE u # t
      <4>1. u \in deferred /\ u \in All \ {t}
        BY <3>2, Zenon DEF Defers, All
      <4> QED
        BY <4>1, <1>1, Zenon DEF ShapeInv, OnlyMine
    <3> QED
      BY <3>1, <3>2, Zenon
  <2> QED
    BY <2>1, <2>2, Zenon DEF ShapeInv
<1>5. Live' = Live
  BY <1>2, Zenon DEF Live
<1>6. ApiInv'
  <2>1. CASE t # API
    <3>1. call'[API] = call[API] /\ held'[API] = held[API]
      BY <2>1, Zenon DEF OnlyMine, All
    <3> QED
      BY <1>1, <1>2, <3>1, Zenon DEF ApiInv
  <2> QED
    BY <2>1, Zenon
<1>7. AllInv'
  <2>1. ASSUME NEW u \in All, u # t
        PROVE  /\ call'[u] = call[u] /\ held'[u] = held[u]
               /\ LocksAll(u)' => LocksAll(u)
    BY <2>1, Zenon DEF LocksAll, OnlyMine
  <2>2. ASSUME NEW u \in All, NEW i \in 1 .. Len(held'[u]),
               held'[u][i].kind = "all"
        PROVE  held'[u][i].mask = gpusLockableMask
    <3>1. CASE u = t
      BY <2>2, <3>1, Zenon DEF AllKept
    <3>2. CASE u # t
      <4>1. held'[u] = held[u]
        BY <2>1, <3>2, Zenon
      <4> QED
        BY <1>1, <2>2, <4>1, SMTT(30) DEF AllInv
    <3> QED
      BY <3>1, <3>2, Zenon
  <2>3. ASSUME NEW u \in Threads, LocksAll(u)'
        PROVE  user'[u] \in attached /\ (api.pc = "shutdown" => user'[u] # api.gpu)
    <3>1. CASE u = t
      BY <2>3, <3>1, Zenon DEF AllKept
    <3>2. CASE u # t
      <4>1. LocksAll(u) /\ user'[u] = user[u]
        BY <2>1, <2>3, <3>2, Zenon DEF AllKept, All
      <4> QED
        BY <1>1, <4>1 DEF AllInv
    <3> QED
      BY <3>1, <3>2
  <2> QED
    BY <1>2, <2>2, <2>3, Zenon DEF AllInv
<1> QED
  BY <1>3, <1>4, <1>5, <1>6, <1>7, Zenon DEF IInv

(* Slot 0 of the thread becomes its last slot.                             *)
LEMMA KeepStep ==
  ASSUME IInv, NEW t \in All, call[t].pc = "locked",
         call[t].kind \in {"all", "group", "device", "isr"},
         call[t].kind = "all" => call[t].got = gpusLockableMask,
         Keep(t), UNCHANGED <<gpuLocks, gpusLockedMask>>,
         UNCHANGED ApiVars, UNCHANGED <<deferred, user, calls>>
  PROVE  IInv'
<1> DEFINE n == Len(held[t])
           e == [kind |-> call[t].kind, mask |-> call[t].got]
           f == [i \in 0 .. n + 1 |-> IF i = n + 1 THEN 0 ELSE i]
<1>1. /\ gpuLocks \in [Gpus -> LockRec] /\ call \in [All -> CallRec]
      /\ call[t] \in CallRec /\ CallShape(call[t])
      /\ gpusLockedMask \in SUBSET Gpus
      /\ LockInv(gpuLocks, call, held, gpusLockedMask, Live, deferred)
      /\ t \notin deferred
  BY InvOf, Zenon
<1>2. TypeOK /\ ShapeInv /\ ApiInv /\ AllInv
  BY Zenon DEF IInv
<1>3. held \in HeldType /\ held[t] \in Seq(HeldRec) /\ n \in Nat
  <2>1. held \in HeldType
    BY <1>2, Typed, Zenon
  <2> QED
    BY <2>1, HeldAt, HeldLen, Zenon
<1>4. /\ held' = [held EXCEPT ![t] = Append(held[t], e)]
      /\ call' = [call EXCEPT ![t] = NoCall]
  BY Zenon DEF Keep
<1>5. e \in HeldRec /\ e.kind = call[t].kind /\ e.mask = call[t].got
  BY <1>1, Zenon DEF HeldRec, CallRec
<1> HIDE DEF e
<1>6. /\ Append(held[t], e) \in Seq(HeldRec)
      /\ Len(Append(held[t], e)) = n + 1
      /\ \A i \in 1 .. n + 1 :
           Append(held[t], e)[i] = IF i = n + 1 THEN e ELSE held[t][i]
  BY <1>3, <1>5
<1>7. /\ held' \in HeldType /\ call' \in [All -> CallRec]
      /\ OnlyMine(t, call, call', held, held') /\ call'[t] = NoCall
      /\ held'[t] = Append(held[t], e)
  <2>1. /\ held' \in HeldType /\ held'[t] = Append(held[t], e)
        /\ \A u \in All \ {t} : held'[u] = held[u]
    <3>1. Puts(held, held', t, Append(held[t], e))
      BY <1>3, <1>4, <1>6, Zenon DEF Puts
    <3>2. HasPut(held, held', t, Append(held[t], e))
      BY <3>1, HeldPut, Zenon
    <3> QED
      BY <3>2, Zenon DEF HasPut
  <2> QED
    BY <1>1, <1>4, <2>1, NoCallIs, Zenon DEF OnlyMine
<1>8. /\ Len(held'[t]) = n + 1
      /\ \A i \in 1 .. n + 1 :
           held'[t][i] = IF i = n + 1 THEN e ELSE held[t][i]
  BY <1>6, <1>7, Zenon
<1> HIDE DEF n
<1>9. InMask(call', held', gpusLockedMask)
  <2> SUFFICES ASSUME NEW u \in All
               PROVE  /\ call'[u].pc \in {"locked", "release"} =>
                           call'[u].got \cup call'[u].mask \subseteq gpusLockedMask
                      /\ \A i \in 1 .. Len(held'[u]) :
                           held'[u][i].mask \subseteq gpusLockedMask
    BY Zenon DEF InMask
  <2>1. InMask(call, held, gpusLockedMask)
    BY <1>1, Zenon DEF LockInv
  <2>2. CASE u # t
    BY <1>7, <2>1, <2>2, SMTT(30) DEF InMask, OnlyMine
  <2>3. CASE u = t
    <3>1. e.mask \subseteq gpusLockedMask
      BY <1>5, <2>1, Zenon DEF InMask
    <3>2. \A i \in 1 .. n : held[t][i].mask \subseteq gpusLockedMask
      BY <2>1, Zenon DEF InMask, n
    <3>3. \A i \in 1 .. n + 1 : held'[t][i].mask \subseteq gpusLockedMask
      <4> SUFFICES ASSUME NEW i \in 1 .. n + 1
                   PROVE  held'[t][i].mask \subseteq gpusLockedMask
        BY Zenon
      <4>1. i = n + 1 \/ i \in 1 .. n
        <5>1. n \in Nat
          BY <1>3, Zenon
        <5> QED
          BY <5>1
      <4>2. held'[t][i] = IF i = n + 1 THEN e ELSE held[t][i]
        BY <1>8, Zenon
      <4> QED
        BY <3>1, <3>2, <4>1, <4>2, Zenon
    <3> QED
      BY <1>7, <1>8, <2>3, <3>3, NoCallIs, Zenon
  <2> QED
    BY <2>2, <2>3, Zenon
<1>10. Moves(t, call, call', held, held', f)
  <2>0. \A i \in 0 .. n + 1 : f[i] = IF i = n + 1 THEN 0 ELSE i
    BY Zenon DEF n
  <2> HIDE DEF f
  <2> SUFFICES ASSUME NEW i \in 0 .. n + 1, Slot(call', held', t, i) # {}
               PROVE  /\ f[i] \in 0 .. n
                      /\ Slot(call', held', t, i) \subseteq Slot(call, held, t, f[i])
                      /\ \A j \in 0 .. n + 1 :
                           Slot(call', held', t, j) # {} /\ f[i] = f[j] => i = j
    BY <1>8, Zenon DEF Moves, n
  <2>1. Slot(call', held', t, 0) = {}
    BY <1>7, NoCallIs, Zenon DEF Slot
  <2>2. i \in 1 .. n + 1 /\ f[i] = IF i = n + 1 THEN 0 ELSE i
    BY <1>3, <2>0, <2>1, SMTT(30)
  <2>3. \A j \in 0 .. n + 1 : Slot(call', held', t, j) # {} =>
          j \in 1 .. n + 1 /\ f[j] = IF j = n + 1 THEN 0 ELSE j
    BY <1>3, <2>0, <2>1, SMTT(30)
  <2>4. Slot(call', held', t, i) \subseteq Slot(call, held, t, f[i])
    BY <1>3, <1>5, <1>8, <2>2, SMTT(30) DEF Slot
  <2> QED
    BY <1>3, <2>2, <2>3, <2>4, SMTT(30)
<1>11. LockInv(gpuLocks', call', held', gpusLockedMask', Live, deferred')
  <2>1. LockInv(gpuLocks, call', held', gpusLockedMask, Live, deferred)
    <3>1. call[t].pc \notin WaitPcs /\ call'[t].pc \notin WaitPcs
      BY <1>7, NoCallIs, Zenon DEF WaitPcs
    <3> HIDE DEF f
    <3> QED
      BY <1>1, <1>7, <1>9, <1>10, <3>1, MovedLocks, Zenon
  <2> QED
    BY <2>1, Zenon
<1>12. AllKept(t)
  <2>1. \A i \in 1 .. n + 1 : held'[t][i].kind = "all" =>
          held'[t][i].mask = gpusLockableMask
    <3>1. \A i \in 1 .. n : held[t][i].kind = "all" =>
            held[t][i].mask = gpusLockableMask
      BY <1>2, Zenon DEF AllInv, n
    <3> QED
      BY <1>3, <1>5, <1>8, <3>1, SMTT(30)
  <2>2. LocksAll(t)' => LocksAll(t)
    <3>1. ASSUME NEW i \in 1 .. n + 1, held'[t][i].kind = "all"
          PROVE  LocksAll(t)
      BY <1>3, <1>5, <1>8, <3>1, SMTT(30) DEF LocksAll, n
    <3> QED
      BY <1>7, <1>8, <3>1, NoCallIs, Zenon DEF LocksAll
  <2> QED
    BY <1>2, <1>8, <2>1, <2>2, SMTT(30) DEF AllKept, AllInv
<1>13. Defers(t) /\ CallShape(call'[t])
  BY <1>1, <1>2, <1>7, NoCallIs, Zenon DEF Defers, TypeOK
<1>14. t = API => ApiInv'
  <2> SUFFICES ASSUME t = API
               PROVE  ApiInv'
    BY Zenon
  <2>1. UNCHANGED gpusLockableMask /\ UNCHANGED attached /\ UNCHANGED api
    BY Zenon DEF ApiVars
  <2>2. api.pc = "shutdown" /\ held[API] = << >>
    <3>1. api.pc # "idle" /\ api.pc \notin {"alloc", "free", "unwind"}
      BY <1>2, Zenon DEF ApiInv
    <3>2. api.pc \notin {"added", "detached", "removed", "drain"}
      BY <1>2, Zenon DEF ApiInv
    <3> QED
      BY <1>2, <3>1, <3>2, SMTT(30) DEF ApiInv, TypeOK
  <2>3. n = 0
    BY <2>2, Zenon DEF n
  <2> QED
    BY <1>2, <1>7, <1>8, <2>1, <2>2, <2>3, NoCallIs, SMTT(30) DEF ApiInv
<1> QED
  <2>1. /\ user' \in [Threads -> Gpus \cup {0}] /\ calls' \in 0 .. MAX_CALLS
        /\ gpuLocks' \in [Gpus -> LockRec] /\ gpusLockedMask' \in SUBSET Gpus
    BY <1>1, <1>2, Zenon DEF TypeOK
  <2> QED
    BY <1>7, <1>11, <1>12, <1>13, <1>14, <2>1, CallerStep, Zenon

(* The call of one thread is replaced.                                     *)
LEMMA OneCall ==
  ASSUME NEW cl \in [All -> CallRec], NEW t \in All, NEW c \in CallRec,
         NEW cl2, cl2 = [cl EXCEPT ![t] = c]
  PROVE  cl2 \in [All -> CallRec] /\ cl2[t] = c /\ OnlyOf(t, cl, cl2)
  BY DEF OnlyOf

(* What was locked is about to be released.                                *)
ToRelease(t) ==
  call' = [call EXCEPT ![t].pc = "release", ![t].mask = call[t].got]

LEMMA GivesBack ==
  ASSUME call \in [All -> CallRec], NEW t \in All, CallShape(call[t]),
         call[t].pc = "locked", ToRelease(t)
  PROVE  /\ call' \in [All -> CallRec] /\ OnlyOf(t, call, call')
         /\ call'[t].pc = "release" /\ call'[t].kind = call[t].kind
         /\ call'[t].got = call[t].got /\ call'[t].mask = call[t].got
         /\ CallShape(call'[t]) /\ QuietCall(call, call')
<1> DEFINE c == call[t]
           c1 == [c EXCEPT !.pc = "release"]
           c2 == [c1 EXCEPT !.mask = c.got]
<1>1. c \in CallRec /\ c.mask = {} /\ c = call[t]
  BY Zenon DEF CallShape
<1>2. call' = [call EXCEPT ![t] = c2]
  BY Zenon DEF ToRelease
<1> HIDE DEF c
<1>3. /\ c1 \in CallRec /\ c1.pc = "release" /\ c1.kind = c.kind
      /\ c1.got = c.got
  BY <1>1, Zenon DEF CallRec
<1> HIDE DEF c1
<1>4. /\ c2 \in CallRec /\ c2.pc = "release" /\ c2.kind = c.kind
      /\ c2.got = c.got /\ c2.mask = c.got
  BY <1>1, <1>3, Zenon DEF CallRec
<1> HIDE DEF c2
<1>5. call' \in [All -> CallRec] /\ OnlyOf(t, call, call') /\ call'[t] = c2
  BY <1>2, <1>4, OneCall, Zenon
<1>6. CallShape(c2)
  BY <1>4, Zenon DEF CallShape, WaitPcs
<1>7. QuietCall(call, call')
  BY <1>1, <1>4, <1>5, Zenon DEF QuietCall, OnlyOf, WaitPcs
<1> QED
  BY <1>1, <1>4, <1>5, <1>6, <1>7, Zenon

(* The thread that locked all GPUs, or one GPU, keeps them or not.         *)
LEMMA LockedStep ==
  ASSUME IInv, NEW t \in All, Locked(t)
  PROVE  IInv'
<1>1. /\ gpuLocks \in [Gpus -> LockRec] /\ call \in [All -> CallRec]
      /\ CallShape(call[t]) /\ gpusLockedMask \in SUBSET Gpus
      /\ Live \in SUBSET Gpus
      /\ LockInv(gpuLocks, call, held, gpusLockedMask, Live, deferred)
      /\ call[t].pc # "idle" => t \notin deferred
  BY InvOf, Zenon
<1>2. TypeOK /\ ShapeInv /\ ApiInv /\ AllInv
  BY Zenon DEF IInv
<1>3. /\ call[t].pc = "locked" /\ UNCHANGED <<gpuLocks, gpusLockedMask>>
      /\ UNCHANGED ApiVars /\ UNCHANGED <<deferred, user, calls>>
      /\ call[t].kind \in {"all", "group", "device", "isr"}
  BY Zenon DEF Locked
<1>4. CASE Keep(t) /\ (call[t].kind = "all" => call[t].got = gpusLockableMask)
  BY <1>3, <1>4, KeepStep, Zenon
<1>5. CASE GiveBack(t)
  <2>1. /\ call' \in [All -> CallRec] /\ OnlyOf(t, call, call')
        /\ call'[t].pc = "release" /\ call'[t].kind = call[t].kind
        /\ CallShape(call'[t]) /\ QuietCall(call, call')
    <3>1. ToRelease(t)
      BY <1>5, Zenon DEF GiveBack, ToRelease
    <3> QED
      BY <1>1, <1>3, <3>1, GivesBack, Zenon
  <2>2. held \in HeldType /\ UNCHANGED held
    BY <1>2, <1>5, Typed, Zenon DEF GiveBack
  <2>3. LockInv(gpuLocks', call', held', gpusLockedMask', Live, deferred')
    <3>1. QuietLock(gpuLocks, gpuLocks)
      BY Zenon DEF QuietLock
    <3>2. LockInv(gpuLocks, call', held, gpusLockedMask, Live, deferred)
      BY <1>1, <2>1, <2>2, <3>1, QuietLocks, Zenon
    <3> QED
      BY <1>3, <2>2, <3>2, SMTT(30)
  <2>4. OnlyMine(t, call, call', held, held')
    BY <2>1, <2>2, Zenon DEF OnlyOf, OnlyMine
  <2>5. AllKept(t)
    <3>1. LocksAll(t)' => LocksAll(t)
      BY <2>1, <2>2, Zenon DEF LocksAll
    <3> QED
      BY <1>2, <1>3, <2>2, <3>1 DEF AllKept, AllInv
  <2>6. Defers(t)
    BY <1>1, <1>2, <1>3 DEF Defers, TypeOK
  <2>7. t = API => ApiInv'
    <3> SUFFICES ASSUME t = API
                 PROVE  ApiInv'
      BY Zenon
    <3>1. UNCHANGED gpusLockableMask /\ UNCHANGED attached /\ UNCHANGED api
      BY <1>3, Zenon DEF ApiVars
    <3>2. api.pc = "shutdown"
      <4>1. api.pc # "idle" /\ api.pc \notin {"alloc", "free", "unwind"}
        BY <1>2, <1>3, Zenon DEF ApiInv
      <4>2. api.pc \notin {"added", "detached", "removed", "drain"}
        BY <1>2, <1>3 DEF ApiInv
      <4> QED
        BY <1>2, <4>1, <4>2, Zenon DEF TypeOK
    <3> QED
      BY <1>2, <1>3, <2>2, <3>1, <3>2, Zenon DEF ApiInv
  <2>8. /\ user' \in [Threads -> Gpus \cup {0}] /\ calls' \in 0 .. MAX_CALLS
        /\ gpuLocks' \in [Gpus -> LockRec] /\ gpusLockedMask' \in SUBSET Gpus
        /\ held' \in HeldType
    BY <1>1, <1>2, <1>3, <2>2, Zenon DEF TypeOK
  <2> QED
    BY <1>3, <2>1, <2>3, <2>4, <2>5, <2>6, <2>7, <2>8, CallerStep, Zenon
<1> QED
  BY <1>4, <1>5, Zenon DEF Locked

(* A lock call begins.                                                     *)
OtherUsers(t) == \A u \in Threads \ {t} : user'[u] = user[u]

LEMMA AcquireStep ==
  ASSUME IInv, NEW t \in Threads, NEW k \in {"all", "group", "device", "isr"},
         NEW mask \in SUBSET Gpus, Begin(t), LoopFrom(t, k, mask),
         user' \in [Threads -> Gpus \cup {0}], OtherUsers(t),
         k = "all" => user'[t] \in attached \ {api.gpu} /\ held[t] = << >>,
         k # "all" => user'[t] = user[t]
  PROVE  IInv'
<1>1. /\ gpuLocks \in [Gpus -> LockRec] /\ call \in [All -> CallRec]
      /\ CallShape(call[t]) /\ t \in All
      /\ LockInv(gpuLocks, call, held, gpusLockedMask, Live, deferred)
  <2>1. t \in All
    BY Zenon DEF All
  <2> QED
    BY <2>1, InvOf, Zenon
<1>2. TypeOK /\ ShapeInv /\ ApiInv /\ AllInv
  BY Zenon DEF IInv
<1>3. /\ call[t].pc = "idle" /\ t \notin deferred /\ UNCHANGED ApiVars
      /\ UNCHANGED held /\ UNCHANGED deferred
      /\ calls < MAX_CALLS /\ calls' = calls + 1
  BY Zenon DEF Begin
<1>4. PICK c \in CallRec :
        /\ c.got = {} /\ c.mask = {} /\ c.todo = mask /\ c.kind = k
        /\ CondFree(c, gpuLocks) /\ Loop(t, c, gpuLocks)
  BY Zenon DEF LoopFrom
<1>5. /\ call[t].got = c.got /\ call[t].mask = {} /\ call[t].pc \notin WaitPcs
      /\ OnlyOf(t, call, call)
  BY <1>1, <1>3, <1>4, NoCallIs, SMTT(30) DEF CallShape, WaitPcs, OnlyOf
<1>6. /\ LockInv(gpuLocks', call', held, gpusLockedMask', Live, deferred)
      /\ gpuLocks' \in [Gpus -> LockRec] /\ call' \in [All -> CallRec]
      /\ gpusLockedMask' \in SUBSET Gpus /\ OnlyOf(t, call, call')
      /\ CallShape(call'[t]) /\ call'[t].kind = c.kind
  BY <1>1, <1>3, <1>4, <1>5, LoopStep, Zenon
<1>7. held' \in HeldType /\ OnlyMine(t, call, call', held, held')
  <2>1. held \in HeldType
    BY <1>2, Typed, Zenon
  <2> QED
    BY <1>3, <1>6, <2>1 DEF OnlyMine, OnlyOf
<1>8. AllKept(t)
  <2>0. \A u \in Threads \ {t} : user'[u] = user[u]
    BY Zenon DEF OtherUsers
  <2>1. CASE k = "all"
    <3>1. Len(held'[t]) = 0
      BY <1>3, <2>1, Zenon
    <3> QED
      BY <2>0, <2>1, <3>1, SMTT(30) DEF AllKept
  <2>2. CASE k # "all"
    <3>1. LocksAll(t)' => LocksAll(t)
      BY <1>3, <1>4, <1>6, <2>2, Zenon DEF LocksAll
    <3> QED
      BY <1>1, <1>2, <1>3, <2>0, <2>2, <3>1, SMTT(30) DEF AllKept, AllInv
  <2> QED
    BY <2>1, <2>2, Zenon
<1>9. /\ Defers(t) /\ t # API /\ calls' \in 0 .. MAX_CALLS
      /\ LockInv(gpuLocks', call', held', gpusLockedMask', Live, deferred')
  <2>1. LockInv(gpuLocks', call', held', gpusLockedMask', Live, deferred')
    BY <1>3, <1>6, Zenon
  <2> QED
    BY <1>2, <1>3, <2>1, GpuLocksAssumption, SMTT(30) DEF Defers, TypeOK
<1> QED
  BY <1>1, <1>3, <1>6, <1>7, <1>8, <1>9, CallerStep, Zenon

LEMMA FirstAcquire ==
  ASSUME NEW t, NEW k \in {"all", "group", "device", "isr"},
         NEW mask \in SUBSET Gpus, NEW l \in {"passive", "irq", "cond"},
         Acquire(t, k, mask, l, FALSE)
  PROVE  LoopFrom(t, k, mask)
<1>1. ASSUME NEW r \in BOOLEAN, Acquire(t, k, mask, l, r)
      PROVE  LoopFrom(t, k, mask)
  BY <1>1, AcquireIs, Zenon
<1> QED
  BY <1>1, Zenon

LEMMA AllStep ==
  ASSUME IInv, NEW t \in Threads, NEW g \in Gpus, NEW l \in {"passive", "cond"},
         rmGpuLocksAcquire(t, g, l)
  PROVE  IInv'
<1>1. /\ Begin(t) /\ held[t] = << >> /\ g \in attached \ {api.gpu}
      /\ user' = [user EXCEPT ![t] = g]
  BY Zenon DEF rmGpuLocksAcquire
<1>2. user \in [Threads -> Gpus \cup {0}] /\ gpusLockableMask \in SUBSET Gpus
  BY Zenon DEF IInv, TypeOK
<1>3. LoopFrom(t, "all", gpusLockableMask)
  <2>1. /\ "all" \in {"all", "group", "device", "isr"}
        /\ l \in {"passive", "irq", "cond"}
    BY Zenon
  <2>2. Acquire(t, "all", gpusLockableMask, l, FALSE)
    BY Zenon DEF rmGpuLocksAcquire
  <2> QED
    BY <1>2, <2>1, <2>2, FirstAcquire, Zenon
<1>4. /\ user' \in [Threads -> Gpus \cup {0}] /\ OtherUsers(t)
      /\ user'[t] \in attached \ {api.gpu}
  BY <1>1, <1>2, Zenon DEF OtherUsers
<1> QED
  BY <1>1, <1>2, <1>3, <1>4, AcquireStep, Zenon

LEMMA GroupStep ==
  ASSUME IInv, NEW t \in Threads, NEW m \in SUBSET Gpus,
         NEW l \in {"passive", "irq"}, rmGpuGroupLockAcquire(t, m, l)
  PROVE  IInv'
<1> DEFINE todo == (m \cap gpusLockableMask) \ Owned(t)
           ordered == \A o \in Owned(t), g \in todo : o < g
           level == IF ordered THEN l ELSE "cond"
<1>1. Begin(t) /\ UNCHANGED user
  BY Zenon DEF rmGpuGroupLockAcquire
<1>2. user \in [Threads -> Gpus \cup {0}] /\ todo \in SUBSET Gpus
  BY Zenon DEF IInv, TypeOK
<1>3. Acquire(t, "group", todo, level, FALSE)
  BY Zenon DEF rmGpuGroupLockAcquire
<1> HIDE DEF todo, ordered
<1>4. LoopFrom(t, "group", todo)
  <2>1. /\ "group" \in {"all", "group", "device", "isr"}
        /\ level \in {"passive", "irq", "cond"}
    BY Zenon
  <2> HIDE DEF level
  <2> QED
    BY <1>2, <1>3, <2>1, FirstAcquire, Zenon
<1>5. /\ user' \in [Threads -> Gpus \cup {0}] /\ OtherUsers(t)
      /\ user'[t] = user[t]
  BY <1>1, <1>2 DEF OtherUsers
<1> QED
  BY <1>1, <1>2, <1>4, <1>5, AcquireStep, Zenon

LEMMA DeviceStep ==
  ASSUME IInv, NEW t \in Threads, NEW g \in Gpus, NEW k \in {"device", "isr"},
         rmDeviceGpuLocksAcquire(t, g, k)
  PROVE  IInv'
<1> DEFINE level == IF k = "isr" THEN "cond" ELSE "passive"
<1>1. Begin(t) /\ UNCHANGED user
  BY Zenon DEF rmDeviceGpuLocksAcquire
<1>2. user \in [Threads -> Gpus \cup {0}] /\ {g} \in SUBSET Gpus
  BY Zenon DEF IInv, TypeOK
<1>3. Acquire(t, k, {g}, level, FALSE)
  BY Zenon DEF rmDeviceGpuLocksAcquire
<1>4. LoopFrom(t, k, {g})
  <2>1. /\ k \in {"all", "group", "device", "isr"}
        /\ level \in {"passive", "irq", "cond"}
    BY Zenon
  <2> HIDE DEF level
  <2> QED
    BY <1>2, <1>3, <2>1, FirstAcquire, Zenon
<1>5. /\ user' \in [Threads -> Gpus \cup {0}] /\ OtherUsers(t)
      /\ user'[t] = user[t]
  BY <1>1, <1>2, Zenon DEF OtherUsers
<1> QED
  BY <1>1, <1>2, <1>4, <1>5, AcquireStep, Zenon

(* The owner on record of some locks is replaced.                          *)
SetOwner(locks, locks2, mask, o) ==
  locks2 = [g \in Gpus |-> IF g \in mask THEN [locks[g] EXCEPT !.threadId = o]
                          ELSE locks[g]]

OwnerOf(t, dfr, o) == o = (IF t \in dfr THEN NO_THREAD ELSE t)

LEMMA OwnerIs ==
  ASSUME NEW locks \in [Gpus -> LockRec], NEW mask,
         NEW o \in All \cup {NO_THREAD}, NEW locks2,
         SetOwner(locks, locks2, mask, o),
         NEW t, NEW dfr, OwnerOf(t, dfr, o)
  PROVE  locks2 \in [Gpus -> LockRec] /\ Handed(t, locks, locks2, mask, dfr)
<1>1. ASSUME NEW g \in Gpus
      PROVE  /\ locks2[g] \in LockRec
             /\ locks2[g].count = locks[g].count
             /\ locks2[g].bRunning = locks[g].bRunning
             /\ locks2[g].pWaitSema = locks[g].pWaitSema
             /\ locks2[g].threadId = IF g \in mask THEN o ELSE locks[g].threadId
  <2> DEFINE l == locks[g]
             m == [l EXCEPT !.threadId = o]
  <2>1. l \in LockRec
    BY Zenon
  <2>2. locks2[g] = IF g \in mask THEN m ELSE l
    BY Zenon DEF SetOwner
  <2> HIDE DEF l
  <2>3. /\ m \in LockRec /\ m.count = l.count /\ m.bRunning = l.bRunning
        /\ m.pWaitSema = l.pWaitSema /\ m.threadId = o
    BY <2>1, Zenon DEF LockRec
  <2> HIDE DEF m
  <2> QED
    BY <2>1, <2>2, <2>3, Zenon DEF l
<1>2. locks2 \in [Gpus -> LockRec]
  <2>1. locks2 = [g \in Gpus |-> locks2[g]]
    BY Zenon DEF SetOwner
  <2> QED
    BY <1>1, <2>1, Zenon
<1> QED
  BY <1>1, <1>2, Zenon DEF Handed, OwnerOf

LEMMA HandOverStep ==
  ASSUME IInv, NEW t \in Threads, HandOver(t)
  PROVE  IInv'
<1>1. /\ gpuLocks \in [Gpus -> LockRec] /\ call \in [All -> CallRec]
      /\ CallShape(call[t]) /\ t \in All /\ gpusLockedMask \in SUBSET Gpus
      /\ Live \in SUBSET Gpus
      /\ LockInv(gpuLocks, call, held, gpusLockedMask, Live, deferred)
  <2>1. t \in All
    BY Zenon DEF All
  <2> QED
    BY <2>1, InvOf, Zenon
<1>2. TypeOK /\ ShapeInv /\ ApiInv /\ AllInv
  BY Zenon DEF IInv
<1>3. held \in HeldType
  BY <1>2, Typed, Zenon
<1>4. /\ call[t].pc = "idle" /\ Len(held[t]) = 1
      /\ UNCHANGED gpusLockedMask /\ UNCHANGED call /\ UNCHANGED ApiVars
      /\ UNCHANGED held /\ UNCHANGED user /\ UNCHANGED calls
      /\ deferred' = deferred \cup {t}
      /\ SetOwner(gpuLocks, gpuLocks', held[t][1].mask, NO_THREAD)
  BY Zenon DEF HandOver, SetOwner
<1>5. /\ gpuLocks' \in [Gpus -> LockRec]
      /\ Handed(t, gpuLocks, gpuLocks', held[t][1].mask, deferred')
  <2>1. NO_THREAD \in All \cup {NO_THREAD}
    BY Zenon
  <2>2. OwnerOf(t, deferred', NO_THREAD)
    BY <1>4, Zenon DEF OwnerOf
  <2> QED
    BY <1>1, <1>4, <2>1, <2>2, OwnerIs, Zenon
<1>6. call[t].got = {} /\ call[t].mask = {}
  BY <1>1, <1>4, NoCallIs, SMTT(30) DEF CallShape
<1>7. /\ OthersKept(t, held, held', deferred, deferred') /\ Len(held'[t]) = 1
      /\ held'[t][1].mask = held[t][1].mask
  BY <1>4, Zenon DEF OthersKept
<1>8. LockInv(gpuLocks', call', held', gpusLockedMask', Live, deferred')
  <2>1. LockInv(gpuLocks', call, held', gpusLockedMask, Live, deferred')
    BY <1>1, <1>3, <1>4, <1>5, <1>6, <1>7, HandedLocks, Zenon
  <2> QED
    BY <1>4, <2>1, Zenon
<1>9. AllKept(t)
  <2>1. LocksAll(t)' => LocksAll(t)
    BY <1>4, Zenon DEF LocksAll
  <2> QED
    BY <1>1, <1>2, <1>4, <2>1, SMTT(30) DEF AllKept, AllInv
<1>10. Defers(t) /\ OnlyMine(t, call, call', held, held') /\ t # API
  BY <1>2, <1>4, GpuLocksAssumption, SMTT(30) DEF Defers, OnlyMine, TypeOK
<1>11. /\ user' \in [Threads -> Gpus \cup {0}] /\ calls' \in 0 .. MAX_CALLS
       /\ gpusLockedMask' \in SUBSET Gpus /\ held' \in HeldType
       /\ call' \in [All -> CallRec] /\ CallShape(call'[t])
  BY <1>1, <1>2, <1>3, <1>4, Zenon DEF TypeOK
<1> QED
  BY <1>1, <1>4, <1>5, <1>8, <1>9, <1>10, <1>11, CallerStep, Zenon

LEMMA BottomHalfStep ==
  ASSUME IInv, NEW t \in Threads, RmIsrBottomHalf(t)
  PROVE  IInv'
<1>1. /\ gpuLocks \in [Gpus -> LockRec] /\ call \in [All -> CallRec]
      /\ CallShape(call[t]) /\ t \in All /\ gpusLockedMask \in SUBSET Gpus
      /\ Live \in SUBSET Gpus
      /\ LockInv(gpuLocks, call, held, gpusLockedMask, Live, deferred)
  <2>1. t \in All
    BY Zenon DEF All
  <2> QED
    BY <2>1, InvOf, Zenon
<1>2. TypeOK /\ ShapeInv /\ ApiInv /\ AllInv
  BY Zenon DEF IInv
<1>3. held \in HeldType /\ held[t] \in Seq(HeldRec)
  BY <1>1, <1>2, Typed, HeldAt, Zenon
<1>4. /\ t \in deferred
      /\ UNCHANGED gpusLockedMask /\ UNCHANGED call /\ UNCHANGED ApiVars
      /\ UNCHANGED user /\ UNCHANGED calls
      /\ deferred' = deferred \ {t}
      /\ SetOwner(gpuLocks, gpuLocks', held[t][1].mask, t)
  BY Zenon DEF RmIsrBottomHalf, SetOwner
<1>5. call[t].pc = "idle" /\ Len(held[t]) = 1
  BY <1>2, <1>4, Zenon DEF ShapeInv
<1>6. /\ gpuLocks' \in [Gpus -> LockRec]
      /\ Handed(t, gpuLocks, gpuLocks', held[t][1].mask, deferred')
  <2>1. t \in All \cup {NO_THREAD} /\ OwnerOf(t, deferred', t)
    BY <1>1, <1>4, Zenon DEF OwnerOf
  <2> QED
    BY <1>1, <1>4, <2>1, OwnerIs, Zenon
<1>7. call[t].got = {} /\ call[t].mask = {} /\ call[t].kind = "none"
  BY <1>1, <1>5, NoCallIs, SMTT(30) DEF CallShape
<1>8. /\ held' \in HeldType /\ Len(held'[t]) = 1
      /\ held'[t][1].mask = held[t][1].mask /\ held'[t][1].kind = "device"
      /\ \A u \in All \ {t} : held'[u] = held[u]
  <2> DEFINE e == held[t][1]
             d == [e EXCEPT !.kind = "device"]
             s == [held[t] EXCEPT ![1] = d]
  <2>1. e \in HeldRec
    BY <1>3, <1>5
  <2>2. held' = [held EXCEPT ![t] = s]
    BY Zenon DEF RmIsrBottomHalf
  <2> HIDE DEF e
  <2>3. d \in HeldRec /\ d.kind = "device" /\ d.mask = e.mask
    BY <2>1, Zenon DEF HeldRec
  <2> HIDE DEF d
  <2>4. s \in Seq(HeldRec) /\ Len(s) = 1 /\ s[1] = d
    BY <1>3, <1>5, <2>3, SMTT(30)
  <2> HIDE DEF s
  <2>5. /\ held' \in HeldType /\ held'[t] = s
        /\ \A u \in All \ {t} : held'[u] = held[u]
    <3>1. Puts(held, held', t, s)
      BY <1>3, <2>2, <2>4, Zenon DEF Puts
    <3>2. HasPut(held, held', t, s)
      BY <1>1, <3>1, HeldPut, Zenon
    <3> QED
      BY <3>2, Zenon DEF HasPut
  <2> QED
    BY <2>3, <2>4, <2>5, Zenon DEF e
<1>9. OthersKept(t, held, held', deferred, deferred')
  BY <1>4, <1>8, Zenon DEF OthersKept
<1>10. LockInv(gpuLocks', call', held', gpusLockedMask', Live, deferred')
  <2>1. held \in HeldType
    BY <1>3, Zenon
  <2>2. LockInv(gpuLocks', call, held', gpusLockedMask, Live, deferred')
    BY <1>1, <1>5, <1>6, <1>7, <1>8, <1>9, <2>1, HandedLocks, Zenon
  <2> QED
    BY <1>4, <2>2, Zenon
<1>11. AllKept(t)
  <2>1. \A i \in 1 .. Len(held'[t]) : held'[t][i].kind # "all"
    BY <1>8
  <2>2. ~LocksAll(t)'
    BY <1>4, <1>7, <2>1, Zenon DEF LocksAll
  <2> QED
    BY <1>4, <2>1, <2>2, Zenon DEF AllKept
<1>12. Defers(t) /\ OnlyMine(t, call, call', held, held') /\ t # API
  BY <1>2, <1>4, <1>8, GpuLocksAssumption, SMTT(30) DEF Defers, OnlyMine, TypeOK
<1>13. /\ user' \in [Threads -> Gpus \cup {0}] /\ calls' \in 0 .. MAX_CALLS
       /\ gpusLockedMask' \in SUBSET Gpus
       /\ call' \in [All -> CallRec] /\ CallShape(call'[t])
  BY <1>1, <1>2, <1>4, Zenon DEF TypeOK
<1> QED
  BY <1>1, <1>4, <1>6, <1>8, <1>10, <1>11, <1>12, <1>13, CallerStep, Zenon

(* A release of what was kept last: its slot becomes slot 0.  What         *)
(* rmGpuLocksRelease() finds locked is what its caller locked.             *)
LEMMA BeginReleaseLocks ==
  ASSUME IInv, NEW t \in All, BeginRelease(t)
  PROVE  /\ held' \in HeldType /\ call' \in [All -> CallRec]
         /\ OnlyMine(t, call, call', held, held') /\ CallShape(call'[t])
         /\ call'[t].kind = "none" /\ call'[t].pc \in {"idle", "release"}
         /\ Len(held[t]) \in Nat \ {0} /\ Len(held'[t]) = Len(held[t]) - 1
         /\ \A i \in 1 .. Len(held[t]) - 1 : held'[t][i] = held[t][i]
         /\ t \notin deferred
         /\ LockInv(gpuLocks, call', held', gpusLockedMask, Live, deferred)
<1> DEFINE n == Len(held[t])
           last == held[t][n]
           R == ReleaseMask(t)
           c1 == [NoCall EXCEPT !.pc = "release"]
           c2 == [c1 EXCEPT !.mask = R]
           d == IF R = {} THEN NoCall ELSE c2
           f == [i \in 0 .. n - 1 |-> IF i = 0 THEN n ELSE i]
<1>1. /\ call \in [All -> CallRec] /\ CallShape(call[t])
      /\ LockInv(gpuLocks, call, held, gpusLockedMask, Live, deferred)
      /\ InMask(call, held, gpusLockedMask)
  BY InvOf, Zenon DEF LockInv
<1>2. TypeOK /\ AllInv
  BY Zenon DEF IInv
<1>3. held \in HeldType /\ held[t] \in Seq(HeldRec)
  BY <1>2, Typed, HeldAt, Zenon
<1>4. /\ call[t].pc = "idle" /\ t \notin deferred /\ held[t] # << >>
      /\ held' = [held EXCEPT ![t] = SubSeq(held[t], 1, n - 1)]
  BY Zenon DEF BeginRelease
<1>5. call' = [call EXCEPT ![t] = d]
  BY Zenon DEF BeginRelease
<1>6. n \in Nat \ {0} /\ last \in HeldRec
  BY <1>3, <1>4
<1>7. R = last.mask /\ R \subseteq gpusLockedMask /\ R \in SUBSET Gpus
  <2>1. last.mask \subseteq gpusLockedMask
    BY <1>1, <1>6, SMTT(30) DEF InMask
  <2>2. last.kind = "all" => last.mask = gpusLockableMask
    BY <1>2, <1>6 DEF AllInv
  <2>3. R = IF last.kind = "all" THEN gpusLockedMask \cap gpusLockableMask
            ELSE last.mask
    BY Zenon DEF ReleaseMask
  <2>4. last.mask \in SUBSET Gpus
    BY <1>6, Zenon DEF HeldRec
  <2> HIDE DEF R, last
  <2> QED
    BY <2>1, <2>2, <2>3, <2>4, Zenon
<1> HIDE DEF R
<1>8. /\ d \in CallRec /\ d.got = {} /\ d.mask = R /\ d.kind = "none"
      /\ d.pc \in {"idle", "release"} /\ CallShape(d)
  <2>1. c1 \in CallRec /\ c1.got = {} /\ c1.kind = "none" /\ c1.pc = "release"
    BY NoCallIs, Zenon DEF CallRec
  <2> HIDE DEF c1
  <2>2. /\ c2 \in CallRec /\ c2.got = {} /\ c2.kind = "none"
        /\ c2.pc = "release" /\ c2.mask = R
    BY <1>7, <2>1 DEF CallRec
  <2> HIDE DEF c2
  <2>3. CallShape(c2)
    BY <2>2, Zenon DEF CallShape, WaitPcs
  <2> QED
    BY <2>2, <2>3, NoCallIs, SMTT(30)
<1> HIDE DEF d
<1>9. call' \in [All -> CallRec] /\ call'[t] = d /\ OnlyOf(t, call, call')
  BY <1>1, <1>5, <1>8, OneCall, Zenon
<1>10. /\ SubSeq(held[t], 1, n - 1) \in Seq(HeldRec)
       /\ Len(SubSeq(held[t], 1, n - 1)) = n - 1
       /\ \A i \in 1 .. n - 1 : SubSeq(held[t], 1, n - 1)[i] = held[t][i]
  <2>1. \A q \in Seq(HeldRec) : \A k \in 0 .. Len(q) :
          /\ Len(SubSeq(q, 1, k)) = k
          /\ \A i \in 1 .. k : SubSeq(q, 1, k)[i] = q[i]
    OBVIOUS
  <2>2. \A q \in Seq(HeldRec) : \A k \in 0 .. Len(q) :
          SubSeq(q, 1, k) \in Seq(HeldRec)
    OBVIOUS
  <2>3. n - 1 \in 0 .. Len(held[t])
    BY <1>6
  <2> QED
    BY <1>3, <2>1, <2>2, <2>3, Zenon
<1>11. /\ held' \in HeldType /\ Len(held'[t]) = n - 1
       /\ \A i \in 1 .. n - 1 : held'[t][i] = held[t][i]
       /\ \A u \in All \ {t} : held'[u] = held[u]
  <2>1. /\ held' \in HeldType /\ held'[t] = SubSeq(held[t], 1, n - 1)
        /\ \A u \in All \ {t} : held'[u] = held[u]
    <3>1. Puts(held, held', t, SubSeq(held[t], 1, n - 1))
      BY <1>3, <1>4, <1>10, Zenon DEF Puts
    <3>2. HasPut(held, held', t, SubSeq(held[t], 1, n - 1))
      BY <3>1, HeldPut, Zenon
    <3> QED
      BY <3>2, Zenon DEF HasPut
  <2> QED
    BY <1>10, <2>1, Zenon
<1>12. OnlyMine(t, call, call', held, held')
  BY <1>9, <1>11, Zenon DEF OnlyMine, OnlyOf
<1> HIDE DEF n, last
<1>13. InMask(call', held', gpusLockedMask)
  <2> SUFFICES ASSUME NEW u \in All
               PROVE  /\ call'[u].pc \in {"locked", "release"} =>
                           call'[u].got \cup call'[u].mask \subseteq gpusLockedMask
                      /\ \A i \in 1 .. Len(held'[u]) :
                           held'[u][i].mask \subseteq gpusLockedMask
    BY Zenon DEF InMask
  <2>1. CASE u # t
    BY <1>1, <1>12, <2>1, SMTT(30) DEF InMask, OnlyMine
  <2>2. CASE u = t
    <3>1. \A i \in 1 .. n - 1 : held[t][i].mask \subseteq gpusLockedMask
      BY <1>1, <1>6 DEF InMask, n
    <3>2. ASSUME NEW i \in 1 .. n - 1
          PROVE  held'[t][i].mask \subseteq gpusLockedMask
      BY <1>11, <3>1, Zenon
    <3>3. call'[t].got \cup call'[t].mask \subseteq gpusLockedMask
      BY <1>7, <1>8, <1>9, Zenon
    <3> QED
      BY <1>11, <2>2, <3>2, <3>3, Zenon
  <2> QED
    BY <2>1, <2>2, Zenon
<1>14. Moves(t, call, call', held, held', f)
  <2>1. \A i \in 0 .. n - 1 : f[i] = IF i = 0 THEN n ELSE i
    BY Zenon DEF n
  <2> HIDE DEF f
  <2> SUFFICES ASSUME NEW i \in 0 .. n - 1
               PROVE  /\ f[i] \in 0 .. n
                      /\ Slot(call', held', t, i) \subseteq Slot(call, held, t, f[i])
                      /\ \A j \in 0 .. n - 1 : f[i] = f[j] => i = j
    BY <1>11, Zenon DEF Moves, n
  <2>2. Slot(call', held', t, i) \subseteq Slot(call, held, t, f[i])
    <3>1. CASE i = 0
      <4>1. Slot(call, held, t, n) = R /\ Slot(call', held', t, 0) = R
        BY <1>6, <1>7, <1>8, <1>9, Zenon DEF Slot, last
      <4> QED
        BY <2>1, <3>1, <4>1, SMTT(30)
    <3>2. CASE i # 0
      <4>1. i \in 1 .. n - 1 /\ f[i] = i
        BY <1>6, <2>1, <3>2, SMTT(30)
      <4> QED
        BY <1>11, <4>1, SMTT(30) DEF Slot
    <3> QED
      BY <3>1, <3>2, Zenon
  <2> QED
    BY <1>6, <2>1, <2>2, SMTT(30)
<1> HIDE DEF f
<1>15. call[t].pc \notin WaitPcs /\ call'[t].pc \notin WaitPcs
  BY <1>4, <1>8, <1>9, Zenon DEF WaitPcs
<1>16. LockInv(gpuLocks, call', held', gpusLockedMask, Live, deferred)
  BY <1>1, <1>12, <1>13, <1>14, <1>15, MovedLocks, Zenon
<1> QED
  BY <1>4, <1>6, <1>8, <1>9, <1>11, <1>12, <1>16, SMTT(30) DEF n

LEMMA ReleaseStep ==
  ASSUME IInv, NEW t \in Threads, Release(t)
  PROVE  IInv'
<1> DEFINE n == Len(held[t])
<1>1. t \in All /\ t # API
  BY GpuLocksAssumption, Zenon DEF All
<1>2. TypeOK /\ AllInv
  BY Zenon DEF IInv
<1>3. /\ BeginRelease(t) /\ UNCHANGED <<gpuLocks, gpusLockedMask>>
      /\ UNCHANGED ApiVars /\ UNCHANGED <<deferred, calls>>
      /\ user' = [user EXCEPT ![t] = IF n = 1 THEN 0 ELSE user[t]]
  BY Zenon DEF Release
<1>4. /\ held' \in HeldType /\ call' \in [All -> CallRec]
      /\ OnlyMine(t, call, call', held, held') /\ CallShape(call'[t])
      /\ call'[t].kind = "none"
      /\ n \in Nat \ {0} /\ Len(held'[t]) = n - 1
      /\ \A i \in 1 .. n - 1 : held'[t][i] = held[t][i]
      /\ t \notin deferred
      /\ LockInv(gpuLocks, call', held', gpusLockedMask, Live, deferred)
  BY <1>1, <1>3, BeginReleaseLocks, Zenon
<1>5. /\ user' \in [Threads -> Gpus \cup {0}]
      /\ user'[t] = (IF n = 1 THEN 0 ELSE user[t])
      /\ \A u \in Threads \ {t} : user'[u] = user[u]
  BY <1>2, <1>3 DEF TypeOK
<1>6. AllKept(t)
  <2>1. \A i \in 1 .. n : held[t][i].kind = "all" =>
          held[t][i].mask = gpusLockableMask
    BY <1>1, <1>2, Zenon DEF AllInv
  <2>2. \A i \in 1 .. n - 1 : held'[t][i].kind = "all" =>
          held'[t][i].mask = gpusLockableMask
    BY <1>4, <2>1
  <2>3. LocksAll(t)' => LocksAll(t) /\ user'[t] = user[t]
    <3>1. ASSUME NEW i \in 1 .. n - 1, held'[t][i].kind = "all"
          PROVE  i \in 1 .. n /\ held[t][i].kind = "all" /\ n # 1
      <4>1. held'[t][i] = held[t][i] /\ n \in Nat \ {0}
        BY <1>4, Zenon
      <4> HIDE DEF n
      <4> QED
        BY <3>1, <4>1
    <3> QED
      BY <1>4, <1>5, <3>1, Zenon DEF LocksAll
  <2> QED
    BY <1>2, <1>4, <1>5, <2>2, <2>3, Zenon DEF AllKept, AllInv
<1>7. Defers(t)
  BY <1>2, <1>3, <1>4, Zenon DEF Defers, TypeOK
<1>8. /\ calls' \in 0 .. MAX_CALLS /\ gpuLocks' \in [Gpus -> LockRec]
      /\ gpusLockedMask' \in SUBSET Gpus
  <2>1. gpuLocks \in [Gpus -> LockRec] /\ gpusLockedMask \in SUBSET Gpus
    BY <1>2, Typed, Zenon
  <2>2. calls \in 0 .. MAX_CALLS
    BY <1>2, Zenon DEF TypeOK
  <2> QED
    BY <1>3, <2>1, <2>2, Zenon
<1>9. LockInv(gpuLocks', call', held', gpusLockedMask', Live, deferred')
  BY <1>3, <1>4, Zenon
<1> QED
  BY <1>1, <1>3, <1>4, <1>5, <1>6, <1>7, <1>8, <1>9, CallerStep, Zenon

=============================================================================

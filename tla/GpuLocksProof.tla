--------------------------- MODULE GpuLocksProof ----------------------------
(***************************************************************************)
(* Proofs about GpuLocks, for any number of GPUs, threads and calls: no    *)
(* GPU lock has two holders, the count of a lock counts its holder and     *)
(* those who wait, no semaphore is destroyed under a thread that sleeps on *)
(* it, and the set of GPUs changes only while nobody else holds a lock.    *)
(*                                                                         *)
(* GpuLocksSteps has the inductive invariant and the steps of threads and  *)
(* interrupt handlers; here is what attaches and detaches GPUs             *)
(* (rmGpuLockAlloc(), rmGpuLockFree()).                                    *)
(***************************************************************************)
EXTENDS GpuLocksSteps, FiniteSetTheorems

-----------------------------------------------------------------------------
(* The thread with the API lock.                                           *)
ApiPcs == {"idle", "alloc", "added", "shutdown", "detached", "free", "unwind",
           "removed", "drain"}

LEMMA ApiFrame ==
  ASSUME IInv, gpuLocks' \in [Gpus -> LockRec], call' \in [All -> CallRec],
         gpusLockedMask' \in SUBSET Gpus, held' \in HeldType,
         gpusLockableMask' \in SUBSET Gpus,
         attached' \subseteq gpusLockableMask',
         api' \in [pc : ApiPcs, gpu : Gpus \cup {0}],
         changes' \in 0 .. MAX_CHANGES,
         UNCHANGED deferred, UNCHANGED user, UNCHANGED calls,
         OnlyMine(API, call, call', held, held'), CallShape(call'[API]),
         ApiInv', AllInv',
         LockInv(gpuLocks', call', held', gpusLockedMask', Live', deferred)
  PROVE  IInv'
<1>1. TypeOK /\ ShapeInv
  BY DEF IInv
<1>2. TypeOK'
  <2>1. gpuLocks' \in [Gpus ->
          [count : Int, bRunning : BOOLEAN, bSignaled : BOOLEAN,
           threadId : All \cup {NO_THREAD}, pWaitSema : Nat \cup {NO_SEMA}]]
    BY Zenon DEF LockRec
  <2>2. call' \in [All ->
         [pc : {"idle", "sleep", "woken", "leave", "left", "locked", "release",
                "wake", "again"},
          kind : {"none", "all", "group", "device", "isr", "alloc", "free"},
          level : {"passive", "irq", "cond"}, todo : SUBSET Gpus,
          got : SUBSET Gpus, gpu : Gpus \cup {0}, mask : SUBSET Gpus,
          wake : SUBSET Gpus, retry : BOOLEAN]]
    BY Zenon DEF CallRec
  <2>3. held' \in [All -> Seq([kind : {"all", "group", "device", "isr"},
                               mask : SUBSET Gpus])]
    BY Zenon DEF HeldRec, HeldType
  <2>4. gpusLockedMask' \subseteq Gpus /\ gpusLockableMask' \subseteq Gpus
    BY Zenon
  <2>5. api' \in [pc : {"idle", "alloc", "added", "shutdown", "detached", "free",
                        "unwind", "removed", "drain"}, gpu : Gpus \cup {0}]
    BY Zenon DEF ApiPcs
  <2> QED
    BY <1>1, <2>1, <2>2, <2>3, <2>4, <2>5, Zenon DEF TypeOK
<1>3. ShapeInv'
  <2>1. ASSUME NEW u \in All
        PROVE  CallShape(call'[u])
    <3>1. u # API => call'[u] = call[u]
      BY Zenon DEF OnlyMine
    <3> QED
      BY <1>1, <3>1 DEF ShapeInv
  <2>2. \A u \in deferred : u \in All \ {API}
    BY <1>1, GpuLocksAssumption DEF TypeOK, All
  <2>3. \A u \in deferred : call'[u].pc = "idle" /\ Len(held'[u]) = 1
    BY <1>1, <2>2, Zenon DEF ShapeInv, OnlyMine
  <2> QED
    BY <2>1, <2>3 DEF ShapeInv
<1>4. LockInv(gpuLocks', call', held', gpusLockedMask', Live', deferred')
  BY Zenon
<1> QED
  BY <1>2, <1>3, <1>4, SMTT(30) DEF IInv

(* What the steps that leave the callers alone have in common.             *)
CallersAlone ==
  /\ UNCHANGED held /\ UNCHANGED deferred /\ UNCHANGED user /\ UNCHANGED calls

LEMMA AllSame ==
  ASSUME IInv, CallersAlone, OnlyOf(API, call, call'),
         UNCHANGED gpusLockableMask, attached \subseteq attached',
         api'.pc # "shutdown"
  PROVE  AllInv'
<1>1. AllInv
  BY DEF IInv
<1>2. \A u \in Threads : LocksAll(u)' => LocksAll(u)
  <2>1. \A u \in Threads : u \in All \ {API}
    BY GpuLocksAssumption DEF All
  <2> QED
    BY <2>1, Zenon DEF LocksAll, OnlyOf, CallersAlone
<1> QED
  BY <1>1, <1>2, Zenon DEF AllInv, CallersAlone

(* The other GPUs are being locked.                                        *)
LEMMA OthersLocked ==
  ASSUME IInv, call[API].pc = "idle", NEW k \in {"alloc", "free"},
         NEW mask \in SUBSET Gpus, NEW locks \in [Gpus -> LockRec],
         NEW live \in SUBSET Gpus, gpusLockableMask \subseteq live,
         LockInv(locks, call, held, gpusLockedMask, live, deferred),
         LockOthers(k, mask, locks)
  PROVE  /\ LockInv(gpuLocks', call', held, gpusLockedMask', live, deferred)
         /\ gpuLocks' \in [Gpus -> LockRec] /\ call' \in [All -> CallRec]
         /\ gpusLockedMask' \in SUBSET Gpus /\ OnlyOf(API, call, call')
         /\ CallShape(call'[API]) /\ call'[API].pc \in {"sleep", "locked"}
         /\ call'[API].kind = k
         /\ call'[API].pc = "locked" => call'[API].todo = {}
         /\ gpusLockableMask \cap mask \subseteq Reach(call'[API])
<1>1. /\ call \in [All -> CallRec] /\ API \in All /\ CallShape(call[API])
      /\ gpusLockableMask \in SUBSET Gpus /\ gpusLockedMask \in SUBSET Gpus
  <2>1. API \in All
    BY Zenon DEF All
  <2> QED
    BY <2>1, InvOf
<1>2. held \in HeldType /\ API \notin deferred
  <2>1. held \in HeldType
    BY Typed DEF IInv
  <2> QED
    BY <2>1, GpuLocksAssumption, SMTT(30) DEF IInv, TypeOK
<1>3. call[API] = NoCall
  BY <1>1, Zenon DEF CallShape
<1> DEFINE c1 == [NoCall EXCEPT !.kind = k]
           c2 == [c1 EXCEPT !.todo = mask]
           d == [NoCall EXCEPT !.pc = "locked"]
           c3 == [d EXCEPT !.kind = k]
<1>4. /\ c1 \in CallRec /\ c1.kind = k /\ c1.got = {} /\ c1.mask = {}
      /\ c1.todo = {} /\ c1.level = "passive"
  BY NoCallIs DEF CallRec
<1>5. CASE mask = {}
  <2>1. /\ call' = [call EXCEPT ![API] = c3] /\ gpuLocks' = locks
        /\ gpusLockedMask' = gpusLockedMask
    BY <1>5, Zenon DEF LockOthers
  <2>2. /\ c3 \in CallRec /\ c3.kind = k /\ c3.got = {} /\ c3.mask = {}
        /\ c3.todo = {} /\ c3.pc = "locked"
    <3>1. /\ d \in CallRec /\ d.got = {} /\ d.mask = {} /\ d.todo = {}
          /\ d.pc = "locked"
      BY NoCallIs DEF CallRec
    <3> HIDE DEF d
    <3> QED
      BY <3>1, Zenon DEF CallRec
  <2> HIDE DEF c3
  <2>3. /\ call' \in [All -> CallRec] /\ call'[API] = c3
        /\ OnlyOf(API, call, call')
    BY <1>1, <2>1, <2>2, OneCall, Zenon
  <2>4. CallShape(c3)
    BY <2>2, Zenon DEF CallShape, WaitPcs
  <2>5. QuietLock(locks, locks) /\ QuietCall(call, call')
    BY <1>3, <2>2, <2>3, NoCallIs, SMTT(30) DEF QuietLock, QuietCall, OnlyOf, WaitPcs
  <2>6. LockInv(locks, call', held, gpusLockedMask, live, deferred)
    BY <1>2, <2>5, QuietLocks, Zenon
  <2> QED
    BY <1>1, <1>5, <2>1, <2>2, <2>3, <2>4, <2>6, Zenon
<1>6. CASE mask # {}
  <2>1. Loop(API, c2, locks)
    BY <1>6, Zenon DEF LockOthers
  <2> HIDE DEF c1
  <2>2. /\ c2 \in CallRec /\ c2.kind = k /\ c2.got = {} /\ c2.mask = {}
        /\ c2.todo = mask /\ c2.level = "passive"
    BY <1>4, Zenon DEF CallRec
  <2> HIDE DEF c2
  <2>3. /\ call[API].got = c2.got /\ call[API].mask = {}
        /\ call[API].pc \notin WaitPcs
        /\ CondFree(c2, locks) /\ OnlyOf(API, call, call)
    BY <1>3, <2>2, NoCallIs, SMTT(30) DEF WaitPcs, CondFree, OnlyOf
  <2>4. LockInv(gpuLocks', call', held, gpusLockedMask', live, deferred)
    BY <1>1, <1>2, <2>1, <2>2, <2>3, LoopLocks, Zenon
  <2>5. /\ gpuLocks' \in [Gpus -> LockRec] /\ call' \in [All -> CallRec]
        /\ gpusLockedMask' \in SUBSET Gpus /\ OnlyOf(API, call, call')
        /\ CallShape(call'[API]) /\ call'[API].pc \in {"sleep", "locked"}
        /\ call'[API].kind = c2.kind
        /\ call'[API].pc = "locked" => call'[API].todo = {}
        /\ gpusLockableMask \cap (c2.got \cup c2.todo) \subseteq Reach(call'[API])
    BY <1>1, <2>1, <2>2, LoopCall, Zenon
  <2> QED
    BY <2>2, <2>4, <2>5, Zenon
<1> QED
  BY <1>5, <1>6, Zenon

LEMMA ApiFacts ==
  ASSUME IInv
  PROVE  /\ gpuLocks \in [Gpus -> LockRec] /\ call \in [All -> CallRec]
         /\ API \in All /\ CallShape(call[API])
         /\ gpusLockableMask \in SUBSET Gpus /\ gpusLockedMask \in SUBSET Gpus
         /\ attached \subseteq gpusLockableMask
         /\ Live \in SUBSET Gpus
         /\ api \in [pc : ApiPcs, gpu : Gpus \cup {0}]
         /\ changes \in 0 .. MAX_CHANGES /\ ApiInv /\ AllInv
         /\ LockInv(gpuLocks, call, held, gpusLockedMask, Live, deferred)
<1>1. API \in All
  BY Zenon DEF All
<1>2. TypeOK /\ ApiInv /\ AllInv
  BY Zenon DEF IInv
<1>3. api \in [pc : ApiPcs, gpu : Gpus \cup {0}]
  BY <1>2, Zenon DEF TypeOK, ApiPcs
<1>4. changes \in 0 .. MAX_CHANGES /\ attached \subseteq gpusLockableMask
  BY <1>2, Zenon DEF TypeOK
<1> QED
  BY <1>1, <1>2, <1>3, <1>4, InvOf, Zenon

LEMMA HeldTyped ==
  ASSUME IInv, UNCHANGED held
  PROVE  held \in HeldType /\ held' \in HeldType
  BY Typed DEF IInv

LEMMA FreshLocks == NoLock \in LockRec /\ NewLock \in LockRec
<1> DEFINE l1 == [NoLock EXCEPT !.count = 1]
           l2 == [l1 EXCEPT !.pWaitSema = 0]
<1>1. NoLock \in LockRec
  BY DEF NoLock, LockRec
<1>2. l1 \in LockRec
  BY <1>1 DEF LockRec
<1> HIDE DEF l1
<1>3. l2 \in LockRec
  BY <1>2, Zenon DEF LockRec
<1> QED
  BY <1>1, <1>3, Zenon DEF NewLock, l1

LEMMA AllocStep ==
  ASSUME IInv, NEW g \in Gpus, rmGpuLockAlloc(g)
  PROVE  IInv'
<1> DEFINE locks == [gpuLocks EXCEPT ![g] = NewLock]
           live == Live \cup {g}
<1>1. /\ gpuLocks \in [Gpus -> LockRec] /\ call \in [All -> CallRec]
      /\ gpusLockableMask \in SUBSET Gpus /\ attached \subseteq gpusLockableMask
      /\ Live \in SUBSET Gpus /\ changes \in 0 .. MAX_CHANGES /\ ApiInv
      /\ LockInv(gpuLocks, call, held, gpusLockedMask, Live, deferred)
  BY ApiFacts
<1>2. /\ api.pc = "idle" /\ g \notin gpusLockableMask /\ changes < MAX_CHANGES
      /\ api' = [pc |-> "alloc", gpu |-> g] /\ changes' = changes + 1
      /\ UNCHANGED gpusLockableMask /\ UNCHANGED attached /\ CallersAlone
  BY Zenon DEF rmGpuLockAlloc, CallerVars, CallersAlone
<1>3. LockOthers("alloc", gpusLockableMask, locks)
  BY Zenon DEF rmGpuLockAlloc
<1>4. held \in HeldType /\ held' \in HeldType
  BY <1>2, HeldTyped, Zenon DEF CallersAlone
<1>5. Live = gpusLockableMask /\ Live' = live
  BY <1>2 DEF Live
<1>6. NewLock \in LockRec
  BY FreshLocks, Zenon
<1>7. /\ locks \in [Gpus -> LockRec] /\ locks[g] = NewLock
      /\ OnlyLock(g, gpuLocks, locks)
  BY <1>1, <1>6, OneLock, Zenon
<1> HIDE DEF locks
<1>8. LockInv(locks, call, held, gpusLockedMask, live, deferred)
  <2>1. g \notin Live
    BY <1>2, <1>5, SMTT(30)
  <2> QED
    BY <1>1, <1>4, <1>7, <2>1, NewLocks, Zenon
<1>9. /\ LockInv(gpuLocks', call', held, gpusLockedMask', live, deferred)
      /\ gpuLocks' \in [Gpus -> LockRec] /\ call' \in [All -> CallRec]
      /\ gpusLockedMask' \in SUBSET Gpus /\ OnlyOf(API, call, call')
      /\ CallShape(call'[API]) /\ call'[API].pc \in {"sleep", "locked"}
      /\ call'[API].kind = "alloc"
      /\ call'[API].pc = "locked" => call'[API].todo = {}
      /\ gpusLockableMask \cap gpusLockableMask \subseteq Reach(call'[API])
  <2>1. call[API].pc = "idle" /\ "alloc" \in {"alloc", "free"}
    BY <1>1, <1>2, SMTT(30) DEF ApiInv
  <2>2. live \in SUBSET Gpus /\ gpusLockableMask \subseteq live
    BY <1>1, <1>5, Zenon
  <2> HIDE DEF live
  <2> QED
    BY <1>1, <1>3, <1>7, <1>8, <2>1, <2>2, OthersLocked, Zenon
<1>10. ApiInv'
  <2>1. held'[API] = << >>
    BY <1>1, <1>2, Zenon DEF ApiInv, CallersAlone
  <2> QED
    BY <1>1, <1>2, <1>9, <2>1, Zenon DEF ApiInv, WaitPcs
<1>11. AllInv'
  BY <1>2, <1>9, AllSame, Zenon
<1>12. /\ api' \in [pc : ApiPcs, gpu : Gpus \cup {0}]
       /\ changes' \in 0 .. MAX_CHANGES /\ gpusLockableMask' \in SUBSET Gpus
       /\ attached' \subseteq gpusLockableMask'
  BY <1>1, <1>2, GpuLocksAssumption, SMTT(30) DEF ApiPcs
<1>13. OnlyMine(API, call, call', held, held')
  BY <1>2, <1>9, Zenon DEF OnlyMine, OnlyOf, CallersAlone
<1>14. LockInv(gpuLocks', call', held', gpusLockedMask', Live', deferred)
  BY <1>2, <1>5, <1>9, Zenon DEF CallersAlone
<1> QED
  BY <1>2, <1>4, <1>9, <1>10, <1>11, <1>12, <1>13, <1>14, ApiFrame, Zenon
       DEF CallersAlone

LEMMA FreeStep ==
  ASSUME IInv, rmGpuLockFree
  PROVE  IInv'
<1> DEFINE mask == gpusLockableMask \cap attached
<1>1. /\ gpuLocks \in [Gpus -> LockRec] /\ call \in [All -> CallRec]
      /\ gpusLockableMask \in SUBSET Gpus /\ attached \subseteq gpusLockableMask
      /\ Live \in SUBSET Gpus /\ changes \in 0 .. MAX_CHANGES /\ ApiInv
      /\ api \in [pc : ApiPcs, gpu : Gpus \cup {0}]
      /\ LockInv(gpuLocks, call, held, gpusLockedMask, Live, deferred)
  BY ApiFacts
<1>2. /\ api.pc \in {"detached", "added"} /\ call[API].pc = "idle"
      /\ UNCHANGED gpusLockableMask /\ UNCHANGED attached /\ CallersAlone
      /\ changes' = changes
  BY Zenon DEF rmGpuLockFree, CallerVars, CallersAlone
<1>3. /\ LockOthers("free", mask, gpuLocks)
      /\ api' = [api EXCEPT !.pc = IF api.pc = "added" THEN "unwind" ELSE "free"]
  BY Zenon DEF rmGpuLockFree
<1>4. held \in HeldType /\ held' \in HeldType
  BY <1>2, HeldTyped, Zenon DEF CallersAlone
<1>5. /\ api' \in [pc : ApiPcs, gpu : Gpus \cup {0}] /\ api'.gpu = api.gpu
      /\ api'.pc \in {"unwind", "free"}
  BY <1>1, <1>3, SMTT(30) DEF ApiPcs
<1>6. Live = gpusLockableMask /\ Live' = gpusLockableMask
  BY <1>2, <1>5, Zenon DEF Live
<1>7. /\ LockInv(gpuLocks', call', held, gpusLockedMask', Live, deferred)
      /\ gpuLocks' \in [Gpus -> LockRec] /\ call' \in [All -> CallRec]
      /\ gpusLockedMask' \in SUBSET Gpus /\ OnlyOf(API, call, call')
      /\ CallShape(call'[API]) /\ call'[API].pc \in {"sleep", "locked"}
      /\ call'[API].kind = "free"
      /\ call'[API].pc = "locked" => call'[API].todo = {}
      /\ gpusLockableMask \cap mask \subseteq Reach(call'[API])
  <2>1. /\ "free" \in {"alloc", "free"} /\ mask \in SUBSET Gpus
        /\ gpusLockableMask \subseteq Live
    BY <1>1, <1>6, SMTT(30)
  <2> HIDE DEF mask
  <2> QED
    BY <1>1, <1>2, <1>3, <2>1, OthersLocked, Zenon
<1>8. ApiInv'
  <2>1. held'[API] = << >>
    BY <1>1, <1>2, SMTT(30) DEF ApiInv, CallersAlone
  <2>2. gpusLockableMask' \cap attached' \subseteq Reach(call'[API])
    BY <1>2, <1>7, Zenon
  <2>3. /\ api'.gpu \in Gpus /\ api'.gpu \in gpusLockableMask' \ attached'
        /\ gpusLockableMask' \subseteq attached' \cup {api'.gpu}
    BY <1>1, <1>2, <1>5, SMTT(30) DEF ApiInv
  <2> QED
    BY <1>5, <1>7, <2>1, <2>2, <2>3, Zenon DEF ApiInv, WaitPcs
<1>9. AllInv'
  BY <1>2, <1>5, <1>7, AllSame, Zenon
<1>10. /\ changes' \in 0 .. MAX_CHANGES /\ gpusLockableMask' \in SUBSET Gpus
       /\ attached' \subseteq gpusLockableMask'
  BY <1>1, <1>2, SMTT(30)
<1>11. OnlyMine(API, call, call', held, held')
  BY <1>2, <1>7, Zenon DEF OnlyMine, OnlyOf, CallersAlone
<1>12. LockInv(gpuLocks', call', held', gpusLockedMask', Live', deferred)
  BY <1>2, <1>6, <1>7, Zenon DEF CallersAlone
<1> QED
  BY <1>2, <1>4, <1>5, <1>7, <1>8, <1>9, <1>10, <1>11, <1>12, ApiFrame, Zenon
       DEF CallersAlone

(* The API thread has locked every GPU that is attached: nobody else has   *)
(* locked all of them, and what others hold is its own GPU.                *)
LEMMA OthersLockedOut ==
  ASSUME IInv, api.pc \in {"alloc", "free", "unwind"}, call[API].pc = "locked"
  PROVE  /\ \A t \in All : \A i \in 1 .. Len(held[t]) : held[t][i].kind # "all"
         /\ \A t \in Threads : \A i \in 0 .. Len(held[t]) :
              Slot(call, held, t, i) \subseteq {api.gpu}
<1>1. /\ call \in [All -> CallRec] /\ API \in All /\ CallShape(call[API])
      /\ attached \subseteq gpusLockableMask /\ gpusLockableMask \in SUBSET Gpus
      /\ ApiInv /\ AllInv
      /\ Exclusive(call, held)
      /\ OnRecord(gpuLocks, call, held, Live, deferred)
  BY ApiFacts, Zenon DEF LockInv
<1>2. held \in HeldType /\ held[API] = << >>
  <2>1. held \in HeldType
    BY Typed DEF IInv
  <2> QED
    BY <1>1, <2>1, Zenon DEF ApiInv
<1>3. gpusLockableMask \cap attached \subseteq call[API].got
  <2>1. Reach(call[API]) = call[API].got
    BY <1>1 DEF ApiInv, Reach
  <2> QED
    BY <1>1, <2>1, Zenon DEF ApiInv
<1>4. ASSUME NEW t \in Threads, NEW i \in 0 .. Len(held[t]),
             NEW g \in Slot(call, held, t, i)
      PROVE  g \notin attached
  <2>1. t \in All /\ t # API
    BY GpuLocksAssumption, Zenon DEF All
  <2>2. SUFFICES ASSUME g \in attached
                 PROVE  FALSE
    BY Zenon
  <2>3. g \in Gpus /\ g \in call[API].got
    BY <1>1, <1>3, <2>2, Zenon
  <2>4. 0 \in 0 .. Len(held[API]) /\ g \in Slot(call, held, API, 0)
    BY <1>2, <2>3, HeldLen, <1>1, SMTT(30) DEF Slot
  <2> QED
    BY <1>1, <2>1, <2>3, <2>4, Zenon DEF Exclusive
<1>5. ASSUME NEW t \in All, NEW i \in 1 .. Len(held[t]), held[t][i].kind = "all"
      PROVE  FALSE
  <2>1. t \in Threads
    <3>1. t # API
      BY <1>2
    <3> QED
      BY <3>1, Zenon DEF All
  <2>2. user[t] \in attached /\ held[t][i].mask = gpusLockableMask
    BY <1>1, <1>5, <2>1, Zenon DEF AllInv, LocksAll
  <2>3. i \in 0 .. Len(held[t]) /\ user[t] \in Slot(call, held, t, i)
    <3>1. Len(held[t]) \in Nat /\ i # 0
      BY <1>2, HeldLen, SMTT(30)
    <3> QED
      BY <1>1, <2>2, <3>1, SMTT(30) DEF Slot
  <2> QED
    BY <1>4, <2>1, <2>2, <2>3, SMTT(30)
<1>6. ASSUME NEW t \in Threads, NEW i \in 0 .. Len(held[t]),
             NEW g \in Slot(call, held, t, i)
      PROVE  g = api.gpu
  <2>1. t \in All
    BY Zenon DEF All
  <2>2. g \in Live
    BY <1>1, <2>1, SMTT(30) DEF OnRecord
  <2>3. g \in gpusLockableMask \cup {api.gpu}
    BY <2>2, Zenon DEF Live
  <2>4. gpusLockableMask \subseteq attached \cup {api.gpu}
    BY <1>1, Zenon DEF ApiInv
  <2> QED
    BY <1>4, <2>3, <2>4, SMTT(30)
<1> QED
  BY <1>5, <1>6, Zenon

(* The GPUs that can be locked change: the one added or removed stays      *)
(* allocated.                                                              *)
LEMMA MaskStep ==
  ASSUME IInv, api.pc \in {"alloc", "free", "unwind"}, call[API].pc = "locked",
         UnlockOthers, CallersAlone, UNCHANGED <<gpuLocks, gpusLockedMask>>,
         UNCHANGED attached, changes' = changes,
         api' \in [pc : ApiPcs, gpu : Gpus \cup {0}], api'.gpu = api.gpu,
         api'.pc = (IF api.pc = "alloc" THEN "added" ELSE "removed"),
         gpusLockableMask' = (IF api.pc = "alloc"
                              THEN gpusLockableMask \cup {api.gpu}
                              ELSE gpusLockableMask \ {api.gpu})
  PROVE  IInv'
<1>1. /\ gpuLocks \in [Gpus -> LockRec] /\ call \in [All -> CallRec]
      /\ API \in All /\ CallShape(call[API]) /\ Live \in SUBSET Gpus
      /\ gpusLockableMask \in SUBSET Gpus /\ gpusLockedMask \in SUBSET Gpus
      /\ attached \subseteq gpusLockableMask
      /\ changes \in 0 .. MAX_CHANGES /\ ApiInv /\ AllInv
      /\ LockInv(gpuLocks, call, held, gpusLockedMask, Live, deferred)
  BY ApiFacts, SMTT(30)
<1>2. held \in HeldType /\ held' \in HeldType
  BY HeldTyped, Zenon DEF CallersAlone
<1>3. /\ call' \in [All -> CallRec] /\ OnlyOf(API, call, call')
      /\ call'[API].pc = "release" /\ call'[API].kind = call[API].kind
      /\ CallShape(call'[API]) /\ QuietCall(call, call')
  <2>1. ToRelease(API)
    BY Zenon DEF UnlockOthers, ToRelease
  <2> QED
    BY <1>1, <2>1, GivesBack, Zenon
<1>4. api.gpu \in Gpus /\ call[API].kind # "all" /\ held[API] = << >>
  BY <1>1, SMTT(30) DEF ApiInv
<1>5. Live' = Live
  BY <1>1 DEF Live, ApiInv
<1>6. LockInv(gpuLocks', call', held', gpusLockedMask', Live', deferred)
  <2>1. QuietLock(gpuLocks, gpuLocks)
    BY DEF QuietLock
  <2>2. LockInv(gpuLocks, call', held, gpusLockedMask, Live, deferred)
    BY <1>1, <1>2, <1>3, <2>1, QuietLocks, Zenon
  <2> QED
    BY <1>5, <2>2, Zenon DEF CallersAlone
<1>7. ApiInv'
  <2>1. held'[API] = << >>
    BY <1>4, Zenon DEF CallersAlone
  <2>2. CASE api.pc = "alloc"
    <3>1. /\ api'.pc = "added" /\ gpusLockableMask' = gpusLockableMask \cup {api.gpu}
          /\ gpusLockableMask \subseteq attached /\ api.gpu \notin gpusLockableMask
      BY <1>1, <2>2, SMTT(30) DEF ApiInv
    <3>2. /\ api'.gpu \in gpusLockableMask' \ attached'
          /\ gpusLockableMask' \subseteq attached' \cup {api'.gpu}
      BY <1>1, <3>1, Zenon
    <3> QED
      BY <1>3, <1>4, <2>1, <3>1, <3>2, SMTT(30) DEF ApiInv
  <2>3. CASE api.pc # "alloc"
    <3>1. /\ api'.pc = "removed" /\ gpusLockableMask' = gpusLockableMask \ {api.gpu}
          /\ gpusLockableMask \subseteq attached \cup {api.gpu}
      BY <1>1, <2>3, Zenon DEF ApiInv
    <3>2. gpusLockableMask' \subseteq attached' /\ api'.gpu \notin gpusLockableMask'
      BY <3>1, Zenon
    <3> QED
      BY <1>3, <1>4, <2>1, <3>1, <3>2, SMTT(30) DEF ApiInv
  <2> QED
    BY <2>2, <2>3, SMTT(30)
<1>8. AllInv'
  <2>1. \A t \in All : \A i \in 1 .. Len(held[t]) : held[t][i].kind # "all"
    BY OthersLockedOut, Zenon
  <2>2. \A u \in Threads : LocksAll(u)' => LocksAll(u)
    <3>1. \A u \in Threads : u \in All \ {API}
      BY GpuLocksAssumption, Zenon DEF All
    <3> QED
      BY <1>3, <3>1, SMTT(30) DEF LocksAll, OnlyOf, CallersAlone
  <2> QED
    BY <1>1, <2>1, <2>2, SMTT(30) DEF AllInv, CallersAlone
<1>9. /\ gpusLockableMask' \in SUBSET Gpus
      /\ attached' \subseteq gpusLockableMask'
  BY <1>1, <1>4, SMTT(30) DEF ApiInv
<1>10. /\ gpuLocks' \in [Gpus -> LockRec] /\ gpusLockedMask' \in SUBSET Gpus
       /\ changes' \in 0 .. MAX_CHANGES
  BY <1>1, Zenon
<1>11. OnlyMine(API, call, call', held, held')
  BY <1>3 DEF OnlyMine, OnlyOf, CallersAlone
<1> QED
  BY <1>2, <1>3, <1>6, <1>7, <1>8, <1>9, <1>10, <1>11, ApiFrame, Zenon
       DEF CallersAlone

LEMMA AddStep ==
  ASSUME IInv, AddLockable
  PROVE  IInv'
<1>1. /\ api.pc = "alloc" /\ call[API].pc = "locked" /\ UnlockOthers
      /\ gpusLockableMask' = gpusLockableMask \cup {api.gpu}
      /\ UNCHANGED <<gpuLocks, gpusLockedMask>> /\ UNCHANGED attached
      /\ changes' = changes /\ CallersAlone
      /\ api' = [api EXCEPT !.pc = "added"]
  BY DEF AddLockable, CallerVars, CallersAlone
<1>2. /\ api' \in [pc : ApiPcs, gpu : Gpus \cup {0}] /\ api'.gpu = api.gpu
      /\ api'.pc = "added"
  BY <1>1, ApiFacts, Zenon DEF ApiPcs
<1> QED
  BY <1>1, <1>2, MaskStep, Zenon

LEMMA RemoveStep ==
  ASSUME IInv, RemoveLockable
  PROVE  IInv'
<1>1. /\ api.pc \in {"free", "unwind"} /\ call[API].pc = "locked" /\ UnlockOthers
      /\ gpusLockableMask' = gpusLockableMask \ {api.gpu}
      /\ UNCHANGED <<gpuLocks, gpusLockedMask>> /\ UNCHANGED attached
      /\ changes' = changes /\ CallersAlone
      /\ api' = [api EXCEPT !.pc = "removed"]
  BY Zenon DEF RemoveLockable, CallerVars, CallersAlone
<1>2. /\ api' \in [pc : ApiPcs, gpu : Gpus \cup {0}] /\ api'.gpu = api.gpu
      /\ api'.pc = "removed"
  BY <1>1, ApiFacts, SMTT(30) DEF ApiPcs
<1> QED
  BY <1>1, <1>2, MaskStep, SMTT(30)

LEMMA AttachStep ==
  ASSUME IInv, gpumgrAttachGpu
  PROVE  IInv'
<1>1. /\ gpuLocks \in [Gpus -> LockRec] /\ call \in [All -> CallRec]
      /\ CallShape(call[API])
      /\ gpusLockableMask \in SUBSET Gpus /\ gpusLockedMask \in SUBSET Gpus
      /\ attached \subseteq gpusLockableMask
      /\ changes \in 0 .. MAX_CHANGES /\ ApiInv
      /\ LockInv(gpuLocks, call, held, gpusLockedMask, Live, deferred)
  BY ApiFacts, SMTT(30)
<1>2. /\ api.pc = "added" /\ call[API].pc = "idle"
      /\ attached' = attached \cup {api.gpu} /\ api' = [pc |-> "idle", gpu |-> 0]
      /\ UNCHANGED gpuLocks /\ UNCHANGED gpusLockedMask /\ UNCHANGED call
      /\ UNCHANGED gpusLockableMask /\ changes' = changes /\ CallersAlone
  BY Zenon DEF gpumgrAttachGpu, CallerVars, CallersAlone
<1>3. held \in HeldType /\ held' \in HeldType
  BY <1>2, HeldTyped, SMTT(30) DEF CallersAlone
<1>4. Live' = Live /\ api.gpu \in gpusLockableMask
  BY <1>1, <1>2, Zenon DEF Live, ApiInv
<1>5. ApiInv'
  BY <1>1, <1>2, Zenon DEF ApiInv, CallersAlone
<1>6. OnlyOf(API, call, call') /\ OnlyMine(API, call, call', held, held')
  BY <1>2, Zenon DEF OnlyOf, OnlyMine, CallersAlone
<1>7. AllInv'
  <2>1. attached \subseteq attached' /\ api'.pc # "shutdown"
    BY <1>2, Zenon
  <2> QED
    BY <1>2, <1>6, <2>1, AllSame, SMTT(30)
<1>8. /\ api' \in [pc : ApiPcs, gpu : Gpus \cup {0}]
      /\ changes' \in 0 .. MAX_CHANGES /\ gpusLockableMask' \in SUBSET Gpus
      /\ attached' \subseteq gpusLockableMask'
  BY <1>1, <1>2, <1>4, Zenon DEF ApiPcs
<1>9. /\ gpuLocks' \in [Gpus -> LockRec] /\ gpusLockedMask' \in SUBSET Gpus
      /\ call' \in [All -> CallRec] /\ CallShape(call'[API])
  BY <1>1, <1>2, Zenon
<1>10. LockInv(gpuLocks', call', held', gpusLockedMask', Live', deferred)
  BY <1>1, <1>2, <1>4, Zenon DEF CallersAlone
<1> QED
  BY <1>2, <1>3, <1>5, <1>6, <1>7, <1>8, <1>9, <1>10, ApiFrame, Zenon
       DEF CallersAlone

LEMMA ShutdownStep ==
  ASSUME IInv, NEW g \in Gpus, RmShutdownAdapter(g)
  PROVE  IInv'
<1>1. /\ gpuLocks \in [Gpus -> LockRec] /\ call \in [All -> CallRec]
      /\ API \in All /\ CallShape(call[API])
      /\ gpusLockableMask \in SUBSET Gpus /\ attached \subseteq gpusLockableMask
      /\ changes \in 0 .. MAX_CHANGES /\ ApiInv /\ AllInv
      /\ LockInv(gpuLocks, call, held, gpusLockedMask, Live, deferred)
  BY ApiFacts
<1>2. /\ api.pc = "idle" /\ g \in attached /\ changes < MAX_CHANGES
      /\ \A t \in Threads : user[t] = g => call[t].pc = "idle" /\ held[t] = << >>
      /\ api' = [pc |-> "shutdown", gpu |-> g] /\ changes' = changes + 1
      /\ UNCHANGED gpusLockableMask /\ UNCHANGED attached /\ CallersAlone
  BY Zenon DEF RmShutdownAdapter, CallerVars, CallersAlone
<1>3. PICK c \in CallRec :
        /\ c.got = {} /\ c.mask = {} /\ c.todo = gpusLockableMask
        /\ c.kind = "all"
        /\ CondFree(c, gpuLocks) /\ Loop(API, c, gpuLocks)
  <2>1. /\ "all" \in {"all", "group", "device", "isr"}
        /\ "passive" \in {"passive", "irq", "cond"}
    BY Zenon
  <2>2. Acquire(API, "all", gpusLockableMask, "passive", FALSE)
    BY Zenon DEF RmShutdownAdapter
  <2>3. LoopFrom(API, "all", gpusLockableMask)
    BY <1>1, <2>1, <2>2, FirstAcquire, Zenon
  <2> QED
    BY <2>3, Zenon DEF LoopFrom
<1>4. call[API] = NoCall /\ held[API] = << >>
  BY <1>1, <1>2, Zenon DEF ApiInv, CallShape
<1>5. /\ call[API].got = c.got /\ call[API].mask = {}
      /\ call[API].pc \notin WaitPcs /\ OnlyOf(API, call, call)
  BY <1>3, <1>4, NoCallIs, Zenon DEF WaitPcs, OnlyOf
<1>6. API \notin deferred
  BY GpuLocksAssumption, SMTT(30) DEF IInv, TypeOK
<1>7. /\ LockInv(gpuLocks', call', held, gpusLockedMask', Live, deferred)
      /\ gpuLocks' \in [Gpus -> LockRec] /\ call' \in [All -> CallRec]
      /\ gpusLockedMask' \in SUBSET Gpus /\ OnlyOf(API, call, call')
      /\ CallShape(call'[API])
  BY <1>1, <1>3, <1>5, <1>6, LoopStep, Zenon
<1>8. held \in HeldType /\ held' \in HeldType
  BY <1>2, HeldTyped, Zenon DEF CallersAlone
<1>9. ApiInv'
  <2>1. held'[API] = << >> /\ Len(held'[API]) <= 1
    BY <1>2, <1>4, SMTT(30) DEF CallersAlone
  <2> QED
    BY <1>1, <1>2, <2>1, Zenon DEF ApiInv
<1>10. AllInv'
  <2>1. ASSUME NEW u \in Threads, LocksAll(u)'
        PROVE  user[u] \in attached /\ user[u] # g
    <3>1. u \in All \ {API}
      BY GpuLocksAssumption, Zenon DEF All
    <3>2. LocksAll(u)
      BY <1>2, <1>7, <2>1, <3>1, Zenon DEF LocksAll, OnlyOf, CallersAlone
    <3>3. user[u] = g => call[u].kind = "none" /\ Len(held[u]) = 0
      <4>1. CallShape(call[u])
        BY <3>1, InvOf, Zenon
      <4> QED
        BY <1>2, <4>1, NoCallIs, SMTT(30) DEF CallShape
    <3>4. user[u] # g
      BY <3>2, <3>3, NotAll, Zenon
    <3> QED
      BY <1>1, <3>2, <3>4, Zenon DEF AllInv
  <2>2. \A t \in All : \A i \in 1 .. Len(held[t]) :
          held[t][i].kind = "all" => held[t][i].mask = gpusLockableMask
    BY <1>1, Zenon DEF AllInv
  <2> QED
    BY <1>2, <2>1, <2>2, Zenon DEF AllInv, CallersAlone
<1>11. /\ api' \in [pc : ApiPcs, gpu : Gpus \cup {0}]
       /\ changes' \in 0 .. MAX_CHANGES /\ gpusLockableMask' \in SUBSET Gpus
       /\ attached' \subseteq gpusLockableMask'
  BY <1>1, <1>2, GpuLocksAssumption, SMTT(30) DEF ApiPcs
<1>12. OnlyMine(API, call, call', held, held')
  BY <1>2, <1>7, Zenon DEF OnlyOf, OnlyMine, CallersAlone
<1>13. LockInv(gpuLocks', call', held', gpusLockedMask', Live', deferred)
  <2>1. Live' = Live
    BY <1>2, Zenon DEF Live
  <2> QED
    BY <1>2, <1>7, <2>1, Zenon DEF CallersAlone
<1> QED
  BY <1>2, <1>7, <1>8, <1>9, <1>10, <1>11, <1>12, <1>13, ApiFrame, Zenon
       DEF CallersAlone

LEMMA DetachStep ==
  ASSUME IInv, gpumgrDetachGpu
  PROVE  IInv'
<1>1. /\ gpuLocks \in [Gpus -> LockRec] /\ API \in All
      /\ gpusLockableMask \in SUBSET Gpus /\ gpusLockedMask \in SUBSET Gpus
      /\ attached \subseteq gpusLockableMask
      /\ api \in [pc : ApiPcs, gpu : Gpus \cup {0}]
      /\ changes \in 0 .. MAX_CHANGES /\ ApiInv /\ AllInv
  BY ApiFacts
<1>2. /\ api.pc = "shutdown" /\ BeginRelease(API)
      /\ attached' = attached \ {api.gpu} /\ api' = [api EXCEPT !.pc = "detached"]
      /\ UNCHANGED gpuLocks /\ UNCHANGED gpusLockedMask
      /\ UNCHANGED gpusLockableMask /\ changes' = changes
      /\ UNCHANGED deferred /\ UNCHANGED user /\ UNCHANGED calls
  BY Zenon DEF gpumgrDetachGpu
<1>3. /\ held' \in HeldType /\ call' \in [All -> CallRec]
      /\ OnlyMine(API, call, call', held, held') /\ CallShape(call'[API])
      /\ call'[API].kind = "none" /\ call'[API].pc \in {"idle", "release"}
      /\ Len(held[API]) \in Nat \ {0} /\ Len(held'[API]) = Len(held[API]) - 1
      /\ LockInv(gpuLocks, call', held', gpusLockedMask, Live, deferred)
  BY <1>1, <1>2, BeginReleaseLocks, SMTT(30)
<1>4. /\ api' \in [pc : ApiPcs, gpu : Gpus \cup {0}] /\ api'.gpu = api.gpu
      /\ api'.pc = "detached"
  BY <1>1, <1>2, Zenon DEF ApiPcs
<1>5. held'[API] = << >>
  <2>1. Len(held[API]) <= 1
    BY <1>1, <1>2, Zenon DEF ApiInv
  <2>2. Len(held'[API]) = 0
    <3> DEFINE m == Len(held[API])
               k == Len(held'[API])
    <3>1. m \in Nat \ {0} /\ k = m - 1 /\ m <= 1
      BY <1>3, <2>1, Zenon
    <3> HIDE DEF m, k
    <3>2. k = 0
      BY <3>1, SMTT(30)
    <3> QED
      BY <3>2 DEF k
  <2>3. held'[API] \in Seq(HeldRec)
    BY <1>1, <1>3, HeldAt, Zenon
  <2> QED
    BY <2>2, <2>3, SMTT(30)
<1>6. ApiInv'
  <2>1. /\ api'.gpu \in Gpus /\ api'.gpu \in gpusLockableMask' \ attached'
        /\ gpusLockableMask' \subseteq attached' \cup {api'.gpu}
    BY <1>1, <1>2, <1>4, Zenon DEF ApiInv
  <2>2. call'[API].kind = "none" /\ call'[API].pc \in {"idle", "release"}
    BY <1>3
  <2> QED
    BY <1>4, <1>5, <2>1, <2>2, SMTT(30) DEF ApiInv
<1>7. AllInv'
  <2>0. \A u \in All \ {API} : call'[u] = call[u] /\ held'[u] = held[u]
    BY <1>3, SMTT(30) DEF OnlyMine
  <2>1. ASSUME NEW u \in All, NEW i \in 1 .. Len(held'[u]),
               held'[u][i].kind = "all"
        PROVE  held'[u][i].mask = gpusLockableMask
    <3>1. u # API
      BY <1>5
    <3>2. held'[u] = held[u]
      BY <2>0, <3>1, Zenon
    <3> QED
      BY <1>1, <2>1, <3>2, SMTT(30) DEF AllInv
  <2>2. ASSUME NEW u \in Threads, LocksAll(u)'
        PROVE  user[u] \in attached'
    <3>1. u \in All \ {API}
      BY GpuLocksAssumption, Zenon DEF All
    <3>2. LocksAll(u)
      BY <2>0, <2>2, <3>1, SMTT(30) DEF LocksAll
    <3> QED
      BY <1>1, <1>2, <3>2, SMTT(30) DEF AllInv
  <2> QED
    BY <1>2, <1>4, <2>1, <2>2, Zenon DEF AllInv
<1>8. /\ changes' \in 0 .. MAX_CHANGES /\ gpusLockableMask' \in SUBSET Gpus
      /\ attached' \subseteq gpusLockableMask'
      /\ gpuLocks' \in [Gpus -> LockRec] /\ gpusLockedMask' \in SUBSET Gpus
  BY <1>1, <1>2, Zenon
<1>9. LockInv(gpuLocks', call', held', gpusLockedMask', Live', deferred)
  <2>1. Live' = Live
    BY <1>2, <1>4, Zenon DEF Live
  <2> QED
    BY <1>2, <1>3, <2>1, Zenon
<1> QED
  BY <1>2, <1>3, <1>4, <1>6, <1>7, <1>8, <1>9, ApiFrame, Zenon

(* The loop of rmGpuLockFree() hands a unit of the semaphore around.       *)
LEMMA DrainStep ==
  ASSUME IInv, api.pc \in {"removed", "drain"}, NEW v \in Nat,
         SetSema(gpuLocks, gpuLocks', api.gpu, v),
         api.pc = "removed" => call[API].pc = "idle",
         UNCHANGED gpusLockedMask, UNCHANGED call, UNCHANGED gpusLockableMask,
         UNCHANGED attached, changes' = changes, CallersAlone,
         NEW p \in {"removed", "drain"}, api' = [api EXCEPT !.pc = p]
  PROVE  IInv'
<1>1. /\ gpuLocks \in [Gpus -> LockRec] /\ call \in [All -> CallRec]
      /\ CallShape(call[API]) /\ Live \in SUBSET Gpus
      /\ gpusLockableMask \in SUBSET Gpus /\ gpusLockedMask \in SUBSET Gpus
      /\ attached \subseteq gpusLockableMask
      /\ api \in [pc : ApiPcs, gpu : Gpus \cup {0}]
      /\ changes \in 0 .. MAX_CHANGES /\ ApiInv
      /\ LockInv(gpuLocks, call, held, gpusLockedMask, Live, deferred)
  BY ApiFacts
<1>2. /\ api' \in [pc : ApiPcs, gpu : Gpus \cup {0}] /\ api'.gpu = api.gpu
      /\ api'.pc = p
  BY <1>1, Zenon DEF ApiPcs
<1>3. held \in HeldType /\ held' \in HeldType
  BY HeldTyped DEF CallersAlone
<1>4. v \in Nat \cup {NO_SEMA} /\ v # NO_SEMA
  BY GpuLocksAssumption
<1>5. gpuLocks' \in [Gpus -> LockRec] /\ SemaIs(gpuLocks, gpuLocks', api.gpu, v)
  BY <1>1, <1>4, SemaOf, Zenon
<1>6. QuietLock(gpuLocks, gpuLocks') /\ QuietCall(call, call)
  <2>1. api.gpu \in Live
    BY Zenon DEF Live
  <2>2. gpuLocks[api.gpu].pWaitSema # NO_SEMA
    BY <1>1, <2>1, SMTT(30) DEF LockInv, WaitsLive
  <2> QED
    BY <1>4, <1>5, <2>2, SMTT(30) DEF SemaIs, QuietLock, QuietCall
<1>7. LockInv(gpuLocks', call', held', gpusLockedMask', Live', deferred)
  <2>1. Live' = Live
    BY <1>2 DEF Live
  <2>2. LockInv(gpuLocks', call, held, gpusLockedMask, Live, deferred)
    BY <1>1, <1>3, <1>6, QuietLocks, Zenon
  <2> QED
    BY <2>1, <2>2, Zenon DEF CallersAlone
<1>8. ApiInv'
  BY <1>1, <1>2, SMTT(30) DEF ApiInv, CallersAlone
<1>9. OnlyOf(API, call, call') /\ OnlyMine(API, call, call', held, held')
  BY Zenon DEF OnlyOf, OnlyMine, CallersAlone
<1>10. AllInv'
  <2>1. attached \subseteq attached' /\ api'.pc # "shutdown"
    BY <1>2, Zenon
  <2> QED
    BY <1>9, <2>1, AllSame, SMTT(30)
<1>11. /\ changes' \in 0 .. MAX_CHANGES /\ gpusLockableMask' \in SUBSET Gpus
       /\ attached' \subseteq gpusLockableMask' /\ gpusLockedMask' \in SUBSET Gpus
       /\ call' \in [All -> CallRec] /\ CallShape(call'[API])
  BY <1>1
<1> QED
  BY <1>2, <1>3, <1>5, <1>7, <1>8, <1>9, <1>10, <1>11, ApiFrame, Zenon
       DEF CallersAlone

(* The semaphore of the lock that is being freed.                          *)
LEMMA DrainedSema ==
  ASSUME IInv, api.pc \in {"removed", "drain"}
  PROVE  gpuLocks[api.gpu].pWaitSema \in Nat
<1>1. /\ gpuLocks \in [Gpus -> LockRec] /\ Live \in SUBSET Gpus
      /\ WaitsLive(gpuLocks, call, Live)
  BY ApiFacts, Zenon DEF LockInv
<1>2. api.gpu \in Live
  BY Zenon DEF Live
<1>3. gpuLocks[api.gpu] \in LockRec /\ gpuLocks[api.gpu].pWaitSema # NO_SEMA
  BY <1>1, <1>2, SMTT(30) DEF WaitsLive
<1> QED
  BY <1>3, Zenon DEF LockRec

LEMMA DrainReleaseStep ==
  ASSUME IInv, DrainRelease
  PROVE  IInv'
<1> DEFINE v == gpuLocks[api.gpu].pWaitSema + 1
           p == "drain"
<1>1. /\ api.pc = "removed" /\ call[API].pc = "idle"
      /\ SetSema(gpuLocks, gpuLocks', api.gpu, v)
      /\ api' = [api EXCEPT !.pc = p] /\ UNCHANGED gpusLockedMask
      /\ UNCHANGED call /\ UNCHANGED gpusLockableMask /\ UNCHANGED attached
      /\ changes' = changes /\ CallersAlone
  BY Zenon DEF DrainRelease, SetSema, CallerVars, CallersAlone
<1>2. v \in Nat /\ p \in {"removed", "drain"} /\ api.pc \in {"removed", "drain"}
  BY <1>1, DrainedSema, SMTT(30)
<1> HIDE DEF v, p
<1> QED
  BY <1>1, <1>2, DrainStep, Zenon

LEMMA DrainAcquireStep ==
  ASSUME IInv, DrainAcquire
  PROVE  IInv'
<1> DEFINE v == gpuLocks[api.gpu].pWaitSema - 1
           p == "removed"
<1>1. /\ api.pc = "drain" /\ gpuLocks[api.gpu].pWaitSema > 0
      /\ SetSema(gpuLocks, gpuLocks', api.gpu, v)
      /\ api' = [api EXCEPT !.pc = p] /\ UNCHANGED gpusLockedMask
      /\ UNCHANGED call /\ UNCHANGED gpusLockableMask /\ UNCHANGED attached
      /\ changes' = changes /\ CallersAlone
  BY DEF DrainAcquire, SetSema, CallerVars, CallersAlone
<1>2. /\ v \in Nat /\ p \in {"removed", "drain"}
      /\ api.pc \in {"removed", "drain"} /\ api.pc # "removed"
  BY <1>1, DrainedSema, SMTT(30)
<1> HIDE DEF v, p
<1> QED
  BY <1>1, <1>2, DrainStep, Zenon

LEMMA DestroyStep ==
  ASSUME IInv, DestroyLock
  PROVE  IInv'
<1> DEFINE g == api.gpu
<1>1. /\ gpuLocks \in [Gpus -> LockRec] /\ call \in [All -> CallRec]
      /\ CallShape(call[API]) /\ Live \in SUBSET Gpus
      /\ gpusLockableMask \in SUBSET Gpus /\ gpusLockedMask \in SUBSET Gpus
      /\ attached \subseteq gpusLockableMask
      /\ changes \in 0 .. MAX_CHANGES /\ ApiInv
      /\ LockInv(gpuLocks, call, held, gpusLockedMask, Live, deferred)
  BY ApiFacts, Zenon
<1>2. /\ api.pc = "removed" /\ call[API].pc = "idle" /\ gpuLocks[g].count > 0
      /\ gpuLocks' = [gpuLocks EXCEPT ![g] = NoLock]
      /\ api' = [pc |-> "idle", gpu |-> 0] /\ UNCHANGED gpusLockedMask
      /\ UNCHANGED call /\ UNCHANGED gpusLockableMask /\ UNCHANGED attached
      /\ changes' = changes /\ CallersAlone
  BY Zenon DEF DestroyLock, CallerVars, CallersAlone
<1>3. held \in HeldType /\ held' \in HeldType
  BY <1>2, HeldTyped, SMTT(30) DEF CallersAlone
<1>4. /\ g \in Gpus /\ g \in Live /\ Live' = Live \ {g}
      /\ held[API] = << >>
  BY <1>1, <1>2, Zenon DEF Live, ApiInv
<1> HIDE DEF g
<1>5. /\ gpuLocks' \in [Gpus -> LockRec] /\ gpuLocks'[g] = NoLock
      /\ OnlyLock(g, gpuLocks, gpuLocks')
  BY <1>1, <1>2, <1>4, FreshLocks, OneLock, Zenon
<1>6. LockInv(gpuLocks', call', held', gpusLockedMask', Live', deferred)
  <2>1. LockInv(gpuLocks', call, held, gpusLockedMask, Live \ {g}, deferred)
    BY <1>1, <1>2, <1>3, <1>4, <1>5, DestroyedLocks, Zenon
  <2> QED
    BY <1>2, <1>4, <2>1, Zenon DEF CallersAlone
<1>7. ApiInv'
  <2>1. gpusLockableMask' \subseteq attached'
    BY <1>1, <1>2, Zenon DEF ApiInv
  <2>2. held'[API] = << >> /\ call'[API].pc = "idle"
    BY <1>2, <1>4, Zenon DEF CallersAlone
  <2> QED
    BY <1>2, <2>1, <2>2, Zenon DEF ApiInv
<1>8. OnlyOf(API, call, call') /\ OnlyMine(API, call, call', held, held')
  BY <1>2, SMTT(30) DEF OnlyOf, OnlyMine, CallersAlone
<1>9. AllInv'
  <2>1. attached \subseteq attached' /\ api'.pc # "shutdown"
    BY <1>2
  <2> QED
    BY <1>2, <1>8, <2>1, AllSame, SMTT(30)
<1>10. /\ changes' \in 0 .. MAX_CHANGES /\ gpusLockableMask' \in SUBSET Gpus
       /\ attached' \subseteq gpusLockableMask' /\ gpusLockedMask' \in SUBSET Gpus
       /\ call' \in [All -> CallRec] /\ CallShape(call'[API])
       /\ api' \in [pc : ApiPcs, gpu : Gpus \cup {0}]
  BY <1>1, <1>2, Zenon DEF ApiPcs
<1> QED
  BY <1>2, <1>3, <1>5, <1>6, <1>7, <1>8, <1>9, <1>10, ApiFrame, Zenon
       DEF CallersAlone

-----------------------------------------------------------------------------
LEMMA InitInv ==
  ASSUME Init
  PROVE  IInv
<1>1. /\ attached \in SUBSET Gpus
      /\ gpusLockableMask = attached /\ gpusLockedMask = {}
      /\ gpuLocks = [g \in Gpus |-> IF g \in attached THEN NewLock ELSE NoLock]
      /\ call = [t \in All |-> NoCall] /\ held = [t \in All |-> << >>]
      /\ deferred = {} /\ user = [t \in Threads |-> 0]
      /\ api = [pc |-> "idle", gpu |-> 0] /\ calls = 0 /\ changes = 0
  BY Zenon DEF Init
<1>2. /\ gpuLocks \in [Gpus -> LockRec] /\ call \in [All -> CallRec]
      /\ \A t \in All : call[t] = NoCall /\ held[t] = << >> /\ Len(held[t]) = 0
      /\ API \in All
  BY <1>1, FreshLocks, NoCallIs, SMTT(30) DEF All
<1>3. TypeOK
  <2>1. gpuLocks \in [Gpus ->
          [count : Int, bRunning : BOOLEAN, bSignaled : BOOLEAN,
           threadId : All \cup {NO_THREAD}, pWaitSema : Nat \cup {NO_SEMA}]]
    BY <1>2, Zenon DEF LockRec
  <2>2. call \in [All ->
         [pc : {"idle", "sleep", "woken", "leave", "left", "locked", "release",
                "wake", "again"},
          kind : {"none", "all", "group", "device", "isr", "alloc", "free"},
          level : {"passive", "irq", "cond"}, todo : SUBSET Gpus,
          got : SUBSET Gpus, gpu : Gpus \cup {0}, mask : SUBSET Gpus,
          wake : SUBSET Gpus, retry : BOOLEAN]]
    BY <1>2, Zenon DEF CallRec
  <2>3. held \in [All -> Seq([kind : {"all", "group", "device", "isr"},
                              mask : SUBSET Gpus])]
    BY <1>1, SMTT(30)
  <2>4. /\ gpusLockableMask \subseteq Gpus /\ gpusLockedMask \subseteq Gpus
        /\ attached \subseteq gpusLockableMask /\ deferred \subseteq Threads
        /\ user \in [Threads -> Gpus \cup {0}]
        /\ api \in [pc : {"idle", "alloc", "added", "shutdown", "detached",
                          "free", "unwind", "removed", "drain"},
                    gpu : Gpus \cup {0}]
        /\ calls \in 0 .. MAX_CALLS /\ changes \in 0 .. MAX_CHANGES
    BY <1>1, GpuLocksAssumption, SMTT(30)
  <2> QED
    BY <2>1, <2>2, <2>3, <2>4, Zenon DEF TypeOK
<1>4. ShapeInv /\ ApiInv /\ AllInv
  <2>1. ShapeInv
    BY <1>1, <1>2, NoCallIs, SMTT(30) DEF ShapeInv
  <2>2. ApiInv
    BY <1>1, <1>2, NoCallIs, Zenon DEF ApiInv
  <2>3. AllInv
    <3>1. \A t \in Threads : ~LocksAll(t)
      BY <1>2, NoCallIs, SMTT(30) DEF LocksAll, All
    <3> QED
      BY <1>2, <3>1, SMTT(30) DEF AllInv
  <2> QED
    BY <2>1, <2>2, <2>3, Zenon
<1>5. LockInv(gpuLocks, call, held, gpusLockedMask, Live, deferred)
  <2>1. \A t \in All : \A i \in 0 .. Len(held[t]) : Slot(call, held, t, i) = {}
    <3> SUFFICES ASSUME NEW t \in All, NEW i \in 0 .. Len(held[t])
                 PROVE  Slot(call, held, t, i) = {}
      BY Zenon
    <3>1. i \in 0 .. 0
      BY <1>2, Zenon
    <3>2. i = 0
      BY <3>1
    <3> QED
      BY <1>2, <3>2, NoCallIs, SMTT(30) DEF Slot
  <2>2. Exclusive(call, held) /\ OnRecord(gpuLocks, call, held, Live, deferred)
    BY <2>1, Zenon DEF Exclusive, OnRecord
  <2>3. InMask(call, held, gpusLockedMask)
    BY <1>2, NoCallIs, SMTT(30) DEF InMask
  <2>4. \A g \in Gpus : WaitSet(call, g) = {}
    BY <1>2, NoCallIs, Zenon DEF WaitSet, WaitPcs
  <2>5. /\ NewLock.count = 1 /\ ~NewLock.bRunning /\ NewLock.pWaitSema = 0
        /\ NoLock.pWaitSema = NO_SEMA /\ 0 # NO_SEMA
    <3>1. NewLock.count = 1 /\ NewLock.pWaitSema = 0
      BY Zenon DEF NewLock, NoLock
    <3>2. NewLock.bRunning = NoLock.bRunning /\ ~NoLock.bRunning
      BY Zenon DEF NewLock, NoLock
    <3>3. NoLock.pWaitSema = NO_SEMA
      BY Zenon DEF NoLock
    <3> QED
      BY <3>1, <3>2, <3>3, GpuLocksAssumption, SMTT(30)
  <2>6. Counted(gpuLocks, call)
    <3> SUFFICES ASSUME NEW g \in Gpus, gpuLocks[g].pWaitSema # NO_SEMA
                 PROVE  Counts(Sleeping(gpuLocks[g]), WaitSet(call, g))
      BY Zenon DEF Counted
    <3>1. gpuLocks[g] = NewLock
      BY <1>1, <2>5, SMTT(30)
    <3>2. Sleeping(NewLock) = 0
      BY <2>5, FreshCount, Zenon
    <3> QED
      BY <2>4, <3>1, <3>2, CountsNone, SMTT(30)
  <2>7. WaitsLive(gpuLocks, call, Live)
    <3>1. Live = attached
      BY <1>1 DEF Live
    <3>2. \A g \in attached : gpuLocks[g] = NewLock
      BY <1>1, Zenon
    <3> QED
      BY <1>2, <2>5, <3>1, <3>2, NoCallIs, SMTT(30) DEF WaitsLive, WaitPcs
  <2> QED
    BY <2>2, <2>3, <2>6, <2>7, Zenon DEF LockInv
<1> QED
  BY <1>3, <1>4, <1>5, SMTT(30) DEF IInv

LEMMA NextStep ==
  ASSUME IInv, [Next]_vars
  PROVE  IInv'
<1>1. ASSUME NEW t \in All, Step(t)
      PROVE  IInv'
  BY <1>1, SleepStep, WokenStep, LeaveStep, NextInstanceStep, LockedStep,
     ReleaseLocksStep, WakeStep, AgainStep, SMTT(30) DEF Step
<1>2. ASSUME NEW t \in Threads, NEW g \in Gpus, NEW l \in {"passive", "cond"},
             rmGpuLocksAcquire(t, g, l)
      PROVE  IInv'
  BY <1>2, AllStep, SMTT(30)
<1>3. ASSUME NEW t \in Threads, NEW m \in SUBSET Gpus,
             NEW l \in {"passive", "irq"}, rmGpuGroupLockAcquire(t, m, l)
      PROVE  IInv'
  BY <1>3, GroupStep, Zenon
<1>4. ASSUME NEW t \in Threads, NEW g \in Gpus, NEW k \in {"device", "isr"},
             rmDeviceGpuLocksAcquire(t, g, k)
      PROVE  IInv'
  BY <1>4, DeviceStep, SMTT(30)
<1>5. ASSUME NEW t \in Threads, HandOver(t) \/ RmIsrBottomHalf(t) \/ Release(t)
      PROVE  IInv'
  BY <1>5, HandOverStep, BottomHalfStep, ReleaseStep, Zenon
<1>6. ASSUME ApiStep
      PROVE  IInv'
  BY <1>6, AddStep, AttachStep, DetachStep, FreeStep, RemoveStep,
     DrainReleaseStep, DrainAcquireStep, DestroyStep, SMTT(30) DEF ApiStep
<1>7. ASSUME NEW g \in Gpus, rmGpuLockAlloc(g) \/ RmShutdownAdapter(g)
      PROVE  IInv'
  BY <1>7, AllocStep, ShutdownStep, SMTT(30)
<1>8. CASE UNCHANGED vars
  <2>1. /\ gpuLocks' = gpuLocks /\ gpusLockableMask' = gpusLockableMask
        /\ gpusLockedMask' = gpusLockedMask /\ attached' = attached
        /\ call' = call /\ held' = held /\ deferred' = deferred
        /\ user' = user /\ api' = api /\ calls' = calls /\ changes' = changes
    BY <1>8, SMTT(30) DEF vars
  <2>2. TypeOK'
    BY <2>1, Zenon DEF IInv, TypeOK
  <2>3. ShapeInv'
    BY <2>1, Zenon DEF IInv, ShapeInv
  <2>4. ApiInv' /\ AllInv'
    BY <2>1, Zenon DEF IInv, ApiInv, AllInv, LocksAll
  <2>5. LockInv(gpuLocks, call, held, gpusLockedMask, Live, deferred)'
    BY <2>1, Zenon DEF IInv, Live
  <2> QED
    BY <2>2, <2>3, <2>4, <2>5, Zenon DEF IInv
<1> QED
  BY <1>1, <1>2, <1>3, <1>4, <1>5, <1>6, <1>7, <1>8, Zenon DEF Next

(* The invariant holds in every reachable state, for every number of GPUs  *)
(* and threads: what _rmGpuLocksAcquire() and _rmGpuLocksRelease() keep    *)
(* in gpuLocks[], gpusLockedMask and the waiters' semaphores.              *)
THEOREM Invariance == Spec => []IInv
<1>1. Init => IInv
  BY InitInv
<1>2. IInv /\ [Next]_vars => IInv'
  BY NextStep, Zenon
<1> QED
  BY <1>1, <1>2, PTL DEF Spec

(* Every variable of locks.c keeps its type.                               *)
THEOREM TypeCorrect == Spec => []TypeOK
<1>1. IInv => TypeOK
  BY Zenon DEF IInv
<1> QED
  BY <1>1, Invariance, PTL

(* What a thread holds is in its slots.                                    *)
LEMMA HoldsSlots ==
  ASSUME IInv, NEW t \in All, NEW g \in Holds(t)
  PROVE  \E i \in 0 .. Len(held[t]) : g \in Slot(call, held, t, i)
<1>1. Len(held[t]) \in Nat
  BY Typed, HeldLen, Zenon DEF IInv
<1>2. CASE g \in call[t].got \cup call[t].mask
  BY <1>1, <1>2, SMTT(30) DEF Slot
<1>3. CASE \E i \in 1 .. Len(held[t]) : g \in held[t][i].mask
  <2>1. PICK i \in 1 .. Len(held[t]) : g \in held[t][i].mask
    BY <1>3, SMTT(30)
  <2>2. i \in 0 .. Len(held[t]) /\ i # 0
    BY <1>1
  <2> QED
    BY <2>1, <2>2, Zenon DEF Slot
<1> QED
  BY <1>2, <1>3, SMTT(30) DEF Holds

(* No GPU lock has two holders, and the holder is the owner on record      *)
(* unless its bottom half is still to come: for any number of GPUs,        *)
(* threads and callers of locks.c.                                         *)
THEOREM MutualExclusionCorrect == Spec => []MutualExclusion
<1>1. IInv => MutualExclusion
  <2> SUFFICES ASSUME IInv, NEW t \in All, NEW g \in Holds(t)
               PROVE  /\ gpuLocks[g].bRunning
                      /\ gpuLocks[g].threadId =
                           (IF t \in deferred THEN NO_THREAD ELSE t)
                      /\ \A u \in All \ {t} : g \notin Holds(u)
    BY Zenon DEF MutualExclusion
  <2>1. /\ Exclusive(call, held) /\ Live \in SUBSET Gpus
        /\ OnRecord(gpuLocks, call, held, Live, deferred)
    BY ApiFacts, Zenon DEF LockInv
  <2>2. PICK i \in 0 .. Len(held[t]) : g \in Slot(call, held, t, i)
    BY HoldsSlots, Zenon
  <2>3. /\ g \in Gpus /\ gpuLocks[g].bRunning
        /\ gpuLocks[g].threadId = (IF t \in deferred THEN NO_THREAD ELSE t)
    BY <2>1, <2>2, SMTT(30) DEF OnRecord
  <2>4. ASSUME NEW u \in All \ {t}, g \in Holds(u)
        PROVE  FALSE
    <3>1. PICK j \in 0 .. Len(held[u]) : g \in Slot(call, held, u, j)
      BY <2>4, HoldsSlots, SMTT(30)
    <3> QED
      BY <2>1, <2>2, <2>3, <3>1, Zenon DEF Exclusive
  <2> QED
    BY <2>3, <2>4, SMTT(30)
<1> QED
  BY <1>1, Invariance, PTL

(* A count is a cardinality.                                               *)
LEMMA CountsCardinality ==
  ASSUME NEW n, NEW D, Counts(n, D)
  PROVE  Cardinality(D) = n
<1>1. PICK f \in [1 .. n -> D] :
        /\ \A i, j \in 1 .. n : f[i] = f[j] => i = j
        /\ \A d \in D : \E i \in 1 .. n : f[i] = d
  BY Zenon DEF Counts
<1>2. n \in Nat
  BY Zenon DEF Counts
<1>3. ExistsBijection(1 .. n, D)
  <2>1. f \in Injection(1 .. n, D)
    BY <1>1, Zenon DEF Injection, IsInjective
  <2>2. f \in Surjection(1 .. n, D)
    BY <1>1, Zenon DEF Surjection
  <2> QED
    BY <2>1, <2>2, Zenon DEF ExistsBijection, Bijection
<1> QED
  BY <1>2, <1>3, FS_CountingElements, Zenon

(* The count of a lock counts its holder and its waiters.                  *)
THEOREM CountExactCorrect == Spec => []CountExact
<1>1. IInv => CountExact
  <2> SUFFICES ASSUME IInv, NEW g \in Allocated
               PROVE  gpuLocks[g].count =
                        1 - (IF gpuLocks[g].bRunning THEN 1 ELSE 0)
                          - Cardinality(Waiting(g))
    BY Zenon DEF CountExact
  <2>1. Counted(gpuLocks, call) /\ gpuLocks \in [Gpus -> LockRec]
    BY ApiFacts, Zenon DEF LockInv
  <2>2. g \in Gpus /\ gpuLocks[g].pWaitSema # NO_SEMA
    BY Zenon DEF Allocated
  <2>3. Waiting(g) = WaitSet(call, g)
    BY Zenon DEF Waiting, WaitSet, WaitPcs
  <2>4. Cardinality(Waiting(g)) = Sleeping(gpuLocks[g])
    BY <2>1, <2>2, <2>3, CountsCardinality, Zenon DEF Counted
  <2>5. gpuLocks[g].count \in Int
    BY <2>1, <2>2, Zenon DEF LockRec
  <2> QED
    BY <2>4, <2>5, SMTT(30) DEF Sleeping
<1> QED
  BY <1>1, Invariance, PTL

(* rmGpuLockFree() destroys no semaphore that a thread sleeps on or has    *)
(* still to pass on.                                                       *)
THEOREM WaitersHaveSemaphoreCorrect == Spec => []WaitersHaveSemaphore
<1>1. IInv => WaitersHaveSemaphore
  <2> SUFFICES ASSUME IInv, NEW t \in All, call[t].pc \in {"sleep", "leave"}
               PROVE  call[t].gpu \in Allocated
    BY DEF WaitersHaveSemaphore
  <2>1. WaitsLive(gpuLocks, call, Live) /\ Live \in SUBSET Gpus
    BY ApiFacts, Zenon DEF LockInv
  <2> QED
    BY <2>1, Zenon DEF WaitsLive, WaitPcs, Allocated
<1> QED
  BY <1>1, Invariance, PTL

(* The set of GPUs changes only while nobody else holds a lock of a GPU    *)
(* other than the one that rmGpuLockAlloc() adds or rmGpuLockFree()        *)
(* removes.                                                                *)
THEOREM MaskStableCorrect == Spec => MaskStable
<1> DEFINE Quiet == gpusLockableMask' # gpusLockableMask =>
                      \A t \in Threads : Holds(t) \subseteq {api.gpu}
<1>1. IInv /\ [Next]_vars => [Quiet]_vars
  <2> SUFFICES ASSUME IInv, Next, gpusLockableMask' # gpusLockableMask
               PROVE  \A t \in Threads : Holds(t) \subseteq {api.gpu}
    BY DEF vars
  <2>1. AddLockable \/ RemoveLockable
    <3>1. ASSUME NEW t \in All, Step(t)
          PROVE  FALSE
      <4>1. CASE Sleep(t) \/ Woken(t) \/ Leave(t) \/ NextInstance(t)
        BY <4>1, Zenon DEF Sleep, Woken, Leave, NextInstance, ApiVars
      <4>2. CASE Locked(t) \/ ReleaseLocks(t)
        BY <4>2, Zenon DEF Locked, ReleaseLocks, ApiVars
      <4>3. CASE Wake(t) \/ Again(t)
        BY <4>3, Zenon DEF Wake, Again, ApiVars
      <4> QED
        BY <3>1, <4>1, <4>2, <4>3, SMTT(30) DEF Step
    <3>2. ASSUME NEW t \in Threads, HandOver(t) \/ RmIsrBottomHalf(t) \/ Release(t)
          PROVE  FALSE
      BY <3>2, Zenon DEF HandOver, RmIsrBottomHalf, Release, ApiVars
    <3>3. ASSUME NEW t \in Threads, Begin(t)
          PROVE  FALSE
      BY <3>3, Zenon DEF Begin, ApiVars
    <3>4. ASSUME NEW g \in Gpus, rmGpuLockAlloc(g) \/ RmShutdownAdapter(g)
          PROVE  FALSE
      BY <3>4, Zenon DEF rmGpuLockAlloc, RmShutdownAdapter
    <3>5. ASSUME ApiStep
          PROVE  AddLockable \/ RemoveLockable
      BY <3>5, Zenon DEF ApiStep, gpumgrAttachGpu, gpumgrDetachGpu, rmGpuLockFree,
                  DrainRelease, DrainAcquire, DestroyLock
    <3> QED
      BY <3>1, <3>2, <3>3, <3>4, <3>5, Zenon
           DEF Next, rmGpuLocksAcquire, rmGpuGroupLockAcquire,
               rmDeviceGpuLocksAcquire
  <2>2. api.pc \in {"alloc", "free", "unwind"} /\ call[API].pc = "locked"
    BY <2>1, SMTT(30) DEF AddLockable, RemoveLockable
  <2>3. \A t \in Threads : \A i \in 0 .. Len(held[t]) :
          Slot(call, held, t, i) \subseteq {api.gpu}
    BY <2>2, OthersLockedOut, Zenon
  <2> SUFFICES ASSUME NEW t \in Threads, NEW g \in Holds(t)
               PROVE  g = api.gpu
    BY Zenon
  <2>4. t \in All
    BY Zenon DEF All
  <2>5. PICK i \in 0 .. Len(held[t]) : g \in Slot(call, held, t, i)
    BY <2>4, HoldsSlots, Zenon
  <2> QED
    BY <2>3, <2>5, Zenon
<1> QED
  BY <1>1, Invariance, PTL DEF Spec, MaskStable

=============================================================================

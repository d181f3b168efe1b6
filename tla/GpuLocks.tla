------------------------------ MODULE GpuLocks ------------------------------
(***************************************************************************)
(* The GPU locks of the resource manager (locks.c): one lock per GPU,      *)
(* taken for single GPUs, for all of them or conditionally by interrupt    *)
(* handlers, while a thread with the API lock adds and removes GPUs.       *)
(*                                                                         *)
(* A step is a critical section of the spinlock, or what happens between   *)
(* two of them.  Semaphores can be released at any level here              *)
(* (portSyncExSafeToWake() is NV_TRUE), which leaves the DPC release and   *)
(* its work-around out; so are QuadroSync, hidden GPUs, priorities and the *)
(* masking of interrupts.  Threads do not take a lock recursively.         *)
(***************************************************************************)
EXTENDS Integers, Sequences, FiniteSetsExt

CONSTANTS Gpus,         \* GPU instances
          Threads,      \* threads, timers and interrupt handlers
          API,          \* the thread that holds the API lock
          NO_THREAD,    \* ~0, also GPUS_LOCK_OWNER_PENDING_DPC_REFRESH
          NO_SEMA,      \* pWaitSema of a lock that is not allocated
          MAX_CALLS,    \* bound: acquire calls
          MAX_CHANGES   \* bound: GPUs added and removed

VARIABLES gpuLocks, gpusLockableMask, gpusLockedMask,
          attached,     \* GPUs the GPU manager knows
          call,         \* per thread, the lock call in progress
          held,         \* per thread, what its callers have to release
          deferred,     \* interrupt handlers that left the lock to their DPC
          user,         \* per thread, the GPU that it locks all GPUs for
          api,          \* what the thread with the API lock does
          calls,        \* bound: acquire calls so far
          changes       \* bound: GPUs added and removed so far

vars == <<gpuLocks, gpusLockableMask, gpusLockedMask, attached, call, held,
          deferred, user, api, calls, changes>>

(* What only the thread with the API lock changes, and what only the      *)
(* callers of the lock functions do.                                       *)
ApiVars == <<gpusLockableMask, attached, api, changes>>
CallerVars == <<held, deferred, user, calls>>

All == Threads \cup {API}

ASSUME GpuLocksAssumption ==
  /\ Gpus \subseteq Nat \ {0} /\ IsFiniteSet(Gpus) /\ IsFiniteSet(Threads)
  /\ API \notin Threads /\ NO_THREAD \notin All /\ NO_SEMA \notin Int
  /\ MAX_CALLS \in Nat /\ MAX_CHANGES \in Nat

(* Zeroed memory.                                                          *)
NoLock == [count |-> 0, bRunning |-> FALSE, bSignaled |-> FALSE,
           threadId |-> NO_THREAD, pWaitSema |-> NO_SEMA]

NewLock == [NoLock EXCEPT !.count = 1, !.pWaitSema = 0]

(* kind: the caller of _rmGpuLocksAcquire(); todo: the GPUs still to lock, *)
(* got: those locked; gpu: the one waited for; mask, wake: what a release  *)
(* releases and wakes.                                                     *)
NoCall == [pc |-> "idle", kind |-> "none", level |-> "passive", todo |-> {},
           got |-> {}, gpu |-> 0, mask |-> {}, wake |-> {}, retry |-> FALSE]

TypeOK ==
  /\ gpuLocks \in [Gpus ->
       [count : Int, bRunning : BOOLEAN, bSignaled : BOOLEAN,
        threadId : All \cup {NO_THREAD}, pWaitSema : Nat \cup {NO_SEMA}]]
  /\ gpusLockableMask \subseteq Gpus /\ gpusLockedMask \subseteq Gpus
  /\ attached \subseteq gpusLockableMask
  /\ call \in [All ->
       [pc : {"idle", "sleep", "woken", "leave", "left", "locked", "release",
              "wake", "again"},
        kind : {"none", "all", "group", "device", "isr", "alloc", "free"},
        level : {"passive", "irq", "cond"}, todo : SUBSET Gpus,
        got : SUBSET Gpus, gpu : Gpus \cup {0}, mask : SUBSET Gpus,
        wake : SUBSET Gpus, retry : BOOLEAN]]
  /\ held \in [All -> Seq([kind : {"all", "group", "device", "isr"},
                           mask : SUBSET Gpus])]
  /\ deferred \subseteq Threads /\ user \in [Threads -> Gpus \cup {0}]
  /\ api \in [pc : {"idle", "alloc", "added", "shutdown", "detached", "free",
                    "unwind", "removed", "drain"}, gpu : Gpus \cup {0}]
  /\ calls \in 0 .. MAX_CALLS /\ changes \in 0 .. MAX_CHANGES

(* Any GPUs may have been attached before.                                 *)
Init ==
  /\ attached \in SUBSET Gpus
  /\ gpusLockableMask = attached /\ gpusLockedMask = {}
  /\ gpuLocks = [g \in Gpus |-> IF g \in attached THEN NewLock ELSE NoLock]
  /\ call = [t \in All |-> NoCall] /\ held = [t \in All |-> << >>]
  /\ deferred = {} /\ user = [t \in Threads |-> 0]
  /\ api = [pc |-> "idle", gpu |-> 0]
  /\ calls = 0 /\ changes = 0

-----------------------------------------------------------------------------
(* _rmGpuLocksAcquire().                                                   *)

(* rmGpuLocksGetOwnedMask()                                                *)
Owned(t) == {g \in gpusLockableMask : gpuLocks[g].threadId = t}

(* The loop over the GPUs in ascending order: it takes those that are free *)
(* up to the first that is not, and waits for that one.                    *)
Loop(t, c, locks) ==
  LET live == c.todo \cap gpusLockableMask
      busy == {g \in live : c.level # "cond" /\ locks[g].count <= 0}
      take == {g \in live : \A b \in busy : g < b}
      wait == {g \in busy : \A b \in busy : g <= b}
      got  == c.got \cup take
  IN  /\ gpuLocks' = [g \in Gpus |->
           CASE g \in take -> [locks[g] EXCEPT !.count = @ - 1,
                                 !.bRunning = TRUE, !.threadId = t]
             [] g \in wait -> [locks[g] EXCEPT !.count = @ - 1]
             [] OTHER -> locks[g]]
      /\ \/ /\ busy = {}
            /\ call' = [call EXCEPT ![t] =
                          [c EXCEPT !.pc = "locked", !.todo = {}, !.got = got]]
            /\ gpusLockedMask' = gpusLockedMask \cup got
         \/ \E g \in wait :
              /\ call' = [call EXCEPT ![t] =
                            [c EXCEPT !.pc = "sleep", !.gpu = g, !.got = got,
                                      !.todo = {h \in c.todo : h > g}]]
              /\ UNCHANGED gpusLockedMask

(* The checks before the loop.  The call returns an error when they fail;  *)
(* level is "passive" where the thread can sleep, "irq" where it cannot,   *)
(* and "cond" for GPU_LOCK_FLAGS_COND_ACQUIRE.                             *)
Available(mask, level) ==
  /\ level = "cond" => \A g \in mask : ~gpuLocks[g].bRunning
  /\ level = "irq" => \A g \in mask : gpuLocks[g].count > 0

Acquire(t, kind, mask, level, retry) ==
  /\ Available(mask, level)
  /\ Loop(t, [NoCall EXCEPT !.kind = kind, !.level = level, !.todo = mask,
                            !.retry = retry], gpuLocks)

(* portSyncSemaphoreAcquire()                                              *)
Sleep(t) ==
  LET g == call[t].gpu IN
  /\ call[t].pc = "sleep" /\ gpuLocks[g].pWaitSema \in Nat \ {0}
  /\ gpuLocks' = [gpuLocks EXCEPT ![g].pWaitSema = @ - 1]
  /\ call' = [call EXCEPT ![t].pc = "woken"]
  /\ UNCHANGED <<gpusLockedMask, ApiVars, CallerVars>>

(* Mistake: a thread that was woken takes the lock as it is.               *)
WokenOnce(t) ==
  LET g == call[t].gpu IN
  /\ call[t].pc = "woken"
  /\ \/ /\ g \notin gpusLockableMask
        /\ call' = [call EXCEPT ![t].pc = "leave"]
        /\ UNCHANGED <<gpuLocks, gpusLockedMask>>
     \/ /\ g \in gpusLockableMask
        /\ Loop(t, [call[t] EXCEPT !.got = @ \cup {g}],
                [gpuLocks EXCEPT ![g].bSignaled = FALSE,
                                 ![g].bRunning = TRUE, ![g].threadId = t])
  /\ UNCHANGED <<ApiVars, CallerVars>>

(* The spinlock is held again.  Another thread may have been faster.       *)
Woken(t) ==
  LET g == call[t].gpu
      signal == [gpuLocks EXCEPT ![g].bSignaled = FALSE]
  IN
  /\ call[t].pc = "woken"
  /\ \/ /\ g \notin gpusLockableMask
        /\ call' = [call EXCEPT ![t].pc = "leave"]
        /\ UNCHANGED <<gpuLocks, gpusLockedMask>>
     \/ /\ g \in gpusLockableMask /\ gpuLocks[g].bRunning
        /\ gpuLocks' = signal
        /\ call' = [call EXCEPT ![t].pc = "sleep"]
        /\ UNCHANGED gpusLockedMask
     \/ /\ g \in gpusLockableMask /\ ~gpuLocks[g].bRunning
        /\ Loop(t, [call[t] EXCEPT !.got = @ \cup {g}],
                [signal EXCEPT ![g].bRunning = TRUE, ![g].threadId = t])
  /\ UNCHANGED <<ApiVars, CallerVars>>

(* Mistake: the semaphore is not passed on.                                *)
LeaveSilently(t) ==
  /\ call[t].pc = "leave"
  /\ call' = [call EXCEPT ![t].pc = "left"]
  /\ UNCHANGED <<gpuLocks, gpusLockedMask, ApiVars, CallerVars>>

(* The lock was freed meanwhile: the semaphore is passed on outside the    *)
(* spinlock, then the loop goes on with the next GPU.                      *)
Leave(t) ==
  LET g == call[t].gpu IN
  /\ call[t].pc = "leave"
  /\ gpuLocks' = [gpuLocks EXCEPT ![g].pWaitSema = @ + 1]
  /\ call' = [call EXCEPT ![t].pc = "left"]
  /\ UNCHANGED <<gpusLockedMask, ApiVars, CallerVars>>

(* Mistake: the thread still counts as a waiter.                           *)
NextInstanceUncounted(t) ==
  /\ call[t].pc = "left"
  /\ Loop(t, call[t], gpuLocks)
  /\ UNCHANGED <<ApiVars, CallerVars>>

NextInstance(t) ==
  /\ call[t].pc = "left"
  /\ Loop(t, call[t], [gpuLocks EXCEPT ![call[t].gpu].count = @ + 1])
  /\ UNCHANGED <<ApiVars, CallerVars>>

-----------------------------------------------------------------------------
(* The callers.  A call that returns an error before the loop changes      *)
(* nothing, nor does one that finds nothing to lock.                       *)

(* A thread at the beginning of a call.  Only a caller that already holds  *)
(* locks passes GPU_LOCK_FLAGS_SAFE_LOCK_UPGRADE.                          *)
Begin(t) ==
  /\ call[t].pc = "idle" /\ t \notin deferred
  /\ calls < MAX_CALLS /\ calls' = calls + 1
  /\ UNCHANGED <<ApiVars, held, deferred>>

(* rmGpuLocksAcquire(), for a GPU that is not shut down while its caller   *)
(* is about (a timer or a power transition of that GPU).                   *)
rmGpuLocksAcquire(t, g, level) ==
  /\ Begin(t) /\ held[t] = << >> /\ g \in attached \ {api.gpu}
  /\ user' = [user EXCEPT ![t] = g]
  /\ Acquire(t, "all", gpusLockableMask, level, FALSE)

(* rmGpuGroupLockAcquire(), without and with the upgrade: the conditional  *)
(* acquire keeps a thread from waiting against the order of the locks.     *)
rmGpuGroupLockAcquire(t, mask, level) ==
  LET m == (mask \cap gpusLockableMask) \ Owned(t)
      ordered == \A o \in Owned(t), g \in m : o < g
  IN
  /\ Begin(t) /\ Len(held[t]) < 2 /\ m # {} /\ UNCHANGED user
  /\ Acquire(t, "group", m, IF ordered THEN level ELSE "cond", FALSE)

(* rmDeviceGpuLocksAcquire().  The GPU was attached when the call began;   *)
(* by now it may be on its way out.  An interrupt handler acquires         *)
(* conditionally.                                                          *)
rmDeviceGpuLocksAcquire(t, g, kind) ==
  /\ Begin(t) /\ held[t] = << >> /\ g \in gpusLockableMask /\ UNCHANGED user
  /\ g \in attached \/ (api.gpu = g /\ api.pc \in {"detached", "free"})
  /\ Acquire(t, kind, {g}, IF kind = "isr" THEN "cond" ELSE "passive", FALSE)

Keep(t) ==
  /\ held' = [held EXCEPT ![t] = Append(@, [kind |-> call[t].kind,
                                            mask |-> call[t].got])]
  /\ call' = [call EXCEPT ![t] = NoCall]

GiveBack(t) ==
  /\ call' = [call EXCEPT ![t].pc = "release", ![t].mask = call[t].got]
  /\ UNCHANGED held

(* The checks on the locks that were acquired: all of them, when a GPU was *)
(* added meanwhile; the GPU that was to be locked, when it was removed.    *)
Locked(t) ==
  /\ call[t].pc = "locked"
  /\ \/ call[t].kind = "all" /\ call[t].got = gpusLockableMask /\ Keep(t)
     \/ call[t].kind = "all" /\ call[t].got # gpusLockableMask /\ GiveBack(t)
     \/ call[t].kind = "group" /\ Keep(t)
     \/ /\ call[t].kind \in {"device", "isr"}
        /\ call[t].got # {} /\ call[t].got \subseteq attached /\ Keep(t)
     \/ /\ call[t].kind \in {"device", "isr"}
        /\ call[t].got = {} \/ ~(call[t].got \subseteq attached)
        /\ GiveBack(t)
  /\ UNCHANGED <<gpuLocks, gpusLockedMask, ApiVars, deferred, user, calls>>

(* The interrupt handler leaves the lock to its bottom half, another       *)
(* thread: rmDeviceGpuLockSetOwner(GPUS_LOCK_OWNER_PENDING_DPC_REFRESH).   *)
HandOver(t) ==
  /\ call[t].pc = "idle" /\ t \notin deferred
  /\ Len(held[t]) = 1 /\ held[t][1].kind = "isr"
  /\ gpuLocks' = [g \in Gpus |->
       IF g \in held[t][1].mask
       THEN [gpuLocks[g] EXCEPT !.threadId = NO_THREAD] ELSE gpuLocks[g]]
  /\ deferred' = deferred \cup {t}
  /\ UNCHANGED <<gpusLockedMask, call, ApiVars, held, user, calls>>

(* RmIsrBottomHalf() refreshes the owner; in the end it releases the lock. *)
RmIsrBottomHalf(t) ==
  /\ t \in deferred
  /\ gpuLocks' = [g \in Gpus |->
       IF g \in held[t][1].mask
       THEN [gpuLocks[g] EXCEPT !.threadId = t] ELSE gpuLocks[g]]
  /\ deferred' = deferred \ {t}
  /\ held' = [held EXCEPT ![t][1].kind = "device"]
  /\ UNCHANGED <<gpusLockedMask, call, ApiVars, user, calls>>

-----------------------------------------------------------------------------
(* _rmGpuLocksRelease().                                                   *)

(* rmGpuLocksRelease() takes what is locked for what its caller locked;    *)
(* the other callers pass their mask.                                      *)
ReleaseMask(t) ==
  LET last == held[t][Len(held[t])] IN
  IF last.kind = "all" THEN gpusLockedMask \cap gpusLockableMask ELSE last.mask

BeginRelease(t) ==
  /\ call[t].pc = "idle" /\ t \notin deferred /\ held[t] # << >>
  /\ call' = [call EXCEPT ![t] =
       IF ReleaseMask(t) = {} THEN NoCall
       ELSE [NoCall EXCEPT !.pc = "release", !.mask = ReleaseMask(t)]]
  /\ held' = [held EXCEPT ![t] = SubSeq(@, 1, Len(@) - 1)]

Release(t) ==
  /\ BeginRelease(t)
  /\ user' = [user EXCEPT ![t] = IF Len(held[t]) = 1 THEN 0 ELSE @]
  /\ UNCHANGED <<gpuLocks, gpusLockedMask, ApiVars, deferred, calls>>

(* What is left to do of a release: the semaphores, and a second attempt   *)
(* to lock all GPUs if none had to be released.                            *)
Rest(c) ==
  IF c.wake # {} THEN [c EXCEPT !.pc = "wake"]
  ELSE IF c.kind = "all" /\ ~c.retry THEN [c EXCEPT !.pc = "again"]
  ELSE NoCall

ReleaseLocks(t) ==
  LET mask == call[t].mask \cap gpusLockedMask
      wake == {g \in mask : gpuLocks[g].count < 0 /\ ~gpuLocks[g].bSignaled}
  IN
  /\ call[t].pc = "release"
  /\ gpuLocks' = [g \in Gpus |->
       IF g \in mask
       THEN [gpuLocks[g] EXCEPT !.count = @ + 1, !.bRunning = FALSE,
               !.threadId = NO_THREAD, !.bSignaled = @ \/ g \in wake]
       ELSE gpuLocks[g]]
  /\ gpusLockedMask' = gpusLockedMask \ mask
  /\ call' = [call EXCEPT ![t] =
       Rest([call[t] EXCEPT !.got = {}, !.mask = {}, !.wake = wake,
                            !.retry = @ \/ wake # {}])]
  /\ UNCHANGED <<ApiVars, CallerVars>>

(* Mistake: only the highest semaphore is released.                        *)
WakeHighestOnly(t) ==
  LET g == Max(call[t].wake) IN
  /\ call[t].pc = "wake"
  /\ gpuLocks' = [gpuLocks EXCEPT ![g].pWaitSema =
                    IF @ = NO_SEMA THEN @ ELSE @ + 1]
  /\ call' = [call EXCEPT ![t] = Rest([call[t] EXCEPT !.wake = {}])]
  /\ UNCHANGED <<gpusLockedMask, ApiVars, CallerVars>>

(* portSyncSemaphoreRelease(), after the spinlock: by now rmGpuLockFree()  *)
(* may have destroyed the semaphore, and rmGpuLockAlloc() made another.    *)
Wake(t) ==
  LET g == Max(call[t].wake) IN
  /\ call[t].pc = "wake"
  /\ gpuLocks' = [gpuLocks EXCEPT ![g].pWaitSema =
                    IF @ = NO_SEMA THEN @ ELSE @ + 1]
  /\ call' = [call EXCEPT ![t] = Rest([call[t] EXCEPT !.wake = @ \ {g}])]
  /\ UNCHANGED <<gpusLockedMask, ApiVars, CallerVars>>

(* The second attempt of rmGpuLocksAcquire().  It comes after a wait: a    *)
(* call that cannot sleep takes its locks in one critical section, and as  *)
(* the GPU of its caller is attached the mask does not change after it.    *)
Again(t) ==
  /\ call[t].pc = "again"
  /\ Acquire(t, "all", gpusLockableMask, call[t].level, TRUE)
  /\ UNCHANGED <<ApiVars, CallerVars>>

-----------------------------------------------------------------------------
(* The thread that holds the API lock adds and removes GPUs.               *)

(* rmGpuLockAlloc() and rmGpuLockFree() lock the other GPUs first; with    *)
(* none, there is nothing to do and they go on.                            *)
LockOthers(kind, mask, locks) ==
  IF mask = {}
  THEN /\ call' = [call EXCEPT ![API] =
                     [NoCall EXCEPT !.pc = "locked", !.kind = kind]]
       /\ gpuLocks' = locks /\ UNCHANGED gpusLockedMask
  ELSE Loop(API, [NoCall EXCEPT !.kind = kind, !.todo = mask], locks)

UnlockOthers ==
  call' = [call EXCEPT ![API].pc = "release", ![API].mask = call[API].got]

(* Mistake: the other GPUs are not locked.                                 *)
AllocWithoutLocks(g) ==
  /\ api.pc = "idle" /\ g \notin gpusLockableMask /\ changes < MAX_CHANGES
  /\ LockOthers("alloc", {}, [gpuLocks EXCEPT ![g] = NewLock])
  /\ api' = [pc |-> "alloc", gpu |-> g]
  /\ changes' = changes + 1
  /\ UNCHANGED <<gpusLockableMask, attached, CallerVars>>

rmGpuLockAlloc(g) ==
  /\ api.pc = "idle" /\ g \notin gpusLockableMask /\ changes < MAX_CHANGES
  /\ LockOthers("alloc", gpusLockableMask, [gpuLocks EXCEPT ![g] = NewLock])
  /\ api' = [pc |-> "alloc", gpu |-> g]
  /\ changes' = changes + 1
  /\ UNCHANGED <<gpusLockableMask, attached, CallerVars>>

AddLockable ==
  /\ api.pc = "alloc" /\ call[API].pc = "locked"
  /\ gpusLockableMask' = gpusLockableMask \cup {api.gpu}
  /\ UnlockOthers
  /\ api' = [api EXCEPT !.pc = "added"]
  /\ UNCHANGED <<gpuLocks, gpusLockedMask, attached, changes, CallerVars>>

gpumgrAttachGpu ==
  /\ api.pc = "added" /\ call[API].pc = "idle"
  /\ attached' = attached \cup {api.gpu}
  /\ api' = [pc |-> "idle", gpu |-> 0]
  /\ UNCHANGED <<gpuLocks, gpusLockedMask, call, gpusLockableMask, changes,
                 CallerVars>>

(* RmShutdownAdapter() locks all GPUs, detaches its own, unlocks them, and *)
(* only then frees the lock.                                               *)
RmShutdownAdapter(g) ==
  /\ api.pc = "idle" /\ g \in attached /\ changes < MAX_CHANGES
  /\ \A t \in Threads : user[t] = g => call[t].pc = "idle" /\ held[t] = << >>
  /\ Acquire(API, "all", gpusLockableMask, "passive", FALSE)
  /\ api' = [pc |-> "shutdown", gpu |-> g]
  /\ changes' = changes + 1
  /\ UNCHANGED <<gpusLockableMask, attached, CallerVars>>

gpumgrDetachGpu ==
  /\ api.pc = "shutdown" /\ BeginRelease(API)
  /\ attached' = attached \ {api.gpu}
  /\ api' = [api EXCEPT !.pc = "detached"]
  /\ UNCHANGED <<gpuLocks, gpusLockedMask, gpusLockableMask, changes,
                 deferred, user, calls>>

(* rmGpuLockFree(), also when gpumgrAttachGpu() failed.                    *)
rmGpuLockFree ==
  /\ api.pc \in {"detached", "added"} /\ call[API].pc = "idle"
  /\ LockOthers("free", gpusLockableMask \cap attached, gpuLocks)
  /\ api' = [api EXCEPT !.pc = IF @ = "added" THEN "unwind" ELSE "free"]
  /\ UNCHANGED <<gpusLockableMask, attached, changes, CallerVars>>

RemoveLockable ==
  /\ api.pc \in {"free", "unwind"} /\ call[API].pc = "locked"
  /\ gpusLockableMask' = gpusLockableMask \ {api.gpu}
  /\ UnlockOthers
  /\ api' = [api EXCEPT !.pc = "removed"]
  /\ UNCHANGED <<gpuLocks, gpusLockedMask, attached, changes, CallerVars>>

(* The loop that waits for the threads that still use the lock: it         *)
(* releases the semaphore, yields, and acquires it.                        *)
DrainRelease ==
  /\ api.pc = "removed" /\ call[API].pc = "idle"
  /\ gpuLocks[api.gpu].count <= 0
  /\ gpuLocks' = [gpuLocks EXCEPT ![api.gpu].pWaitSema = @ + 1]
  /\ api' = [api EXCEPT !.pc = "drain"]
  /\ UNCHANGED <<gpusLockedMask, call, gpusLockableMask, attached, changes,
                 CallerVars>>

DrainAcquire ==
  /\ api.pc = "drain" /\ gpuLocks[api.gpu].pWaitSema > 0
  /\ gpuLocks' = [gpuLocks EXCEPT ![api.gpu].pWaitSema = @ - 1]
  /\ api' = [api EXCEPT !.pc = "removed"]
  /\ UNCHANGED <<gpusLockedMask, call, gpusLockableMask, attached, changes,
                 CallerVars>>

(* Mistake: the lock is destroyed without waiting.                         *)
DestroyAtOnce ==
  /\ api.pc = "removed" /\ call[API].pc = "idle"
  /\ gpuLocks' = [gpuLocks EXCEPT ![api.gpu] = NoLock]
  /\ api' = [pc |-> "idle", gpu |-> 0]
  /\ UNCHANGED <<gpusLockedMask, call, gpusLockableMask, attached, changes,
                 CallerVars>>

DestroyLock ==
  /\ api.pc = "removed" /\ call[API].pc = "idle"
  /\ gpuLocks[api.gpu].count > 0
  /\ gpuLocks' = [gpuLocks EXCEPT ![api.gpu] = NoLock]
  /\ api' = [pc |-> "idle", gpu |-> 0]
  /\ UNCHANGED <<gpusLockedMask, call, gpusLockableMask, attached, changes,
                 CallerVars>>

-----------------------------------------------------------------------------
Step(t) ==
  \/ Sleep(t) \/ Woken(t) \/ Leave(t) \/ NextInstance(t) \/ Locked(t)
  \/ ReleaseLocks(t) \/ Wake(t) \/ Again(t)

ApiStep ==
  \/ AddLockable \/ gpumgrAttachGpu \/ gpumgrDetachGpu \/ rmGpuLockFree
  \/ RemoveLockable \/ DrainRelease \/ DrainAcquire \/ DestroyLock

Next ==
  \/ \E t \in All : Step(t)
  \/ \E t \in Threads :
       \/ \E g \in Gpus, l \in {"passive", "cond"} :
            rmGpuLocksAcquire(t, g, l)
       \/ \E m \in SUBSET Gpus, l \in {"passive", "irq"} :
            rmGpuGroupLockAcquire(t, m, l)
       \/ \E g \in Gpus, k \in {"device", "isr"} :
            rmDeviceGpuLocksAcquire(t, g, k)
       \/ HandOver(t) \/ RmIsrBottomHalf(t) \/ Release(t)
  \/ ApiStep
  \/ \E g \in Gpus : rmGpuLockAlloc(g) \/ RmShutdownAdapter(g)

Spec == Init /\ [][Next]_vars

(* Threads run, callers release what they locked, and a thread that waits  *)
(* for a semaphore is not passed over for ever.                            *)
Fairness ==
  /\ \A t \in Threads : WF_vars(Step(t) \/ Release(t) \/ RmIsrBottomHalf(t))
  /\ WF_vars(Step(API) \/ ApiStep)
  /\ \A t \in All : SF_vars(Sleep(t))

FairSpec == Spec /\ Fairness

-----------------------------------------------------------------------------
(* The locks that thread t holds or is about to release.                   *)
Holds(t) == call[t].got \cup call[t].mask \cup
            UNION {held[t][i].mask : i \in 1 .. Len(held[t])}

Waiting(g) ==
  {t \in All : /\ call[t].gpu = g
              /\ call[t].pc \in {"sleep", "woken", "leave", "left"}}

Allocated == {g \in Gpus : gpuLocks[g].pWaitSema # NO_SEMA}

(* No GPU lock has two holders, whatever way its holders took it, and the  *)
(* holder is the owner on record unless its bottom half is still to come.  *)
(* In particular rmGpuLocksRelease(), which releases what it finds locked, *)
(* releases nobody else's lock.                                            *)
MutualExclusion ==
  \A t \in All : \A g \in Holds(t) :
    /\ gpuLocks[g].bRunning
    /\ gpuLocks[g].threadId = (IF t \in deferred THEN NO_THREAD ELSE t)
    /\ \A u \in All \ {t} : g \notin Holds(u)

(* The count of a lock, which decides who waits, who is woken and when the *)
(* lock can be destroyed, counts the holder and those who wait, through    *)
(* conditional acquires that overtake a thread already woken.              *)
CountExact ==
  \A g \in Allocated :
    gpuLocks[g].count =
      1 - (IF gpuLocks[g].bRunning THEN 1 ELSE 0) - Cardinality(Waiting(g))

(* rmGpuLockFree() waits for those who wait: it destroys no semaphore that *)
(* a thread sleeps on or still has to pass on.                             *)
WaitersHaveSemaphore ==
  \A t \in All : call[t].pc \in {"sleep", "leave"} => call[t].gpu \in Allocated

(* The set of GPUs changes only while no thread holds a lock of any GPU    *)
(* but the one that is added or removed (rmGpuLockAlloc() locks "all other *)
(* GPUs" so that the mask "cannot change in between acquire/release").     *)
MaskStable ==
  [][gpusLockableMask' # gpusLockableMask =>
       \A t \in Threads : Holds(t) \subseteq {api.gpu}]_vars

(* Every call of the threads returns, although GPUs are removed under them.*)
CallsReturn == \A t \in Threads : call[t].pc # "idle" ~> call[t].pc = "idle"

(* Adding or removing a GPU ends: rmGpuLockFree() waits for the threads    *)
(* that still use the lock, and they all leave.                            *)
ChangesEnd == api.pc # "idle" ~> api.pc = "idle"

(* "Binary semaphore" (the declaration of pWaitSema): no second unit while *)
(* the lock is in use.                                                     *)
(* TLC refutes this: README, section 4.                                    *)
SemaphoreBinary ==
  \A g \in gpusLockableMask : gpuLocks[g].pWaitSema \in {0, 1}

(* rmGpuLockFree() waits "until the holding one is done": the semaphore    *)
(* that a release is about to signal still exists.                         *)
(* TLC refutes this: README, section 4.                                    *)
HolderDone == \A t \in All : call[t].wake \subseteq Allocated
=============================================================================

# TLA+ models of the GPU driver's concurrent core

The repository holds NVIDIA's open GPU kernel modules (535.113.01) ported to the
Nanos unikernel: the resource manager (RM, `src/nvidia`), its OS layer
(`kernel-open/nvidia`), unified memory (UVM, `kernel-open/nvidia-uvm`), and
display, DRM and NVLink code that the port does not use. Paths in this document
are relative to `src/`; UVM files are in `kernel-open/nvidia-uvm`, `locks.c` is
`src/nvidia/src/kernel/core/locks.c`.

About 1.5 million lines cannot be modelled as a whole. Much of them is generated
tables, register headers, or set-up code under one lock. This project works
through the parts where concurrency decides correctness:

* how work reaches the GPU and how the driver learns that it is done (pushbuffer,
  channel, tracking semaphore, also encrypted);
* how the GPU reaches the driver (page faults with their interrupts);
* how the driver talks to the firmware (message queues, RPCs);
* what its threads synchronise on (GPU locks, Nanos semaphores, thread queues).

The source ranges named by the map are about 6500 lines in 26 files, a small share of the
repository. The inventory below says what is missing.

## 1. Inventory

### Modelled, in full or in part

| Part | State | Operations | What is hard |
|---|---|---|---|
| Pushbuffer (`uvm_pushbuffer.c`) | chunks: bitmaps, pending list, on-going push, next start; a semaphore | begin_push with claim_chunk's retry loop, end_push, mark_completed | completions in any order; a lock released between claim and use; wrap-around with a wasted tail; errors during the retry |
| Channel (`uvm_channel.c`) | ring with `gpu_get`, `cpu_put`, reserved count, push infos | reserve (in a pool, on the channel, two entries for control), begin/end push, control entries, update_progress, check_errors | values read before the lock and used after it; a full ring; control entries that release no semaphore |
| Tracking semaphore (`uvm_gpu_semaphore.c`) | 32-bit payload, 64-bit completed and queued values | update_completed_value, is_value_completed | reconstructing 64 bits from 32 across a wrap |
| Encrypted tracking semaphore (the same file, `uvm_channel.c`) | notifier, IV ring, payload and tag in unprotected memory | encrypt at the end of a push, copy and decrypt by the CPU | a copy torn by the GPU; telling a busy channel from tampering; two wraps |
| Push and tracker (`uvm_push.c`, `uvm_tracker.c`) | the value a push waits for | wait for an entry | waiting against errors |
| Replayable faults (`uvm_gpu_replayable_faults.c`, `uvm_gpu_isr.c`) | fault buffer, cached get and put, service lock, interrupt disable count, GPU references | top and bottom half, fetch, service, replay, flush, cancel, suspend, resume, removal | interrupts lost between clearing and reading; lock and reference handed to another context; entries not valid yet |
| Fault batches (the same file) | fetched entries, last fault per uTLB and of the batch | coalescing, sorting, servicing page by page | only neighbours are compared; fatal faults among serviceable ones |
| Message queues (`msgq.c`, `message_queue_cpu.c`, `ccsl.c`) | shared pointers, cached counts, sequence numbers, IVs | link, send in elements with timeout, receive with retries, checks and recovery | stale caches; stores that land late; sends given up half-way |
| RPCs (`rpc.c`, `kernel_gsp.c`) | stack of calls, polling flag, queues, interrupt | synchronous, asynchronous and large RPCs, polling, draining of events, interrupt service, failing receives, firmware failures | handlers that call back; timeouts against late answers |
| GPU locks (`locks.c`) | count, owner, running and signaled flags and semaphore of each lock; lockable and locked masks | acquire for all, a group or a device, conditional, upgrade; release; hand-over to the bottom half; alloc and free | conditional acquires that overtake; GPUs that come and go under waiters |
| Nanos semaphore (`nv-nanos.h`) | count, list of suspended contexts | down, down_trylock, up | a context queued before it is suspended; woken threads that must compete again |
| Thread queues (`nv-kthread-q.c`, `os-interface.c`) | list, semaphore, exit flag, context | init, schedule, flush, stop, the main loop | items that reschedule themselves; flush and stop against running items; stopping and reusing a queue |

### Interactions

A CPU thread reserves a GPFIFO entry (Channel), claims pushbuffer space
(Pushbuffer, whose `concurrent_pushes_sema` is a Nanos semaphore), writes its
methods, and submits: `uvm_channel_end_push()` fills the entry at `cpu_put` and
puts it on the chunk's pending list. The GPU reads the methods and releases the
tracking semaphore. Any thread that needs room, or waits, reads the semaphore
(SecureSemaphore when memory is protected) and reclaims completed entries, whose
pushbuffer regions then become free. An access of the GPU that faults goes
through the fault buffer and the top half to the bottom half (Faults), which
coalesces and sorts (FaultBatch), services, and pushes a replay. Bottom halves
and RM's deferred work run on kernel thread queues, whose loop sleeps on a Nanos
semaphore. RM works under the GPU locks (GpuLocks), whose semaphores are Nanos
semaphores too; with them held it calls the firmware (GspRpc) over two message
queues (MsgQ).

In the models the interfaces are assumptions:

* Pushbuffer lets any submitted entry complete at any time, which covers every
  channel behaviour (Channel proves the one thing it depends on, that completion
  is not reported early). Channel lets `uvm_pushbuffer_begin_push()` succeed at
  any time, or fail when there is an error.
* KthreadQ, Pushbuffer and GpuLocks use semaphores as atomic counters; Semaphore
  proves that the Nanos code implements them.
* GspRpc uses two FIFOs; MsgQ is shown to implement `Fifo`.
* GspRpc is one stack of calls, since RM holds the GPU lock; GpuLocks shows that
  it excludes.
* Faults treats a push of a replay as accepted until `PUSHES` are waiting.

### Not modelled

`PROJECT.json` lists every component with its reason; in short:

| Part | State that matters | Properties worth having | Standing |
|---|---|---|---|
| WLC/LCIC and SEC2 submission, push locks | launch channels, static notifiers | no two pushes on a channel; the schedule of a WLC is launched once | planned |
| `uvm_va_space_mm.c` | retained count, state | no use of mm after shutdown returns | the waits of the Linux code are gone in this port (section 4) |
| Non-replayable faults, access counters | like replayable faults | like those | same shape with locks of their own |
| PMM (`uvm_pmm_gpu.c`) | chunk states, lists, eviction | a chunk has one owner while eviction races with free | planned |
| Range tree and allocator | intervals | agreement with sets of intervals | planned |
| Page tables, VA blocks | directories with counts, residency masks | counts match entries, one writable copy | later; VA blocks are very large |
| Lock order (`uvm_lock.c`), hidden and frozen RM locks, RM API lock | held locks | acquisition order excludes cycles | planned; `uvm_lock.c` is debug-only |
| Dynamic power, device open/close, nano timers | state machines, usage counts | resume before use; no callback after destroy | planned; timers depend on Nanos, not in the repository |
| Resource server | handle trees | a freed handle has no users | later |
| GSP boot, contents of messages, single events | | | register sequences and formats |
| Heuristics, HAL, HMM, DRM, mode setting, NVLink, SPDM, generated code | | | out of scope: policy, register sequences, other systems, or no concurrent state |

## 2. Modules

| Module | What it is |
|---|---|
| `Pushbuffer` | `uvm_pushbuffer.c`; each action is a critical section of `pushbuffer->lock`, or a step of claim_chunk's loop |
| `Channel` | one channel of `uvm_channel.c` with its semaphore; each action is a critical section of the pool lock or the semaphore lock, or a loop step; the GPU is an external process |
| `SecureSemaphore` | the encrypted tracking semaphore; each read of unprotected memory is a step |
| `Faults` | fault buffer, interrupt, halves, flush, sleep cycle and removal; each lock, register access and buffer entry is a step |
| `FaultBatch` | coalescing, sorting and servicing of one batch, fault by fault |
| `Fifo` | what a message queue promises |
| `MsgQ` | one direction of a queue pair; refines `Fifo` |
| `GspRpc` | the CPU's stack of RPCs, against a firmware taken from what the CPU expects of it |
| `GpuLocks` | `locks.c` and its callers; each critical section of the spinlock is a step |
| `CountingSemaphore` | what users of `struct semaphore` rely on |
| `Semaphore` | `down`, `down_trylock`, `up` of `nv-nanos.h`; refines `CountingSemaphore` |
| `KthreadQ` | the Nanos `nv_kthread_q` and RM's work queues |
| `MC...` | instances, symmetry sets and views for TLC |
| `PushbufferProof`, `ChannelProof`, `SemaphoreProof`, `MsgQProof`, `SecureSemaphoreProof`, `FaultsProof` | theorems about the module of that name |
| `GpuLocksSteps`, `GpuLocksProof` | the invariant of `GpuLocks` with the steps of threads; the steps of the API thread and the theorems |

Operators whose comment begins with "Mistake:" are not part of any specification.
Each is a plausible mistake in the operation that follows it; substituting it
must make TLC report a property, which shows that the property depends on that
code. A definition whose comment ends with "TLC refutes this" states what a
comment or an assertion of the code says and the code does not keep (section 4).

### Pushbuffer

Variables keep the names of `uvm_pushbuffer_t` and `uvm_pushbuffer_chunk_t`. A
member of `Pushes` is a thread's push with a program counter: `first` is
claim_chunk's first try, `spin` the loop condition, `check` the loop body,
`claimed` the point after the lock was dropped and before `push->begin` is set,
`building` the time until end_push. `update_chunk` takes the list and entries as
parameters, because the code calls it after changing the list. The calls of
`uvm_channel_manager_update_progress()` in claim_chunk are the `MarkCompleted`
steps, which the environment may take at any time. The contents of pushes and
their decryption are left out.

### Channel

`thread[t].pc` follows a call through its critical sections. The completed value
is read in `UpdateCompleted` and used in `UpdateProgress`, because
`channel_update_progress_with_max()` reads it before it takes the pool lock.
`gets`, `puts`, `done` and `released` are history variables and guard no step of
the code; only the bound `MAX_ENTRIES` reads `puts`. Loops that reclaim entries
under the lock are one step, which reclaims the number of entries `n` the loop
would. `available_push_infos` is the code's list: begin_push takes its head, and
reclaimed entries append theirs in ring order. Errors are Booleans: the channel's notifier, and the global status set by
any channel. Left out: Confidential Computing (push locks, WLC, LCIC, SEC2;
SecureSemaphore has the encrypted payloads), proxy channels, destruction with
`FORCE_ALL`, and the choice among a pool's channels (one channel; a try that
fails in it goes on as in a pool of one).

### SecureSemaphore

Pushes are numbered; payload, tag and IV are represented by the number of the
push they belong to, so material is torn exactly when the numbers differ, and a
wrong IV is one whose number is not that of the payload. `GpuEntry`,
`GpuEncrypt` and `GpuExit` are the three methods at the end of a push; `ReadTag`,
`ReadPayload` and `ReadIv` the copies the CPU makes between its two reads of the
notifier. One reader: the code holds the semaphore's lock.

### Faults

`Setups` selects the kind of interrupt (level as on Pascal, pulse as on Turing,
or Confidential Computing with its shadow buffer, where `GET` is a dummy) and the
replay policy (BATCH, BATCH_FLUSH or ONCE). An access runs, stalls when its page
is not mapped, and tries again when a replay is executed; its fault shows up in
the buffer if there is room. PUT moves before the valid bit of an entry is set
(`writing`). `st` holds for the bottom half, the flushing thread and the sleep
cycle what each is doing. `Disturbing` lists what may happen besides: a flush, a
stale batch, a failure, a suspend, a removal; `DISTURBANCES` bounds how often. A
failure is one of three: an entry that cannot be decrypted (`FetchFails`, under
Confidential Computing only; the entry stays valid and GET stops at it), a sort
without memory (`SortFails`), and an error of `service_fault_batch()`, after
which the whole batch is cancelled (`ServiceFails`). Left out: policy BLOCK,
throttling, the uTLB cancel of Pascal (a cancel is the one by address),
non-replayable faults and access counters. Servicing a page maps it or, for the
pages in `Fatal`, cancels the access.

### FaultBatch

`Fetch` adds a fault of any uTLB, instance pointer, address and access type to
the batch, merging it as `fetch_fault_buffer_try_merge_entry()` does;
`Preprocess` sorts. Pointers to entries are indices. Servicing is the function
`service_fault_batch`, of the sorted batch, of what a page permits (`logical`)
and of what the GPU may do with it already (`authorized`); it skips faults that
were fatal when fetched, goes through each block, waives, checks permissions and
records the access type of the page, as the code does. `OneRepresentative`
speaks of the batch at any time, `PagesServed` of the sorted one. Left out: the
throttling of a page, after which the fault is left to a later batch, and where
the page will reside.

### MsgQ and Fifo

Sender and receiver are calls with program counters; each access to a shared
pointer and each element written or read is a step. Without a fence a store stays
in `pend` until `StoreLands`, in any order. The checksum is taken to catch every
mixture of records (`ChecksumOk` compares record numbers), and decryption fails
for another IV than the record's. Encryption may fail (`EncryptionFails`), which
uses up an IV and sends nothing. The mapping to `Fifo` takes the records
submitted and returned; a queue is `reliable` when its sender fences, since the
recovery of the receiver may skip a record whose stores have not landed.

### GspRpc

`calls` is the stack: RPCs, polls, event handlers and the interrupt service,
innermost first. A request is answered by records that carry its number, which
the code does not see; `OwnAnswer` compares it. Large RPCs are split into records
with continuation records, and answered so. The firmware answers at any time or
never, raises events, and may crash or be lost with the GPU. Events are of two
kinds: those whose handling is followed (`EVENT`), and those that are only logged
(`LOG`), which the firmware may send without end. A receive fails (`ReceiveFails`)
with the record left in the queue, as `GspMsgQueueReceiveStatus()` does when it
gives up; records it skips because they are old are a matter of MsgQ.

### GpuLocks

`gpuLocks` are the structures `GPULOCK` without priorities and times, the masks
are sets. `call[t]` is a lock function in progress: `todo`, `got` and `gpu` are
the loop variable, `gpuMaskLocked` and the GPU it sleeps on; `mask` and `wake` the
arguments of a release and its `gpuMaskWakeup`. `held[t]` is what the callers of
thread `t` have to give back, a stack because of upgrades. The thread `API`
stands for whoever holds the API lock; it attaches and detaches GPUs as
`osInitNvMapping()` and `RmShutdownAdapter()` do.

A thread that locks all GPUs acts for a GPU that is not shut down meanwhile
(`user`). The callers without the API lock are of this kind: timers, power
transitions and error recovery of a GPU. Section 4 says what happens otherwise.
`rmGpuLockFree()` is called with the device instance, which is taken to be the GPU
instance; that is so for devices of one GPU. `rmGpuLockAlloc()` succeeds: that
its semaphore cannot be allocated (`locks.c:203`), and the `rmGpuLockFree()` with
which `osInitNvMapping()` then gives up (`osinit.c:549`), are left out.

### Semaphore

Five program points. `down` queues the context and goes to `suspending`; it is
`suspended`, with its frame full, after the external `context_suspend`. `up`
takes the first waiter under the lock and resumes it in `Wakeup`, which models the
spin on `frame_is_full()` by its exit condition. The refinement maps a thread
anywhere inside `down()` to `waiting`.

### KthreadQ

An element of `q_list` is an item, or a client standing for the flush item on its
stack. Every test of `main_loop_should_exit`, list operation and `up()` is a step
of its own; the exception is stop's test-and-set of the flag (lines 129-131), one
step, because the header forbids concurrent stops. An item's function reads the
caller's flag when it starts and may schedule items, itself included, any number
of times if it saw the flag clear; this is the case for which the code flushes
twice. Clients follow the rules of `nv-kthread-q.h`: nobody schedules or flushes
during a stop. `owed` and `owed2` record for each flush the items it must wait
for: those queued or running when it was called, and those they schedule.

## 3. Runs

| Run | Instance | Result |
|---|---|---|
| `pushbuffer` | 2 chunks of size 4, pushes of at most 2, 3 threads, 3 entries | holds, 308296 states |
| `channel` | ring of 3, 3 payload values, 2 threads, no reservation starts after 2 entries, fair | holds, 116489 states |
| `semaphore` | 4 threads, initial count 1, count at most 3, fair | holds, 2664 states |
| `kthread_q` | 2 clients, 1 item, 1 context, fair | holds, 42488 states |
| `msgq` | ring of 3, records of 1 or 2 elements, 4 sequence numbers, 7 sends; encrypted with a fence, and plain without one; fair | holds, 563629 states |
| `gsp_rpc` | 2 RPCs, small and of 3 records, 1 event or logged events one at a time, 1 failure (receive, handler, crash or loss), queues of 2 records; fair | holds, 363299 states |
| `faults` | buffer of 3, batches of 2, 2 accesses, 2 pages of which 1 fatal, 1 flushing thread, 1 disturbance; level, pulse and encrypted | holds, 1450244 states |
| `faults_live` | buffer of 2, batches of 1, 2 accesses, no fatal page, 1 disturbance; pulse with BATCH_FLUSH, and encrypted with BATCH; fair | holds, 168410 states |
| `faults_failure` | buffer of 3, batches of 2, one failure, fair | violated, finding 1 |
| `fault_batch` | batches of up to 3 faults, 2 uTLBs, 3 instance pointers, 2 addresses, 3 access types, pages of each permission | holds, 378505 states |
| `secure_semaphore` | ring of 4, 12 pushes, notifier modulo 16, payload modulo 8, fair | holds, 5725 states |
| `gpu_locks` | 2 GPUs, 2 threads and the one with the API lock, 2 acquire calls, 2 additions or removals, any GPUs attached at first; fair | holds, 119439 states |

What the properties say:

* **NoOverwrite** (Pushbuffer): memory given to a push meets no push the GPU may
  still read, whatever the order of completions.
* **BitmapsExact, ClaimCanSucceed**: no chunk is hidden from the allocator for
  good, and a thread past the semaphore always has a chunk to wait for.
* **RingHasRoom**: reserved plus pending entries fit the ring, so the unsigned
  subtraction does not wrap and nothing is overwritten.
* **NoEarlyReclaim**: an entry is reclaimed only after the GPU processed it, with
  a completed value from before the lock and control entries that carry a later
  push's value.
* **CompletedExact**: the 64-bit value is neither ahead of the GPU nor short of a
  wrap.
* **PushInfosOwned**: each push info has one owner, and one is left for whoever
  holds an entry.
* **OperationsEnd**: unless the driver met a fatal error, waits and reservations
  end.
* **WokenOnce, UnitsTaken, ImplementsCounting**: no context is resumed twice or
  forgotten, units do not stay unused, and the whole is a counting semaphore.
* **SemCountsItems, FlushWaits, StopDrains, ScheduledRuns, CallsReturn**
  (KthreadQ): the queue's semaphore matches its list, a flush waits for all it
  promises, a stop finds the list empty, items run and calls return.
* **NoOverwrite** (MsgQ): a stale count of free elements never lets the sender
  touch an element that was not consumed.
* **QueueSpec**: what is received is a FIFO of what was sent, stale or half-landed
  elements never being taken for a record.
* **Delivered**: every record submitted is received, though sends that timed out
  or failed to encrypt used up IVs, provided that the receiver is called again
  and again.
* **OwnAnswer, TimeoutHonest**: an RPC that returns an answer returns its own,
  complete, unless an earlier call was abandoned; a timeout is reported only if
  the answer was not there when the time was over.
* **RpcReturns**: every RPC and every interrupt service returns, whether the
  firmware answers, fails or falls silent, unless it sends events for ever.
* **EventsHandled**: no event is forgotten between poll and interrupt, as long as
  the firmware runs and no drain of the queue fails.
* **NoEntryLost, PendingCurrent, NoStorm**: all faults lie between GET and PUT,
  a re-enabled interrupt is neither lost nor raised for nothing, and a suspended
  top half is not interrupted for ever.
* **RemovedQuiet**: a removed GPU is neither serviced nor enabled again.
* **AccessesServed, ThreadsReturn**: every stalled access to a page that can be
  mapped goes on, unless a batch fails; every flush, suspend, resume and removal
  ends, the accesses being finitely many.
* **OneRepresentative**: each fault of a batch is represented by one entry at
  least as intrusive.
* **PagesServed**: servicing one fault per page is enough. Whatever a page
  permits and grants, it ends with the protection its permitted accesses need and
  no more than it permits, and exactly the other accesses are left to be
  cancelled.
* **NoFalseAlarm, CompletedExecuted, EveryPushCompletes**: reading while the GPU
  writes is never taken for tampering, the completed value is that of an executed
  push, and every push is seen completed.
* **MutualExclusion**: a GPU lock has one holder, on record as its owner, and a
  release of "all GPUs" takes nobody else's lock.
* **CountExact**: the count, which decides who waits, who is woken and when a lock
  is destroyed, is exact through overtaking and removals.
* **WaitersHaveSemaphore, MaskStable**: no semaphore is destroyed under a waiter,
  and the set of GPUs changes only while nobody holds a lock of the others.
* **CallsReturn, ChangesEnd** (GpuLocks): every acquire and release returns, so
  upgrades do not deadlock and no wake-up is lost; adding and removing a GPU ends.

### Bounds

* Pushbuffer: chunk size 4 with pushes of size 1 or 2 gives full chunks, holes
  that are too small, and the wrap. Three threads on two chunks make one wait at
  the semaphore. A push never starts beyond 2, so that after a wrap
  there is no room before the first pending one, and this branch of
  `update_chunk()` (`FitsBetween`) is not taken in the run. The proof
  covers every size, this branch included.
* Channel: 3 is the smallest ring the driver allows (a sentinel and two entries
  for a control write). 3 payload values is the tightest width the ring allows;
  two threads that both start below `MAX_ENTRIES` submit enough to make ring and
  payload wrap. `PROGRESS_COUNT` 1 separates limited from complete progress.
  `MAX_ENTRIES` stops new reservations and never cuts a call short; with 3 all
  properties hold too (388280 states). The proof covers every size.
* Semaphore: `MAX_VALUE` limits `up`; 4 threads allow two wake-ups in flight with
  waiters left.
* KthreadQ: one item that schedules itself; two clients let a flush overlap with
  a schedule or a second flush. With two items the safety properties hold too
  (1605388 states).
* MsgQ: 3 elements hold a record of two beside one of one; 7 records wrap the
  sequence numbers. There must be more sequence numbers than elements: with 3 of
  each `QueueSpec` fails (the code has 2^32 numbers for 63 elements by default).
  The safety properties hold for a ring of 4 with 5 numbers as well (2816202
  states).
* GspRpc: 6 bytes over records of 3 with a header of 1 give a first record and
  two continuations, the last one short. Two RPCs are a nested or a later one.
  `MAX_EVENTS` 1 bounds the events sent plus the logged ones in the queue: logged
  events are sent any number of times, one after the other. `MAX_FAILURES` 1
  bounds failed receives, failed handlers, crashes and losses together.
* Faults: batches of 2 in a buffer of 3 leave a fault for a second batch and wrap.
  `DISTURBANCES` 1 allows any one of flush, stale batch, failure, sleep or
  removal in a behaviour. The fair run has a smaller buffer and two of the three
  set-ups; with level interrupts and ONCE in the place of pulse and BATCH_FLUSH
  its properties hold too (168058 states). It has no fatal page, so cancelling is
  checked for safety only: with one, TLC finds a cycle in which the replay pushed
  at the end of a service restarts the access just before the next cancel, the
  cancel meets it running instead of stalled, and the flush after the cancel drops
  its new entry. This takes the same coincidence every time, and weak fairness
  does not exclude it.
* FaultBatch: three faults are the first that a superseded one and a later merge
  need. The uTLBs are symmetric. `PagesServed` takes the same permission for all
  pages, as what becomes of a page depends on no other. It assumes, with the
  comment at `uvm_gpu_replayable_faults.c:1375`, that a block has no fault that
  was fatal when fetched beside serviceable ones. Without this it fails: after a
  write that was serviced, such a read is waived, and a prefetch after it is
  serviced again, with a lower access type than the write.
* SecureSemaphore: the notifier (8 pushes) and the payload (8) wrap once and a
  half within 12 pushes, with the ring of 4 full.
* GpuLocks: two GPUs give an order of locks; two acquire calls are one each or an
  upgrade by one, against the API thread's own acquires; two changes remove and
  add the same GPU, or both. Safety holds with 3 calls and 4 changes too (1.2
  million states), liveness with 3 and 3.

Symmetry is used in `pushbuffer` and `fault_batch`, which check invariants only.
The view of `pushbuffer` hides what is overwritten before it is read again. Deadlock is checked where the model has no end: not in the
semaphore run (all threads may sleep in `down()`), and not where a bound ends
every behaviour or the hardware may stop for good (faults, GSP, batch, locks).

### Fairness

* Channel: weak fairness of each thread inside a call, and of the GPU while
  entries are pending. The retry loops give up the CPU (`uvm_spin_loop()`
  reschedules its context), so every thread gets to run. No fairness on starting
  calls. The code accepts that a two-entry reservation may starve while others
  keep reserving (`uvm_channel.c:1357`), so `OperationsEnd` speaks of the time
  after reservations stop (`MAX_ENTRIES`); it exempts a fatal error, after which
  a reservation of a healthy channel may spin on (section 4).
* Semaphore: weak fairness of a thread inside `down()` or `up()`. `down()` itself
  is not fair, so only that units do not stay unused is claimed.
* KthreadQ: weak fairness of every call and of the main loop; strong fairness of
  the end of an item's function, because the function leaves and re-enters the
  state in which it may end each time it schedules. A function that never ends
  would block the queue, and any user of it, by design.
* MsgQ: both ends link their queues, calls run to their end and stores become
  visible. Nothing in the queue makes anybody call the receiver, so that
  `Delivered` has it as a hypothesis; that the CPU looks again when something is
  queued is the matter of `EventsHandled`.
* GspRpc: the thread with the GPU lock runs, time passes, a pending interrupt is
  serviced. Nothing is assumed of the firmware. `_kgspRpcRecvPoll()` reads the
  clock before it drains the queue, and `_kgspRpcDrainEvents()` goes on as long as
  there is a record: `RpcReturns` therefore excludes firmware that sends events for
  ever. Without this hypothesis TLC finds the drain that never ends.
* Faults: the GPU writes its entries and executes what is pushed, an asserted
  interrupt is delivered, threads are scheduled.
* SecureSemaphore: the GPU executes pushes and somebody polls, as in every wait.
* GpuLocks: threads run and callers release what they locked; strong fairness of
  taking the semaphore. This is more than `nv-nanos.h:152` promises, whose `down()`
  wakes the first waiter but lets a newcomer take the unit. It is needed against
  one loop: `rmGpuLockFree()` releases, yields and acquires again until the last
  waiter has left (`locks.c:367`), and could take the unit each time. The yield
  lets the woken thread run, which the model says by this fairness.

## 4. Findings

1. `uvm_gpu_service_replayable_faults()` leaves its loop when
   `preprocess_fault_batch()` fails, which in this port happens when the sort
   gets no memory (`uvm_gpu_replayable_faults.c:1091`). The entries are out of the
   buffer; if an earlier batch of the call was replayed, `num_replays` is not 0
   and the final replay is skipped (`:2745`, whose comment says it is there "to
   avoid dropping faults that do not show up in the buffer"). Run
   `faults_failure` shows an access that stays stalled under fair scheduling.

### Observations

These are statements of comments and assertions that the models refute. Each is
refuted on the instance of its module's run unless said otherwise. None of them
is a property of a run.

* `CurrentPushIsOngoing` (Pushbuffer): `claim_chunk()` (`uvm_pushbuffer.c:266`)
  tries once more after `check_errors()` failed. If that try succeeds, the error
  is returned, the semaphore is raised, and the chunk keeps a `current_push` that
  is not on-going, against `uvm_pushbuffer.h:204`. The chunk is lost; this matters
  little, since the error is fatal for the driver. `uvm_channel_reserve()` has
  the same loop and leaves entries reserved, which `Channel` includes.
* `StopStopsThread`, `OneThread` (KthreadQ): `nv_kthread_q_stop()` of the port
  (`nv-kthread-q.c:134`) returns after `up()`, while its context may be anywhere
  before the end of `_main_loop()`; `nv-kthread-q.h:159` promises that the thread
  is stopped. With the reuse shown in `nv-kthread-q.h:135` (`REUSE` TRUE, a second
  context, deadlock check off), init clears the exit flag the old context has not read yet, and both
  serve the queue, against `nv-kthread-q.c:37`.
* `SkipsOnlyOld` (MsgQ): without a fence, the recovery from a sequence number
  that is too small (`message_queue_cpu.c:717`, "If we read an old piece of
  data, try to ignore it and move on..") consumes elements of a record that is
  still landing, which is then lost.
* `LateIsUnexpected` (GspRpc): `kernel_gsp.c:1208` says that the response of an
  RPC that timed out "eventually comes in as an unexpected event". Only the
  function is compared (`:1251`): a later call of the same function takes it for
  its own. `OwnAnswer` therefore speaks of calls with no abandoned one before.
* After a drain that ended in an error (GspRpc), the events behind the failed
  record wait without an interrupt. A later poll that finds its response first
  leaves them there too; only the next interrupt, or a poll that goes on to the
  end of the queue, gets to them. `EventsHandled` therefore exempts failed drains
  until then (`drainFailed`).
* Of the failures of a batch (Faults), only the failed sort loses an access: with
  `SortFails` disabled, `FailuresServed` holds (123384 states). An entry that
  cannot be decrypted stays in the buffer, so that the next service replays the
  entries fetched before it; this needs the decryption to succeed in the end,
  which one failure per behaviour implies.
* `FirstGpuFound` (Faults): `UVM_ASSERT(gpu != NULL)` of `find_first_valid_gpu()`
  (`uvm_gpu_isr.c:469`) fails for a bottom half that runs after `remove_gpu()`
  took the GPU out of the table (`uvm_gpu.c:1175`) and before it cleared handling
  (`:1185`).
* `MaskComplete` (FaultBatch): `uvm_gpu_replayable_faults.c:791` says the
  representative's mask has all access types. When a more intrusive fault
  replaces the last one of its uTLB, `batch_context->last_fault` keeps pointing to
  the filtered entry, and a later fault merged into it is missing from the mask.
* `NotifierOrdered` (SecureSemaphore): `UVM_ASSERT(last_observed_notifier <=
  gpu_notifier)` (`uvm_gpu_semaphore.c:589`) fails when the 32-bit notifier wraps
  after 2^31 pushes. The rest copes: every push completes across the wrap.
* `SemaphoreBinary` (GpuLocks): `locks.c:53` calls the semaphore binary. A release
  computes whom to wake under the spinlock and wakes after it. In between the
  waiter can leave because its GPU was removed, and the GPU be added again: the
  late wake-up raises the semaphore of the new lock, and the next release raises
  it to 2. This takes 3 calls and 3 changes; with the bounds of the run it does
  not happen. The loop around the wait tolerates it.
* `HolderDone` (GpuLocks): for the same reason a release can find the semaphore
  destroyed, where the code says `DBG_BREAKPOINT()` (`locks.c:1376`) and
  `rmGpuLockFree()` promises to "wait until the holding one is done" (`:364`).
* A thread that locks all GPUs without acting for an attached one is not
  protected: when the last GPU is removed under it, `rmGpuLocksRelease()` finds
  nothing to release (`locks.c:1437`), and if it had locked "all" of no GPUs it
  later releases whatever others have locked. The comment at `:1417` demands that
  all GPUs were locked; GpuLocks models callers that act for a GPU.

Read in the code, not modelled: a reservation on one channel spins on after
another channel's fatal error if its own channel makes no progress;
`uvm_tracker.c:307` asserts that the error of a wait is the global one, and two
different errors may race; `uvm_va_space_mm.c` has lost the waits of its shutdown
in the port.

## 5. Proofs

The theorems hold for all values of the constants that satisfy the `ASSUME` of
the module. Those are what the code fixes: a push fits in a chunk; the ring of a
channel has at least 3 entries and the payload at least as many values as the
ring has entries (2^32 against at most 2^20), the notifier a multiple of twice as
many; a record fits in the message queue with an element to spare; a batch fits
in the fault buffer; threads and GPUs are finitely many. The bounds of the models
(`MAX_...`, `DISTURBANCES`, `PUSHES`) are arbitrary natural numbers.

* **PushbufferProof**: `TypeCorrect`, `PendingDisjointCorrect`,
  `NoOverwriteCorrect`, `BitmapsExactCorrect`, `ClaimCanSucceedCorrect`.
  Disjointness is not inductive: removing the first or last entry changes where
  the next push goes, and that place is only right if the remaining regions are in
  order around the chunk. `RingOrder` says so over pairs and triples of list
  positions: each region lies after the earlier ones until the list wraps, then
  before all those that precede the wrap. Three lemmas carry the argument: the
  order survives removing any element, survives shrinking the last region, and
  gives room where `update_chunk()` decides there is room. `IInv` adds that an
  available or claimed chunk has room at `next_push_start`, that every listed entry
  is in flight and in one list, and that the chunk of a push records it. A failed
  claim that keeps its chunk is covered. The bitmaps follow: a completion between
  the ends of the list changes neither end, and one at an end never takes away the
  room that was there (`SpaceKept`). That a push past the semaphore has a chunk
  to wait for is counting: units and pushes past the semaphore add up to the
  chunks (`SemaInv`), each claimed chunk has an owner of its own (`OwnerInv`), and
  a push without a chunk leaves one over (`PigeonHole`).
* **ChannelProof**: `TypeCorrect`, `RingHasRoomCorrect`, `NoEarlyReclaimCorrect`,
  `CompletedExactCorrect`, `WaitSoundCorrect`. Pointers are the history counters
  modulo the ring size (`PointersInv`). `ValuesInv` orders the values of pending
  entries and bounds how many pushes were queued since each. So an entry the GPU
  has not processed carries a value above the released one, stale completed
  values stay below it, and at most one ring of pushes separates completed and
  queued values, which makes the wrap unambiguous (`ExtendExact`). `WaitSound`: a
  wait returns success only after its push. The list of push infos stays a list
  of push infos, whatever number of entries an update reclaims.
* **SemaphoreProof**: `WokenOnceCorrect`, `UnitsHaveTakersCorrect`, `Refinement`.
  The invariant is the conjunction of `WokenOnce`, `UnitsHaveTakers` and types,
  which is inductive. `Refinement` shows that each step is one of
  `CountingSemaphore` or a stutter.
* **MsgQProof**: `RingInvariance`, `TypeCorrect`, `NoOverwriteCorrect`,
  `QueueCorrect`. The pointers are the numbers of elements submitted and consumed
  modulo the ring, and the cached counts never promise more than there is
  (`PtrInv`): this holds for every sender and gives `NoOverwrite`. For the FIFO the
  invariant follows each element: what lies in memory or on the way to it was
  written for a record sent, or for the next one (`ProperInv`), so that the
  sequence number tells whether it is the one expected. With a fence, memory holds
  exactly what was sent (`FenceInv`). `QueueCorrect` shows that each step is one of
  `Fifo` or a stutter, under the hypothesis `Ordered`: the sender fences, as the
  CPU does, or the sequence numbers do not wrap.
* **SecureSemaphoreProof**: `TypeCorrect`, `NoFalseAlarmCorrect`,
  `CompletedExecutedCorrect`. The invariant names the push that each piece of state
  belongs to. What the reader knows of the push it reads is conditional: if the
  notifier has not moved since, what it copied is the material of that push
  (`ReaderInv`). Each failed try shows a push executed since the last, and fewer
  pushes than entries are pending, so that the tries suffice.
* **FaultsProof**: `TypeCorrect`, `NoEntryLostCorrect`, `PendingCurrentCorrect`,
  `NoStormCorrect`, `RemovedQuietCorrect`. Eight parts, each needed by another:
  where each actor can be (`ControlInv`), who owns `service_lock`, the bottom half
  from its scheduling on, and `interrupts_lock` (`LockInv`), the references and
  disable counts as the numbers of those who hold them (`CountInv`), the one
  position from which the buffer is read and the entries around it (`RingInv`),
  what the interrupt's bit says (`BitInv`), and what sleep and removal find idle
  (`SleepInv`, `RemovalInv`), besides types. All kinds of interrupt, policies and
  disturbances are covered.
* **GpuLocksSteps, GpuLocksProof**: `TypeCorrect`, `MutualExclusionCorrect`,
  `CountExactCorrect`, `WaitersHaveSemaphoreCorrect`, `MaskStableCorrect`. What a
  thread holds is a set of slots: the call in progress, and what each of its
  callers keeps. A GPU is in one slot of one thread (`Exclusive`), which is on
  record as the lock's owner (`OnRecord`) and in the mask (`InMask`); the count of
  a lock is its holder plus the threads that sleep for it or were woken
  (`Counted`), and who waits, waits on a live semaphore (`WaitsLive`). `ShapeInv`
  ties the program counters to the slots, `ApiInv` the API thread's changes to the
  attached GPUs, and `AllInv` says that "all GPUs" are still the same when they
  are released. The parts take the state as parameters, so that the middle of the
  loop of `_rmGpuLocksAcquire()` is described by the same formulas.

Each proof module has one lemma per action (or group of similar actions), and a
lemma on `Next` combines them.

**Only model-checked**: the liveness properties (`OperationsEnd`, `UnitsTaken`,
`ScheduledRuns`, `CallsReturn`, `Delivered`, `RpcReturns`, `EventsHandled`,
`AccessesServed`, `ThreadsReturn`, `EveryPushCompletes`, `ChangesEnd`), since
fairness and ENABLED are out of the prover's reach; `PushInfosOwned`; and all of
KthreadQ, GspRpc and FaultBatch.

## 6. Plan

In order of importance:

1. `PushPipeline`: Channel and Pushbuffer composed over two channels, so that
   completion is no longer an assumption; destruction with `FORCE_ALL`.
2. `Tracker`: the tracker's array with its fallback to waiting, and error codes.
3. Push locks of the pools and the WLC/LCIC launch.
4. The RM API lock over GpuLocks; hidden and frozen locks.
5. PMM root chunks, then range tree and allocator, lock order, dynamic power.

Proofs to add: `PushInfosOwned`, `SemCountsItems` and `StopDrains`, `OwnAnswer`
and `TimeoutHonest`, and `OneRepresentative`.

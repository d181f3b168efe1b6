------------------------------- MODULE Faults -------------------------------
(***************************************************************************)
(* Replayable GPU page faults: the fault buffer, a ring the GPU writes and *)
(* UVM reads (uvm_gpu_replayable_faults.c), and the path from the GPU's    *)
(* interrupt to the bottom half that services the faults (uvm_gpu_isr.c),  *)
(* with threads that flush the buffer (uvm_gpu_fault_buffer_flush()), a    *)
(* sleep cycle (uvm_suspend(), uvm_resume()) and the removal of the GPU    *)
(* (remove_gpu()).                                                         *)
(*                                                                         *)
(* An access of the GPU to a page that is not mapped stalls until a replay *)
(* lets it try again.  Its fault shows up in the buffer if there is room.  *)
(***************************************************************************)
EXTENDS Integers, FiniteSets

CONSTANTS max_faults,     \* entries of the fault buffer
          max_batch_size, \* entries fetched at a time
          max_batches,    \* uvm_perf_fault_max_batches_per_service
          Setups,         \* kinds of interrupt, and replay policies
          Pages,
          Fatal,          \* pages that cannot be serviced
          Accesses, Page, \* the accesses of the GPU and their pages
          Threads,        \* threads that flush the buffer
          NO_PAGE,        \* an entry never written
          PUSHES,         \* bound: replays that fit in the channel
          Disturbing,     \* what may disturb the servicing of faults
          DISTURBANCES    \* bound: how many of these happen

VARIABLES
  put, hw_get,       \* the GPU's registers
  buffer, valid,     \* the entries and their valid bits
  writing,           \* entries before PUT whose valid bit is still to come
  intr,              \* the interrupt: level (Pascal), pulse (Turing) or cc;
                     \* its pending bit and its enable bit
  access,            \* "run", "stalled" or "done"
  mapped,            \* pages the GPU can access
  replays,           \* replays pushed and not executed
  cached_get, cached_put,
  service_lock, interrupts_lock,  \* their owners
  isr,               \* parent_gpu->isr, gpu_kref and the replay policy
  topHalf,           \* the top half has found the GPU in the table
  queued,            \* the bottom half is in its queue
  st,                \* what the bottom half and the threads are doing
  removal,           \* how far remove_gpu() is
  power,             \* how far the sleep cycle is
  disturbed          \* what has disturbed the servicing so far

hwVars == <<put, hw_get, buffer, valid, writing, intr>>
gpuVars == <<access, mapped, replays>>
cacheVars == <<cached_get, cached_put>>
isrVars == <<service_lock, interrupts_lock, isr, queued>>
envVars == <<topHalf, removal, power, disturbed>>
vars == <<hwVars, gpuVars, cacheVars, isrVars, envVars, st>>

(* Who services, flushes and sleeps.                                       *)
BH == "bh"
PM == "pm"
Actors == {BH, PM} \cup Threads
Nobody == "nobody"

ASSUME FaultsAssumption ==
  /\ max_faults \in Nat /\ max_faults > 1
  /\ max_batch_size \in 1 .. max_faults /\ max_batches \in Nat \ {0}
  /\ Setups \subseteq {"level", "pulse", "cc"} \X {"BATCH", "BATCH_FLUSH", "ONCE"}
  /\ Fatal \subseteq Pages /\ Page \in [Accesses -> Pages]
  /\ NO_PAGE \notin Pages /\ {BH, PM} \cap Threads = {} /\ Nobody \notin Actors
  /\ PUSHES \in Nat \ {0} /\ DISTURBANCES \in Nat
  /\ Disturbing \subseteq {"flush", "stale", "failure", "suspend", "removal"}

Slots == 0 .. max_faults - 1

Idle == [pc |-> "idle", get |-> 0, batch |-> {}, index |-> 0, num_batches |-> 0,
         num_replays |-> 0, ok |-> TRUE, mode |-> "CACHED_PUT", ret |-> "idle"]

IntrState == [kind : {"level", "pulse", "cc"}, pending : BOOLEAN, enabled : BOOLEAN]

IsrState ==
  [disable_intr_ref_count : Nat, handling : BOOLEAN,
   was_handling : BOOLEAN, is_suspended : BOOLEAN, gpu_kref : 0 .. 4,
   replay_policy : {"BATCH", "BATCH_FLUSH", "ONCE"}]

ActorState ==
  [pc : {"idle", "nogpu", "lock", "down", "loop", "fetch", "serve", "cancel",
         "flush", "skip", "push", "wait", "finish", "unlock", "clear", "rearm", "retrigger",
         "end", "drain", "off"},
   get : Slots, batch : SUBSET Pages, index : 0 .. max_batch_size,
   num_batches : 0 .. max_batches, num_replays : {0, 1}, ok : BOOLEAN,
   mode : {"CACHED_PUT", "UPDATE_PUT", "WAIT_UPDATE_PUT"},
   ret : {"idle", "loop", "wait", "finish", "unlock"}]

TypeOK ==
  /\ put \in Slots /\ hw_get \in Slots
  /\ buffer \in [Slots -> Pages \cup {NO_PAGE}]
  /\ valid \subseteq Slots /\ writing \subseteq Slots
  /\ intr \in IntrState
  /\ access \in [Accesses -> {"run", "stalled", "done"}]
  /\ mapped \subseteq Pages /\ replays \in 0 .. PUSHES
  /\ cached_get \in Slots /\ cached_put \in Slots
  /\ service_lock \in Actors \cup {Nobody}
  /\ interrupts_lock \in Actors \cup {Nobody}
  /\ isr \in IsrState
  /\ topHalf \in BOOLEAN /\ queued \in BOOLEAN
  /\ st \in [Actors -> ActorState]
  /\ removal \in {"no", "dying", "removed", "disabled", "stopped", "deinit"}
  /\ power \in {"on", "preempted"}
  /\ disturbed \subseteq Disturbing

Init ==
  /\ put = 0 /\ hw_get = 0
  /\ buffer = [s \in Slots |-> NO_PAGE] /\ valid = {} /\ writing = {}
  /\ access = [a \in Accesses |-> "run"] /\ mapped = {} /\ replays = 0
  /\ cached_get = 0 /\ cached_put = 0
  /\ service_lock = Nobody /\ interrupts_lock = Nobody
  /\ \E setup \in Setups :
       /\ intr = [kind |-> setup[1], pending |-> FALSE, enabled |-> TRUE]
       /\ isr = [disable_intr_ref_count |-> 0, handling |-> TRUE, was_handling |-> FALSE,
                 is_suspended |-> FALSE, gpu_kref |-> 1, replay_policy |-> setup[2]]
  /\ topHalf = FALSE /\ queued = FALSE
  /\ st = [a \in Actors |-> Idle] /\ removal = "no" /\ power = "on"
  /\ disturbed = {}

Wrap(g) == IF g = max_faults THEN 0 ELSE g

At(a, pc) == st[a].pc = pc

(* Each kind of disturbance happens once, DISTURBANCES of them altogether. *)
Disturb(d) ==
  /\ d \in Disturbing \ disturbed /\ Cardinality(disturbed) < DISTURBANCES
  /\ disturbed' = disturbed \cup {d}

Become(a, s) == st' = [st EXCEPT ![a] = s]

Goto(a, pc) == st' = [st EXCEPT ![a].pc = pc]

-----------------------------------------------------------------------------
(* The GPU.                                                                *)

(* The interrupt line: level interrupts follow GET # PUT.                  *)
Asserted == intr.enabled /\ (IF intr.kind = "level" THEN hw_get # put ELSE intr.pending)

(* An access of a running context.                                         *)
Access(a) ==
  /\ removal = "no" /\ power = "on" /\ access[a] = "run"
  /\ \/ /\ Page[a] \in mapped
        /\ access' = [access EXCEPT ![a] = "done"]
        /\ UNCHANGED hwVars
     \/ /\ Page[a] \notin mapped /\ Wrap(put + 1) = hw_get
        /\ access' = [access EXCEPT ![a] = "stalled"]
        /\ UNCHANGED hwVars
     \/ /\ Page[a] \notin mapped /\ Wrap(put + 1) # hw_get
        /\ access' = [access EXCEPT ![a] = "stalled"]
        /\ buffer' = [buffer EXCEPT ![put] = Page[a]]
        /\ writing' = writing \cup {put}
        /\ put' = Wrap(put + 1)
        /\ intr' = [intr EXCEPT !.pending = intr.kind # "level"]
        /\ UNCHANGED <<hw_get, valid>>
  /\ UNCHANGED <<mapped, replays, cacheVars, isrVars, envVars, st>>

(* Entries become valid in any order.                                      *)
EntryWritten ==
  /\ \E s \in writing : writing' = writing \ {s} /\ valid' = valid \cup {s}
  /\ UNCHANGED <<put, hw_get, buffer, intr, gpuVars, cacheVars, isrVars, envVars, st>>

Replayed == [a \in Accesses |-> IF access[a] = "stalled" THEN "run" ELSE access[a]]

ReplayExecuted ==
  /\ replays > 0
  /\ replays' = replays - 1
  /\ access' = Replayed
  /\ UNCHANGED <<mapped, hwVars, cacheVars, isrVars, envVars, st>>

(* A write of GET: a pulse interrupt's condition is evaluated again, except*)
(* when GET is the dummy register of Confidential Computing.               *)
HwWriteGet(get) ==
  /\ hw_get' = get
  /\ intr' = [intr EXCEPT !.pending = @ \/ (intr.kind = "pulse" /\ get # put)]
-----------------------------------------------------------------------------
(* Interrupts.                                                             *)

(* uvm_gpu_replayable_faults_intr_disable(): the interrupt's registers and *)
(* the ISR state it leaves.                                                *)
IntrDisabled ==
  IF isr.handling /\ isr.disable_intr_ref_count = 0
  THEN [intr EXCEPT !.pending = FALSE, !.enabled = FALSE]
  ELSE intr

Disabled == [isr EXCEPT !.disable_intr_ref_count = @ + 1]

(* Mistake: the bottom half is scheduled without a look at the buffer.     *)
AlwaysPending == TRUE

(* uvm_gpu_replayable_faults_pending(), which may refresh cached_put.      *)
FaultsPending == cached_get # cached_put \/ cached_get \in valid \/ cached_get # put

PutSeen == IF cached_get # cached_put \/ cached_get \in valid THEN cached_put ELSE put

CanSchedule == ~isr.is_suspended /\ isr.handling /\ service_lock = Nobody

(* The caller drops so many references of the GPU afterwards.              *)
schedule_replayable_faults_handler(dropped) ==
  /\ interrupts_lock = Nobody
  /\ \/ /\ ~CanSchedule
        /\ isr' = [isr EXCEPT !.gpu_kref = @ - dropped]
        /\ UNCHANGED <<cached_put, service_lock, intr, queued>>
     \/ /\ CanSchedule /\ ~FaultsPending
        /\ cached_put' = PutSeen
        /\ isr' = [isr EXCEPT !.gpu_kref = @ - dropped]
        /\ UNCHANGED <<service_lock, intr, queued>>
     \/ /\ CanSchedule /\ FaultsPending
        /\ cached_put' = PutSeen
        /\ service_lock' = BH
        /\ isr' = [Disabled EXCEPT !.gpu_kref = (@ + 1) - dropped]
        /\ intr' = IntrDisabled
        /\ queued' = TRUE
  /\ UNCHANGED <<interrupts_lock, cached_get>>

InTable == removal \in {"no", "dying"}

(* uvm_isr_top_half(): it finds the GPU under gpu_table_lock ...           *)
TopHalfEnter ==
  /\ ~topHalf /\ InTable
  /\ topHalf' = TRUE
  /\ isr' = [isr EXCEPT !.gpu_kref = @ + 1]
  /\ UNCHANGED <<hwVars, gpuVars, cacheVars, service_lock, interrupts_lock, queued,
                 removal, power, disturbed, st>>

FaultInterrupt == Asserted /\ TopHalfEnter

(* ... for any interrupt of the GPU.                                       *)
OtherInterrupt == ~Asserted /\ TopHalfEnter

(* ... and takes interrupts_lock.                                          *)
TopHalfSchedule ==
  /\ topHalf
  /\ topHalf' = FALSE
  /\ schedule_replayable_faults_handler(1)
  /\ UNCHANGED <<put, hw_get, buffer, valid, writing, gpuVars, removal, power, disturbed, st>>

-----------------------------------------------------------------------------
(* isr_lock and isr_unlock.                                                *)

IsrLock(a) ==
  /\ At(a, "lock") /\ interrupts_lock = Nobody
  /\ isr' = Disabled
  /\ intr' = IntrDisabled
  /\ Goto(a, "down")
  /\ UNCHANGED <<put, hw_get, buffer, valid, writing, gpuVars, cacheVars, service_lock,
                 interrupts_lock, queued, envVars>>

Down(a) ==
  /\ At(a, "down") /\ service_lock = Nobody
  /\ service_lock' = a
  /\ Goto(a, "flush")
  /\ UNCHANGED <<hwVars, gpuVars, cacheVars, interrupts_lock, isr, queued, envVars>>

Unlocked == IF intr.kind = "cc" THEN "retrigger" ELSE "end"

(* uvm_gpu_replayable_faults_isr_unlock(): under interrupts_lock, enable   *)
(* the interrupt, ...                                                      *)
IsrUnlock(a) ==
  /\ At(a, "unlock") /\ interrupts_lock = Nobody
  /\ \/ /\ isr.handling
        /\ interrupts_lock' = a
        /\ isr' = [isr EXCEPT !.disable_intr_ref_count = @ - 1]
        /\ intr' = [intr EXCEPT !.enabled = @ \/ isr.disable_intr_ref_count = 1]
        /\ Goto(a, "clear")
        /\ UNCHANGED service_lock
     \/ /\ ~isr.handling
        /\ service_lock' = Nobody
        /\ Goto(a, Unlocked)
        /\ UNCHANGED <<interrupts_lock, isr, intr>>
  /\ UNCHANGED <<put, hw_get, buffer, valid, writing, gpuVars, cacheVars, queued, envVars>>

(* ... clear its bit, ...                                                  *)
ClearInterrupt(a) ==
  /\ At(a, "clear")
  /\ intr' = [intr EXCEPT !.pending = FALSE]
  /\ Goto(a, "rearm")
  /\ UNCHANGED <<put, hw_get, buffer, valid, writing, gpuVars, cacheVars, isrVars, envVars>>

(* Mistake: the condition is not evaluated again.                          *)
RearmWithoutGet(a) ==
  /\ At(a, "rearm")
  /\ service_lock' = Nobody /\ interrupts_lock' = Nobody
  /\ Goto(a, Unlocked)
  /\ UNCHANGED <<hwVars, gpuVars, cacheVars, isr, queued, envVars>>

(* ... write GET to have the condition evaluated, release both locks.      *)
Rearm(a) ==
  /\ At(a, "rearm")
  /\ HwWriteGet(cached_get)
  /\ service_lock' = Nobody /\ interrupts_lock' = Nobody
  /\ Goto(a, Unlocked)
  /\ UNCHANGED <<put, buffer, valid, writing, gpuVars, cacheVars, isr, queued, envVars>>

(* Mistake: Confidential Computing is forgotten.                           *)
RetriggerNothing(a) ==
  /\ At(a, "retrigger")
  /\ Goto(a, "end")
  /\ UNCHANGED <<hwVars, gpuVars, cacheVars, isrVars, envVars>>

(* replayable_faults_retrigger_bottom_half()                               *)
Retrigger(a) ==
  /\ At(a, "retrigger")
  /\ schedule_replayable_faults_handler(0)
  /\ Goto(a, "end")
  /\ UNCHANGED <<put, hw_get, buffer, valid, writing, gpuVars, envVars>>

-----------------------------------------------------------------------------
(* The fault buffer.                                                       *)

(* entry_clear_valid(): the entry is not read again before it is written.  *)
ClearEntry(s) ==
  /\ valid' = valid \ {s}
  /\ buffer' = [buffer EXCEPT ![s] = NO_PAGE]

write_get(get) ==
  IF cached_get = get
  THEN UNCHANGED <<cached_get, hw_get, intr>>
  ELSE cached_get' = get /\ HwWriteGet(get)

(* push_replay_on_gpu(): there is room in the channel.                     *)
PushReplay(a) ==
  /\ At(a, "push") /\ replays < PUSHES
  /\ replays' = replays + 1
  /\ Goto(a, st[a].ret)
  /\ UNCHANGED <<hwVars, access, mapped, cacheVars, isrVars, envVars>>

(* fault_buffer_flush_locked(): what it has to skip, ...                   *)
FlushStart(a) ==
  /\ At(a, "flush")
  /\ st[a].mode = "WAIT_UPDATE_PUT" => replays = 0
  /\ cached_put' = IF st[a].mode = "CACHED_PUT" THEN cached_put ELSE put
  /\ Become(a, [st[a] EXCEPT !.pc = "skip", !.get = cached_get])
  /\ UNCHANGED <<hwVars, gpuVars, cached_get, isrVars, envVars>>

(* ... each entry once it is valid, ...                                    *)
SkipEntry(a) ==
  /\ At(a, "skip") /\ st[a].get # cached_put /\ st[a].get \in valid
  /\ ClearEntry(st[a].get)
  /\ Become(a, [st[a] EXCEPT !.get = Wrap(@ + 1)])
  /\ UNCHANGED <<put, hw_get, writing, intr, gpuVars, cacheVars, isrVars, envVars>>

(* ... and, after the last, the replay.                                    *)
FlushEnd(a) ==
  /\ At(a, "skip") /\ st[a].get = cached_put
  /\ write_get(st[a].get)
  /\ Become(a, [st[a] EXCEPT !.pc = "push", !.get = 0, !.batch = {}])
  /\ UNCHANGED <<put, buffer, valid, writing, gpuVars, cached_put, isrVars, envVars>>
-----------------------------------------------------------------------------
(* The bottom half.                                                        *)

(* replayable_faults_isr_bottom_half(): find_first_valid_gpu() looks in    *)
(* the table without its lock.                                             *)
BottomHalf ==
  /\ queued /\ At(BH, "idle")
  /\ queued' = FALSE
  /\ Goto(BH, IF InTable THEN "loop" ELSE "nogpu")
  /\ UNCHANGED <<hwVars, gpuVars, cacheVars, service_lock, interrupts_lock, isr, envVars>>

(* uvm_gpu_service_replayable_faults(): another batch, ...                 *)
FetchStart ==
  /\ At(BH, "loop") /\ st[BH].num_batches < max_batches
  /\ cached_put' = IF cached_get = cached_put THEN put ELSE cached_put
  /\ Become(BH, [st[BH] EXCEPT !.pc = "fetch", !.get = cached_get, !.batch = {}, !.index = 0])
  /\ UNCHANGED <<hwVars, gpuVars, cached_get, isrVars, envVars>>

(* ... or enough of them.                                                  *)
EnoughBatches ==
  /\ At(BH, "loop") /\ st[BH].num_batches = max_batches
  /\ Goto(BH, "finish")
  /\ UNCHANGED <<hwVars, gpuVars, cacheVars, isrVars, envVars>>

(* fetch_fault_buffer_entries() in mode BATCH_READY: an entry, ...         *)
FetchEntry ==
  LET s == st[BH] IN
  /\ At(BH, "fetch")
  /\ s.get # cached_put /\ s.index < max_batch_size /\ s.get \in valid
  /\ ClearEntry(s.get)
  /\ Become(BH, [s EXCEPT !.get = Wrap(@ + 1), !.index = @ + 1,
                          !.batch = @ \cup {buffer[s.get]}])
  /\ UNCHANGED <<put, hw_get, writing, intr, gpuVars, cacheVars, isrVars, envVars>>

(* ... an entry that cannot be decrypted, which stays valid while the ones *)
(* before it are dropped, ...                                              *)
FetchFails ==
  LET s == st[BH] IN
  /\ At(BH, "fetch") /\ intr.kind = "cc" /\ Disturb("failure")
  /\ s.get # cached_put /\ s.index < max_batch_size /\ s.get \in valid
  /\ write_get(s.get)
  /\ Become(BH, [s EXCEPT !.pc = "finish", !.ok = FALSE, !.batch = {},
                          !.get = 0, !.index = 0])
  /\ UNCHANGED <<put, buffer, valid, writing, gpuVars, cached_put, isrVars, topHalf,
                 removal, power>>

(* Mistake: GET moves past the entries that were not valid yet.            *)
FetchEndAtPut ==
  LET s == st[BH] IN
  /\ At(BH, "fetch")
  /\ s.get = cached_put \/ s.index = max_batch_size \/ (s.get \notin valid /\ s.index > 0)
  /\ write_get(cached_put)
  /\ Become(BH, [s EXCEPT !.pc = IF s.index = 0 THEN "finish" ELSE "serve",
                          !.get = 0, !.index = 0])
  /\ UNCHANGED <<put, buffer, valid, writing, gpuVars, cached_put, isrVars, envVars>>

(* ... and the end, at PUT, with a full batch, or at an entry that is not  *)
(* valid yet.                                                              *)
FetchEnd ==
  LET s == st[BH] IN
  /\ At(BH, "fetch")
  /\ \/ s.get = cached_put
     \/ s.index = max_batch_size
     \/ s.get \notin valid /\ s.index > 0
  /\ write_get(s.get)
  /\ Become(BH, [s EXCEPT !.pc = IF s.index = 0 THEN "finish" ELSE "serve",
                          !.get = 0, !.index = 0])
  /\ UNCHANGED <<put, buffer, valid, writing, gpuVars, cached_put, isrVars, envVars>>

(* The batch has a fault of a channel that is gone, or a VA space with     *)
(* needs_fault_buffer_flush: the buffer is flushed and the batch dropped.  *)
StaleBatch ==
  /\ At(BH, "serve")
  /\ \E mode \in {"UPDATE_PUT", "WAIT_UPDATE_PUT"} :
       Become(BH, [st[BH] EXCEPT !.pc = "flush", !.mode = mode, !.num_replays = 1,
                                 !.ret = "loop"])
  /\ \/ removal # "no" /\ UNCHANGED disturbed
     \/ removal = "no" /\ Disturb("stale")
  /\ UNCHANGED <<hwVars, gpuVars, cacheVars, isrVars, topHalf, removal, power>>

(* preprocess_fault_batch(): a sort that runs out of memory.               *)
SortFails ==
  /\ At(BH, "serve") /\ Disturb("failure")
  /\ Become(BH, [st[BH] EXCEPT !.pc = "finish", !.ok = FALSE, !.batch = {}])
  /\ UNCHANGED <<hwVars, gpuVars, cacheVars, isrVars, topHalf, removal, power>>

(* service_fault_batch() and what follows it under each policy.            *)
ServiceBatch ==
  LET s == st[BH] IN
  /\ At(BH, "serve") /\ removal = "no"
  /\ mapped' = mapped \cup (s.batch \ Fatal)
  /\ \/ /\ s.batch \cap Fatal # {}
        /\ Goto(BH, "cancel")
     \/ /\ s.batch \cap Fatal = {} /\ isr.replay_policy = "BATCH"
        /\ Become(BH, [s EXCEPT !.pc = "push", !.ret = "wait"])
     \/ /\ s.batch \cap Fatal = {} /\ isr.replay_policy = "BATCH_FLUSH"
        /\ \E mode \in {"CACHED_PUT", "UPDATE_PUT"} :
             Become(BH, [s EXCEPT !.pc = "flush", !.mode = mode, !.ret = "wait"])
     \/ /\ s.batch \cap Fatal = {} /\ isr.replay_policy = "ONCE"
        /\ Goto(BH, "wait")
  /\ UNCHANGED <<hwVars, access, replays, cacheVars, isrVars, envVars>>

(* service_fault_batch() fails, when some of the pages are mapped: the     *)
(* whole batch is cancelled.                                               *)
ServiceFails ==
  LET s == st[BH] IN
  /\ At(BH, "serve") /\ removal = "no" /\ Disturb("failure")
  /\ \E done \in SUBSET (s.batch \ Fatal) : mapped' = mapped \cup done
  /\ Become(BH, [s EXCEPT !.pc = "cancel", !.ok = FALSE])
  /\ UNCHANGED <<hwVars, access, replays, cacheVars, isrVars, topHalf, removal, power>>

(* cancel_faults_precise_va() and, after an error, cancel_faults_all().    *)
(* The cancel is itself a replay, executed after the earlier ones; then    *)
(* the buffer is flushed.                                                  *)
CancelFaults ==
  LET s == st[BH] IN
  /\ At(BH, "cancel") /\ replays = 0
  /\ LET cancelled == IF s.ok THEN s.batch \cap Fatal ELSE s.batch
     IN  access' = [a \in Accesses |->
                      IF access[a] = "stalled" /\ Page[a] \in cancelled
                      THEN "done" ELSE Replayed[a]]
  /\ Become(BH, [s EXCEPT !.pc = "flush", !.mode = "UPDATE_PUT", !.ret = "finish"])
  /\ UNCHANGED <<mapped, replays, hwVars, cacheVars, isrVars, envVars>>

(* The end of a batch.                                                     *)
BatchDone ==
  /\ At(BH, "wait")
  /\ isr.replay_policy = "BATCH_FLUSH" => replays = 0
  /\ Become(BH, [st[BH] EXCEPT !.pc = "loop", !.num_batches = @ + 1,
                    !.num_replays = IF isr.replay_policy = "ONCE" THEN @ ELSE 1])
  /\ UNCHANGED <<hwVars, gpuVars, cacheVars, isrVars, envVars>>

(* At least one replay.                                                    *)
Finish ==
  LET s == st[BH] IN
  /\ At(BH, "finish")
  /\ \/ /\ (s.ok /\ isr.replay_policy = "ONCE") \/ s.num_replays = 0
        /\ Become(BH, [s EXCEPT !.pc = "push", !.ret = "unlock"])
     \/ /\ ~(s.ok /\ isr.replay_policy = "ONCE") /\ s.num_replays # 0
        /\ Goto(BH, "unlock")
  /\ UNCHANGED <<hwVars, gpuVars, cacheVars, isrVars, envVars>>

(* The reference of the bottom half is dropped.  Without a GPU in the      *)
(* table service_lock stays taken.                                         *)
BottomHalfEnd ==
  /\ At(BH, "end") \/ At(BH, "nogpu")
  /\ isr' = [isr EXCEPT !.gpu_kref = @ - 1]
  /\ Become(BH, Idle)
  /\ UNCHANGED <<hwVars, gpuVars, cacheVars, service_lock, interrupts_lock, queued, envVars>>
-----------------------------------------------------------------------------
(* The threads.                                                            *)

Flushing == [Idle EXCEPT !.pc = "lock", !.mode = "WAIT_UPDATE_PUT", !.ret = "unlock"]

(* uvm_gpu_fault_buffer_flush(), by a thread that has retained the GPU.    *)
uvm_gpu_fault_buffer_flush(t) ==
  /\ At(t, "idle") /\ removal = "no" /\ power = "on" /\ Disturb("flush")
  /\ Become(t, Flushing)
  /\ UNCHANGED <<hwVars, gpuVars, cacheVars, isrVars, topHalf, removal, power>>

FlushReturns(t) ==
  /\ At(t, "end")
  /\ Become(t, Idle)
  /\ UNCHANGED <<hwVars, gpuVars, cacheVars, isrVars, envVars>>

(* Mistake: the buffer is not flushed before the sleep cycle.              *)
SuspendWithoutFlush ==
  /\ At(PM, "idle") /\ removal = "no" /\ Disturb("suspend")
  /\ \A t \in Threads : At(t, "idle")
  /\ power' = "preempted"
  /\ access' = Replayed
  /\ Become(PM, [Idle EXCEPT !.pc = "end"])
  /\ UNCHANGED <<hwVars, mapped, replays, cacheVars, isrVars, topHalf, removal>>

(* uvm_suspend() takes pm.lock from the threads; the contexts have been    *)
(* preempted.  It flushes the buffer, ...                                  *)
Suspend ==
  /\ At(PM, "idle") /\ removal = "no" /\ Disturb("suspend")
  /\ \A t \in Threads : At(t, "idle")
  /\ power' = "preempted"
  /\ access' = Replayed
  /\ Become(PM, Flushing)
  /\ UNCHANGED <<hwVars, mapped, replays, cacheVars, isrVars, topHalf, removal>>

(* ... suspends the top half, ...                                          *)
SuspendTopHalf ==
  /\ At(PM, "end") /\ interrupts_lock = Nobody
  /\ isr' = [isr EXCEPT !.is_suspended = TRUE]
  /\ Goto(PM, "drain")
  /\ UNCHANGED <<hwVars, gpuVars, cacheVars, service_lock, interrupts_lock, queued, envVars>>

(* ... and waits for the bottom half.                                      *)
SuspendDrains ==
  /\ At(PM, "drain") /\ ~queued /\ At(BH, "idle")
  /\ Goto(PM, "off")
  /\ UNCHANGED <<hwVars, gpuVars, cacheVars, isrVars, envVars>>

(* The state of the fault buffer may be lost.                              *)
PowerLoss ==
  /\ At(PM, "off")
  /\ put' = 0 /\ hw_get' = 0 /\ valid' = {} /\ writing' = {}
  /\ intr' = [intr EXCEPT !.pending = FALSE]
  /\ UNCHANGED <<buffer, gpuVars, cacheVars, isrVars, envVars, st>>

(* uvm_resume()                                                            *)
Resume ==
  /\ At(PM, "off") /\ interrupts_lock = Nobody
  /\ cached_get' = hw_get /\ cached_put' = put
  /\ isr' = [isr EXCEPT !.is_suspended = FALSE]
  /\ power' = "on"
  /\ Become(PM, Idle)
  /\ UNCHANGED <<hwVars, gpuVars, service_lock, interrupts_lock, queued, topHalf, removal,
                 disturbed>>

-----------------------------------------------------------------------------
(* remove_gpu(), when nothing retains the GPU: its channels are gone.      *)

LastRelease ==
  /\ removal = "no" /\ Disturb("removal") /\ \A a \in Actors \ {BH} : At(a, "idle")
  /\ removal' = "dying"
  /\ access' = [a \in Accesses |-> "done"]
  /\ UNCHANGED <<hwVars, mapped, replays, cacheVars, isrVars, topHalf, power, st>>

RemoveFromTable ==
  /\ removal = "dying"
  /\ removal' = "removed"
  /\ UNCHANGED <<hwVars, gpuVars, cacheVars, isrVars, topHalf, power, disturbed, st>>

(* Mistake: handling is not cleared.                                       *)
DisableIsrStillHandling ==
  /\ removal = "removed" /\ interrupts_lock = Nobody
  /\ isr' = [Disabled EXCEPT !.was_handling = isr.handling]
  /\ intr' = IntrDisabled
  /\ removal' = "disabled"
  /\ UNCHANGED <<put, hw_get, buffer, valid, writing, gpuVars, cacheVars, service_lock,
                 interrupts_lock, queued, topHalf, power, disturbed, st>>

(* uvm_gpu_disable_isr()                                                   *)
DisableIsr ==
  /\ removal = "removed" /\ interrupts_lock = Nobody
  /\ isr' = [Disabled EXCEPT !.was_handling = isr.handling, !.handling = FALSE]
  /\ intr' = IntrDisabled
  /\ removal' = "disabled"
  /\ UNCHANGED <<put, hw_get, buffer, valid, writing, gpuVars, cacheVars, service_lock,
                 interrupts_lock, queued, topHalf, power, disturbed, st>>

(* nv_kthread_q_stop() returns once the queue is empty.                    *)
StopQueue ==
  /\ removal = "disabled" /\ ~queued /\ At(BH, "idle")
  /\ removal' = "stopped"
  /\ UNCHANGED <<hwVars, gpuVars, cacheVars, isrVars, topHalf, power, disturbed, st>>

(* uvm_gpu_deinit_isr() and the rest of deinit_parent_gpu()                *)
Deinit ==
  /\ removal = "stopped"
  /\ removal' = "deinit"
  /\ isr' = [isr EXCEPT !.gpu_kref = @ - 1]
  /\ UNCHANGED <<hwVars, gpuVars, cacheVars, service_lock, interrupts_lock, queued, topHalf,
                 power, disturbed, st>>

-----------------------------------------------------------------------------
Gpu == EntryWritten \/ ReplayExecuted \/ \E a \in Accesses : Access(a)

Locking(a) ==
  \/ IsrLock(a) \/ Down(a) \/ IsrUnlock(a) \/ ClearInterrupt(a) \/ Rearm(a) \/ Retrigger(a)
  \/ PushReplay(a) \/ FlushStart(a) \/ SkipEntry(a) \/ FlushEnd(a)

ServiceFaults ==
  \/ BottomHalf \/ FetchStart \/ EnoughBatches \/ FetchEntry \/ FetchEnd \/ ServiceBatch
  \/ CancelFaults \/ BatchDone \/ Finish \/ BottomHalfEnd \/ Locking(BH)
  \/ removal # "no" /\ StaleBatch

Sleep == SuspendTopHalf \/ SuspendDrains \/ Resume \/ Locking(PM)

Remove == RemoveFromTable \/ DisableIsr \/ StopQueue \/ Deinit

Next ==
  \/ Gpu \/ FaultInterrupt \/ OtherInterrupt \/ TopHalfSchedule
  \/ ServiceFaults \/ StaleBatch \/ FetchFails \/ SortFails \/ ServiceFails
  \/ Suspend \/ Sleep \/ PowerLoss
  \/ LastRelease \/ Remove
  \/ \E t \in Threads : uvm_gpu_fault_buffer_flush(t) \/ FlushReturns(t) \/ Locking(t)

Spec == Init /\ [][Next]_vars

(* The GPU runs, writes its entries and executes what is pushed to it; an  *)
(* asserted interrupt is delivered; every thread is scheduled.             *)
Fairness ==
  /\ WF_vars(EntryWritten) /\ WF_vars(ReplayExecuted)
  /\ \A a \in Accesses : WF_vars(Access(a))
  /\ WF_vars(FaultInterrupt) /\ WF_vars(TopHalfSchedule)
  /\ WF_vars(ServiceFaults) /\ WF_vars(Sleep) /\ WF_vars(Remove)
  /\ \A t \in Threads : WF_vars(FlushReturns(t) \/ Locking(t))

FairSpec == Spec /\ Fairness
-----------------------------------------------------------------------------
(* Properties.                                                             *)

(* The entries from one pointer of the ring up to another.                 *)
Window(from, to) ==
  IF from <= to THEN from .. to - 1 ELSE (from .. max_faults - 1) \cup (0 .. to - 1)

(* No fault leaves the buffer unread: every entry that is valid, or is to  *)
(* become valid, lies between GET and PUT, where the GPU does not write;   *)
(* and whenever nobody services or flushes, all entries between them are.  *)
NoEntryLost ==
  /\ valid \cup writing \subseteq Window(hw_get, put)
  /\ service_lock = Nobody => valid \cup writing = Window(hw_get, put)

(* No interrupt storm: while the top half could do nothing about it,       *)
(* because somebody holds service_lock or the GPU sleeps, the fault        *)
(* interrupt does not fire.                                                *)
NoStorm ==
  interrupts_lock = Nobody /\ (service_lock # Nobody \/ isr.is_suspended) => ~Asserted

(* What the comment in isr_unlock promises of a pulse interrupt: once it   *)
(* is enabled again its bit is current, neither missing with GET # PUT (a  *)
(* lost interrupt) nor set with GET = PUT (a storm).                       *)
PendingCurrent ==
  intr.kind = "pulse" /\ intr.enabled /\ interrupts_lock = Nobody /\ service_lock = Nobody
     => (intr.pending <=> hw_get # put)

(* When remove_gpu() has stopped the queue nothing can service or enable   *)
(* faults again, and the assertion of uvm_gpu_deinit_isr() holds, whatever *)
(* the bottom half was doing when handling was cleared.                    *)
RemovedQuiet ==
  removal \in {"stopped", "deinit"} =>
    /\ ~queued /\ At(BH, "idle") /\ ~intr.enabled
    /\ isr.was_handling => isr.disable_intr_ref_count > 0

(* No fault is lost: where every page can be mapped, an access that stalls *)
(* is served, unless fetching, sorting or servicing a batch fails: each    *)
(* exit of uvm_gpu_service_replayable_faults() replays what was fetched.   *)
AccessesServed ==
  \A a \in Accesses :
    access[a] = "stalled" ~> access[a] = "done" \/ "failure" \in disturbed

(* The comment at the end of uvm_gpu_service_replayable_faults(): no       *)
(* failure drops a fault that does not show up in the buffer.              *)
FailuresServed == \A a \in Accesses : access[a] = "stalled" ~> access[a] = "done"

(* Flushes, sleep cycles and the removal end: the GPU, the bottom half and *)
(* the retrigger, which take service_lock in between, cannot keep a thread *)
(* waiting as long as the GPU's accesses are finitely many.                *)
Busy == (\E a \in Actors \ {BH} : ~At(a, "idle")) \/ removal \notin {"no", "deinit"}

ThreadsReturn == Busy ~> ~Busy

(* The assertion of find_first_valid_gpu(): the bottom half finds its GPU. *)
(* TLC refutes this: README, section 4.                                    *)
FirstGpuFound == ~At(BH, "nogpu")
=============================================================================

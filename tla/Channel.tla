------------------------------- MODULE Channel -------------------------------
(***************************************************************************)
(* A UVM channel (uvm_channel.c) with its tracking semaphore               *)
(* (uvm_gpu_semaphore.c).  CPU threads reserve GPFIFO entries, fill them   *)
(* by pushes or control writes, and reclaim the ones the GPU has finished; *)
(* the GPU consumes the ring and releases the 32-bit tracking semaphore at *)
(* the end of each push.                                                   *)
(*                                                                         *)
(* Every action is one critical section of the pool lock or of the         *)
(* semaphore lock, or one step of a retry loop between two of them.  The   *)
(* variables gets, puts, done and released are history variables: the      *)
(* number of entries ever reclaimed, submitted and processed, and the      *)
(* 64-bit value of which the semaphore payload holds the low bits.         *)
(***************************************************************************)
EXTENDS Integers, FiniteSets, Sequences

CONSTANTS
  num_gpfifo_entries,  \* size of the ring, one entry of which stays unused
  PAYLOADS,            \* number of values of the semaphore payload (2^32)
  PROGRESS_COUNT,      \* entries uvm_channel_update_progress() may reclaim
  NO_PUSH_INFO,        \* no push info
  Threads,             \* CPU threads
  MAX_ENTRIES          \* bound: no reservation starts after so many entries

(* The limits of num_gpfifo_entries are in channel_manager_create() and    *)
(* channel_pool_type_num_gpfifo_entries(): at least 3 ("1 for sentinel and *)
(* 2 more for submitting GPFIFO control entries") and at most 2^20.        *)
ASSUME ChannelAssumption ==
  /\ num_gpfifo_entries \in Nat /\ num_gpfifo_entries >= 3
  /\ PAYLOADS \in Nat /\ PAYLOADS >= num_gpfifo_entries
  /\ PROGRESS_COUNT \in Nat \ {0}
  /\ MAX_ENTRIES \in Nat
  /\ NO_PUSH_INFO \notin 0 .. num_gpfifo_entries - 1
  /\ IsFiniteSet(Threads)

VARIABLES
  gpu_get,                \* first entry not reclaimed
  cpu_put,                \* next entry to fill
  current_gpfifo_count,   \* entries reserved and not yet filled
  gpfifo_entries,         \* the software ring
  available_push_infos,   \* list of the push infos not in use
  queued_value,           \* 64-bit value of the last push submitted
  completed_value,        \* 64-bit value of the last push seen to be complete
  payload,                \* the semaphore in memory, written by the GPU
  hw_get,                 \* next entry the GPU will process
  gets, puts, done,       \* history: entries reclaimed, filled, processed
  released,               \* history: 64-bit value of the last release
  thread,                 \* thread -> program counter and locals
  channel_error,          \* error notifier of the channel
  fatal_error             \* uvm_global_get_status() is not NV_OK

ring == <<gpu_get, cpu_put, current_gpfifo_count, gpfifo_entries,
          available_push_infos, queued_value, gets, puts>>
gpu == <<payload, hw_get, done, released, channel_error>>
vars == <<ring, gpu, completed_value, thread, fatal_error>>

Slots == 0 .. num_gpfifo_entries - 1

(* Indices of the channel's push_infos[], as many as entries.              *)
PushInfos == 0 .. num_gpfifo_entries - 1

Entry == [type : {"NORMAL", "CONTROL"}, tracking_semaphore_value : Nat,
          push_info : PushInfos \cup {NO_PUSH_INFO}]

(* "reserve" is the first try of a reservation, "retry" a later one;       *)
(* "update" and "update_all" are calls of channel_update_progress_with_max *)
(* before it reads the completed value, "progress" and "progress_all"      *)
(* after it; "check" is a call of uvm_channel_check_errors().              *)
PC == {"idle", "reserve", "retry", "check", "update", "update_all", "progress",
       "progress_all", "ctrl", "begin", "building", "wait"}

(* What the thread is doing, that is, where it returns to.  "pool" is      *)
(* channel_reserve_in_pool(), "channel" uvm_channel_reserve(channel, 1)    *)
(* and "ctrl" uvm_channel_write_ctrl_gpfifo().                             *)
Caller == {"none", "pool", "channel", "ctrl", "begin", "wait"}

ThreadState == [pc : PC, caller : Caller, status : BOOLEAN, completed : Nat,
                push_info : PushInfos \cup {NO_PUSH_INFO}, value : Nat]

TypeOK ==
  /\ gpu_get \in Slots /\ cpu_put \in Slots /\ hw_get \in Slots
  /\ current_gpfifo_count \in Slots
  /\ gpfifo_entries \in [Slots -> Entry]
  /\ available_push_infos \in Seq(PushInfos)
  /\ queued_value \in Nat /\ completed_value \in Nat /\ released \in Nat
  /\ payload \in 0 .. PAYLOADS - 1
  /\ gets \in Nat /\ puts \in Nat /\ done \in Nat
  /\ thread \in [Threads -> ThreadState]
  /\ channel_error \in BOOLEAN /\ fatal_error \in BOOLEAN

-----------------------------------------------------------------------------
Next_(i) == (i + 1) % num_gpfifo_entries

pending == (cpu_put - gpu_get) % num_gpfifo_entries

channel_get_available_gpfifo_entries ==
  (num_gpfifo_entries - 1) - (current_gpfifo_count + pending)

(* Mistake: the reservation forgets the entries other threads hold.        *)
try_claim_channel_NoReserved(n) ==
  /\ (num_gpfifo_entries - 1) - pending >= n
  /\ current_gpfifo_count' = current_gpfifo_count + n

try_claim_channel(n) ==
  /\ channel_get_available_gpfifo_entries >= n
  /\ current_gpfifo_count' = current_gpfifo_count + n

(* Mistake: the wrap-around of the payload is not noticed.                 *)
Extend_NoWrap(old, new_sem_value) == (old - (old % PAYLOADS)) + new_sem_value

(* update_completed_value_locked(): the 64-bit value of the payload.       *)
Extend(old, new_sem_value) ==
  LET new == (old - (old % PAYLOADS)) + new_sem_value
  IN  IF new_sem_value < old % PAYLOADS THEN new + PAYLOADS ELSE new

Goto(t, to) == thread' = [thread EXCEPT ![t].pc = to]
Set(t, to) == thread' = [thread EXCEPT ![t] = to]

(* A thread with nothing to do; status is what its last wait returned.     *)
Idle(status) == [pc |-> "idle", caller |-> "none", status |-> status,
                 completed |-> 0, push_info |-> NO_PUSH_INFO, value |-> 0]

Init ==
  /\ gpu_get = 0 /\ cpu_put = 0 /\ hw_get = 0
  /\ current_gpfifo_count = 0
  /\ gpfifo_entries = [i \in Slots |->
                         [type |-> "NORMAL", tracking_semaphore_value |-> 0,
                          push_info |-> NO_PUSH_INFO]]
  /\ available_push_infos = [i \in 1 .. num_gpfifo_entries |-> i - 1]
  /\ queued_value = 0 /\ completed_value = 0 /\ payload = 0 /\ released = 0
  /\ gets = 0 /\ puts = 0 /\ done = 0
  /\ thread = [t \in Threads |-> Idle(FALSE)]
  /\ channel_error = FALSE /\ fatal_error = FALSE

-----------------------------------------------------------------------------
(* Reservation.                                                            *)

StartReserve(t, caller) ==
  /\ thread[t].pc = "idle"
  /\ puts < MAX_ENTRIES
  /\ Set(t, [thread[t] EXCEPT !.pc = "reserve", !.caller = caller,
                              !.status = TRUE])
  /\ UNCHANGED <<ring, gpu, completed_value, fatal_error>>

Wanted(caller) == IF caller = "ctrl" THEN 2 ELSE 1

(* A successful try.  The loop of uvm_channel_reserve() tries once more    *)
(* after check_errors() failed; it then returns the error and the entries  *)
(* stay reserved.                                                          *)
Claim(t) ==
  /\ thread[t].pc \in {"reserve", "retry"}
  /\ try_claim_channel(Wanted(thread[t].caller))
  /\ IF thread[t].status
     THEN IF thread[t].caller = "ctrl"
          THEN Goto(t, "ctrl")
          ELSE Set(t, [thread[t] EXCEPT !.pc = "begin", !.caller = "begin"])
     ELSE Set(t, Idle(FALSE))
  /\ UNCHANGED <<gpu_get, cpu_put, gpfifo_entries, available_push_infos,
                 queued_value, gets, puts, gpu, completed_value, fatal_error>>

(* An unsuccessful try: make progress, check for errors, or give up.       *)
NoEntry(t) ==
  /\ thread[t].pc \in {"reserve", "retry"}
  /\ channel_get_available_gpfifo_entries < Wanted(thread[t].caller)
  /\ \/ thread[t].pc = "reserve" /\ Goto(t, "update")
     \/ thread[t].pc = "retry" /\ thread[t].status /\ Goto(t, "check")
     \/ /\ thread[t].pc = "retry" /\ ~thread[t].status
        /\ Set(t, Idle(FALSE))
  /\ UNCHANGED <<ring, gpu, completed_value, fatal_error>>

(* uvm_channel_check_errors() in the loops.  An error first makes all the  *)
(* progress it can, to find the entry to blame.                            *)
CheckErrors(t) ==
  /\ thread[t].pc = "check"
  /\ IF channel_error
     THEN Goto(t, "update_all")
     ELSE IF thread[t].caller = "wait"
     THEN Set(t, [thread[t] EXCEPT !.pc = "wait", !.status = ~fatal_error])
     ELSE Goto(t, "update")
  /\ UNCHANGED <<ring, gpu, completed_value, fatal_error>>

-----------------------------------------------------------------------------
(* Progress.                                                               *)

(* uvm_channel_update_progress() outside a reservation.                    *)
StartUpdate(t) ==
  /\ thread[t].pc = "idle"
  /\ Goto(t, "update")
  /\ UNCHANGED <<ring, gpu, completed_value, fatal_error>>

(* uvm_gpu_tracking_semaphore_update_completed_value(), which              *)
(* channel_update_progress_with_max() calls before it takes the pool lock. *)
UpdateCompleted(t) ==
  LET new == Extend(completed_value, payload)
  IN  /\ thread[t].pc \in {"update", "update_all"}
      /\ completed_value' = new
      /\ Set(t, [thread[t] EXCEPT
                   !.pc = IF @ = "update" THEN "progress" ELSE "progress_all",
                   !.completed = new])
      /\ UNCHANGED <<ring, gpu, fatal_error>>

(* Its loop under the pool lock reclaims n entries: all those complete, up *)
(* to the limit.  It appends their push infos to the list in ring order.   *)
FirstEntry(i) == gpfifo_entries[(gpu_get + i) % num_gpfifo_entries]

Limit(pc) == IF pc = "progress_all" \/ pending < PROGRESS_COUNT
             THEN pending ELSE PROGRESS_COUNT

(* Mistake: an entry of the value just completed is not reclaimed.         *)
Completable_Strict(n, completed, limit) ==
  /\ \A i \in 0 .. n - 1 : FirstEntry(i).tracking_semaphore_value < completed
  /\ n = limit \/ FirstEntry(n).tracking_semaphore_value >= completed

Completable(n, completed, limit) ==
  /\ \A i \in 0 .. n - 1 : FirstEntry(i).tracking_semaphore_value <= completed
  /\ n = limit \/ FirstEntry(n).tracking_semaphore_value > completed

(* Where the thread goes on after the update.  After update_all it has     *)
(* found an error.                                                         *)
AfterProgress(s) ==
  IF s.pc = "progress"
  THEN IF s.caller = "none" THEN Idle(FALSE)
       ELSE [s EXCEPT !.pc = "retry", !.completed = 0]
  ELSE IF s.caller \in {"pool", "begin"}
  THEN Idle(FALSE)
  ELSE [s EXCEPT !.pc = IF s.caller = "wait" THEN "wait" ELSE "update",
                 !.status = FALSE, !.completed = 0]

UpdateProgress(t, n) ==
  LET s == thread[t]
      normal == {i \in 0 .. n - 1 : FirstEntry(i).type = "NORMAL"}
  IN  /\ s.pc \in {"progress", "progress_all"}
      /\ n <= Limit(s.pc)
      /\ Completable(n, s.completed, Limit(s.pc))
      /\ gpu_get' = (gpu_get + n) % num_gpfifo_entries
      /\ gets' = gets + n
      /\ \E f \in [1 .. Cardinality(normal) -> normal] :
           /\ \A j, k \in DOMAIN f : j < k => f[j] < f[k]
           /\ available_push_infos' = available_push_infos \o
                [j \in 1 .. Cardinality(normal) |-> FirstEntry(f[j]).push_info]
      /\ fatal_error' = (fatal_error \/ s.pc = "progress_all")
      /\ Set(t, AfterProgress(s))
      /\ UNCHANGED <<cpu_put, current_gpfifo_count, gpfifo_entries,
                     queued_value, puts, gpu, completed_value>>

-----------------------------------------------------------------------------
(* Pushes.                                                                 *)

(* Mistake: the push info stays on the list.                               *)
BeginPush_KeepsInfo(t) ==
  /\ thread[t].pc = "begin"
  /\ available_push_infos # <<>>
  /\ Set(t, [thread[t] EXCEPT !.pc = "building", !.caller = "none",
                              !.push_info = Head(available_push_infos)])
  /\ UNCHANGED <<ring, gpu, completed_value, fatal_error>>

(* uvm_channel_begin_push() after the pushbuffer gave it space.            *)
BeginPush(t) ==
  /\ thread[t].pc = "begin"
  /\ available_push_infos # <<>>
  /\ available_push_infos' = Tail(available_push_infos)
  /\ Set(t, [thread[t] EXCEPT !.pc = "building", !.caller = "none",
                              !.push_info = Head(available_push_infos)])
  /\ UNCHANGED <<gpu_get, cpu_put, current_gpfifo_count, gpfifo_entries,
                 queued_value, gets, puts, gpu, completed_value, fatal_error>>

(* It fails when claim_chunk() finds that some channel failed; the entry   *)
(* stays reserved.                                                         *)
BeginPushFails(t) ==
  /\ thread[t].pc = "begin"
  /\ \/ /\ fatal_error
        /\ Set(t, Idle(FALSE))
     \/ /\ ~fatal_error /\ channel_error
        /\ Goto(t, "update_all")
  /\ UNCHANGED <<ring, gpu, completed_value, fatal_error>>

Submit(entry) ==
  /\ gpfifo_entries' = [gpfifo_entries EXCEPT ![cpu_put] = entry]
  /\ current_gpfifo_count' = current_gpfifo_count - 1
  /\ cpu_put' = Next_(cpu_put)
  /\ puts' = puts + 1

(* uvm_channel_end_push().  The thread keeps channel_tracking_value.       *)
EndPush(t) ==
  /\ thread[t].pc = "building"
  /\ queued_value' = queued_value + 1
  /\ Submit([type |-> "NORMAL", tracking_semaphore_value |-> queued_value + 1,
             push_info |-> thread[t].push_info])
  /\ Set(t, [thread[t] EXCEPT !.pc = "wait", !.caller = "wait",
                              !.push_info = NO_PUSH_INFO,
                              !.status = TRUE, !.value = queued_value + 1])
  /\ UNCHANGED <<gpu_get, available_push_infos, gets, gpu, completed_value,
                 fatal_error>>

(* Mistake: the control entry carries the value of the push before it.     *)
WriteCtrl_PreviousValue(t) ==
  /\ thread[t].pc = "ctrl"
  /\ Submit([type |-> "CONTROL", tracking_semaphore_value |-> queued_value,
             push_info |-> NO_PUSH_INFO])
  /\ Set(t, [thread[t] EXCEPT !.pc = "begin", !.caller = "begin"])
  /\ UNCHANGED <<gpu_get, available_push_infos, queued_value, gets, gpu,
                 completed_value, fatal_error>>

(* write_ctrl_gpfifo(); the push that follows it uses the other entry.     *)
WriteCtrl(t) ==
  /\ thread[t].pc = "ctrl"
  /\ Submit([type |-> "CONTROL",
             tracking_semaphore_value |-> queued_value + 1,
             push_info |-> NO_PUSH_INFO])
  /\ Set(t, [thread[t] EXCEPT !.pc = "begin", !.caller = "begin"])
  /\ UNCHANGED <<gpu_get, available_push_infos, queued_value, gets, gpu,
                 completed_value, fatal_error>>

(* The caller of uvm_push_end() does not wait for the push.                *)
DontWait(t) ==
  /\ thread[t].pc = "wait"
  /\ Set(t, Idle(FALSE))
  /\ UNCHANGED <<ring, gpu, completed_value, fatal_error>>

(* uvm_tracker_wait_for_entry(): the loop's condition                      *)
(* uvm_gpu_tracking_semaphore_is_value_completed().                        *)
Wait(t) ==
  LET new == IF completed_value >= thread[t].value
             THEN completed_value ELSE Extend(completed_value, payload)
  IN  /\ thread[t].pc = "wait"
      /\ completed_value' = new
      /\ IF new >= thread[t].value \/ ~thread[t].status
         THEN Set(t, Idle(thread[t].status))
         ELSE Goto(t, "check")
      /\ UNCHANGED <<ring, gpu, fatal_error>>

-----------------------------------------------------------------------------
(* The GPU.                                                                *)

(* The GPU processes the entry at its get pointer; the last method of a    *)
(* push releases the semaphore with the low bits of its value.             *)
GpuProcess ==
  LET entry == gpfifo_entries[hw_get]
      value == entry.tracking_semaphore_value
  IN  /\ ~channel_error
      /\ hw_get # cpu_put
      /\ hw_get' = Next_(hw_get)
      /\ done' = done + 1
      /\ IF entry.type = "NORMAL"
         THEN payload' = value % PAYLOADS /\ released' = value
         ELSE UNCHANGED <<payload, released>>
      /\ UNCHANGED <<ring, completed_value, thread, channel_error, fatal_error>>

GpuError ==
  /\ ~channel_error
  /\ channel_error' = TRUE
  /\ UNCHANGED <<ring, payload, hw_get, done, released, completed_value,
                 thread, fatal_error>>

(* Another channel of the driver failed.                                   *)
OtherError ==
  /\ ~fatal_error
  /\ fatal_error' = TRUE
  /\ UNCHANGED <<ring, gpu, completed_value, thread>>

(* What a thread does next once it has started an operation.               *)
ThreadStep(t) ==
  \/ Claim(t) \/ NoEntry(t) \/ CheckErrors(t) \/ UpdateCompleted(t)
  \/ \E n \in 0 .. num_gpfifo_entries - 1 : UpdateProgress(t, n)
  \/ BeginPush(t) \/ BeginPushFails(t) \/ EndPush(t) \/ WriteCtrl(t) \/ Wait(t)

NextNoError ==
  \/ \E t \in Threads :
       \/ ThreadStep(t) \/ StartUpdate(t) \/ DontWait(t)
       \/ \E caller \in {"pool", "channel", "ctrl"} : StartReserve(t, caller)
  \/ GpuProcess

Next == NextNoError \/ GpuError \/ OtherError

Spec == Init /\ [][Next]_vars

(* Threads in the kernel are scheduled and the GPU runs what was submitted *)
(* to it.                                                                  *)
FairSpec ==
  /\ Init /\ [][Next]_vars
  /\ WF_vars(GpuProcess)
  /\ \A t \in Threads : WF_vars(ThreadStep(t))

-----------------------------------------------------------------------------
(* Correctness.                                                            *)

(* The entry submitted as number k of the channel's lifetime.              *)
Nth(k) == gpfifo_entries[k % num_gpfifo_entries]

(* The reserved entries the threads have yet to fill.                      *)
Holders == {t \in Threads : thread[t].pc \in {"begin", "building"}}
CtrlHolders == {t \in Threads : thread[t].pc = "ctrl"}
Held == Cardinality(Holders) + 2 * Cardinality(CtrlHolders)

(* uvm_channel_end_push() and write_ctrl_gpfifo() never run over an entry  *)
(* still in use: what is reserved and what is pending fit into the ring,   *)
(* so the unsigned channel_get_available_gpfifo_entries() cannot wrap, and *)
(* every thread about to submit has its entry counted.                     *)
RingHasRoom ==
  /\ (puts - gets) + current_gpfifo_count <= num_gpfifo_entries - 1
  /\ current_gpfifo_count >= Held

(* channel_update_progress_with_max() reclaims an entry (and with it its   *)
(* pushbuffer space and push info) only after the GPU processed it, even   *)
(* though the completed value it uses was read before the pool lock was    *)
(* taken, and though a control entry carries the value of a later push.    *)
NoEarlyReclaim == gets <= done /\ done <= puts

(* The 64-bit completed value, pieced together from 32-bit payloads, never *)
(* runs ahead of what the GPU released nor misses a wrap-around, and at    *)
(* most one ring of pushes lies between it and the last push queued (the   *)
(* comment of update_completed_value_locked() relies on it).               *)
CompletedExact ==
  /\ completed_value <= released /\ released <= queued_value
  /\ Extend(completed_value, payload) = released
  /\ queued_value - completed_value <= num_gpfifo_entries - 1

(* A push info is once on the list, or used by exactly one unfinished push *)
(* (a thread building it, or a pending entry).  One is always left for a   *)
(* thread that holds a reserved entry, as                                  *)
(* channel_get_available_push_info_index() asserts.                        *)
PushInfosOwned ==
  LET building == {t \in Threads : thread[t].pc = "building"}
      normal == {k \in gets .. puts - 1 : Nth(k).type = "NORMAL"}
      free == {available_push_infos[i] : i \in DOMAIN available_push_infos}
  IN  /\ Cardinality(free) = Len(available_push_infos)
      /\ \A t \in building : /\ thread[t].push_info \notin free
                             /\ \A u \in building \ {t} :
                                  thread[t].push_info # thread[u].push_info
      /\ \A k \in normal : /\ Nth(k).push_info \notin free
                           /\ \A l \in normal \ {k} :
                                Nth(k).push_info # Nth(l).push_info
                           /\ \A t \in building :
                                Nth(k).push_info # thread[t].push_info
      /\ (\E t \in Threads : thread[t].pc = "begin") => free # {}

(* The step in which t returns from uvm_tracker_wait_for_entry() with      *)
(* NV_OK.                                                                  *)
Returns(t) == thread[t].pc = "wait" /\ thread'[t].pc = "idle" /\ thread'[t].status

ReturnsAfterRelease == \A t \in Threads : Returns(t) => released >= thread[t].value

(* A thread that returns from uvm_tracker_wait_for_entry() with NV_OK      *)
(* returns after the GPU released the semaphore of its push.               *)
WaitSound == [][ReturnsAfterRelease]_vars

(* Unless the driver has met a fatal error, a reservation ends and a       *)
(* waiter's push completes: the entries it waits for are reclaimed,        *)
(* control entries included, once other threads stop taking them           *)
(* (MAX_ENTRIES), and an error of the channel itself does not leave a      *)
(* thread waiting.                                                         *)
OperationsEnd ==
  \A t \in Threads :
    thread[t].pc \in {"reserve", "retry", "wait"} ~>
      thread[t].pc \in {"ctrl", "begin", "idle"} \/ fatal_error
=============================================================================

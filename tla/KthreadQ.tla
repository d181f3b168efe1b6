------------------------------ MODULE KthreadQ ------------------------------
(* nv_kthread_q of the Nanos port (nvidia/nv-kthread-q.c): a first-in      *)
(* first-out queue of items that a kernel context of its own runs.         *)
(*                                                                         *)
(* Clients schedule items (directly, or through os_queue_work_item()),     *)
(* flush the queue and stop it; an item's function may schedule items too, *)
(* itself included.  q_sem is used as a counting semaphore (module         *)
(* Semaphore), the list under q_lock only; a step is a critical section or *)
(* one access to shared memory.                                            *)
(*                                                                         *)
(* The clients keep to nv-kthread-q.h: no call is in progress when one     *)
(* calls nv_kthread_q_stop(), nobody schedules or flushes while it stops   *)
(* the queue, and its caller first sets a flag that makes the functions    *)
(* run from then on schedule nothing more.  Calls made later, which the    *)
(* code turns away, are included.                                          *)
EXTENDS Integers, Sequences, SequencesExt, FiniteSets

CONSTANTS Clients, Items,
          Contexts,   \* the kernel contexts that nv_kthread_q_init() starts
          NONE,
          REUSE       \* is the queue initialised again after a stop

ASSUME KthreadQAssumption ==
  /\ IsFiniteSet(Clients) /\ IsFiniteSet(Contexts)
  /\ Items \cap Clients = {} /\ Clients \cap Contexts = {}
  /\ NONE \notin Items \cup Clients \cup Contexts
  /\ REUSE \in BOOLEAN

VARIABLES q_list,        \* the items; a client stands for its flush item
          q_sem, main_loop_should_exit, ctx,
          stop_rescheduling, \* the flag of the caller of nv_kthread_q_stop()
          done,          \* done[c]: the flush item of c has run
          actor,         \* the state of every client and context
          owed, owed2    \* history: what a flush has to wait for

queue == <<q_list, q_sem, main_loop_should_exit, ctx>>
vars == <<queue, stop_rescheduling, done, actor, owed, owed2>>

Actors == Clients \cup Contexts

(* item is what the actor schedules, running the item whose function runs, *)
(* saw the flag as that function found it, again whether it scheduled its  *)
(* own item; round is the flush of the two that nv_kthread_q_flush()       *)
(* makes, stop whether nv_kthread_q_stop() called it.                      *)
PC == {"idle", "enabled", "check", "add", "up",
       "flush_enabled", "flush", "flush_add", "flush_up", "flush_wait",
       "stop", "stopping", "stop_up", "stopped",
       "none", "down", "loop", "take", "start", "run", "exit", "gone"}

State == [pc : PC, item : Items \cup {NONE},
          running : Items \cup Clients \cup {NONE},
          saw : BOOLEAN, again : BOOLEAN, round : 1 .. 2, stop : BOOLEAN]

TypeOK ==
  /\ q_list \in Seq(Items \cup Clients)
  /\ q_sem \in Nat
  /\ main_loop_should_exit \in BOOLEAN
  /\ ctx \in Contexts \cup {NONE}
  /\ stop_rescheduling \in BOOLEAN
  /\ done \in [Clients -> BOOLEAN]
  /\ actor \in [Actors -> State]
  /\ owed \in [Clients -> SUBSET Items] /\ owed2 \in [Clients -> SUBSET Items]

At(pc) == [pc |-> pc, item |-> NONE, running |-> NONE, saw |-> FALSE,
           again |-> FALSE, round |-> 1, stop |-> FALSE]

Set(a, s) == actor' = [actor EXCEPT ![a] = s]
Goto(a, to) == actor' = [actor EXCEPT ![a].pc = to]

(* Where a call to schedule or flush returns to.                           *)
Return(a) == Set(a, IF a \in Clients THEN At("idle")
                    ELSE [actor[a] EXCEPT !.pc = "run", !.item = NONE])

(* A client may call: the queue was initialised and is not being stopped.  *)
Callable == ~stop_rescheduling \/ main_loop_should_exit

Init ==
  /\ q_list = << >> /\ q_sem = 0
  /\ main_loop_should_exit = FALSE /\ ctx = NONE
  /\ stop_rescheduling = TRUE
  /\ done = [c \in Clients |-> FALSE]
  /\ actor = [a \in Actors |-> At(IF a \in Clients THEN "idle" ELSE "none")]
  /\ owed = [c \in Clients |-> {}] /\ owed2 = [c \in Clients |-> {}]

-----------------------------------------------------------------------------
(* nv_kthread_q_init_on_node(), on a queue never used, or after            *)
(* nv_kthread_q_stop() has returned.  ctx stays NULL when no context can   *)
(* be allocated.                                                           *)
nv_kthread_q_init_on_node(w) ==
  /\ stop_rescheduling /\ \A d \in Clients : actor[d].pc = "idle"
  /\ actor[w].pc = "none"
  /\ REUSE \/ \A v \in Contexts : actor[v].pc = "none"
  /\ q_list' = << >> /\ q_sem' = 0 /\ main_loop_should_exit' = FALSE
  /\ stop_rescheduling' = FALSE
  /\ \/ ctx' = w /\ Set(w, At("down"))
     \/ ctx' = NONE /\ UNCHANGED actor
  /\ UNCHANGED <<done, owed, owed2>>

-----------------------------------------------------------------------------
(* Scheduling.                                                             *)

(* A client calls nv_kthread_q_schedule_q_item(), or os_queue_work_item()  *)
(* with an item of its own.                                                *)
Schedule(c, i) ==
  /\ actor[c].pc = "idle" /\ Callable
  /\ \/ ctx # NONE /\ Set(c, [At("check") EXCEPT !.item = i])
     \/ Set(c, [At("enabled") EXCEPT !.item = i])
  /\ UNCHANGED <<queue, stop_rescheduling, done, owed, owed2>>

(* os_queue_work_item(): NV_ERR_NOT_READY without a context.               *)
os_queue_work_item(c) ==
  /\ actor[c].pc = "enabled"
  /\ IF ctx = NONE THEN Return(c) ELSE Goto(c, "check")
  /\ UNCHANGED <<queue, stop_rescheduling, done, owed, owed2>>

nv_kthread_q_schedule_q_item(a) ==
  /\ actor[a].pc = "check"
  /\ IF main_loop_should_exit THEN Return(a) ELSE Goto(a, "add")
  /\ UNCHANGED <<queue, stop_rescheduling, done, owed, owed2>>

(* The flushes that wait for the item that runs, and so for what it        *)
(* schedules.                                                              *)
Waiting(a) == {c \in Clients : actor[a].running \in owed[c]}

(* The actor once its item is on the list.                                 *)
Adding(a) == [actor[a] EXCEPT !.pc = "up", !.again = @ \/ actor[a].item = actor[a].running]

(* Mistake: the semaphore is raised for an item that was pending already.  *)
raw_q_schedule_AlwaysUp(a) ==
  LET i == actor[a].item
  IN  /\ actor[a].pc = "add"
      /\ Set(a, Adding(a))
      /\ q_list' = IF i \in ToSet(q_list) THEN q_list ELSE Append(q_list, i)
      /\ owed2' = [c \in Clients |-> IF c \in Waiting(a) THEN owed2[c] \cup {i}
                                                         ELSE owed2[c]]
      /\ UNCHANGED <<q_sem, main_loop_should_exit, ctx, stop_rescheduling, done, owed>>

(* The critical section of _raw_q_schedule().                              *)
raw_q_schedule(a) ==
  LET i == actor[a].item
  IN  /\ actor[a].pc = "add"
      /\ IF i \in ToSet(q_list)
         THEN Return(a) /\ UNCHANGED q_list
         ELSE Set(a, Adding(a)) /\ q_list' = Append(q_list, i)
      /\ owed2' = [c \in Clients |-> IF c \in Waiting(a) THEN owed2[c] \cup {i}
                                                         ELSE owed2[c]]
      /\ UNCHANGED <<q_sem, main_loop_should_exit, ctx, stop_rescheduling, done, owed>>

(* Its up(&q->q_sem).                                                      *)
raw_q_schedule_up(a) ==
  /\ actor[a].pc = "up"
  /\ q_sem' = q_sem + 1
  /\ Return(a)
  /\ UNCHANGED <<q_list, main_loop_should_exit, ctx, stop_rescheduling, done,
                 owed, owed2>>

-----------------------------------------------------------------------------
(* Flushing.                                                               *)

(* The items in the queue and the one that runs.                           *)
Unfinished == (ToSet(q_list) \cup {actor[w].running : w \in Contexts}) \cap Items

(* A client calls nv_kthread_q_flush() or os_flush_work_queue().           *)
Flush(c) ==
  /\ actor[c].pc = "idle" /\ Callable
  /\ \/ ctx # NONE /\ Set(c, At("flush"))
     \/ Set(c, At("flush_enabled"))
  /\ owed' = [owed EXCEPT ![c] = Unfinished]
  /\ UNCHANGED <<queue, stop_rescheduling, done, owed2>>

(* The end of a flush, which forgets what it waited for.                   *)
Flushed(c, to) ==
  /\ Set(c, to)
  /\ owed' = [owed EXCEPT ![c] = {}] /\ owed2' = [owed2 EXCEPT ![c] = {}]

AfterFlush(c) == Flushed(c, At(IF actor[c].stop THEN "stopping" ELSE "idle"))

os_flush_work_queue(c) ==
  /\ actor[c].pc = "flush_enabled"
  /\ IF ctx = NONE
     THEN Flushed(c, At("idle"))
     ELSE Goto(c, "flush") /\ UNCHANGED <<owed, owed2>>
  /\ UNCHANGED <<queue, stop_rescheduling, done>>

nv_kthread_q_flush(c) ==
  /\ actor[c].pc = "flush"
  /\ IF main_loop_should_exit
     THEN AfterFlush(c)
     ELSE Goto(c, "flush_add") /\ UNCHANGED <<owed, owed2>>
  /\ UNCHANGED <<queue, stop_rescheduling, done>>

(* Mistake: the flush item is put at the head of the list.                 *)
raw_q_flush_AtHead(c) ==
  /\ actor[c].pc = "flush_add"
  /\ done' = [done EXCEPT ![c] = FALSE]
  /\ q_list' = <<c>> \o q_list
  /\ Goto(c, "flush_up")
  /\ UNCHANGED <<q_sem, main_loop_should_exit, ctx, stop_rescheduling, owed, owed2>>

(* _raw_q_flush() with its own item and flag on the stack.                 *)
raw_q_flush(c) ==
  /\ actor[c].pc = "flush_add"
  /\ done' = [done EXCEPT ![c] = FALSE]
  /\ q_list' = Append(q_list, c)
  /\ Goto(c, "flush_up")
  /\ UNCHANGED <<q_sem, main_loop_should_exit, ctx, stop_rescheduling, owed, owed2>>

raw_q_flush_up(c) ==
  /\ actor[c].pc = "flush_up"
  /\ q_sem' = q_sem + 1
  /\ Goto(c, "flush_wait")
  /\ UNCHANGED <<q_list, main_loop_should_exit, ctx, stop_rescheduling, done,
                 owed, owed2>>

(* Mistake: one flush is enough.                                           *)
raw_q_flush_wait_Once(c) ==
  /\ actor[c].pc = "flush_wait" /\ done[c]
  /\ AfterFlush(c)
  /\ UNCHANGED <<queue, stop_rescheduling, done>>

(* The wait for done, and the second flush after the first.                *)
raw_q_flush_wait(c) ==
  /\ actor[c].pc = "flush_wait" /\ done[c]
  /\ IF actor[c].round = 1
     THEN /\ Set(c, [actor[c] EXCEPT !.pc = "flush_add", !.round = 2])
          /\ UNCHANGED <<owed, owed2>>
     ELSE AfterFlush(c)
  /\ UNCHANGED <<queue, stop_rescheduling, done>>

-----------------------------------------------------------------------------
(* Stopping.                                                               *)

(* A client sets its flag and calls nv_kthread_q_stop().                   *)
Stop(c) ==
  /\ \A d \in Clients : actor[d].pc = "idle"
  /\ Callable
  /\ stop_rescheduling' = TRUE
  /\ Set(c, At("stop"))
  /\ UNCHANGED <<queue, done, owed, owed2>>

nv_kthread_q_stop(c) ==
  /\ actor[c].pc = "stop"
  /\ IF ctx = NONE
     THEN Set(c, At("idle"))
     ELSE Set(c, [At("flush") EXCEPT !.stop = TRUE])
  /\ UNCHANGED <<queue, stop_rescheduling, done, owed, owed2>>

(* After the flush: main_loop_should_exit is set, once.                    *)
StopFlushed(c) ==
  /\ actor[c].pc = "stopping"
  /\ main_loop_should_exit' = TRUE
  /\ Goto(c, IF main_loop_should_exit THEN "stopped" ELSE "stop_up")
  /\ UNCHANGED <<q_list, q_sem, ctx, stop_rescheduling, done, owed, owed2>>

(* Mistake: the thread is not woken.                                       *)
StopUp_NoWake(c) ==
  /\ actor[c].pc = "stop_up"
  /\ Goto(c, "stopped")
  /\ UNCHANGED <<queue, stop_rescheduling, done, owed, owed2>>

StopUp(c) ==
  /\ actor[c].pc = "stop_up"
  /\ q_sem' = q_sem + 1
  /\ Goto(c, "stopped")
  /\ UNCHANGED <<q_list, main_loop_should_exit, ctx, stop_rescheduling, done,
                 owed, owed2>>

(* nv_kthread_q_stop() has returned.                                       *)
StopReturns(c) ==
  /\ actor[c].pc = "stopped"
  /\ Set(c, At("idle"))
  /\ UNCHANGED <<queue, stop_rescheduling, done, owed, owed2>>

-----------------------------------------------------------------------------
(* The thread of the queue: _main_loop().                                  *)

Down(w) ==
  /\ actor[w].pc = "down" /\ q_sem > 0
  /\ q_sem' = q_sem - 1
  /\ Goto(w, "loop")
  /\ UNCHANGED <<q_list, main_loop_should_exit, ctx, stop_rescheduling, done,
                 owed, owed2>>

Loop(w) ==
  /\ actor[w].pc = "loop"
  /\ Goto(w, IF main_loop_should_exit THEN "exit" ELSE "take")
  /\ UNCHANGED <<queue, stop_rescheduling, done, owed, owed2>>

(* Mistake: the last item of the list is taken, not the first.             *)
Take_Last(w) ==
  /\ actor[w].pc = "take"
  /\ IF q_list = << >>
     THEN Goto(w, "down") /\ UNCHANGED q_list
     ELSE /\ q_list' = Front(q_list)
          /\ Set(w, [At("start") EXCEPT !.running = Last(q_list)])
  /\ UNCHANGED <<q_sem, main_loop_should_exit, ctx, stop_rescheduling, done,
                 owed, owed2>>

(* Its critical section.  The empty list, "a bug", is passed over.         *)
Take(w) ==
  /\ actor[w].pc = "take"
  /\ IF q_list = << >>
     THEN Goto(w, "down") /\ UNCHANGED q_list
     ELSE /\ q_list' = Tail(q_list)
          /\ Set(w, [At("start") EXCEPT !.running = Head(q_list)])
  /\ UNCHANGED <<q_sem, main_loop_should_exit, ctx, stop_rescheduling, done,
                 owed, owed2>>

(* _q_flush_function().                                                    *)
RunFlush(w) ==
  /\ actor[w].pc = "start" /\ actor[w].running \in Clients
  /\ done' = [done EXCEPT ![actor[w].running] = TRUE]
  /\ Set(w, At("down"))
  /\ UNCHANGED <<queue, stop_rescheduling, owed, owed2>>

(* An item's function begins; it may look at the flag now and act on it    *)
(* later.                                                                  *)
RunStart(w) ==
  /\ actor[w].pc = "start" /\ actor[w].running \in Items
  /\ Set(w, [actor[w] EXCEPT !.pc = "run", !.saw = stop_rescheduling])
  /\ UNCHANGED <<queue, stop_rescheduling, done, owed, owed2>>

(* The function schedules an item, maybe its own.                          *)
RunSchedule(w, i) ==
  /\ actor[w].pc = "run" /\ ~actor[w].saw
  /\ Set(w, [actor[w] EXCEPT !.pc = "check", !.item = i])
  /\ UNCHANGED <<queue, stop_rescheduling, done, owed, owed2>>

RunEnd(w) ==
  LET i == actor[w].running
  IN  /\ actor[w].pc = "run"
      /\ Set(w, At("down"))
      /\ owed' = [c \in Clients |-> owed[c] \ {i}]
      /\ owed2' = [c \in Clients |-> IF actor[w].again /\ i \in owed[c]
                                     THEN owed2[c] ELSE owed2[c] \ {i}]
      /\ UNCHANGED <<queue, stop_rescheduling, done>>

Exit(w) ==
  /\ actor[w].pc = "exit"
  /\ ctx' = NONE
  /\ Goto(w, "gone")
  /\ UNCHANGED <<q_list, q_sem, main_loop_should_exit, stop_rescheduling, done,
                 owed, owed2>>

-----------------------------------------------------------------------------
(* What an actor does next inside a call or in the main loop.              *)
Step(a) ==
  \/ nv_kthread_q_schedule_q_item(a) \/ raw_q_schedule(a) \/ raw_q_schedule_up(a)
  \/ /\ a \in Clients
     /\ \/ os_queue_work_item(a) \/ os_flush_work_queue(a)
        \/ nv_kthread_q_flush(a) \/ raw_q_flush(a) \/ raw_q_flush_up(a)
        \/ raw_q_flush_wait(a)
        \/ nv_kthread_q_stop(a) \/ StopFlushed(a) \/ StopUp(a) \/ StopReturns(a)
  \/ /\ a \in Contexts
     /\ Down(a) \/ Loop(a) \/ Take(a) \/ RunFlush(a) \/ RunStart(a) \/ Exit(a)

Next ==
  \/ \E a \in Actors : Step(a)
  \/ \E c \in Clients : Flush(c) \/ Stop(c) \/ \E i \in Items : Schedule(c, i)
  \/ \E w \in Contexts : \/ nv_kthread_q_init_on_node(w) \/ RunEnd(w)
                         \/ \E i \in Items : RunSchedule(w, i)

Spec == Init /\ [][Next]_vars

(* Threads are scheduled, and an item's function comes to an end though it *)
(* may schedule items again and again before it does.                      *)
FairSpec == /\ Spec
            /\ \A a \in Actors : WF_vars(Step(a))
            /\ \A w \in Contexts : SF_vars(RunEnd(w))

-----------------------------------------------------------------------------
(* Correctness.                                                            *)

In(S, pcs) == {a \in S : actor[a].pc \in pcs}

(* q_sem "gets incremented and decremented exactly once for each item that *)
(* is added to the queue": the items on the list are those paid for, those *)
(* whose up() is still to come, and the one the thread is about to take.   *)
(* So the main loop never finds the list empty.                            *)
SemCountsItems ==
  ~main_loop_should_exit =>
    Len(q_list) = q_sem + Cardinality(In(Actors, {"up", "flush_up"}))
                        + Cardinality(In(Contexts, {"loop", "take"}))

(* nv_kthread_q_flush() returns after all items that were in the queue     *)
(* when it was called have run, and all those that these items scheduled.  *)
FlushReturns(c) == /\ actor[c].pc = "flush_wait"
                   /\ actor'[c].pc \notin {"flush_wait", "flush_add"}

FlushWaits ==
  [][\A c \in Clients : FlushReturns(c) => owed[c] = {} /\ owed2[c] = {}]_vars

(* After its flush nv_kthread_q_stop() finds the list empty (it warns      *)
(* otherwise), although functions reschedule their items until they see    *)
(* the flag, and no item is left on it when the thread has gone.           *)
StopDrains ==
  (\/ In(Clients, {"stopping", "stop_up", "stopped"}) # {}
   \/ In(Contexts, {"exit", "gone"}) # {})
    => q_list = << >> /\ In(Actors, {"add", "up"}) = {}

(* An item that was scheduled is run.                                      *)
ScheduledRuns ==
  \A i \in Items : i \in ToSet(q_list) ~> \E w \in Contexts : actor[w].running = i

(* Every call returns, and a queue that was stopped loses its thread.      *)
CallsReturn ==
  /\ \A c \in Clients : actor[c].pc # "idle" ~> actor[c].pc = "idle"
  /\ main_loop_should_exit ~> In(Contexts, {"none", "gone"}) = Contexts

(* nv-kthread-q.h: "This nv_kthread_q_stop() routine will flush the queue, *)
(* and safely stop the kthread, before returning."                         *)
(* TLC refutes this: README, section 4.                                    *)
StopStopsThread ==
  In(Clients, {"stopped"}) # {} => In(Contexts, {"none", "gone"}) = Contexts

(* nv-kthread-q.c: "Each nv_kthread_q instance is serviced by exactly one  *)
(* kthread", also when the queue is reused after a stop as nv-kthread-q.h  *)
(* shows: no two contexts are past the test of main_loop_should_exit.      *)
(* TLC refutes this: README, section 4.                                    *)
OneThread ==
  Cardinality(In(Contexts, {"take", "start", "run", "check", "add", "up"})) <= 1
=============================================================================

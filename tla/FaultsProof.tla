---------------------------- MODULE FaultsProof -----------------------------
(***************************************************************************)
(* Proofs about Faults, for fault buffers and batches of any size and any  *)
(* number of pages, accesses and threads: no entry of the buffer is lost,  *)
(* the fault interrupt is neither lost nor fires when nobody could serve   *)
(* it, and a GPU that was removed stays quiet.                             *)
(*                                                                         *)
(* The invariant says who owns the two locks, counts the references and    *)
(* those who keep the interrupt disabled, and follows the one position     *)
(* from which the buffer is being read.                                    *)
(***************************************************************************)
EXTENDS Faults, TLAPS

-----------------------------------------------------------------------------
(* Where each actor can be.                                                *)

(* Those who hold service_lock: in the flush, ...                          *)
FlushPcs == {"flush", "skip", "push"}

(* ... with interrupts_lock as well, ...                                   *)
RearmPcs == {"clear", "rearm"}

(* ... or anywhere.                                                        *)
ServicePcs == FlushPcs \cup RearmPcs \cup
  {"loop", "fetch", "serve", "cancel", "wait", "finish", "unlock", "nogpu"}

ThreadPcs == FlushPcs \cup RearmPcs \cup
  {"idle", "lock", "down", "unlock", "retrigger", "end"}

BhControl(s) ==
  /\ s.pc \in ServicePcs \cup {"idle", "retrigger", "end"}
  /\ s.pc \in FlushPcs => s.ret \in {"loop", "wait", "finish", "unlock"}
  /\ s.pc \in {"fetch", "serve", "wait"} => s.num_batches < max_batches
  /\ s.pc \in FlushPcs => (s.ret = "wait" => s.num_batches < max_batches)

FlushControl(s) ==
  /\ s.pc \in ThreadPcs \cup {"drain", "off"}
  /\ s.pc \in FlushPcs \cup {"lock", "down"} => s.ret = "unlock"
  /\ s.pc \in {"lock", "down", "flush", "skip"} => s.mode = "WAIT_UPDATE_PUT"

Control(a, s) ==
  /\ a = BH => BhControl(s)
  /\ a # BH => FlushControl(s)
  /\ a \in Threads => s.pc \notin {"drain", "off"}

ControlInv == \A a \in Actors : Control(a, st[a])

-----------------------------------------------------------------------------
(* The locks.  service_lock stays taken for the bottom half from its       *)
(* scheduling on.                                                          *)
LockInv ==
  /\ \A a \in Actors : st[a].pc \in ServicePcs => service_lock = a
  /\ \A a \in Actors \ {BH} : service_lock = a => st[a].pc \in ServicePcs
  /\ \A a \in Actors : st[a].pc \in RearmPcs <=> interrupts_lock = a
  /\ queued => service_lock = BH /\ st[BH].pc \in {"idle", "retrigger", "end"}

(* Those who keep the interrupt disabled.                                  *)
Disabling ==
  {a \in Actors : \/ st[a].pc = "down"
                  \/ service_lock = a /\ st[a].pc \notin RearmPcs}

(* n is the number of elements of D.                                       *)
Counts(n, D) ==
  /\ n \in Nat
  /\ \E f \in [1 .. n -> D] : /\ \A i, j \in 1 .. n : f[i] = f[j] => i = j
                              /\ \A d \in D : \E i \in 1 .. n : f[i] = d

One(b) == IF b THEN 1 ELSE 0

CountInv ==
  /\ isr.handling <=> removal \in {"no", "dying", "removed"}
  /\ isr.handling =>
       /\ Counts(isr.disable_intr_ref_count, Disabling)
       /\ intr.enabled <=> isr.disable_intr_ref_count = 0
  /\ ~isr.handling => isr.disable_intr_ref_count > 0 /\ ~intr.enabled
  /\ isr.gpu_kref = One(removal # "deinit") + One(topHalf) + One(queued)
                      + One(st[BH].pc # "idle")

-----------------------------------------------------------------------------
(* The buffer.                                                             *)

(* How far x lies after from.                                              *)
Dist(from, x) == IF from <= x THEN x - from ELSE x - from + max_faults

(* The buffer is read at position r: the entries e that are left are those *)
(* from there to PUT, p, and r, cached_put and PUT follow GET in order.    *)
ReadAt(r, get, cput, p, e) ==
  /\ \A s \in Slots : s \in e <=> Dist(r, s) < Dist(r, p)
  /\ Dist(get, r) <= Dist(get, cput)
  /\ Dist(get, cput) <= Dist(get, p)

ReadPcs == {"skip", "fetch"}

Entries == valid \cup writing

RingInv ==
  /\ valid \cap writing = {}
  /\ \A s \in Entries : buffer[s] \in Pages
  /\ st[PM].pc # "off" => hw_get = cached_get
  /\ \A a \in Actors : st[a].pc \in ReadPcs =>
       ReadAt(st[a].get, cached_get, cached_put, put, Entries)
  /\ (\A a \in Actors : st[a].pc \notin ReadPcs) /\ st[PM].pc # "off" =>
       ReadAt(cached_get, cached_get, cached_put, put, Entries)

(* The interrupt's bit.                                                    *)
BitInv ==
  intr.kind = "pulse" =>
    /\ intr.enabled /\ interrupts_lock = Nobody /\ service_lock = Nobody =>
         (intr.pending <=> hw_get # put)
    /\ \A a \in Actors : st[a].pc = "rearm" => (intr.pending => hw_get # put)

-----------------------------------------------------------------------------
(* The sleep cycle and the removal, which find everybody else idle.        *)

(* What is so when uvm_suspend() is at pc.                                 *)
SleepAt(pc) ==
  /\ pc = "skip" => cached_put = put
  /\ pc \in {"push", "unlock", "clear", "rearm", "retrigger", "end", "drain"} =>
       cached_get = put /\ cached_put = put
  /\ pc \in {"rearm", "retrigger", "end", "drain", "off"} =>
       ~intr.pending /\ hw_get = put
  /\ pc = "off" => valid = {} /\ writing = {}
  /\ pc \in {"retrigger", "end", "drain", "off"} => service_lock = Nobody

SleepInv ==
  /\ power = "preempted" <=> st[PM].pc # "idle"
  /\ power = "preempted" => removal = "no" /\ \A t \in Threads : st[t].pc = "idle"
  /\ isr.is_suspended <=> st[PM].pc \in {"drain", "off"}
  /\ SleepAt(st[PM].pc)

RemovalInv ==
  /\ removal # "no" => \A a \in Actors \ {BH} : st[a].pc = "idle"
  /\ removal \in {"stopped", "deinit"} => ~queued /\ st[BH].pc = "idle"

IInv ==
  /\ TypeOK /\ ControlInv /\ LockInv /\ CountInv /\ RingInv /\ BitInv /\ SleepInv
  /\ RemovalInv

-----------------------------------------------------------------------------
(* The constants.                                                          *)
LEMMA Who ==
  /\ BH \in Actors /\ PM \in Actors /\ BH # PM /\ Threads \subseteq Actors
  /\ BH \notin Threads /\ PM \notin Threads /\ Nobody \notin Actors
  /\ \A a \in Actors : a = BH \/ a = PM \/ a \in Threads
BY FaultsAssumption, Zenon DEF Actors, BH, PM

LEMMA Sizes ==
  /\ max_faults \in Nat /\ max_faults > 1
  /\ max_batch_size \in Nat /\ max_batches \in Nat /\ max_batches > 0
BY FaultsAssumption

-----------------------------------------------------------------------------
(* The ring.                                                               *)
LEMMA DistType ==
  ASSUME NEW f \in Slots, NEW x \in Slots
  PROVE  /\ Dist(f, x) \in 0 .. max_faults - 1
         /\ Dist(f, x) = 0 <=> f = x
BY Sizes DEF Dist, Slots

LEMMA WrapType ==
  ASSUME NEW x \in Slots
  PROVE  Wrap(x + 1) \in Slots
BY Sizes DEF Wrap, Slots

(* The window of a pointer is what lies before PUT.                        *)
LEMMA WindowIs ==
  ASSUME NEW r \in Slots, NEW p \in Slots
  PROVE  /\ Window(r, p) \subseteq Slots
         /\ \A s \in Slots : s \in Window(r, p) <=> Dist(r, s) < Dist(r, p)
BY Sizes DEF Window, Dist, Slots

(* Distances from one position, seen from another.                         *)
LEMMA DistShift ==
  ASSUME NEW f \in Slots, NEW r \in Slots, NEW x \in Slots,
         Dist(f, r) <= Dist(f, x)
  PROVE  Dist(r, x) = Dist(f, x) - Dist(f, r)
BY Sizes DEF Dist, Slots

(* PUT moves on.                                                           *)
LEMMA DistNext ==
  ASSUME NEW f \in Slots, NEW x \in Slots, Wrap(x + 1) # f
  PROVE  Dist(f, Wrap(x + 1)) = Dist(f, x) + 1
BY Sizes DEF Dist, Slots, Wrap

LEMMA DistSame ==
  ASSUME NEW f \in Slots, NEW x \in Slots, NEW y \in Slots, Dist(f, x) = Dist(f, y)
  PROVE  x = y
BY Sizes DEF Dist, Slots

(* The reader moves on.                                                    *)
LEMMA DistAfter ==
  ASSUME NEW r \in Slots, NEW p \in Slots, NEW s \in Slots, r # p
  PROVE  Dist(Wrap(r + 1), s) < Dist(Wrap(r + 1), p)
           <=> Dist(r, s) < Dist(r, p) /\ s # r
BY Sizes DEF Dist, Slots, Wrap

LEMMA DistPast ==
  ASSUME NEW f \in Slots, NEW r \in Slots, NEW p \in Slots,
         Dist(f, r) <= Dist(f, p), r # p
  PROVE  Dist(f, Wrap(r + 1)) <= Dist(f, p)
BY Sizes DEF Dist, Slots, Wrap

(* What lies between a position and PUT lies between GET and PUT, when the *)
(* position does.                                                          *)
LEMMA DistWithin ==
  ASSUME NEW f \in Slots, NEW r \in Slots, NEW p \in Slots, NEW s \in Slots,
         Dist(f, r) <= Dist(f, p), Dist(r, s) < Dist(r, p)
  PROVE  Dist(f, s) < Dist(f, p)
BY Sizes DEF Dist, Slots

-----------------------------------------------------------------------------
(* Steps of one actor.                                                     *)
LEMMA Parts ==
  ASSUME IInv
  PROVE  /\ TypeOK /\ ControlInv /\ LockInv /\ CountInv /\ RingInv /\ BitInv
         /\ SleepInv /\ RemovalInv /\ st \in [Actors -> ActorState]
         /\ service_lock \in Actors \cup {Nobody}
BY Zenon DEF IInv, TypeOK

LEMMA OneActor ==
  ASSUME st \in [Actors -> ActorState], NEW a \in Actors, NEW s \in ActorState,
         Become(a, s)
  PROVE  /\ st' \in [Actors -> ActorState] /\ st'[a] = s
         /\ \A b \in Actors : b # a => st'[b] = st[b]
BY Zenon DEF Become

LEMMA ControlStep ==
  ASSUME st \in [Actors -> ActorState], NEW a \in Actors, NEW s \in ActorState,
         Become(a, s), ControlInv, Control(a, s)
  PROVE  ControlInv'
<1>1. st'[a] = s /\ \A b \in Actors : b # a => st'[b] = st[b]
  BY OneActor, Zenon
<1> SUFFICES ASSUME NEW b \in Actors
             PROVE  Control(b, st'[b])
  BY Zenon DEF ControlInv, Control, BhControl, FlushControl
<1>2. CASE b = a
  BY <1>1, <1>2, Zenon
<1>3. CASE b # a
  BY <1>1, <1>3, Zenon DEF ControlInv
<1> QED
  BY <1>2, <1>3, Zenon

(* The holder of service_lock goes on, and keeps it.                       *)
Serving == ServicePcs \ RearmPcs

IntrKept == intr'.enabled <=> intr.enabled

LEMMA Holder ==
  ASSUME IInv, NEW a \in Actors, st[a].pc \in ServicePcs
  PROVE  /\ service_lock = a /\ service_lock # Nobody
         /\ \A b \in Actors : b # a => st[b].pc \notin ServicePcs
         /\ ~queued
         /\ a # PM => st[PM].pc \in {"idle", "lock", "down"}
         /\ a = BH \/ removal = "no"
         /\ removal \notin {"stopped", "deinit"}
<1>1. LockInv /\ ControlInv /\ SleepInv /\ RemovalInv
  BY Parts, Zenon
<1>2. service_lock = a /\ service_lock # Nobody
  BY <1>1, Who, Zenon DEF LockInv
<1>3. \A b \in Actors : b # a => st[b].pc \notin ServicePcs
  BY <1>1, <1>2, Zenon DEF LockInv
<1>4. ~queued
  BY <1>1, <1>2, Zenon DEF LockInv, ServicePcs, FlushPcs, RearmPcs
<1>5. ASSUME a # PM
      PROVE  st[PM].pc \in {"idle", "lock", "down"}
  <2>1. FlushControl(st[PM])
    BY <1>1, Who, Zenon DEF ControlInv, Control
  <2>2. st[PM].pc \notin ServicePcs
    BY <1>3, <1>5, Who, Zenon
  <2>3. st[PM].pc \notin {"retrigger", "end", "drain", "off"}
    BY <1>1, <1>2, Zenon DEF SleepInv, SleepAt
  <2> QED
    BY <2>1, <2>2, <2>3, Zenon DEF FlushControl, ThreadPcs, ServicePcs, FlushPcs, RearmPcs
<1>6. a = BH \/ removal = "no"
  BY <1>1 DEF RemovalInv, ServicePcs, FlushPcs, RearmPcs
<1>7. removal \notin {"stopped", "deinit"}
  BY <1>1, <1>6, Zenon DEF RemovalInv, ServicePcs, FlushPcs, RearmPcs
<1> QED
  BY <1>2, <1>3, <1>4, <1>5, <1>6, <1>7, Zenon

LEMMA HolderStep ==
  ASSUME IInv, NEW a \in Actors, NEW s \in ActorState, Become(a, s),
         st[a].pc \in Serving, s.pc \in Serving, Control(a, s),
         UNCHANGED <<isrVars, topHalf, removal, power>>, IntrKept,
         a = PM => SleepAt(s.pc)'
  PROVE  /\ ControlInv' /\ LockInv' /\ CountInv' /\ BitInv' /\ SleepInv'
         /\ RemovalInv'
<1>1. /\ TypeOK /\ ControlInv /\ LockInv /\ CountInv /\ SleepInv /\ RemovalInv
      /\ st \in [Actors -> ActorState]
  BY Parts, Zenon
<1>2. /\ service_lock' = service_lock /\ interrupts_lock' = interrupts_lock
      /\ isr' = isr /\ queued' = queued
      /\ topHalf' = topHalf /\ removal' = removal /\ power' = power
  BY Zenon DEF isrVars
<1>3. st'[a] = s /\ \A b \in Actors : b # a => st'[b] = st[b]
  BY <1>1, OneActor, Zenon
<1>4. /\ st[a].pc \in ServicePcs /\ s.pc \in ServicePcs
      /\ st[a].pc \notin RearmPcs /\ s.pc \notin RearmPcs
      /\ st[a].pc \notin {"idle", "lock", "down", "retrigger", "end", "drain", "off"}
      /\ s.pc \notin {"idle", "lock", "down", "retrigger", "end", "drain", "off"}
  BY Zenon DEF Serving, ServicePcs, FlushPcs, RearmPcs
<1>5. /\ service_lock = a /\ service_lock # Nobody
      /\ \A b \in Actors : b # a => st[b].pc \notin ServicePcs
      /\ ~queued
      /\ a # PM => st[PM].pc \in {"idle", "lock", "down"}
      /\ a = BH \/ removal = "no"
      /\ removal \notin {"stopped", "deinit"}
  BY <1>4, Holder, Zenon
<1>6. ControlInv'
  BY <1>1, ControlStep, Zenon
<1>7. LockInv'
  BY <1>1, <1>2, <1>3, <1>4, <1>5, Zenon DEF LockInv
<1>8. CountInv'
  <2>1. Disabling' = Disabling
    <3>1. \A b \in Actors : \/ st'[b].pc = "down"
                            \/ service_lock' = b /\ st'[b].pc \notin RearmPcs
                            <=> b \in Disabling
      BY <1>2, <1>3, <1>4, <1>5, Zenon DEF Disabling
    <3> QED
      BY <3>1, Zenon DEF Disabling
  <2>2. st'[BH].pc # "idle" <=> st[BH].pc # "idle"
    BY <1>3, <1>4, Who, Zenon
  <2>3. One(st'[BH].pc # "idle") = One(st[BH].pc # "idle")
    BY <2>2, Zenon DEF One
  <2> QED
    BY <1>1, <1>2, <2>1, <2>3, Zenon DEF CountInv, IntrKept
<1>9. BitInv'
  <2>1. \A b \in Actors : st'[b].pc # "rearm"
    BY <1>3, <1>4, <1>5, Zenon DEF ServicePcs, RearmPcs
  <2> QED
    BY <1>2, <1>5, <2>1, Zenon DEF BitInv
<1>10. SleepInv'
  <2>1. CASE a = PM
    BY <1>1, <1>2, <1>3, <1>4, <2>1, Who, Zenon DEF SleepInv
  <2>2. CASE a # PM
    <3>1. st'[PM] = st[PM] /\ st[PM].pc \in {"idle", "lock", "down"}
      BY <1>3, <1>5, <2>2, Who, Zenon
    <3>2. SleepAt(st[PM].pc)'
      BY <3>1, Zenon DEF SleepAt
    <3>3. power = "preempted" => a \notin Threads
      BY <1>1, <1>4, Zenon DEF SleepInv
    <3> QED
      BY <1>1, <1>2, <1>3, <3>1, <3>2, <3>3, Who, Zenon DEF SleepInv
  <2> QED
    BY <2>1, <2>2, Zenon
<1>11. RemovalInv'
  BY <1>1, <1>2, <1>3, <1>5, Zenon DEF RemovalInv
<1> QED
  BY <1>6, <1>7, <1>8, <1>9, <1>10, <1>11, Zenon

(* A step that neither reads nor writes the buffer.                        *)
OffKept == st'[PM].pc = "off" <=> st[PM].pc = "off"

LEMMA RingKept ==
  ASSUME IInv, UNCHANGED <<put, hw_get, buffer, valid, writing, cacheVars>>,
         NEW a \in Actors, NEW s \in ActorState, Become(a, s),
         st[a].pc \notin ReadPcs, s.pc \notin ReadPcs, OffKept
  PROVE  RingInv'
<1>1. /\ put' = put /\ hw_get' = hw_get /\ buffer' = buffer /\ valid' = valid
      /\ writing' = writing /\ cached_get' = cached_get /\ cached_put' = cached_put
  BY Zenon DEF cacheVars
<1>2. RingInv /\ st \in [Actors -> ActorState]
  BY Parts, Zenon
<1>3. st'[a] = s /\ \A b \in Actors : b # a => st'[b] = st[b]
  BY <1>2, OneActor, Zenon
<1>4. Entries' = Entries
  BY <1>1, Zenon DEF Entries
<1>5. \A b \in Actors : st'[b].pc \in ReadPcs => st[b].pc \in ReadPcs /\ st'[b] = st[b]
  BY <1>3, Zenon
<1>6. \A b \in Actors : st'[b].pc \in ReadPcs =>
        ReadAt(st'[b].get, cached_get', cached_put', put', Entries')
  BY <1>1, <1>2, <1>4, <1>5, Zenon DEF RingInv
<1>7. (\A b \in Actors : st'[b].pc \notin ReadPcs) =>
         \A b \in Actors : st[b].pc \notin ReadPcs
  BY <1>3, Zenon
<1>8. (\A b \in Actors : st'[b].pc \notin ReadPcs) /\ st'[PM].pc # "off" =>
         ReadAt(cached_get', cached_get', cached_put', put', Entries')
  BY <1>1, <1>2, <1>4, <1>7, Zenon DEF RingInv, OffKept
<1>9. st'[PM].pc # "off" => hw_get' = cached_get'
  BY <1>1, <1>2, Zenon DEF RingInv, OffKept
<1>10. valid' \cap writing' = {} /\ \A t \in Entries' : buffer'[t] \in Pages
  BY <1>1, <1>2, <1>4, Zenon DEF RingInv
<1> QED
  BY <1>6, <1>8, <1>9, <1>10, Zenon DEF RingInv

(* What the variables of the GPU and of the model's bounds need.           *)
Bounded ==
  /\ access' \in [Accesses -> {"run", "stalled", "done"}]
  /\ mapped' \subseteq Pages /\ replays' \in 0 .. PUSHES
  /\ disturbed' \subseteq Disturbing

Inner == Serving \ ReadPcs

LEMMA InnerStep ==
  ASSUME IInv, NEW a \in Actors, NEW s \in ActorState, Become(a, s),
         st[a].pc \in Inner, s.pc \in Inner, Control(a, s),
         UNCHANGED <<hwVars, cacheVars, isrVars, topHalf, removal, power>>, Bounded,
         a = PM => st[a].pc = "push" /\ s.pc = "unlock"
  PROVE  IInv'
<1>1. /\ put' = put /\ hw_get' = hw_get /\ buffer' = buffer /\ valid' = valid
      /\ writing' = writing /\ intr' = intr
      /\ cached_get' = cached_get /\ cached_put' = cached_put
      /\ UNCHANGED <<isrVars, topHalf, removal, power>>
      /\ UNCHANGED <<put, hw_get, buffer, valid, writing, cacheVars>>
  BY Zenon DEF hwVars, cacheVars
<1>2. /\ TypeOK /\ SleepInv /\ st \in [Actors -> ActorState]
  BY Parts, Zenon
<1>3. st' \in [Actors -> ActorState] /\ st'[a] = s
      /\ \A b \in Actors : b # a => st'[b] = st[b]
  BY <1>2, OneActor, Zenon
<1>4. /\ st[a].pc \in Serving /\ s.pc \in Serving
      /\ st[a].pc \notin ReadPcs /\ s.pc \notin ReadPcs
      /\ st[a].pc # "off" /\ s.pc # "off"
  BY Zenon DEF Inner, Serving, ServicePcs, FlushPcs, RearmPcs
<1>5. a = PM => SleepAt(s.pc)'
  BY <1>1, <1>2, Zenon DEF SleepInv, SleepAt
<1>6. IntrKept /\ OffKept
  BY <1>1, <1>3, <1>4, Who, Zenon DEF IntrKept, OffKept
<1>7. ControlInv' /\ LockInv' /\ CountInv' /\ BitInv' /\ SleepInv' /\ RemovalInv'
  BY <1>1, <1>4, <1>5, <1>6, HolderStep, Zenon
<1>8. RingInv'
  BY <1>1, <1>4, <1>6, RingKept, Zenon
<1>9. TypeOK'
  BY <1>1, <1>2, <1>3, Zenon DEF TypeOK, Bounded, isrVars
<1> QED
  BY <1>7, <1>8, <1>9, Zenon DEF IInv

LEMMA BoundedKept ==
  ASSUME TypeOK, UNCHANGED <<gpuVars, disturbed>>
  PROVE  Bounded
BY Zenon DEF TypeOK, gpuVars, Bounded

LEMMA Replays ==
  ASSUME TypeOK
  PROVE  Replayed \in [Accesses -> {"run", "stalled", "done"}]
BY Zenon DEF TypeOK, Replayed

-----------------------------------------------------------------------------
(* The bottom half between reads of the buffer.                            *)

(* It moves on, and nothing else changes.                                  *)
LEMMA GotoIs ==
  ASSUME st \in [Actors -> ActorState], NEW a \in Actors, NEW pc, Goto(a, pc)
  PROVE  Become(a, [st[a] EXCEPT !.pc = pc])
BY Zenon DEF Goto, Become

LEMMA BhStep ==
  ASSUME IInv, NEW s \in ActorState, Become(BH, s),
         st[BH].pc \in Inner, s.pc \in Inner, BhControl(s),
         UNCHANGED <<hwVars, cacheVars, isrVars, topHalf, removal, power>>, Bounded
  PROVE  IInv'
<1>1. BH \in Actors /\ BH # PM /\ Control(BH, s)
  BY Who, Zenon DEF Control
<1> QED
  BY <1>1, InnerStep, Zenon

LEMMA BhTyped ==
  ASSUME IInv
  PROVE  /\ TypeOK /\ st \in [Actors -> ActorState] /\ BH \in Actors
         /\ st[BH] \in ActorState /\ BhControl(st[BH])
BY Who, Parts, Zenon DEF ControlInv, Control

LEMMA EnoughStep ==
  ASSUME IInv, EnoughBatches
  PROVE  IInv'
<1> DEFINE s == [st[BH] EXCEPT !.pc = "finish"]
<1>1. /\ st[BH].pc = "loop" /\ Goto(BH, "finish")
      /\ UNCHANGED <<hwVars, gpuVars, cacheVars, isrVars, envVars>>
  BY Zenon DEF EnoughBatches, At
<1>2. TypeOK /\ st \in [Actors -> ActorState] /\ BH \in Actors
  BY BhTyped, Zenon
<1>3. s \in ActorState /\ s.pc = "finish" /\ st[BH].pc \in Inner /\ s.pc \in Inner
  BY <1>1, <1>2 DEF ActorState, Inner, Serving, ServicePcs, FlushPcs, RearmPcs, ReadPcs
<1>4. Become(BH, s)
  BY <1>1, <1>2, GotoIs, Zenon
<1>5. /\ UNCHANGED <<hwVars, cacheVars, isrVars, topHalf, removal, power>>
      /\ UNCHANGED <<gpuVars, disturbed>>
  BY <1>1, Zenon DEF envVars
<1>6. BhControl(s)
  BY <1>3, Zenon DEF BhControl, ServicePcs, FlushPcs
<1>7. Bounded
  BY <1>2, <1>5, BoundedKept, Zenon
<1> HIDE DEF s
<1> QED
  BY <1>3, <1>4, <1>5, <1>6, <1>7, BhStep, Zenon

LEMMA StaleStep ==
  ASSUME IInv, StaleBatch
  PROVE  IInv'
<1>1. PICK mode \in {"UPDATE_PUT", "WAIT_UPDATE_PUT"} :
        Become(BH, [st[BH] EXCEPT !.pc = "flush", !.mode = mode, !.num_replays = 1,
                                  !.ret = "loop"])
  BY Zenon DEF StaleBatch
<1> DEFINE s == [st[BH] EXCEPT !.pc = "flush", !.mode = mode, !.num_replays = 1,
                               !.ret = "loop"]
<1>2. /\ st[BH].pc = "serve" /\ Become(BH, s)
      /\ UNCHANGED <<hwVars, gpuVars, cacheVars, isrVars, topHalf, removal, power>>
  BY <1>1, Zenon DEF StaleBatch, At
<1>3. TypeOK /\ st[BH] \in ActorState
  BY BhTyped, Zenon
<1>4. s \in ActorState /\ s.pc = "flush" /\ s.ret = "loop"
  BY <1>3, Zenon DEF ActorState
<1>5. disturbed' \subseteq Disturbing
  BY <1>3, Zenon DEF StaleBatch, Disturb, TypeOK
<1>6. Bounded
  BY <1>2, <1>3, <1>5, Zenon DEF Bounded, TypeOK, gpuVars
<1> HIDE DEF s
<1>7. st[BH].pc \in Inner /\ s.pc \in Inner /\ BhControl(s)
  BY <1>2, <1>4, Zenon DEF Inner, Serving, ServicePcs, FlushPcs, RearmPcs, ReadPcs, BhControl
<1>8. UNCHANGED <<hwVars, cacheVars, isrVars, topHalf, removal, power>>
  BY <1>2, Zenon
<1> QED
  BY <1>2, <1>4, <1>6, <1>7, <1>8, BhStep, Zenon

LEMMA SortFailsStep ==
  ASSUME IInv, SortFails
  PROVE  IInv'
<1> DEFINE s == [st[BH] EXCEPT !.pc = "finish", !.ok = FALSE, !.batch = {}]
<1>1. /\ st[BH].pc = "serve" /\ Become(BH, s) /\ Disturb("failure")
      /\ UNCHANGED <<hwVars, gpuVars, cacheVars, isrVars, topHalf, removal, power>>
  BY Zenon DEF SortFails, At
<1>2. TypeOK /\ st[BH] \in ActorState
  BY BhTyped, Zenon
<1>3. s \in ActorState /\ s.pc = "finish"
  BY <1>2, Zenon DEF ActorState
<1>4. disturbed' \subseteq Disturbing
  BY <1>1, <1>2, Zenon DEF Disturb, TypeOK
<1>5. Bounded
  BY <1>1, <1>2, <1>4, Zenon DEF Bounded, TypeOK, gpuVars
<1> HIDE DEF s
<1>6. st[BH].pc \in Inner /\ s.pc \in Inner /\ BhControl(s)
  BY <1>1, <1>3, Zenon DEF Inner, Serving, ServicePcs, FlushPcs, RearmPcs, ReadPcs, BhControl
<1>7. UNCHANGED <<hwVars, cacheVars, isrVars, topHalf, removal, power>>
  BY <1>1, Zenon
<1> QED
  BY <1>1, <1>3, <1>5, <1>6, <1>7, BhStep, Zenon

(* Where service_fault_batch() can leave the bottom half.                  *)
LEMMA ServiceStep ==
  ASSUME IInv, ServiceBatch
  PROVE  IInv'
<1>1. /\ st[BH].pc = "serve"
      /\ mapped' = mapped \cup (st[BH].batch \ Fatal)
      /\ UNCHANGED <<hwVars, access, replays, cacheVars, isrVars, envVars>>
  BY Zenon DEF ServiceBatch, At
<1>2. /\ TypeOK /\ st \in [Actors -> ActorState] /\ BH \in Actors
      /\ st[BH] \in ActorState /\ BhControl(st[BH])
  BY BhTyped, Zenon
<1>3. st[BH].num_batches < max_batches
  BY <1>1, <1>2, Zenon DEF BhControl
<1>4. mapped' \subseteq Pages
  BY <1>1, <1>2, Zenon DEF TypeOK, ActorState
<1>5. Bounded
  BY <1>1, <1>2, <1>4, Zenon DEF Bounded, TypeOK, envVars
<1>6. UNCHANGED <<hwVars, cacheVars, isrVars, topHalf, removal, power>>
  BY <1>1, Zenon DEF envVars
<1>7. ASSUME NEW s \in ActorState, Become(BH, s),
             s.pc \in {"cancel", "wait"} \/ (s.pc \in {"push", "flush"} /\ s.ret = "wait"),
             s.num_batches = st[BH].num_batches
      PROVE  IInv'
  <2>1. st[BH].pc \in Inner /\ s.pc \in Inner
    BY <1>1, <1>7, Zenon DEF Inner, Serving, ServicePcs, FlushPcs, RearmPcs, ReadPcs
  <2>2. BhControl(s)
    BY <1>3, <1>7, Zenon DEF BhControl, ServicePcs, FlushPcs
  <2> QED
    BY <1>5, <1>6, <1>7, <2>1, <2>2, BhStep, Zenon
<1>8. CASE Goto(BH, "cancel") \/ Goto(BH, "wait")
  <2>1. PICK pc \in {"cancel", "wait"} : Goto(BH, pc)
    BY <1>8, Zenon
  <2> DEFINE s == [st[BH] EXCEPT !.pc = pc]
  <2>2. s \in ActorState /\ s.pc = pc /\ s.num_batches = st[BH].num_batches
    BY <1>2, Zenon DEF ActorState
  <2>3. Become(BH, s)
    BY <1>2, <2>1, GotoIs, Zenon
  <2> HIDE DEF s
  <2> QED
    BY <1>7, <2>2, <2>3, Zenon
<1>9. CASE Become(BH, [st[BH] EXCEPT !.pc = "push", !.ret = "wait"])
  <2> DEFINE s == [st[BH] EXCEPT !.pc = "push", !.ret = "wait"]
  <2>1. /\ s \in ActorState /\ s.pc = "push" /\ s.ret = "wait"
        /\ s.num_batches = st[BH].num_batches
    BY <1>2, Zenon DEF ActorState
  <2>2. Become(BH, s)
    BY <1>9, Zenon
  <2> HIDE DEF s
  <2> QED
    BY <1>7, <2>1, <2>2, Zenon
<1>10. CASE \E mode \in {"CACHED_PUT", "UPDATE_PUT"} :
             Become(BH, [st[BH] EXCEPT !.pc = "flush", !.mode = mode, !.ret = "wait"])
  <2>1. PICK mode \in {"CACHED_PUT", "UPDATE_PUT"} :
          Become(BH, [st[BH] EXCEPT !.pc = "flush", !.mode = mode, !.ret = "wait"])
    BY <1>10, Zenon
  <2> DEFINE s == [st[BH] EXCEPT !.pc = "flush", !.mode = mode, !.ret = "wait"]
  <2>2. /\ s \in ActorState /\ s.pc = "flush" /\ s.ret = "wait"
        /\ s.num_batches = st[BH].num_batches
    BY <1>2, Zenon DEF ActorState
  <2>3. Become(BH, s)
    BY <2>1, Zenon
  <2> HIDE DEF s
  <2> QED
    BY <1>7, <2>2, <2>3, Zenon
<1> QED
  BY <1>8, <1>9, <1>10, Zenon DEF ServiceBatch

LEMMA ServiceFailsStep ==
  ASSUME IInv, ServiceFails
  PROVE  IInv'
<1> DEFINE s == [st[BH] EXCEPT !.pc = "cancel", !.ok = FALSE]
<1>1. /\ st[BH].pc = "serve" /\ Become(BH, s) /\ Disturb("failure")
      /\ \E done \in SUBSET (st[BH].batch \ Fatal) : mapped' = mapped \cup done
      /\ UNCHANGED <<hwVars, access, replays, cacheVars, isrVars, topHalf, removal, power>>
  BY Zenon DEF ServiceFails, At
<1>2. TypeOK /\ st[BH] \in ActorState /\ BhControl(st[BH])
  BY BhTyped, Zenon
<1>3. s \in ActorState /\ s.pc = "cancel" /\ s.num_batches = st[BH].num_batches
  BY <1>2, Zenon DEF ActorState
<1>4. mapped' \subseteq Pages /\ disturbed' \subseteq Disturbing
  BY <1>1, <1>2, Zenon DEF TypeOK, ActorState, Disturb
<1>5. Bounded
  BY <1>1, <1>2, <1>4, Zenon DEF Bounded, TypeOK
<1> HIDE DEF s
<1>6. st[BH].pc \in Inner /\ s.pc \in Inner /\ BhControl(s)
  BY <1>1, <1>2, <1>3, Zenon DEF Inner, Serving, ServicePcs, FlushPcs, RearmPcs, ReadPcs, BhControl
<1>7. UNCHANGED <<hwVars, cacheVars, isrVars, topHalf, removal, power>>
  BY <1>1, Zenon
<1> QED
  BY <1>1, <1>3, <1>5, <1>6, <1>7, BhStep, Zenon

LEMMA CancelStep ==
  ASSUME IInv, CancelFaults
  PROVE  IInv'
<1> DEFINE s == [st[BH] EXCEPT !.pc = "flush", !.mode = "UPDATE_PUT", !.ret = "finish"]
<1>1. /\ st[BH].pc = "cancel" /\ Become(BH, s)
      /\ UNCHANGED <<mapped, replays, hwVars, cacheVars, isrVars, envVars>>
  BY Zenon DEF CancelFaults, At
<1>2. TypeOK /\ st[BH] \in ActorState
  BY BhTyped, Zenon
<1>3. s \in ActorState /\ s.pc = "flush" /\ s.ret = "finish"
  BY <1>2, Zenon DEF ActorState
<1>4. access' \in [Accesses -> {"run", "stalled", "done"}]
  <2>1. Replayed \in [Accesses -> {"run", "stalled", "done"}]
    BY <1>2, Replays, Zenon
  <2> QED
    BY <2>1, Zenon DEF CancelFaults
<1>5. Bounded
  BY <1>1, <1>2, <1>4, Zenon DEF Bounded, TypeOK, envVars
<1> HIDE DEF s
<1>6. st[BH].pc \in Inner /\ s.pc \in Inner /\ BhControl(s)
  BY <1>1, <1>3, Zenon DEF Inner, Serving, ServicePcs, FlushPcs, RearmPcs, ReadPcs, BhControl
<1>7. UNCHANGED <<hwVars, cacheVars, isrVars, topHalf, removal, power>>
  BY <1>1, Zenon DEF envVars
<1> QED
  BY <1>1, <1>3, <1>5, <1>6, <1>7, BhStep, Zenon

LEMMA DoneStep ==
  ASSUME IInv, BatchDone
  PROVE  IInv'
<1> DEFINE n == IF isr.replay_policy = "ONCE" THEN st[BH].num_replays ELSE 1
           s == [st[BH] EXCEPT !.pc = "loop", !.num_batches = st[BH].num_batches + 1,
                               !.num_replays = n]
<1>1. /\ st[BH].pc = "wait"
      /\ UNCHANGED <<hwVars, gpuVars, cacheVars, isrVars, envVars>>
  BY Zenon DEF BatchDone, At
<1>2. TypeOK /\ st[BH] \in ActorState /\ BhControl(st[BH])
  BY BhTyped, Zenon
<1>3. Become(BH, s)
  BY Zenon DEF BatchDone
<1>4. /\ st[BH].num_batches + 1 \in 0 .. max_batches /\ n \in {0, 1}
  BY <1>1, <1>2, Sizes DEF BhControl, ActorState
<1> HIDE DEF n
<1>5. s \in ActorState /\ s.pc = "loop"
  BY <1>2, <1>4, Zenon DEF ActorState
<1>6. /\ UNCHANGED <<hwVars, cacheVars, isrVars, topHalf, removal, power>>
      /\ UNCHANGED <<gpuVars, disturbed>>
  BY <1>1, Zenon DEF envVars
<1>7. Bounded
  BY <1>2, <1>6, BoundedKept, Zenon
<1> HIDE DEF s
<1>8. st[BH].pc \in Inner /\ s.pc \in Inner /\ BhControl(s)
  BY <1>1, <1>5, Zenon DEF Inner, Serving, ServicePcs, FlushPcs, RearmPcs, ReadPcs, BhControl
<1> QED
  BY <1>3, <1>5, <1>6, <1>7, <1>8, BhStep, Zenon

LEMMA FinishStep ==
  ASSUME IInv, Finish
  PROVE  IInv'
<1>1. /\ st[BH].pc = "finish"
      /\ UNCHANGED <<hwVars, gpuVars, cacheVars, isrVars, envVars>>
  BY Zenon DEF Finish, At
<1>2. /\ TypeOK /\ st[BH] \in ActorState /\ BhControl(st[BH])
      /\ st \in [Actors -> ActorState] /\ BH \in Actors
  BY BhTyped, Zenon
<1>3. /\ UNCHANGED <<hwVars, cacheVars, isrVars, topHalf, removal, power>>
      /\ UNCHANGED <<gpuVars, disturbed>>
  BY <1>1, Zenon DEF envVars
<1>4. Bounded
  BY <1>2, <1>3, BoundedKept, Zenon
<1>5. ASSUME NEW s \in ActorState, Become(BH, s),
             s.pc = "unlock" \/ (s.pc = "push" /\ s.ret = "unlock")
      PROVE  IInv'
  <2>1. st[BH].pc \in Inner /\ s.pc \in Inner /\ BhControl(s)
    BY <1>1, <1>5, Zenon DEF Inner, Serving, ServicePcs, FlushPcs, RearmPcs, ReadPcs, BhControl
  <2> QED
    BY <1>3, <1>4, <1>5, <2>1, BhStep, Zenon
<1>6. CASE Become(BH, [st[BH] EXCEPT !.pc = "push", !.ret = "unlock"])
  <2> DEFINE s == [st[BH] EXCEPT !.pc = "push", !.ret = "unlock"]
  <2>1. s \in ActorState /\ s.pc = "push" /\ s.ret = "unlock"
    BY <1>2, Zenon DEF ActorState
  <2>2. Become(BH, s)
    BY <1>6, Zenon
  <2> HIDE DEF s
  <2> QED
    BY <1>5, <2>1, <2>2, Zenon
<1>7. CASE Goto(BH, "unlock")
  <2> DEFINE s == [st[BH] EXCEPT !.pc = "unlock"]
  <2>1. s \in ActorState /\ s.pc = "unlock"
    BY <1>2, Zenon DEF ActorState
  <2>2. Become(BH, s)
    BY <1>2, <1>7, GotoIs, Zenon
  <2> HIDE DEF s
  <2> QED
    BY <1>5, <2>1, <2>2, Zenon
<1> QED
  BY <1>6, <1>7, Zenon DEF Finish

LEMMA PushStep ==
  ASSUME IInv, NEW a \in Actors, PushReplay(a)
  PROVE  IInv'
<1> DEFINE s == [st[a] EXCEPT !.pc = st[a].ret]
<1>1. /\ st[a].pc = "push" /\ Goto(a, st[a].ret) /\ replays < PUSHES
      /\ replays' = replays + 1
      /\ UNCHANGED <<hwVars, access, mapped, cacheVars, isrVars, envVars>>
  BY Zenon DEF PushReplay, At
<1>2. /\ TypeOK /\ st \in [Actors -> ActorState] /\ st[a] \in ActorState
      /\ Control(a, st[a])
  BY Parts, Zenon DEF ControlInv
<1>3. Become(a, s)
  BY <1>1, <1>2, GotoIs, Zenon
<1>4. /\ st[a].ret \in {"loop", "wait", "finish", "unlock"}
      /\ a # BH => st[a].ret = "unlock"
      /\ a = BH /\ st[a].ret = "wait" => st[a].num_batches < max_batches
  BY <1>1, <1>2, Zenon DEF Control, BhControl, FlushControl, FlushPcs
<1>5. s \in ActorState /\ s.pc = st[a].ret /\ s.num_batches = st[a].num_batches
  BY <1>2, <1>4, Zenon DEF ActorState
<1> HIDE DEF s
<1>6. st[a].pc \in Inner /\ s.pc \in Inner
  BY <1>1, <1>4, <1>5, Zenon DEF Inner, Serving, ServicePcs, FlushPcs, RearmPcs, ReadPcs
<1>7. Control(a, s)
  BY <1>4, <1>5, Zenon
     DEF Control, BhControl, FlushControl, FlushPcs, RearmPcs, ServicePcs, ThreadPcs
<1>8. replays' \in 0 .. PUSHES
  BY <1>1, <1>2, FaultsAssumption DEF TypeOK
<1>9. Bounded
  BY <1>1, <1>2, <1>8, Zenon DEF Bounded, TypeOK, envVars
<1>10. UNCHANGED <<hwVars, cacheVars, isrVars, topHalf, removal, power>>
  BY <1>1, Zenon DEF envVars
<1>11. a = PM => st[a].pc = "push" /\ s.pc = "unlock"
  BY <1>1, <1>4, <1>5, Who, Zenon
<1> QED
  BY <1>3, <1>5, <1>6, <1>7, <1>9, <1>10, <1>11, InnerStep, Zenon

-----------------------------------------------------------------------------
(* Reading the buffer.                                                     *)

(* Where the holder of service_lock, at s, has got to in the buffer.       *)
Reads(s, get, cput, p, e) ==
  /\ s.pc \in ReadPcs => ReadAt(s.get, get, cput, p, e)
  /\ s.pc \notin ReadPcs => ReadAt(get, get, cput, p, e)

LEMMA RingOf ==
  ASSUME IInv, NEW a \in Actors, st[a].pc \in Serving
  PROVE  /\ hw_get = cached_get /\ valid \cap writing = {}
         /\ \A t \in Entries : buffer[t] \in Pages
         /\ Reads(st[a], cached_get, cached_put, put, Entries)
<1>1. RingInv
  BY Parts, Zenon
<1>2. st[a].pc \in ServicePcs /\ st[a].pc # "off"
  BY Zenon DEF Serving, ServicePcs, FlushPcs, RearmPcs
<1>3. \A b \in Actors : b # a => st[b].pc \notin ServicePcs
  BY <1>2, Holder, Zenon
<1>4. st[PM].pc # "off"
  BY <1>2, Holder, Zenon
<1>5. \A b \in Actors : b # a => st[b].pc \notin ReadPcs
  BY <1>3, Zenon DEF ReadPcs, ServicePcs, FlushPcs
<1> QED
  BY <1>1, <1>4, <1>5, Zenon DEF RingInv, Reads

(* What such a step leaves.                                                *)
RingTyped ==
  /\ hw_get' \in Slots /\ buffer' \in [Slots -> Pages \cup {NO_PAGE}]
  /\ valid' \subseteq Slots /\ intr' \in IntrState
  /\ cached_get' \in Slots /\ cached_put' \in Slots

RingSound ==
  /\ hw_get' = cached_get' /\ valid' \cap writing' = {}
  /\ \A t \in Entries' : buffer'[t] \in Pages

LEMMA ReaderMoves ==
  ASSUME IInv, NEW a \in Actors, NEW s \in ActorState, Become(a, s),
         st[a].pc \in Serving, s.pc \in Serving, Control(a, s),
         UNCHANGED <<put, writing, gpuVars, isrVars, topHalf, removal, power>>,
         disturbed' \subseteq Disturbing,
         IntrKept, RingTyped, RingSound,
         Reads(s, cached_get', cached_put', put', Entries'),
         a = PM => SleepAt(s.pc)'
  PROVE  IInv'
<1>1. /\ TypeOK /\ st \in [Actors -> ActorState]
  BY Parts, Zenon
<1>2. /\ st' \in [Actors -> ActorState] /\ st'[a] = s
      /\ \A b \in Actors : b # a => st'[b] = st[b]
  BY <1>1, OneActor, Zenon
<1>3. UNCHANGED <<isrVars, topHalf, removal, power>>
  BY Zenon
<1>4. ControlInv' /\ LockInv' /\ CountInv' /\ BitInv' /\ SleepInv' /\ RemovalInv'
  BY <1>3, HolderStep, Zenon
<1>5. st[a].pc \in ServicePcs
  BY Zenon DEF Serving
<1>6. \A b \in Actors : b # a => st[b].pc \notin ServicePcs
  BY <1>5, Holder, Zenon
<1>7. \A b \in Actors : b # a => st'[b].pc \notin ReadPcs
  BY <1>2, <1>6, Zenon DEF ReadPcs, ServicePcs, FlushPcs
<1>8. \A b \in Actors : st'[b].pc \in ReadPcs =>
        ReadAt(st'[b].get, cached_get', cached_put', put', Entries')
  BY <1>2, <1>7, Zenon DEF Reads
<1>9. (\A b \in Actors : st'[b].pc \notin ReadPcs) /\ st'[PM].pc # "off" =>
         ReadAt(cached_get', cached_get', cached_put', put', Entries')
  BY <1>2, Zenon DEF Reads
<1>10. RingInv'
  BY <1>8, <1>9, Zenon DEF RingInv, RingSound
<1>11. TypeOK'
  BY <1>1, <1>2, Zenon DEF TypeOK, RingTyped, gpuVars, isrVars
<1> QED
  BY <1>4, <1>10, <1>11, Zenon DEF IInv

LEMMA ReaderStep ==
  ASSUME IInv, NEW a \in Actors, NEW s \in ActorState, Become(a, s),
         st[a].pc \in Serving, s.pc \in Serving, Control(a, s),
         UNCHANGED <<put, writing, gpuVars, isrVars, envVars>>,
         IntrKept, RingTyped, RingSound,
         Reads(s, cached_get', cached_put', put', Entries'),
         a = PM => SleepAt(s.pc)'
  PROVE  IInv'
<1>1. UNCHANGED <<put, writing, gpuVars, isrVars, topHalf, removal, power>>
  BY Zenon DEF envVars
<1>2. disturbed' \subseteq Disturbing
  BY Parts, Zenon DEF TypeOK, envVars
<1> QED
  BY <1>1, <1>2, ReaderMoves, Zenon

(* A reader starts at GET, with a cached_put that is as it was or PUT.     *)
LEMMA ReadStart ==
  ASSUME TypeOK, NEW c \in Slots, c = cached_put \/ c = put,
         ReadAt(cached_get, cached_get, cached_put, put, Entries)
  PROVE  ReadAt(cached_get, cached_get, c, put, Entries)
<1>1. cached_get \in Slots /\ put \in Slots
  BY Zenon DEF TypeOK
<1>2. Dist(cached_get, cached_get) = 0 /\ Dist(cached_get, put) \in Nat
  BY <1>1, DistType
<1> QED
  BY <1>1, <1>2, DistType DEF ReadAt

(* It takes an entry.                                                      *)
LEMMA ReadOne ==
  ASSUME TypeOK, NEW r \in Slots, r # cached_put, r \in valid, valid \cap writing = {},
         ReadAt(r, cached_get, cached_put, put, Entries)
  PROVE  /\ Wrap(r + 1) \in Slots /\ (valid \ {r}) \cup writing = Entries \ {r}
         /\ ReadAt(Wrap(r + 1), cached_get, cached_put, put, Entries \ {r})
<1>1. cached_get \in Slots /\ cached_put \in Slots /\ put \in Slots
  BY Zenon DEF TypeOK
<1>2. r # put
  <2>1. Dist(r, r) < Dist(r, put)
    BY Zenon DEF ReadAt, Entries
  <2> QED
    BY <1>1, <2>1, DistType
<1>3. \A t \in Slots : t \in Entries \ {r} <=> Dist(Wrap(r + 1), t) < Dist(Wrap(r + 1), put)
  BY <1>1, <1>2, DistAfter, Zenon DEF ReadAt
<1>4. Dist(cached_get, Wrap(r + 1)) <= Dist(cached_get, cached_put)
  BY <1>1, DistPast, Zenon DEF ReadAt
<1> QED
  BY <1>3, <1>4, WrapType, Zenon DEF ReadAt, Entries

(* It ends, and writes GET.                                                *)
LEMMA ReadEnd ==
  ASSUME TypeOK, NEW r \in Slots, ReadAt(r, cached_get, cached_put, put, Entries)
  PROVE  ReadAt(r, r, cached_put, put, Entries)
<1>1. cached_get \in Slots /\ cached_put \in Slots /\ put \in Slots
  BY Zenon DEF TypeOK
<1>2. /\ Dist(cached_get, r) <= Dist(cached_get, cached_put)
      /\ Dist(cached_get, cached_put) <= Dist(cached_get, put)
  BY Zenon DEF ReadAt
<1>3. /\ Dist(cached_get, r) \in Int /\ Dist(cached_get, cached_put) \in Int
      /\ Dist(cached_get, put) \in Int /\ Dist(r, r) = 0 /\ Dist(r, cached_put) \in Nat
  BY <1>1, DistType
<1>4. Dist(r, cached_put) = Dist(cached_get, cached_put) - Dist(cached_get, r)
  BY <1>1, <1>2, DistShift, Zenon
<1>5. Dist(cached_get, r) <= Dist(cached_get, put)
  BY <1>2, <1>3
<1>6. Dist(r, put) = Dist(cached_get, put) - Dist(cached_get, r)
  BY <1>1, <1>5, DistShift, Zenon
<1> QED
  BY <1>2, <1>3, <1>4, <1>6 DEF ReadAt

LEMMA GetWritten ==
  ASSUME TypeOK, NEW r \in Slots, hw_get = cached_get, write_get(r)
  PROVE  /\ cached_get' = r /\ hw_get' = r /\ intr' \in IntrState /\ IntrKept
         /\ intr'.kind = intr.kind
<1>1. CASE cached_get = r
  BY <1>1, Zenon DEF write_get, TypeOK, IntrKept
<1>2. CASE cached_get # r
  <2> DEFINE p == intr.pending \/ (intr.kind = "pulse" /\ r # put)
  <2>1. /\ cached_get' = r /\ hw_get' = r
        /\ intr' = [intr EXCEPT !.pending = p]
    BY <1>2, Zenon DEF write_get, HwWriteGet
  <2>2. p \in BOOLEAN
    BY Zenon
  <2> HIDE DEF p
  <2>3. intr' \in IntrState /\ intr'.enabled = intr.enabled /\ intr'.kind = intr.kind
    BY <2>1, <2>2, Zenon DEF TypeOK, IntrState
  <2> QED
    BY <2>1, <2>3, Zenon DEF IntrKept
<1> QED
  BY <1>1, <1>2, Zenon

-----------------------------------------------------------------------------
LEMMA FlushStartStep ==
  ASSUME IInv, NEW a \in Actors, FlushStart(a)
  PROVE  IInv'
<1> DEFINE s1 == [st[a] EXCEPT !.pc = "skip"]
           s2 == [s1 EXCEPT !.get = cached_get]
<1>1. /\ st[a].pc = "flush" /\ Become(a, s2)
      /\ cached_put' = IF st[a].mode = "CACHED_PUT" THEN cached_put ELSE put
      /\ UNCHANGED <<hwVars, gpuVars, cached_get, isrVars, envVars>>
  BY Zenon DEF FlushStart, At
<1>2. /\ TypeOK /\ st[a] \in ActorState /\ Control(a, st[a])
  BY Parts, Zenon DEF ControlInv
<1>3. s1 \in ActorState /\ s1.pc = "skip" /\ s1.ret = st[a].ret /\ s1.mode = st[a].mode
      /\ s1.num_batches = st[a].num_batches
  BY <1>2, Zenon DEF ActorState
<1> HIDE DEF s1
<1>31. s2 \in ActorState
  BY <1>2, <1>3, Zenon DEF ActorState, TypeOK
<1>32. PICK s \in ActorState : s = s2
  BY <1>31, Zenon
<1>33. Become(a, s)
  BY <1>1, <1>32, Zenon
<1>4. s.pc = "skip" /\ s.ret = st[a].ret /\ s.mode = st[a].mode
      /\ s.num_batches = st[a].num_batches /\ s.get = cached_get
  BY <1>2, <1>3, <1>32 DEF ActorState, TypeOK
<1> HIDE DEF s2
<1>5. /\ put' = put /\ hw_get' = hw_get /\ buffer' = buffer /\ valid' = valid
      /\ writing' = writing /\ intr' = intr /\ cached_get' = cached_get
      /\ Entries' = Entries
  BY <1>1, Zenon DEF hwVars, Entries
<1>6. st[a].pc \in Serving /\ s.pc \in Serving
  BY <1>1, <1>4, Zenon DEF Serving, ServicePcs, FlushPcs, RearmPcs
<1>7. /\ hw_get = cached_get /\ valid \cap writing = {}
      /\ \A t \in Entries : buffer[t] \in Pages
      /\ ReadAt(cached_get, cached_get, cached_put, put, Entries)
  BY <1>1, <1>6, RingOf, Zenon DEF Reads, ReadPcs
<1>8. cached_put' \in Slots /\ (cached_put' = cached_put \/ cached_put' = put)
  BY <1>1, <1>2, Zenon DEF TypeOK
<1>9. ReadAt(cached_get, cached_get, cached_put', put, Entries)
  BY <1>2, <1>7, <1>8, ReadStart, Zenon
<1>10. Reads(s, cached_get', cached_put', put', Entries')
  BY <1>4, <1>5, <1>9, Zenon DEF Reads, ReadPcs
<1>11. RingTyped /\ RingSound /\ IntrKept
  BY <1>2, <1>5, <1>7, <1>8, Zenon DEF RingTyped, RingSound, IntrKept, TypeOK
<1>12. Control(a, s)
  BY <1>1, <1>2, <1>4, Zenon
     DEF Control, BhControl, FlushControl, FlushPcs, RearmPcs, ServicePcs, ThreadPcs
<1>13. ASSUME a = PM
       PROVE  SleepAt(s.pc)'
  <2>1. st[a].mode = "WAIT_UPDATE_PUT"
    BY <1>1, <1>2, <1>13, Who, Zenon DEF Control, FlushControl, FlushPcs
  <2> QED
    BY <1>1, <1>4, <1>5, <2>1, Zenon DEF SleepAt
<1>14. UNCHANGED <<put, writing, gpuVars, isrVars, envVars>>
  BY <1>1, Zenon DEF hwVars
<1> QED
  BY <1>33, <1>6, <1>10, <1>11, <1>12, <1>13, <1>14, ReaderStep, Zenon

LEMMA FetchStartStep ==
  ASSUME IInv, FetchStart
  PROVE  IInv'
<1> DEFINE s1 == [st[BH] EXCEPT !.pc = "fetch"]
           s2 == [s1 EXCEPT !.get = cached_get]
           s3 == [s2 EXCEPT !.batch = {}]
           s == [s3 EXCEPT !.index = 0]
<1>1. /\ st[BH].pc = "loop" /\ Become(BH, s) /\ st[BH].num_batches < max_batches
      /\ cached_put' = IF cached_get = cached_put THEN put ELSE cached_put
      /\ UNCHANGED <<hwVars, gpuVars, cached_get, isrVars, envVars>>
  BY Zenon DEF FetchStart, At
<1>2. TypeOK /\ st[BH] \in ActorState /\ BH \in Actors /\ BH # PM
  BY BhTyped, Who, Zenon
<1>3. s1 \in ActorState /\ s1.pc = "fetch" /\ s1.num_batches = st[BH].num_batches
  BY <1>2, Zenon DEF ActorState
<1> HIDE DEF s1
<1>4. s2 \in ActorState /\ s2.pc = "fetch" /\ s2.num_batches = st[BH].num_batches
      /\ s2.get = cached_get
  BY <1>2, <1>3, Zenon DEF ActorState, TypeOK
<1> HIDE DEF s2
<1>41. s3 \in ActorState /\ s3.pc = "fetch" /\ s3.num_batches = st[BH].num_batches
       /\ s3.get = cached_get
  BY <1>4, Zenon DEF ActorState
<1> HIDE DEF s3
<1>42. 0 \in 0 .. max_batch_size
  BY Sizes
<1>5. s \in ActorState /\ s.pc = "fetch" /\ s.num_batches = st[BH].num_batches
      /\ s.get = cached_get
  BY <1>41, <1>42, Zenon DEF ActorState
<1> HIDE DEF s
<1>6. /\ put' = put /\ hw_get' = hw_get /\ buffer' = buffer /\ valid' = valid
      /\ writing' = writing /\ intr' = intr /\ cached_get' = cached_get
      /\ Entries' = Entries
  BY <1>1, Zenon DEF hwVars, Entries
<1>7. st[BH].pc \in Serving /\ s.pc \in Serving
  BY <1>1, <1>5, Zenon DEF Serving, ServicePcs, FlushPcs, RearmPcs
<1>8. /\ hw_get = cached_get /\ valid \cap writing = {}
      /\ \A t \in Entries : buffer[t] \in Pages
      /\ ReadAt(cached_get, cached_get, cached_put, put, Entries)
  BY <1>1, <1>2, <1>7, RingOf, Zenon DEF Reads, ReadPcs
<1>9. cached_put' \in Slots /\ (cached_put' = cached_put \/ cached_put' = put)
  BY <1>1, <1>2, Zenon DEF TypeOK
<1>10. ReadAt(cached_get, cached_get, cached_put', put, Entries)
  BY <1>2, <1>8, <1>9, ReadStart, Zenon
<1>11. Reads(s, cached_get', cached_put', put', Entries')
  BY <1>5, <1>6, <1>10, Zenon DEF Reads, ReadPcs
<1>12. RingTyped /\ RingSound /\ IntrKept
  BY <1>2, <1>6, <1>8, <1>9, Zenon DEF RingTyped, RingSound, IntrKept, TypeOK
<1>13. Control(BH, s)
  BY <1>1, <1>2, <1>5, Who, Zenon DEF Control, BhControl, FlushPcs, ServicePcs
<1>14. UNCHANGED <<put, writing, gpuVars, isrVars, envVars>>
  BY <1>1, Zenon DEF hwVars
<1> QED
  BY <1>1, <1>2, <1>5, <1>7, <1>11, <1>12, <1>13, <1>14, ReaderStep, Zenon

(* An entry is cleared, and the reader moves past it.                      *)
LEMMA ClearStep ==
  ASSUME IInv, NEW a \in Actors, NEW s \in ActorState, Become(a, s),
         st[a].pc \in ReadPcs, s.pc = st[a].pc, Control(a, s),
         s.get = Wrap(st[a].get + 1),
         st[a].get # cached_put, st[a].get \in valid, ClearEntry(st[a].get),
         UNCHANGED <<put, hw_get, writing, intr, gpuVars, cacheVars, isrVars, envVars>>
  PROVE  IInv'
<1> DEFINE r == st[a].get
<1>1. /\ put' = put /\ hw_get' = hw_get /\ writing' = writing /\ intr' = intr
      /\ cached_get' = cached_get /\ cached_put' = cached_put
      /\ UNCHANGED <<put, writing, gpuVars, isrVars, envVars>>
  BY Zenon DEF cacheVars
<1>2. TypeOK /\ st[a] \in ActorState /\ SleepInv
  BY Parts, Zenon
<1>3. r \in Slots
  BY <1>2, Zenon DEF ActorState
<1>4. valid' = valid \ {r} /\ buffer' = [buffer EXCEPT ![r] = NO_PAGE]
  BY Zenon DEF ClearEntry
<1>5. st[a].pc \in Serving /\ s.pc \in Serving
  BY Zenon DEF Serving, ReadPcs, ServicePcs, FlushPcs, RearmPcs
<1>6. /\ hw_get = cached_get /\ valid \cap writing = {}
      /\ \A t \in Entries : buffer[t] \in Pages
      /\ ReadAt(r, cached_get, cached_put, put, Entries)
  BY <1>5, RingOf, Zenon DEF Reads
<1>7. /\ (valid \ {r}) \cup writing = Entries \ {r}
      /\ ReadAt(Wrap(r + 1), cached_get, cached_put, put, Entries \ {r})
  BY <1>2, <1>3, <1>6, ReadOne, Zenon
<1>8. Entries' = Entries \ {r}
  BY <1>1, <1>4, <1>7, Zenon DEF Entries
<1>9. Reads(s, cached_get', cached_put', put', Entries')
  BY <1>1, <1>7, <1>8, Zenon DEF Reads
<1>10. RingTyped
  BY <1>1, <1>2, <1>3, <1>4, Zenon DEF RingTyped, TypeOK
<1>11. \A t \in Entries' : buffer'[t] \in Pages
  BY <1>2, <1>3, <1>4, <1>6, <1>8, Zenon DEF TypeOK, Entries
<1>12. RingSound /\ IntrKept
  BY <1>1, <1>4, <1>6, <1>11, Zenon DEF RingSound, IntrKept
<1>13. a = PM => SleepAt(s.pc)'
  BY <1>1, <1>2, Zenon DEF SleepInv, SleepAt, ReadPcs
<1> QED
  BY <1>1, <1>5, <1>9, <1>10, <1>12, <1>13, ReaderStep, Zenon

LEMMA SkipStep ==
  ASSUME IInv, NEW a \in Actors, SkipEntry(a)
  PROVE  IInv'
<1> DEFINE s == [st[a] EXCEPT !.get = Wrap(st[a].get + 1)]
<1>1. /\ st[a].pc = "skip" /\ Become(a, s)
      /\ st[a].get # cached_put /\ st[a].get \in valid /\ ClearEntry(st[a].get)
      /\ UNCHANGED <<put, hw_get, writing, intr, gpuVars, cacheVars, isrVars, envVars>>
  BY Zenon DEF SkipEntry, At
<1>2. TypeOK /\ st[a] \in ActorState /\ Control(a, st[a])
  BY Parts, Zenon DEF ControlInv
<1>3. Wrap(st[a].get + 1) \in Slots
  BY <1>2, WrapType, Zenon DEF ActorState
<1>4. s \in ActorState /\ s.pc = st[a].pc /\ s.ret = st[a].ret /\ s.mode = st[a].mode
      /\ s.num_batches = st[a].num_batches /\ s.get = Wrap(st[a].get + 1)
  BY <1>2, <1>3, Zenon DEF ActorState
<1> HIDE DEF s
<1>5. Control(a, s)
  BY <1>2, <1>4, Zenon DEF Control, BhControl, FlushControl
<1>6. st[a].pc \in ReadPcs
  BY <1>1, Zenon DEF ReadPcs
<1> QED
  BY <1>1, <1>4, <1>5, <1>6, ClearStep, Zenon

LEMMA FetchEntryStep ==
  ASSUME IInv, FetchEntry
  PROVE  IInv'
<1> DEFINE s0 == st[BH]
           s1 == [s0 EXCEPT !.get = Wrap(s0.get + 1)]
           s2 == [s1 EXCEPT !.index = s0.index + 1]
           s == [s2 EXCEPT !.batch = s0.batch \cup {buffer[s0.get]}]
<1>1. /\ s0.pc = "fetch" /\ s0.index < max_batch_size
      /\ s0.get # cached_put /\ s0.get \in valid /\ ClearEntry(s0.get)
      /\ UNCHANGED <<put, hw_get, writing, intr, gpuVars, cacheVars, isrVars, envVars>>
  BY Zenon DEF FetchEntry, At
<1>2. TypeOK /\ s0 \in ActorState /\ BhControl(s0) /\ BH \in Actors
  BY BhTyped, Zenon
<1>3. Wrap(s0.get + 1) \in Slots
  BY <1>2, WrapType, Zenon DEF ActorState
<1>4. buffer[s0.get] \in Pages
  <2>1. s0.pc \in Serving
    BY <1>1, Zenon DEF Serving, ServicePcs, FlushPcs, RearmPcs
  <2> QED
    BY <1>1, <1>2, <2>1, RingOf, Zenon DEF Entries
<1>5. s0.index + 1 \in 0 .. max_batch_size /\ s0.batch \cup {buffer[s0.get]} \subseteq Pages
  BY <1>1, <1>2, <1>4, Sizes DEF ActorState
<1>6. Become(BH, s)
  BY Zenon DEF FetchEntry, Become
<1> HIDE DEF s0
<1>7. s1 \in ActorState /\ s1.pc = s0.pc /\ s1.num_batches = s0.num_batches
      /\ s1.get = Wrap(s0.get + 1) /\ s1.ret = s0.ret
  BY <1>2, <1>3, Zenon DEF ActorState
<1> HIDE DEF s1
<1>8. s2 \in ActorState /\ s2.pc = s0.pc /\ s2.num_batches = s0.num_batches
      /\ s2.get = Wrap(s0.get + 1) /\ s2.ret = s0.ret
  BY <1>5, <1>7, Zenon DEF ActorState
<1> HIDE DEF s2
<1>9. s \in ActorState /\ s.pc = s0.pc /\ s.num_batches = s0.num_batches
      /\ s.get = Wrap(s0.get + 1) /\ s.ret = s0.ret
  BY <1>5, <1>8, Zenon DEF ActorState
<1> HIDE DEF s
<1>10. Control(BH, s)
  BY <1>2, <1>9, Who, Zenon DEF Control, BhControl
<1>11. s0.pc \in ReadPcs
  BY <1>1, Zenon DEF ReadPcs
<1> QED
  BY <1>1, <1>2, <1>6, <1>9, <1>10, <1>11, ClearStep, Zenon DEF s0

(* A reader ends.                                                          *)
LEMMA ReaderEnds ==
  ASSUME IInv, NEW a \in Actors, NEW s \in ActorState, Become(a, s),
         st[a].pc \in ReadPcs, s.pc \in Inner, Control(a, s),
         write_get(st[a].get),
         UNCHANGED <<put, buffer, valid, writing, gpuVars, cached_put, isrVars, topHalf,
                     removal, power>>,
         disturbed' \subseteq Disturbing,
         a = PM => s.pc = "push" /\ st[a].pc = "skip" /\ st[a].get = cached_put
  PROVE  IInv'
<1> DEFINE r == st[a].get
<1>1. /\ put' = put /\ buffer' = buffer /\ valid' = valid /\ writing' = writing
      /\ cached_put' = cached_put
      /\ UNCHANGED <<put, writing, gpuVars, isrVars, topHalf, removal, power>>
  BY Zenon
<1>2. TypeOK /\ st[a] \in ActorState /\ SleepInv
  BY Parts, Zenon
<1>3. r \in Slots
  BY <1>2, Zenon DEF ActorState
<1>4. st[a].pc \in Serving /\ s.pc \in Serving /\ s.pc \notin ReadPcs
  BY Zenon DEF Inner, Serving, ReadPcs, ServicePcs, FlushPcs, RearmPcs
<1>5. /\ hw_get = cached_get /\ valid \cap writing = {}
      /\ \A t \in Entries : buffer[t] \in Pages
      /\ ReadAt(r, cached_get, cached_put, put, Entries)
  BY <1>4, RingOf, Zenon DEF Reads
<1>6. cached_get' = r /\ hw_get' = r /\ intr' \in IntrState /\ IntrKept
  BY <1>2, <1>3, <1>5, GetWritten, Zenon
<1>7. ReadAt(r, r, cached_put, put, Entries)
  BY <1>2, <1>3, <1>5, ReadEnd, Zenon
<1>8. Entries' = Entries
  BY <1>1, Zenon DEF Entries
<1>9. Reads(s, cached_get', cached_put', put', Entries')
  BY <1>1, <1>4, <1>6, <1>7, <1>8, Zenon DEF Reads
<1>10. RingTyped
  BY <1>1, <1>2, <1>3, <1>6, Zenon DEF RingTyped, TypeOK
<1>11. RingSound
  BY <1>1, <1>5, <1>6, <1>8, Zenon DEF RingSound
<1>12. a = PM => SleepAt(s.pc)'
  BY <1>1, <1>2, <1>6, Zenon DEF SleepInv, SleepAt
<1> QED
  BY <1>1, <1>4, <1>6, <1>9, <1>10, <1>11, <1>12, ReaderMoves, Zenon

LEMMA EndStep ==
  ASSUME IInv, NEW a \in Actors, NEW s \in ActorState, Become(a, s),
         st[a].pc \in ReadPcs, s.pc \in Inner, Control(a, s),
         write_get(st[a].get),
         UNCHANGED <<put, buffer, valid, writing, gpuVars, cached_put, isrVars, envVars>>,
         a = PM => s.pc = "push" /\ st[a].pc = "skip" /\ st[a].get = cached_put
  PROVE  IInv'
<1>1. UNCHANGED <<put, buffer, valid, writing, gpuVars, cached_put, isrVars, topHalf,
                  removal, power>>
  BY Zenon DEF envVars
<1>2. disturbed' \subseteq Disturbing
  BY Parts, Zenon DEF TypeOK, envVars
<1> QED
  BY <1>1, <1>2, ReaderEnds, Zenon

LEMMA FlushEndStep ==
  ASSUME IInv, NEW a \in Actors, FlushEnd(a)
  PROVE  IInv'
<1> DEFINE s1 == [st[a] EXCEPT !.pc = "push"]
           s2 == [s1 EXCEPT !.get = 0]
           s == [s2 EXCEPT !.batch = {}]
<1>1. /\ st[a].pc = "skip" /\ st[a].get = cached_put /\ write_get(st[a].get)
      /\ Become(a, s)
      /\ UNCHANGED <<put, buffer, valid, writing, gpuVars, cached_put, isrVars, envVars>>
  BY Zenon DEF FlushEnd, At
<1>2. TypeOK /\ st[a] \in ActorState /\ Control(a, st[a])
  BY Parts, Zenon DEF ControlInv
<1>3. s1 \in ActorState /\ s1.pc = "push" /\ s1.ret = st[a].ret
      /\ s1.num_batches = st[a].num_batches
  BY <1>2, Zenon DEF ActorState
<1> HIDE DEF s1
<1>4. 0 \in Slots
  BY Sizes DEF Slots
<1>5. s2 \in ActorState /\ s2.pc = "push" /\ s2.ret = st[a].ret
      /\ s2.num_batches = st[a].num_batches
  BY <1>3, <1>4, Zenon DEF ActorState
<1> HIDE DEF s2
<1>6. s \in ActorState /\ s.pc = "push" /\ s.ret = st[a].ret
      /\ s.num_batches = st[a].num_batches
  BY <1>5, Zenon DEF ActorState
<1> HIDE DEF s
<1>7. Control(a, s)
  BY <1>1, <1>2, <1>6, Zenon
     DEF Control, BhControl, FlushControl, FlushPcs, RearmPcs, ServicePcs, ThreadPcs
<1>8. st[a].pc \in ReadPcs /\ s.pc \in Inner
  BY <1>1, <1>6, Zenon DEF ReadPcs, Inner, Serving, ServicePcs, FlushPcs, RearmPcs
<1> QED
  BY <1>1, <1>6, <1>7, <1>8, EndStep, Zenon

LEMMA FetchEndStep ==
  ASSUME IInv, FetchEnd
  PROVE  IInv'
<1> DEFINE s0 == st[BH]
           pc == IF s0.index = 0 THEN "finish" ELSE "serve"
           s1 == [s0 EXCEPT !.pc = pc]
           s2 == [s1 EXCEPT !.get = 0]
           s == [s2 EXCEPT !.index = 0]
<1>1. /\ s0.pc = "fetch" /\ write_get(s0.get)
      /\ UNCHANGED <<put, buffer, valid, writing, gpuVars, cached_put, isrVars, envVars>>
  BY Zenon DEF FetchEnd, At
<1>2. TypeOK /\ s0 \in ActorState /\ BhControl(s0) /\ BH \in Actors /\ BH # PM
  BY BhTyped, Who, Zenon
<1>3. Become(BH, s)
  BY Zenon DEF FetchEnd
<1>4. 0 \in Slots /\ 0 \in 0 .. max_batch_size /\ pc \in {"finish", "serve"}
  BY Sizes DEF Slots
<1> HIDE DEF s0, pc
<1>5. s1 \in ActorState /\ s1.pc = pc /\ s1.num_batches = s0.num_batches
  BY <1>2, <1>4, Zenon DEF ActorState
<1> HIDE DEF s1
<1>6. s2 \in ActorState /\ s2.pc = pc /\ s2.num_batches = s0.num_batches
  BY <1>4, <1>5, Zenon DEF ActorState
<1> HIDE DEF s2
<1>7. s \in ActorState /\ s.pc = pc /\ s.num_batches = s0.num_batches
  BY <1>4, <1>6, Zenon DEF ActorState
<1> HIDE DEF s
<1>8. Control(BH, s)
  BY <1>1, <1>2, <1>4, <1>7, Who, Zenon DEF Control, BhControl, ServicePcs, FlushPcs
<1>9. s0.pc \in ReadPcs /\ s.pc \in Inner
  BY <1>1, <1>4, <1>7, Zenon DEF ReadPcs, Inner, Serving, ServicePcs, FlushPcs, RearmPcs
<1> QED
  BY <1>1, <1>2, <1>3, <1>7, <1>8, <1>9, EndStep, Zenon DEF s0

LEMMA FetchFailsStep ==
  ASSUME IInv, FetchFails
  PROVE  IInv'
<1> DEFINE s0 == st[BH]
           s1 == [s0 EXCEPT !.pc = "finish"]
           s2 == [s1 EXCEPT !.ok = FALSE]
           s3 == [s2 EXCEPT !.batch = {}]
           s4 == [s3 EXCEPT !.get = 0]
           s == [s4 EXCEPT !.index = 0]
<1>1. /\ s0.pc = "fetch" /\ write_get(s0.get) /\ Disturb("failure")
      /\ UNCHANGED <<put, buffer, valid, writing, gpuVars, cached_put, isrVars, topHalf,
                     removal, power>>
  BY Zenon DEF FetchFails, At
<1>2. TypeOK /\ s0 \in ActorState /\ BhControl(s0) /\ BH \in Actors /\ BH # PM
  BY BhTyped, Who, Zenon
<1>3. Become(BH, s)
  BY Zenon DEF FetchFails
<1>4. 0 \in Slots /\ 0 \in 0 .. max_batch_size
  BY Sizes DEF Slots
<1> HIDE DEF s0
<1>5. s1 \in ActorState /\ s1.pc = "finish"
  BY <1>2, Zenon DEF ActorState
<1> HIDE DEF s1
<1>6. s2 \in ActorState /\ s2.pc = "finish"
  BY <1>5, Zenon DEF ActorState
<1> HIDE DEF s2
<1>7. s3 \in ActorState /\ s3.pc = "finish"
  BY <1>6, Zenon DEF ActorState
<1> HIDE DEF s3
<1>8. s4 \in ActorState /\ s4.pc = "finish"
  BY <1>4, <1>7, Zenon DEF ActorState
<1> HIDE DEF s4
<1>9. s \in ActorState /\ s.pc = "finish"
  BY <1>4, <1>8, Zenon DEF ActorState
<1> HIDE DEF s
<1>10. Control(BH, s)
  BY <1>9, Who, Zenon DEF Control, BhControl, ServicePcs, FlushPcs
<1>11. s0.pc \in ReadPcs /\ s.pc \in Inner
  BY <1>1, <1>9, Zenon DEF ReadPcs, Inner, Serving, ServicePcs, FlushPcs, RearmPcs
<1>12. disturbed' \subseteq Disturbing
  BY <1>1, <1>2, Zenon DEF Disturb, TypeOK
<1> QED
  BY <1>1, <1>2, <1>3, <1>9, <1>10, <1>11, <1>12, ReaderEnds, Zenon DEF s0

-----------------------------------------------------------------------------
(* The GPU.                                                                *)

(* Only its accesses, mappings and replays change.                         *)
LEMMA GpuOnly ==
  ASSUME IInv, UNCHANGED <<hwVars, cacheVars, isrVars, topHalf, removal, power, st>>,
         Bounded
  PROVE  IInv'
<1>1. /\ put' = put /\ hw_get' = hw_get /\ buffer' = buffer /\ valid' = valid
      /\ writing' = writing /\ intr' = intr /\ cached_get' = cached_get
      /\ cached_put' = cached_put /\ service_lock' = service_lock
      /\ interrupts_lock' = interrupts_lock /\ isr' = isr /\ queued' = queued
      /\ topHalf' = topHalf /\ removal' = removal /\ power' = power /\ st' = st
  BY Zenon DEF hwVars, cacheVars, isrVars
<1>2. /\ TypeOK /\ ControlInv /\ LockInv /\ CountInv /\ RingInv /\ BitInv /\ SleepInv
      /\ RemovalInv
  BY Parts, Zenon
<1>3. TypeOK'
  BY <1>1, <1>2, Zenon DEF TypeOK, Bounded
<1>4. ControlInv' /\ LockInv' /\ RemovalInv'
  BY <1>1, <1>2, Zenon DEF ControlInv, LockInv, RemovalInv
<1>5. CountInv'
  BY <1>1, <1>2, Zenon DEF CountInv, Disabling
<1>6. RingInv'
  BY <1>1, <1>2, Zenon DEF RingInv, Entries
<1>7. BitInv'
  BY <1>1, <1>2, Zenon DEF BitInv
<1>8. SleepInv'
  BY <1>1, <1>2, Zenon DEF SleepInv, SleepAt
<1> QED
  BY <1>3, <1>4, <1>5, <1>6, <1>7, <1>8, Zenon DEF IInv

LEMMA ReplayStep ==
  ASSUME IInv, ReplayExecuted
  PROVE  IInv'
<1>1. TypeOK
  BY Parts, Zenon
<1>2. replays' \in 0 .. PUSHES
  BY <1>1, FaultsAssumption DEF ReplayExecuted, TypeOK
<1>3. Replayed \in [Accesses -> {"run", "stalled", "done"}]
  BY <1>1, Replays, Zenon
<1>4. Bounded
  BY <1>1, <1>2, <1>3, Zenon DEF Bounded, ReplayExecuted, TypeOK, envVars
<1>5. UNCHANGED <<hwVars, cacheVars, isrVars, topHalf, removal, power, st>>
  BY Zenon DEF ReplayExecuted, envVars
<1> QED
  BY <1>4, <1>5, GpuOnly, Zenon

(* An entry at PUT.                                                        *)
LEMMA ReadMore ==
  ASSUME TypeOK, NEW r \in Slots, ReadAt(r, cached_get, cached_put, put, Entries),
         Wrap(put + 1) # cached_get
  PROVE  ReadAt(r, cached_get, cached_put, Wrap(put + 1), Entries \cup {put})
<1> DEFINE p == Wrap(put + 1)
<1>1. cached_get \in Slots /\ cached_put \in Slots /\ put \in Slots /\ p \in Slots
  BY WrapType, Zenon DEF TypeOK
<1>2. Dist(cached_get, p) = Dist(cached_get, put) + 1
  BY <1>1, DistNext, Zenon
<1>3. /\ Dist(cached_get, r) <= Dist(cached_get, cached_put)
      /\ Dist(cached_get, cached_put) <= Dist(cached_get, put)
  BY Zenon DEF ReadAt
<1>4. /\ Dist(cached_get, r) \in Int /\ Dist(cached_get, cached_put) \in Int
      /\ Dist(cached_get, put) \in Int /\ Dist(cached_get, p) \in Int
  BY <1>1, DistType
<1>5. p # r
  BY <1>2, <1>3, <1>4
<1>6. Dist(r, p) = Dist(r, put) + 1 /\ Dist(r, put) \in Int
  BY <1>1, <1>5, DistNext, DistType
<1>7. ASSUME NEW t \in Slots
      PROVE  t \in Entries \cup {put} <=> Dist(r, t) < Dist(r, p)
  <2>1. t \in Entries <=> Dist(r, t) < Dist(r, put)
    BY Zenon DEF ReadAt
  <2>2. Dist(r, t) \in Int
    BY DistType
  <2>3. Dist(r, t) = Dist(r, put) => t = put
    BY <1>1, DistSame, Zenon
  <2> QED
    BY <1>6, <2>1, <2>2, <2>3
<1>8. Dist(cached_get, cached_put) <= Dist(cached_get, p)
  BY <1>2, <1>3, <1>4
<1> QED
  BY <1>3, <1>7, <1>8, Zenon DEF ReadAt

(* The entry at PUT is free.                                               *)
LEMMA PutFree ==
  ASSUME TypeOK, NEW r \in Slots, ReadAt(r, cached_get, cached_put, put, Entries)
  PROVE  put \notin Entries
<1>1. put \in Slots
  BY Zenon DEF TypeOK
<1>2. Dist(r, put) \in Int
  BY <1>1, DistType
<1> QED
  BY <1>1, <1>2 DEF ReadAt

LEMMA FaultStep ==
  ASSUME IInv, NEW a \in Accesses, removal = "no", power = "on",
         access' = [access EXCEPT ![a] = "stalled"],
         Wrap(put + 1) # hw_get,
         buffer' = [buffer EXCEPT ![put] = Page[a]],
         writing' = writing \cup {put}, put' = Wrap(put + 1),
         intr' = [intr EXCEPT !.pending = intr.kind # "level"],
         UNCHANGED <<hw_get, valid, mapped, replays, cacheVars, isrVars, envVars, st>>
  PROVE  IInv'
<1>1. /\ hw_get' = hw_get /\ valid' = valid /\ cached_get' = cached_get
      /\ cached_put' = cached_put /\ service_lock' = service_lock
      /\ interrupts_lock' = interrupts_lock /\ isr' = isr /\ queued' = queued
      /\ topHalf' = topHalf /\ removal' = removal /\ power' = power /\ st' = st
      /\ mapped' = mapped /\ replays' = replays /\ disturbed' = disturbed
  BY Zenon DEF cacheVars, isrVars, envVars
<1>2. /\ TypeOK /\ ControlInv /\ LockInv /\ CountInv /\ RingInv /\ BitInv /\ SleepInv
      /\ RemovalInv /\ st \in [Actors -> ActorState]
  BY Parts, Zenon
<1>3. put \in Slots /\ put' \in Slots /\ Page[a] \in Pages /\ cached_get \in Slots
  BY <1>2, WrapType, FaultsAssumption, Zenon DEF TypeOK
<1>4. st[PM].pc = "idle"
  BY <1>2, Zenon DEF SleepInv
<1>5. hw_get = cached_get
  BY <1>2, <1>4, Zenon DEF RingInv
<1>6. /\ intr' \in IntrState /\ intr'.kind = intr.kind /\ intr'.enabled = intr.enabled
      /\ intr.kind = "pulse" => intr'.pending
  <2> DEFINE p == intr.kind # "level"
  <2>1. p \in BOOLEAN /\ (intr.kind = "pulse" => p)
    BY Zenon
  <2>2. intr' = [intr EXCEPT !.pending = p] /\ intr \in IntrState
    BY <1>2, Zenon DEF TypeOK
  <2> HIDE DEF p
  <2> QED
    BY <2>1, <2>2, Zenon DEF IntrState
<1>7. TypeOK'
  <2>1. access' \in [Accesses -> {"run", "stalled", "done"}]
    BY <1>2, Zenon DEF TypeOK
  <2>2. buffer' \in [Slots -> Pages \cup {NO_PAGE}]
    BY <1>2, <1>3, Zenon DEF TypeOK
  <2>3. writing' \subseteq Slots
    BY <1>2, <1>3, Zenon DEF TypeOK
  <2> QED
    BY <1>1, <1>2, <1>3, <1>6, <2>1, <2>2, <2>3, Zenon DEF TypeOK
<1>8. ControlInv' /\ LockInv' /\ RemovalInv'
  BY <1>1, <1>2, Zenon DEF ControlInv, LockInv, RemovalInv
<1>9. CountInv'
  BY <1>1, <1>2, <1>6, Zenon DEF CountInv, Disabling
<1>10. Entries' = Entries \cup {put}
  BY <1>1, Zenon DEF Entries
<1>11. \A b \in Actors : st[b].pc \in ReadPcs =>
         /\ ReadAt(st[b].get, cached_get, cached_put, put', Entries \cup {put})
         /\ put \notin Entries
  <2> SUFFICES ASSUME NEW b \in Actors, st[b].pc \in ReadPcs
               PROVE  /\ ReadAt(st[b].get, cached_get, cached_put, put', Entries \cup {put})
                      /\ put \notin Entries
    BY Zenon
  <2>1. st[b].get \in Slots
    BY <1>2, Zenon DEF ActorState
  <2>2. ReadAt(st[b].get, cached_get, cached_put, put, Entries)
    BY <1>2, Zenon DEF RingInv
  <2> QED
    BY <1>2, <1>5, <2>1, <2>2, ReadMore, PutFree, Zenon
<1>12. (\A b \in Actors : st[b].pc \notin ReadPcs) =>
         /\ ReadAt(cached_get, cached_get, cached_put, put', Entries \cup {put})
         /\ put \notin Entries
  <2> HAVE \A b \in Actors : st[b].pc \notin ReadPcs
  <2>1. ReadAt(cached_get, cached_get, cached_put, put, Entries)
    BY <1>2, <1>4, Zenon DEF RingInv
  <2> QED
    BY <1>2, <1>3, <1>5, <2>1, ReadMore, PutFree, Zenon
<1>13. put \notin Entries
  BY <1>11, <1>12, Zenon
<1>14. valid' \cap writing' = {}
  BY <1>1, <1>2, <1>13, Zenon DEF RingInv, Entries
<1>15. \A t \in Entries' : buffer'[t] \in Pages
  BY <1>2, <1>3, <1>10 DEF RingInv, TypeOK
<1>16. RingInv'
  BY <1>1, <1>5, <1>10, <1>11, <1>12, <1>14, <1>15, Zenon DEF RingInv
<1>17. BitInv'
  BY <1>1, <1>6, Zenon DEF BitInv
<1>18. SleepInv'
  BY <1>1, <1>2, <1>4, Zenon DEF SleepInv, SleepAt
<1> QED
  BY <1>7, <1>8, <1>9, <1>16, <1>17, <1>18, Zenon DEF IInv

LEMMA AccessStep ==
  ASSUME IInv, NEW a \in Accesses, Access(a)
  PROVE  IInv'
<1>1. TypeOK
  BY Parts, Zenon
<1>2. CASE UNCHANGED hwVars
  <2>1. access' \in [Accesses -> {"run", "stalled", "done"}]
    BY <1>1, Zenon DEF Access, TypeOK
  <2>2. Bounded
    BY <1>1, <2>1, Zenon DEF Bounded, Access, TypeOK, envVars
  <2>3. UNCHANGED <<hwVars, cacheVars, isrVars, topHalf, removal, power, st>>
    BY <1>2, Zenon DEF Access, envVars
  <2> QED
    BY <2>2, <2>3, GpuOnly, Zenon
<1>3. CASE ~UNCHANGED hwVars
  <2>1. /\ removal = "no" /\ power = "on"
        /\ access' = [access EXCEPT ![a] = "stalled"]
        /\ Wrap(put + 1) # hw_get
        /\ buffer' = [buffer EXCEPT ![put] = Page[a]]
        /\ writing' = writing \cup {put} /\ put' = Wrap(put + 1)
        /\ intr' = [intr EXCEPT !.pending = intr.kind # "level"]
    BY <1>3, Zenon DEF Access
  <2>2. UNCHANGED <<hw_get, valid, mapped, replays, cacheVars, isrVars, envVars, st>>
    BY <1>3, Zenon DEF Access
  <2> QED
    BY <2>1, <2>2, FaultStep, Zenon
<1> QED
  BY <1>2, <1>3, Zenon

LEMMA EntryStep ==
  ASSUME IInv, EntryWritten
  PROVE  IInv'
<1>1. PICK s \in writing : writing' = writing \ {s} /\ valid' = valid \cup {s}
  BY Zenon DEF EntryWritten
<1>2. /\ put' = put /\ hw_get' = hw_get /\ buffer' = buffer
      /\ intr' = intr /\ cached_get' = cached_get
      /\ cached_put' = cached_put /\ service_lock' = service_lock
      /\ interrupts_lock' = interrupts_lock /\ isr' = isr /\ queued' = queued
      /\ topHalf' = topHalf /\ removal' = removal /\ power' = power /\ st' = st
      /\ access' = access /\ mapped' = mapped /\ replays' = replays
      /\ disturbed' = disturbed
  BY Zenon DEF EntryWritten, gpuVars, cacheVars, isrVars, envVars
<1>3. /\ TypeOK /\ ControlInv /\ LockInv /\ CountInv /\ RingInv /\ BitInv /\ SleepInv
      /\ RemovalInv
  BY Parts, Zenon
<1>4. TypeOK'
  <2>1. valid' \subseteq Slots /\ writing' \subseteq Slots
    BY <1>1, <1>3, Zenon DEF TypeOK
  <2> QED
    BY <1>2, <1>3, <2>1, Zenon DEF TypeOK
<1>5. ControlInv' /\ LockInv' /\ RemovalInv'
  BY <1>2, <1>3, Zenon DEF ControlInv, LockInv, RemovalInv
<1>6. CountInv'
  BY <1>2, <1>3, Zenon DEF CountInv, Disabling
<1>7. Entries' = Entries
  BY <1>1, Zenon DEF Entries
<1>8. valid' \cap writing' = {}
  BY <1>1, <1>3, Zenon DEF RingInv
<1>9. RingInv'
  BY <1>2, <1>3, <1>7, <1>8, Zenon DEF RingInv
<1>10. BitInv'
  BY <1>2, <1>3, Zenon DEF BitInv
<1>11. st[PM].pc # "off"
  BY <1>1, <1>3, Zenon DEF SleepInv, SleepAt
<1>12. SleepInv'
  BY <1>2, <1>3, <1>11, Zenon DEF SleepInv, SleepAt
<1> QED
  BY <1>4, <1>5, <1>6, <1>9, <1>10, <1>12, Zenon DEF IInv

-----------------------------------------------------------------------------
(* Interrupts.                                                             *)

LEMMA OneIs == /\ \A b \in BOOLEAN : One(b) \in {0, 1}
               /\ \A b : b => One(b) = 1
               /\ \A b : ~b => One(b) = 0
BY Zenon DEF One

Kref(r, t, q, p) == One(r # "deinit") + One(t) + One(q) + One(p # "idle")

LEMMA KrefType ==
  ASSUME NEW r, NEW t \in BOOLEAN, NEW q \in BOOLEAN, NEW p
  PROVE  Kref(r, t, q, p) \in 0 .. 4
<1>1. /\ (r # "deinit") \in BOOLEAN /\ (p # "idle") \in BOOLEAN
  BY Zenon
<1>2. /\ One(r # "deinit") \in {0, 1} /\ One(t) \in {0, 1} /\ One(q) \in {0, 1}
      /\ One(p # "idle") \in {0, 1}
  BY <1>1, OneIs, Zenon
<1> QED
  BY <1>2 DEF Kref

LEMMA TopHalfStep ==
  ASSUME IInv, TopHalfEnter
  PROVE  IInv'
<1>1. /\ put' = put /\ hw_get' = hw_get /\ buffer' = buffer /\ valid' = valid
      /\ writing' = writing /\ intr' = intr /\ cached_get' = cached_get
      /\ cached_put' = cached_put /\ service_lock' = service_lock
      /\ interrupts_lock' = interrupts_lock /\ queued' = queued
      /\ removal' = removal /\ power' = power /\ st' = st
      /\ access' = access /\ mapped' = mapped /\ replays' = replays
      /\ disturbed' = disturbed
  BY Zenon DEF TopHalfEnter, hwVars, gpuVars, cacheVars
<1>2. ~topHalf /\ topHalf' = TRUE /\ isr' = [isr EXCEPT !.gpu_kref = isr.gpu_kref + 1]
  BY Zenon DEF TopHalfEnter
<1>3. /\ TypeOK /\ ControlInv /\ LockInv /\ CountInv /\ RingInv /\ BitInv /\ SleepInv
      /\ RemovalInv
  BY Parts, Zenon
<1>4. isr \in IsrState /\ topHalf \in BOOLEAN /\ queued \in BOOLEAN
  BY <1>3, Zenon DEF TypeOK
<1>5. One(topHalf) = 0 /\ One(topHalf') = 1 /\ topHalf' \in BOOLEAN
  BY <1>2, OneIs, Zenon
<1>6. isr.gpu_kref = Kref(removal, topHalf, queued, st[BH].pc)
  BY <1>3, Zenon DEF CountInv, Kref
<1>7. isr.gpu_kref + 1 = Kref(removal, topHalf', queued, st[BH].pc)
  <2>1. One(removal # "deinit") \in Int /\ One(queued) \in Int
        /\ One(st[BH].pc # "idle") \in Int
    BY DEF One
  <2> QED
    BY <1>5, <1>6, <2>1 DEF Kref
<1>8. isr.gpu_kref + 1 \in 0 .. 4
  BY <1>4, <1>5, <1>7, KrefType, Zenon
<1>9. /\ isr' \in IsrState /\ isr'.gpu_kref = isr.gpu_kref + 1
      /\ isr'.handling = isr.handling /\ isr'.is_suspended = isr.is_suspended
      /\ isr'.disable_intr_ref_count = isr.disable_intr_ref_count
  BY <1>2, <1>4, <1>8, Zenon DEF IsrState
<1>10. TypeOK'
  BY <1>1, <1>3, <1>5, <1>9, Zenon DEF TypeOK
<1>11. ControlInv' /\ LockInv' /\ RemovalInv'
  BY <1>1, <1>3, Zenon DEF ControlInv, LockInv, RemovalInv
<1>12. CountInv'
  <2>1. Disabling' = Disabling
    BY <1>1, Zenon DEF Disabling
  <2>2. isr'.gpu_kref = Kref(removal', topHalf', queued', st'[BH].pc)
    BY <1>1, <1>7, <1>9, Zenon
  <2> QED
    BY <1>1, <1>3, <1>9, <2>1, <2>2, Zenon DEF CountInv, Kref
<1>13. RingInv'
  BY <1>1, <1>3, Zenon DEF RingInv, Entries
<1>14. BitInv'
  BY <1>1, <1>3, Zenon DEF BitInv
<1>15. SleepInv'
  BY <1>1, <1>3, <1>9, Zenon DEF SleepInv, SleepAt
<1> QED
  BY <1>10, <1>11, <1>12, <1>13, <1>14, <1>15, Zenon DEF IInv

(* uvm_gpu_replayable_faults_intr_disable() leaves the interrupt disabled. *)
LEMMA IntrOff ==
  ASSUME IInv
  PROVE  /\ IntrDisabled \in IntrState /\ IntrDisabled.kind = intr.kind
         /\ ~IntrDisabled.enabled /\ (IntrDisabled.pending => intr.pending)
<1>1. CountInv /\ isr \in IsrState /\ intr \in IntrState
  BY Parts, Zenon DEF TypeOK
<1>2. CASE isr.handling /\ isr.disable_intr_ref_count = 0
  <2>1. IntrDisabled = [intr EXCEPT !.pending = FALSE, !.enabled = FALSE]
    BY <1>2, Zenon DEF IntrDisabled
  <2> QED
    BY <1>1, <2>1, Zenon DEF IntrState
<1>3. CASE ~(isr.handling /\ isr.disable_intr_ref_count = 0)
  <2>1. IntrDisabled = intr
    BY <1>3, Zenon DEF IntrDisabled
  <2>2. ~intr.enabled
    BY <1>1, <1>3, Zenon DEF CountInv
  <2> QED
    BY <1>1, <2>1, <2>2, Zenon
<1> QED
  BY <1>2, <1>3, Zenon

(* One more keeps it disabled, or one less.                                *)
LEMMA CountsMore ==
  ASSUME NEW n, NEW D, Counts(n, D), NEW b, b \notin D
  PROVE  Counts(n + 1, D \cup {b})
<1>1. PICK f \in [1 .. n -> D] : /\ \A i, j \in 1 .. n : f[i] = f[j] => i = j
                                /\ \A d \in D : \E i \in 1 .. n : f[i] = d
  BY Zenon DEF Counts
<1>2. n \in Nat
  BY Zenon DEF Counts
<1> DEFINE g == [i \in 1 .. n + 1 |-> IF i = n + 1 THEN b ELSE f[i]]
<1>3. g \in [1 .. n + 1 -> D \cup {b}]
  BY <1>2
<1>4. /\ g[n + 1] = b /\ n + 1 \in 1 .. n + 1
      /\ \A i \in 1 .. n : g[i] = f[i] /\ g[i] \in D /\ i \in 1 .. n + 1
      /\ \A i \in 1 .. n + 1 : i = n + 1 \/ i \in 1 .. n
  BY <1>2
<1> HIDE DEF g
<1>5. \A i, j \in 1 .. n + 1 : g[i] = g[j] => i = j
  BY <1>1, <1>4, Zenon
<1>6. \A d \in D \cup {b} : \E i \in 1 .. n + 1 : g[i] = d
  BY <1>1, <1>4, Zenon
<1>7. n + 1 \in Nat
  BY <1>2
<1> QED
  BY <1>3, <1>5, <1>6, <1>7, Zenon DEF Counts

LEMMA CountsLess ==
  ASSUME NEW n, NEW D, Counts(n, D), NEW b \in D
  PROVE  n # 0 /\ n - 1 \in Nat /\ Counts(n - 1, D \ {b})
<1>1. PICK f \in [1 .. n -> D] : /\ \A i, j \in 1 .. n : f[i] = f[j] => i = j
                                /\ \A d \in D : \E i \in 1 .. n : f[i] = d
  BY Zenon DEF Counts
<1>2. PICK k \in 1 .. n : f[k] = b
  BY <1>1, Zenon
<1>3. n \in Nat /\ n # 0 /\ n - 1 \in Nat
  BY <1>2 DEF Counts
<1> DEFINE g == [i \in 1 .. n - 1 |-> IF i < k THEN f[i] ELSE f[i + 1]]
<1>4. /\ \A i \in 1 .. n - 1 : i \in 1 .. n /\ i + 1 \in 1 .. n
      /\ \A i \in 1 .. n - 1 : g[i] = IF i < k THEN f[i] ELSE f[i + 1]
  BY <1>3
<1>5. g \in [1 .. n - 1 -> D \ {b}]
  <2>1. \A i \in 1 .. n - 1 : g[i] \in D \ {b}
    BY <1>1, <1>2, <1>3, <1>4
  <2> QED
    BY <2>1, Zenon
<1> HIDE DEF g
<1>6. \A i, j \in 1 .. n - 1 : g[i] = g[j] => i = j
  BY <1>1, <1>2, <1>3, <1>4, SMTT(30)
<1>7. ASSUME NEW d \in D \ {b}
      PROVE  \E i \in 1 .. n - 1 : g[i] = d
  <2>1. PICK m \in 1 .. n : f[m] = d
    BY <1>1, Zenon
  <2>2. CASE m < k
    <3>1. m \in 1 .. n - 1 /\ g[m] = d
      BY <1>3, <1>4, <2>1, <2>2
    <3> QED
      BY <3>1, Zenon
  <2>3. CASE ~(m < k)
    <3>1. m - 1 \in 1 .. n - 1 /\ ~(m - 1 < k) /\ (m - 1) + 1 = m
      BY <1>2, <1>3, <2>1, <2>3
    <3>2. g[m - 1] = d
      BY <1>4, <2>1, <3>1, Zenon
    <3> QED
      BY <3>1, <3>2, Zenon
  <2> QED
    BY <2>2, <2>3, Zenon
<1> QED
  BY <1>3, <1>5, <1>6, <1>7, Zenon DEF Counts

LEMMA OneMore ==
  ASSUME IInv, isr.handling, NEW b \in Actors, b \notin Disabling
  PROVE  /\ Counts(isr.disable_intr_ref_count + 1, Disabling \cup {b})
         /\ isr.disable_intr_ref_count + 1 \in Nat
         /\ isr.disable_intr_ref_count + 1 > 0
<1>1. Counts(isr.disable_intr_ref_count, Disabling)
  BY Parts, Zenon DEF CountInv
<1>2. isr.disable_intr_ref_count \in Nat
  BY <1>1, Zenon DEF Counts
<1> QED
  BY <1>1, <1>2, CountsMore

LEMMA OneLess ==
  ASSUME IInv, isr.handling, NEW b \in Disabling
  PROVE  /\ Counts(isr.disable_intr_ref_count - 1, Disabling \ {b})
         /\ isr.disable_intr_ref_count - 1 \in Nat
         /\ isr.disable_intr_ref_count \in Nat
<1>1. Counts(isr.disable_intr_ref_count, Disabling)
  BY Parts, Zenon DEF CountInv
<1>2. isr.disable_intr_ref_count \in Nat
  BY <1>1, Zenon DEF Counts
<1> QED
  BY <1>1, <1>2, CountsLess, Zenon

(* schedule_replayable_faults_handler() is called from the top half, or by *)
(* an actor on its way out.                                                *)
Moved ==
  /\ st' \in [Actors -> ActorState]
  /\ \A a \in Actors : \/ st'[a] = st[a]
                       \/ st[a].pc = "retrigger" /\ st'[a].pc = "end"

LEMMA MovedIs ==
  ASSUME Moved, NEW a \in Actors
  PROVE  /\ st'[a].pc \in ServicePcs <=> st[a].pc \in ServicePcs
         /\ st'[a].pc \in RearmPcs <=> st[a].pc \in RearmPcs
         /\ st'[a].pc \in ReadPcs => st[a].pc \in ReadPcs /\ st'[a] = st[a]
         /\ st[a].pc \in ReadPcs => st'[a].pc \in ReadPcs
         /\ \A pc \in {"idle", "down", "rearm", "drain", "off"} :
              st'[a].pc = pc <=> st[a].pc = pc
         /\ st[a].pc \in {"idle", "retrigger", "end"} =>
              st'[a].pc \in {"idle", "retrigger", "end"}
BY Zenon DEF Moved, ServicePcs, RearmPcs, FlushPcs, ReadPcs

(* References dropped by the caller.                                       *)
Dropped(d) == topHalf' \in BOOLEAN /\ One(topHalf') = One(topHalf) - d

LEMMA DroppedKref ==
  ASSUME IInv, NEW d \in {0, 1}, Dropped(d), Moved, removal' = removal,
         NEW q \in BOOLEAN, NEW n \in {0, 1}, One(q) = One(queued) + n
  PROVE  /\ (isr.gpu_kref + n) - d = Kref(removal', topHalf', q, st'[BH].pc)
         /\ (isr.gpu_kref + n) - d \in 0 .. 4
<1>1. CountInv
  BY Parts, Zenon
<1>2. st'[BH].pc = "idle" <=> st[BH].pc = "idle"
  BY Who, MovedIs, Zenon
<1>3. One(st'[BH].pc # "idle") = One(st[BH].pc # "idle")
  BY <1>2, Zenon DEF One
<1>4. /\ One(removal # "deinit") \in Int /\ One(queued) \in Int /\ One(topHalf) \in Int
      /\ One(st[BH].pc # "idle") \in Int
  BY DEF One
<1>5. isr.gpu_kref = One(removal # "deinit") + One(topHalf) + One(queued)
                       + One(st[BH].pc # "idle")
  BY <1>1, Zenon DEF CountInv
<1>6. (isr.gpu_kref + n) - d = Kref(removal', topHalf', q, st'[BH].pc)
  BY <1>3, <1>4, <1>5 DEF Dropped, Kref
<1>7. Kref(removal', topHalf', q, st'[BH].pc) \in 0 .. 4
  BY KrefType, Zenon DEF Dropped
<1> QED
  BY <1>6, <1>7, Zenon

LEMMA MovedSleep ==
  ASSUME Moved, SleepInv
  PROVE  /\ st'[PM].pc # "idle" <=> st[PM].pc # "idle"
         /\ st'[PM].pc \in {"drain", "off"} <=> st[PM].pc \in {"drain", "off"}
         /\ SleepAt(st'[PM].pc)
         /\ (\A t \in Threads : st[t].pc = "idle") => \A t \in Threads : st'[t].pc = "idle"
<1>1. st'[PM] = st[PM] \/ (st[PM].pc = "retrigger" /\ st'[PM].pc = "end")
  BY Who, Zenon DEF Moved
<1>2. SleepAt(st'[PM].pc)
  BY <1>1, Zenon DEF SleepInv, SleepAt
<1> QED
  BY <1>1, <1>2, MovedIs, Who, Zenon

(* It finds nothing to do.                                                 *)
LEMMA ScheduleNothing ==
  ASSUME IInv, NEW d \in {0, 1}, Dropped(d), Moved, ControlInv',
         isr' = [isr EXCEPT !.gpu_kref = isr.gpu_kref - d],
         UNCHANGED <<hwVars, gpuVars, cacheVars, service_lock, interrupts_lock, queued,
                     removal, power, disturbed>>
  PROVE  IInv'
<1>1. /\ put' = put /\ hw_get' = hw_get /\ buffer' = buffer /\ valid' = valid
      /\ writing' = writing /\ intr' = intr /\ cached_get' = cached_get
      /\ cached_put' = cached_put /\ service_lock' = service_lock
      /\ interrupts_lock' = interrupts_lock /\ queued' = queued
      /\ removal' = removal /\ power' = power
      /\ access' = access /\ mapped' = mapped /\ replays' = replays
      /\ disturbed' = disturbed
  BY Zenon DEF hwVars, gpuVars, cacheVars
<1>2. /\ TypeOK /\ LockInv /\ CountInv /\ RingInv /\ BitInv /\ SleepInv /\ RemovalInv
  BY Parts, Zenon
<1>3. isr \in IsrState /\ queued \in BOOLEAN
  BY <1>2, Zenon DEF TypeOK
<1>4. /\ isr.gpu_kref - d = Kref(removal', topHalf', queued, st'[BH].pc)
      /\ isr.gpu_kref - d \in 0 .. 4
  <2>1. One(queued) = One(queued) + 0 /\ isr.gpu_kref + 0 = isr.gpu_kref
    BY <1>3 DEF One, IsrState
  <2> QED
    BY <1>1, <1>3, <2>1, DroppedKref, Zenon
<1>5. /\ isr' \in IsrState /\ isr'.gpu_kref = isr.gpu_kref - d
      /\ isr'.handling = isr.handling /\ isr'.is_suspended = isr.is_suspended
      /\ isr'.disable_intr_ref_count = isr.disable_intr_ref_count
  BY <1>3, <1>4, Zenon DEF IsrState
<1>6. TypeOK'
  BY <1>1, <1>2, <1>5, Zenon DEF TypeOK, Dropped, Moved
<1>7. LockInv'
  BY <1>1, <1>2, MovedIs, Who DEF LockInv
<1>8. RemovalInv'
  BY <1>1, <1>2, MovedIs, Who DEF RemovalInv
<1>9. CountInv'
  <2>1. Disabling' = Disabling
    BY <1>1, MovedIs, Zenon DEF Disabling
  <2>2. isr'.gpu_kref = Kref(removal', topHalf', queued', st'[BH].pc)
    BY <1>1, <1>4, <1>5, Zenon
  <2> QED
    BY <1>1, <1>2, <1>5, <2>1, <2>2, Zenon DEF CountInv, Kref
<1>10. RingInv'
  <2>1. Entries' = Entries
    BY <1>1, Zenon DEF Entries
  <2>2. \A b \in Actors : st'[b].pc \in ReadPcs =>
          ReadAt(st'[b].get, cached_get, cached_put, put, Entries)
    BY <1>2, MovedIs, Zenon DEF RingInv
  <2>3. (\A b \in Actors : st'[b].pc \notin ReadPcs) =>
          \A b \in Actors : st[b].pc \notin ReadPcs
    BY MovedIs, Zenon
  <2>4. st'[PM].pc = "off" <=> st[PM].pc = "off"
    BY MovedIs, Who, Zenon
  <2> QED
    BY <1>1, <1>2, <2>1, <2>2, <2>3, <2>4, Zenon DEF RingInv
<1>11. BitInv'
  BY <1>1, <1>2, MovedIs, Zenon DEF BitInv
<1>12. SleepInv'
  <2>1. SleepAt(st'[PM].pc)
    BY <1>2, MovedSleep, Zenon
  <2>2. SleepAt(st[PM].pc)'
    BY <1>1, <2>1, Zenon DEF SleepAt
  <2> QED
    BY <1>1, <1>2, <1>5, <2>2, MovedSleep, Zenon DEF SleepInv
<1> QED
  BY <1>6, <1>7, <1>8, <1>9, <1>10, <1>11, <1>12, Zenon DEF IInv

(* Nobody serves, and the buffer is read from GET.                         *)
LEMMA Unserved ==
  ASSUME IInv, service_lock = Nobody
  PROVE  /\ \A a \in Actors : st[a].pc \notin ServicePcs /\ st[a].pc \notin ReadPcs
         /\ ~queued /\ st[BH].pc \in {"idle", "retrigger", "end"}
         /\ st[PM].pc # "off" =>
              hw_get = cached_get /\ ReadAt(cached_get, cached_get, cached_put, put, Entries)
<1>1. LockInv /\ RingInv /\ BhControl(st[BH])
  BY Parts, BhTyped, Zenon
<1>2. \A a \in Actors : st[a].pc \notin ServicePcs
  BY <1>1, Who, Zenon DEF LockInv
<1>3. \A a \in Actors : st[a].pc \notin ReadPcs
  BY <1>2, Zenon DEF ServicePcs, FlushPcs, ReadPcs
<1>4. ~queued
  BY <1>1, Who, Zenon DEF LockInv
<1>5. st[BH].pc \in {"idle", "retrigger", "end"}
  BY <1>1, <1>2, Who, Zenon DEF BhControl
<1> QED
  BY <1>1, <1>2, <1>3, <1>4, <1>5, Zenon DEF RingInv

LEMMA EmptyRing ==
  ASSUME TypeOK, ReadAt(cached_get, cached_get, cached_put, put, Entries),
         cached_get = put
  PROVE  valid = {} /\ writing = {}
<1>1. put \in Slots /\ Dist(put, put) = 0
  BY DistType, Zenon DEF TypeOK
<1>2. \A t \in Slots : t \notin Entries
  BY <1>1, DistType DEF ReadAt
<1> QED
  BY <1>2, Zenon DEF Entries, TypeOK

(* It schedules the bottom half.                                           *)
LEMMA ScheduleSome ==
  ASSUME IInv, NEW d \in {0, 1}, Dropped(d), Moved, ControlInv',
         interrupts_lock = Nobody, CanSchedule, FaultsPending,
         cached_put' = PutSeen, service_lock' = BH, queued' = TRUE,
         isr' = [Disabled EXCEPT !.gpu_kref = (isr.gpu_kref + 1) - d],
         intr' = IntrDisabled,
         UNCHANGED <<put, hw_get, buffer, valid, writing, gpuVars, cached_get,
                     interrupts_lock, removal, power, disturbed>>
  PROVE  IInv'
<1>1. /\ put' = put /\ hw_get' = hw_get /\ buffer' = buffer /\ valid' = valid
      /\ writing' = writing /\ cached_get' = cached_get
      /\ interrupts_lock' = interrupts_lock
      /\ removal' = removal /\ power' = power
      /\ access' = access /\ mapped' = mapped /\ replays' = replays
      /\ disturbed' = disturbed /\ Entries' = Entries
  BY Zenon DEF gpuVars, Entries
<1>2. /\ TypeOK /\ LockInv /\ CountInv /\ RingInv /\ BitInv /\ SleepInv /\ RemovalInv
      /\ ControlInv
  BY Parts, Zenon
<1>3. isr \in IsrState /\ queued \in BOOLEAN /\ cached_put \in Slots /\ put \in Slots
  BY <1>2, Zenon DEF TypeOK
<1>4. ~isr.is_suspended /\ isr.handling /\ service_lock = Nobody
  BY Zenon DEF CanSchedule
<1>5. /\ \A a \in Actors : st[a].pc \notin ServicePcs /\ st[a].pc \notin ReadPcs
      /\ ~queued /\ st[BH].pc \in {"idle", "retrigger", "end"}
      /\ st[PM].pc # "off" =>
           hw_get = cached_get /\ ReadAt(cached_get, cached_get, cached_put, put, Entries)
  BY <1>4, Unserved, Zenon
<1>6. st[PM].pc \notin {"drain", "off"}
  BY <1>2, <1>4, Zenon DEF SleepInv
<1>7. st[PM].pc \notin {"retrigger", "end"}
  <2> SUFFICES ASSUME st[PM].pc \in {"retrigger", "end"} PROVE FALSE
    BY Zenon
  <2>1. cached_get = put /\ cached_put = put
    BY <1>2, Zenon DEF SleepInv, SleepAt
  <2>2. valid = {}
    BY <1>2, <1>5, <1>6, <2>1, EmptyRing, Zenon
  <2> QED
    BY <2>1, <2>2, Zenon DEF FaultsPending
<1>8. st[PM].pc \in {"idle", "lock", "down"} /\ st'[PM] = st[PM]
  <2>1. FlushControl(st[PM])
    BY <1>2, Who, Zenon DEF ControlInv, Control
  <2>2. st[PM].pc \in {"idle", "lock", "down"}
    BY <1>5, <1>6, <1>7, <2>1, Who, Zenon
       DEF FlushControl, ThreadPcs, ServicePcs, FlushPcs, RearmPcs
  <2> QED
    BY <2>2, Who, Zenon DEF Moved
<1>9. BH \notin Disabling
  BY <1>4, <1>5, Who, Zenon DEF Disabling
<1>10. /\ Counts(isr.disable_intr_ref_count + 1, Disabling \cup {BH})
       /\ isr.disable_intr_ref_count + 1 \in Nat
       /\ isr.disable_intr_ref_count + 1 > 0
  BY <1>4, <1>9, OneMore, Who, Zenon
<1>11. /\ (isr.gpu_kref + 1) - d = Kref(removal', topHalf', queued', st'[BH].pc)
       /\ (isr.gpu_kref + 1) - d \in 0 .. 4
  <2>1. queued' \in BOOLEAN /\ One(queued') = 1 /\ One(queued) = 0
    BY <1>5, OneIs, Zenon
  <2>2. PICK q \in BOOLEAN : q = queued'
    BY <2>1, Zenon
  <2>3. One(q) = 1
    BY <2>1, <2>2, Zenon
  <2>4. One(q) = One(queued) + 1 /\ 1 \in {0, 1}
    BY <2>1, <2>3
  <2>5. /\ (isr.gpu_kref + 1) - d = Kref(removal', topHalf', q, st'[BH].pc)
        /\ (isr.gpu_kref + 1) - d \in 0 .. 4
    BY <1>1, <2>4, DroppedKref, Zenon
  <2> QED
    BY <2>2, <2>5, Zenon
<1>12. /\ isr' \in IsrState /\ isr'.gpu_kref = (isr.gpu_kref + 1) - d
       /\ isr'.handling = isr.handling /\ isr'.is_suspended = isr.is_suspended
       /\ isr'.disable_intr_ref_count = isr.disable_intr_ref_count + 1
  <2> DEFINE n == isr.disable_intr_ref_count + 1
             k == (isr.gpu_kref + 1) - d
             i == [isr EXCEPT !.disable_intr_ref_count = n]
  <2>1. n \in Nat /\ k \in 0 .. 4
    BY <1>10, <1>11, Zenon
  <2>2. isr' = [i EXCEPT !.gpu_kref = k]
    BY Zenon DEF Disabled
  <2> HIDE DEF n, k
  <2>3. /\ i \in IsrState /\ i.handling = isr.handling
        /\ i.is_suspended = isr.is_suspended /\ i.disable_intr_ref_count = n
    BY <1>3, <2>1, Zenon DEF IsrState
  <2> HIDE DEF i
  <2>4. /\ isr' \in IsrState /\ isr'.gpu_kref = k /\ isr'.handling = isr.handling
        /\ isr'.is_suspended = isr.is_suspended /\ isr'.disable_intr_ref_count = n
    BY <2>1, <2>2, <2>3, Zenon DEF IsrState
  <2> QED
    BY <2>4, Zenon DEF n, k
<1>13. intr' \in IntrState /\ intr'.kind = intr.kind /\ ~intr'.enabled
  BY IntrOff, Zenon
<1>14. cached_put' \in Slots /\ (cached_put' = cached_put \/ cached_put' = put)
  BY <1>3, Zenon DEF PutSeen
<1>15. TypeOK'
  <2>1. queued' \in BOOLEAN /\ service_lock' \in Actors \cup {Nobody}
    BY Who, Zenon
  <2> QED
    BY <1>1, <1>2, <1>12, <1>13, <1>14, <2>1, Zenon DEF TypeOK, Dropped, Moved
<1>16. LockInv'
  <2>1. \A a \in Actors : st'[a].pc \notin ServicePcs /\ st'[a].pc \notin RearmPcs
    BY <1>5, MovedIs, Zenon DEF ServicePcs
  <2>2. st'[BH].pc \in {"idle", "retrigger", "end"}
    BY <1>5, MovedIs, Who, Zenon
  <2>3. \A a \in Actors : interrupts_lock' # a
    BY <1>1, Who, Zenon
  <2> QED
    BY <2>1, <2>2, <2>3, Zenon DEF LockInv
<1>17. RemovalInv'
  <2>1. removal \notin {"stopped", "deinit"}
    BY <1>2, <1>4, Zenon DEF CountInv
  <2> QED
    BY <1>1, <1>2, <2>1, MovedIs, Who, Zenon DEF RemovalInv
<1>18. CountInv'
  <2>1. Disabling' = Disabling \cup {BH}
    <3>1. st'[BH].pc \notin RearmPcs
      BY <1>5, MovedIs, Who, Zenon DEF RearmPcs
    <3>2. \A a \in Actors : a # BH => (a \in Disabling' <=> a \in Disabling)
      BY <1>4, MovedIs, Who, Zenon DEF Disabling
    <3>3. BH \in Disabling'
      BY <3>1, Who, Zenon DEF Disabling
    <3> QED
      BY <3>2, <3>3, Who, Zenon DEF Disabling
  <2>2. isr'.gpu_kref = Kref(removal', topHalf', queued', st'[BH].pc)
    BY <1>11, <1>12, Zenon
  <2>3. Counts(isr'.disable_intr_ref_count, Disabling')
    BY <1>10, <1>12, <2>1, Zenon
  <2>4. isr'.disable_intr_ref_count > 0
    BY <1>10, <1>12, Zenon
  <2>5. isr'.disable_intr_ref_count # 0
    BY <1>10, <1>12
  <2> QED
    BY <1>1, <1>2, <1>12, <1>13, <2>2, <2>3, <2>4, <2>5, Zenon DEF CountInv, Kref
<1>19. RingInv'
  <2>1. \A b \in Actors : st'[b].pc \notin ReadPcs
    BY <1>5, MovedIs, Zenon
  <2>2. ReadAt(cached_get, cached_get, cached_put', put, Entries)
    BY <1>2, <1>5, <1>6, <1>14, ReadStart, Zenon
  <2>3. hw_get = cached_get
    BY <1>5, <1>6, Zenon
  <2> QED
    BY <1>1, <1>2, <2>1, <2>2, <2>3, Zenon DEF RingInv
<1>20. BitInv'
  <2>1. \A b \in Actors : st'[b].pc # "rearm"
    BY <1>5, MovedIs, Zenon DEF ServicePcs, RearmPcs
  <2> QED
    BY <1>13, <2>1, Zenon DEF BitInv
<1>21. SleepInv'
  <2>1. SleepAt(st[PM].pc)'
    BY <1>8, Zenon DEF SleepAt
  <2> QED
    BY <1>1, <1>2, <1>12, <2>1, MovedSleep, Zenon DEF SleepInv
<1> QED
  BY <1>15, <1>16, <1>17, <1>18, <1>19, <1>20, <1>21, Zenon DEF IInv

LEMMA ScheduleStep ==
  ASSUME IInv, NEW d \in {0, 1}, Dropped(d), Moved, ControlInv',
         schedule_replayable_faults_handler(d),
         UNCHANGED <<put, hw_get, buffer, valid, writing, gpuVars, removal, power, disturbed>>
  PROVE  IInv'
<1>1. interrupts_lock = Nobody /\ UNCHANGED <<interrupts_lock, cached_get>>
  BY Zenon DEF schedule_replayable_faults_handler
<1>2. CASE CanSchedule /\ FaultsPending
  <2>1. Disabled.gpu_kref = isr.gpu_kref
    BY Parts, Zenon DEF TypeOK, IsrState, Disabled
  <2>2. /\ cached_put' = PutSeen /\ service_lock' = BH /\ queued' = TRUE
        /\ intr' = IntrDisabled
        /\ isr' = [Disabled EXCEPT !.gpu_kref = (Disabled.gpu_kref + 1) - d]
    BY <1>2, Zenon DEF schedule_replayable_faults_handler
  <2>3. isr' = [Disabled EXCEPT !.gpu_kref = (isr.gpu_kref + 1) - d]
    BY <2>1, <2>2, Zenon
  <2>4. UNCHANGED <<put, hw_get, buffer, valid, writing, gpuVars, cached_get,
                    interrupts_lock, removal, power, disturbed>>
    BY <1>1, Zenon
  <2> QED
    BY <1>1, <1>2, <2>2, <2>3, <2>4, ScheduleSome, Zenon
<1>3. CASE ~(CanSchedule /\ FaultsPending)
  <2>1. /\ isr' = [isr EXCEPT !.gpu_kref = isr.gpu_kref - d]
        /\ UNCHANGED <<service_lock, intr, queued>>
    BY <1>3, Zenon DEF schedule_replayable_faults_handler
  <2>2. cached_put' = cached_put
    <3>1. CASE ~CanSchedule
      BY <3>1, Zenon DEF schedule_replayable_faults_handler
    <3>2. CASE CanSchedule
      BY <1>3, <3>2, Zenon DEF schedule_replayable_faults_handler, FaultsPending, PutSeen
    <3> QED
      BY <3>1, <3>2, Zenon
  <2>3. UNCHANGED <<hwVars, gpuVars, cacheVars, service_lock, interrupts_lock, queued,
                    removal, power, disturbed>>
    BY <1>1, <2>1, <2>2, Zenon DEF hwVars, cacheVars
  <2> QED
    BY <2>1, <2>3, ScheduleNothing, Zenon
<1> QED
  BY <1>2, <1>3, Zenon

LEMMA TopHalfScheduleStep ==
  ASSUME IInv, TopHalfSchedule
  PROVE  IInv'
<1>1. /\ schedule_replayable_faults_handler(1) /\ topHalf /\ topHalf' = FALSE /\ st' = st
      /\ UNCHANGED <<put, hw_get, buffer, valid, writing, gpuVars, removal, power, disturbed>>
  BY Zenon DEF TopHalfSchedule
<1>2. ControlInv /\ st \in [Actors -> ActorState]
  BY Parts, Zenon
<1>3. Moved
  BY <1>1, <1>2, Zenon DEF Moved
<1>4. Dropped(1)
  <2>1. topHalf' \in BOOLEAN /\ One(topHalf) = 1 /\ One(topHalf') = 0
    BY <1>1, OneIs, Zenon
  <2> QED
    BY <2>1 DEF Dropped
<1>5. ControlInv'
  BY <1>1, <1>2, Zenon DEF ControlInv
<1> QED
  BY <1>1, <1>3, <1>4, <1>5, ScheduleStep, Zenon

LEMMA RetriggerStep ==
  ASSUME IInv, NEW a \in Actors, Retrigger(a)
  PROVE  IInv'
<1> DEFINE s == [st[a] EXCEPT !.pc = "end"]
<1>1. /\ schedule_replayable_faults_handler(0) /\ st[a].pc = "retrigger" /\ Goto(a, "end")
      /\ UNCHANGED <<put, hw_get, buffer, valid, writing, gpuVars, envVars>>
  BY Zenon DEF Retrigger, At
<1>2. ControlInv /\ st \in [Actors -> ActorState] /\ TypeOK
  BY Parts, Zenon
<1>3. s \in ActorState /\ s.pc = "end"
  BY <1>2 DEF ActorState
<1>4. Become(a, s)
  BY <1>1, <1>2, GotoIs, Zenon
<1> HIDE DEF s
<1>5. st' \in [Actors -> ActorState] /\ st'[a] = s
      /\ \A b \in Actors : b # a => st'[b] = st[b]
  BY <1>2, <1>3, <1>4, OneActor, Zenon
<1>6. Moved
  BY <1>1, <1>3, <1>5, Zenon DEF Moved
<1>7. Control(a, s)
  BY <1>3, Zenon DEF Control, BhControl, FlushControl, FlushPcs, RearmPcs, ServicePcs, ThreadPcs
<1>8. ControlInv'
  BY <1>2, <1>3, <1>4, <1>7, ControlStep, Zenon
<1>9. Dropped(0)
  <2>1. topHalf' = topHalf /\ topHalf \in BOOLEAN /\ One(topHalf) \in Int
    BY <1>1, <1>2 DEF envVars, TypeOK, One
  <2> QED
    BY <2>1 DEF Dropped
<1>10. UNCHANGED <<put, hw_get, buffer, valid, writing, gpuVars, removal, power, disturbed>>
  BY <1>1, Zenon DEF envVars
<1> QED
  BY <1>1, <1>6, <1>8, <1>9, <1>10, ScheduleStep, Zenon

-----------------------------------------------------------------------------
(* isr_lock and isr_unlock.                                                *)

LEMMA Awake ==
  ASSUME IInv, NEW a \in Actors \ {BH}, st[a].pc # "idle"
  PROVE  /\ removal = "no" /\ isr.handling /\ FlushControl(st[a])
         /\ a # PM => st[PM].pc = "idle" /\ a \in Threads /\ power # "preempted"
         /\ a = PM => power = "preempted"
<1>1. RemovalInv /\ SleepInv /\ CountInv /\ ControlInv
  BY Parts, Zenon
<1>2. removal = "no" /\ isr.handling
  BY <1>1, Zenon DEF RemovalInv, CountInv
<1>3. FlushControl(st[a])
  BY <1>1, Zenon DEF ControlInv, Control
<1> QED
  BY <1>1, <1>2, <1>3, Who, Zenon DEF SleepInv

LEMMA IsrCount ==
  ASSUME NEW i \in IsrState, NEW n \in Nat
  PROVE  /\ [i EXCEPT !.disable_intr_ref_count = n] \in IsrState
         /\ [i EXCEPT !.disable_intr_ref_count = n].gpu_kref = i.gpu_kref
         /\ [i EXCEPT !.disable_intr_ref_count = n].handling = i.handling
         /\ [i EXCEPT !.disable_intr_ref_count = n].is_suspended = i.is_suspended
         /\ [i EXCEPT !.disable_intr_ref_count = n].disable_intr_ref_count = n
BY Zenon DEF IsrState

LEMMA IsrLockStep ==
  ASSUME IInv, NEW a \in Actors, IsrLock(a)
  PROVE  IInv'
<1> DEFINE s == [st[a] EXCEPT !.pc = "down"]
<1>1. /\ st[a].pc = "lock" /\ interrupts_lock = Nobody /\ Goto(a, "down")
      /\ isr' = [isr EXCEPT !.disable_intr_ref_count = isr.disable_intr_ref_count + 1]
      /\ intr' = IntrDisabled
  BY Zenon DEF IsrLock, At, Disabled
<1>2. /\ put' = put /\ hw_get' = hw_get /\ buffer' = buffer /\ valid' = valid
      /\ writing' = writing /\ cached_get' = cached_get
      /\ cached_put' = cached_put /\ service_lock' = service_lock
      /\ interrupts_lock' = interrupts_lock /\ queued' = queued
      /\ topHalf' = topHalf /\ removal' = removal /\ power' = power
      /\ access' = access /\ mapped' = mapped /\ replays' = replays
      /\ disturbed' = disturbed
      /\ UNCHANGED <<put, hw_get, buffer, valid, writing, cacheVars>>
  BY Zenon DEF IsrLock, gpuVars, cacheVars, envVars
<1>3. /\ TypeOK /\ ControlInv /\ LockInv /\ CountInv /\ BitInv /\ SleepInv
      /\ RemovalInv /\ st \in [Actors -> ActorState]
  BY Parts, Zenon
<1>4. a # BH
  BY <1>1, BhTyped, Zenon DEF BhControl, ServicePcs, FlushPcs, RearmPcs
<1>5. /\ removal = "no" /\ isr.handling /\ FlushControl(st[a])
      /\ a # PM => st[PM].pc = "idle" /\ a \in Threads /\ power # "preempted"
      /\ a = PM => power = "preempted"
  BY <1>1, <1>4, Awake, Zenon
<1>6. s \in ActorState /\ s.pc = "down" /\ s.ret = st[a].ret /\ s.mode = st[a].mode
  BY <1>3 DEF ActorState
<1>7. Become(a, s)
  BY <1>1, <1>3, GotoIs, Zenon
<1>8. st[a].pc \in ThreadPcs /\ s.pc \in ThreadPcs
  BY <1>1, <1>6, Zenon DEF ThreadPcs
<1> HIDE DEF s
<1>9. st' \in [Actors -> ActorState] /\ st'[a] = s
      /\ \A b \in Actors : b # a => st'[b] = st[b]
  BY <1>3, <1>6, <1>7, OneActor, Zenon
<1>10. /\ st[a].pc \notin ServicePcs /\ s.pc \notin ServicePcs
       /\ st[a].pc \notin RearmPcs /\ s.pc \notin RearmPcs
       /\ st[a].pc \notin ReadPcs /\ s.pc \notin ReadPcs
  BY <1>1, <1>6, Zenon DEF ServicePcs, RearmPcs, FlushPcs, ReadPcs
<1>11. service_lock # a
  BY <1>3, <1>4, <1>10, Zenon DEF LockInv
<1>12. a \notin Disabling
  BY <1>1, <1>11, Zenon DEF Disabling
<1>13. /\ Counts(isr.disable_intr_ref_count + 1, Disabling \cup {a})
       /\ isr.disable_intr_ref_count + 1 \in Nat
       /\ isr.disable_intr_ref_count + 1 > 0
  BY <1>5, <1>12, OneMore, Zenon
<1>14. /\ isr' \in IsrState /\ isr'.gpu_kref = isr.gpu_kref
       /\ isr'.handling = isr.handling /\ isr'.is_suspended = isr.is_suspended
       /\ isr'.disable_intr_ref_count = isr.disable_intr_ref_count + 1
  <2>1. isr.disable_intr_ref_count + 1 \in Nat /\ isr \in IsrState
    BY <1>3, <1>13, Zenon DEF TypeOK
  <2> QED
    BY <1>1, <2>1, IsrCount, Zenon
<1>15. /\ intr' \in IntrState /\ intr'.kind = intr.kind /\ ~intr'.enabled
  BY <1>1, IntrOff, Zenon
<1>16. TypeOK'
  BY <1>2, <1>3, <1>9, <1>14, <1>15, Zenon DEF TypeOK
<1>17. Control(a, s)
  BY <1>1, <1>4, <1>5, <1>6, <1>8, Zenon DEF Control, FlushControl, FlushPcs
<1>18. ControlInv'
  BY <1>3, <1>6, <1>7, <1>17, ControlStep, Zenon
<1>19. LockInv'
  BY <1>2, <1>3, <1>4, <1>9, <1>10, <1>11, Who, Zenon DEF LockInv
<1>20. RemovalInv'
  BY <1>2, <1>3, <1>4, <1>5, <1>9, Who, Zenon DEF RemovalInv
<1>21. CountInv'
  <2>1. Disabling' = Disabling \cup {a}
    BY <1>2, <1>6, <1>9, Zenon DEF Disabling
  <2>2. Counts(isr'.disable_intr_ref_count, Disabling')
    BY <1>13, <1>14, <2>1, Zenon
  <2>3. isr'.disable_intr_ref_count # 0 /\ isr'.disable_intr_ref_count > 0
    BY <1>13, <1>14
  <2>4. st'[BH] = st[BH]
    BY <1>4, <1>9, Who, Zenon
  <2> QED
    BY <1>2, <1>3, <1>14, <1>15, <2>2, <2>3, <2>4, Zenon DEF CountInv
<1>22. RingInv'
  <2>1. OffKept
    BY <1>1, <1>6, <1>9, Who, Zenon DEF OffKept
  <2> QED
    BY <1>2, <1>6, <1>7, <1>10, <2>1, RingKept, Zenon
<1>23. BitInv'
  <2>1. \A b \in Actors : st'[b].pc # "rearm"
    BY <1>1, <1>3, <1>6, <1>9, Who, Zenon DEF LockInv, RearmPcs
  <2> QED
    BY <1>15, <2>1, Zenon DEF BitInv
<1>24. SleepInv'
  <2>1. st'[PM].pc \in {"idle", "down"}
    BY <1>5, <1>6, <1>9, Who, Zenon
  <2>2. SleepAt(st[PM].pc)'
    BY <2>1, Zenon DEF SleepAt
  <2>3. st'[PM].pc # "idle" <=> st[PM].pc # "idle"
    BY <1>1, <1>6, <1>9, Who, Zenon
  <2>4. power = "preempted" => \A t \in Threads : st'[t].pc = "idle"
    BY <1>3, <1>5, <1>9, Who, Zenon DEF SleepInv
  <2>5. st'[PM].pc \notin {"drain", "off"} /\ st[PM].pc \notin {"drain", "off"}
    BY <1>1, <1>5, <2>1, Zenon
  <2> QED
    BY <1>2, <1>3, <1>14, <2>2, <2>3, <2>4, <2>5, Zenon DEF SleepInv
<1> QED
  BY <1>16, <1>18, <1>19, <1>20, <1>21, <1>22, <1>23, <1>24, Zenon DEF IInv

LEMMA DownStep ==
  ASSUME IInv, NEW a \in Actors, Down(a)
  PROVE  IInv'
<1> DEFINE s == [st[a] EXCEPT !.pc = "flush"]
<1>1. st[a].pc = "down" /\ service_lock = Nobody /\ service_lock' = a /\ Goto(a, "flush")
  BY Zenon DEF Down, At
<1>2. /\ put' = put /\ hw_get' = hw_get /\ buffer' = buffer /\ valid' = valid
      /\ writing' = writing /\ intr' = intr /\ cached_get' = cached_get
      /\ cached_put' = cached_put /\ isr' = isr
      /\ interrupts_lock' = interrupts_lock /\ queued' = queued
      /\ topHalf' = topHalf /\ removal' = removal /\ power' = power
      /\ access' = access /\ mapped' = mapped /\ replays' = replays
      /\ disturbed' = disturbed
      /\ UNCHANGED <<put, hw_get, buffer, valid, writing, cacheVars>>
  BY Zenon DEF Down, hwVars, gpuVars, cacheVars, envVars
<1>3. /\ TypeOK /\ ControlInv /\ LockInv /\ CountInv /\ BitInv /\ SleepInv
      /\ RemovalInv /\ st \in [Actors -> ActorState]
  BY Parts, Zenon
<1>4. a # BH
  BY <1>1, BhTyped, Zenon DEF BhControl, ServicePcs, FlushPcs, RearmPcs
<1>5. /\ removal = "no" /\ isr.handling /\ FlushControl(st[a])
      /\ a # PM => st[PM].pc = "idle" /\ a \in Threads /\ power # "preempted"
      /\ a = PM => power = "preempted"
  BY <1>1, <1>4, Awake, Zenon
<1>6. s \in ActorState /\ s.pc = "flush" /\ s.ret = st[a].ret /\ s.mode = st[a].mode
  BY <1>3 DEF ActorState
<1>7. Become(a, s)
  BY <1>1, <1>3, GotoIs, Zenon
<1> HIDE DEF s
<1>8. st' \in [Actors -> ActorState] /\ st'[a] = s
      /\ \A b \in Actors : b # a => st'[b] = st[b]
  BY <1>3, <1>6, <1>7, OneActor, Zenon
<1>9. /\ st[a].pc \notin ServicePcs /\ s.pc \in ServicePcs
      /\ st[a].pc \notin RearmPcs /\ s.pc \notin RearmPcs
      /\ st[a].pc \notin ReadPcs /\ s.pc \notin ReadPcs
  BY <1>1, <1>6, Zenon DEF ServicePcs, RearmPcs, FlushPcs, ReadPcs
<1>10. (\A b \in Actors : st[b].pc \notin ServicePcs) /\ ~queued
  BY <1>1, Unserved, Zenon
<1>11. TypeOK'
  <2>1. service_lock' \in Actors \cup {Nobody}
    BY <1>1, Zenon
  <2> QED
    BY <1>2, <1>3, <1>8, <2>1, Zenon DEF TypeOK
<1>12. Control(a, s)
  BY <1>1, <1>4, <1>5, <1>6, Zenon DEF Control, FlushControl, FlushPcs, ThreadPcs
<1>13. ControlInv'
  BY <1>3, <1>6, <1>7, <1>12, ControlStep, Zenon
<1>14. LockInv'
  BY <1>1, <1>2, <1>3, <1>4, <1>8, <1>9, <1>10, Who, SMTT(30) DEF LockInv
<1>15. RemovalInv'
  BY <1>2, <1>3, <1>4, <1>5, <1>8, Who, Zenon DEF RemovalInv
<1>16. CountInv'
  <2>1. Disabling' = Disabling
    BY <1>1, <1>6, <1>8, <1>9, Who, Zenon DEF Disabling
  <2>2. st'[BH] = st[BH]
    BY <1>4, <1>8, Who, Zenon
  <2> QED
    BY <1>2, <1>3, <2>1, <2>2, Zenon DEF CountInv
<1>17. RingInv'
  <2>1. OffKept
    BY <1>1, <1>6, <1>8, Who, Zenon DEF OffKept
  <2> QED
    BY <1>2, <1>6, <1>7, <1>9, <2>1, RingKept, Zenon
<1>18. BitInv'
  <2>1. \A b \in Actors : st'[b].pc # "rearm"
    BY <1>6, <1>8, <1>10, Zenon DEF ServicePcs, RearmPcs
  <2> QED
    BY <1>1, <2>1, Who, Zenon DEF BitInv
<1>19. SleepInv'
  <2>1. st'[PM].pc \in {"idle", "flush"}
    BY <1>5, <1>6, <1>8, Who, Zenon
  <2>2. SleepAt(st[PM].pc)'
    BY <2>1, Zenon DEF SleepAt
  <2>3. st'[PM].pc # "idle" <=> st[PM].pc # "idle"
    BY <1>1, <1>6, <1>8, Who, Zenon
  <2>4. power = "preempted" => \A t \in Threads : st'[t].pc = "idle"
    BY <1>3, <1>5, <1>8, Who, Zenon DEF SleepInv
  <2>5. st'[PM].pc \notin {"drain", "off"} /\ st[PM].pc \notin {"drain", "off"}
    BY <1>1, <1>5, <2>1, Zenon
  <2> QED
    BY <1>2, <1>3, <2>2, <2>3, <2>4, <2>5, Zenon DEF SleepInv
<1> QED
  BY <1>11, <1>13, <1>14, <1>15, <1>16, <1>17, <1>18, <1>19, Zenon DEF IInv

(* Nothing changes but the interrupt, the locks and the ISR's counters.    *)
RestKept ==
  /\ put' = put /\ hw_get' = hw_get /\ buffer' = buffer /\ valid' = valid
  /\ writing' = writing /\ cached_get' = cached_get /\ cached_put' = cached_put
  /\ queued' = queued /\ topHalf' = topHalf /\ removal' = removal /\ power' = power
  /\ access' = access /\ mapped' = mapped /\ replays' = replays
  /\ disturbed' = disturbed

(* The holder of both locks, or of service_lock on its way out, at pc.     *)
LEMMA LeaverIs ==
  ASSUME IInv, NEW a \in Actors, st[a].pc \in {"unlock", "clear", "rearm"},
         NEW pc \in {"clear", "rearm", "retrigger", "end"}, Goto(a, pc), RestKept
  PROVE  /\ st' \in [Actors -> ActorState] /\ st'[a].pc = pc
         /\ \A b \in Actors : b # a => st'[b] = st[b]
         /\ ControlInv' /\ RingInv' /\ RemovalInv'
         /\ st'[BH].pc # "idle" <=> st[BH].pc # "idle"
         /\ st[PM].pc \notin {"off", "drain"} /\ st'[PM].pc \notin {"off", "drain"}
         /\ st'[PM].pc # "idle" <=> st[PM].pc # "idle"
         /\ power = "preempted" => \A t \in Threads : st'[t].pc = "idle"
<1> DEFINE s == [st[a] EXCEPT !.pc = pc]
<1>1. TypeOK /\ ControlInv /\ RemovalInv /\ SleepInv /\ st \in [Actors -> ActorState]
      /\ RingInv
  BY Parts, Zenon
<1>2. s \in ActorState /\ s.pc = pc
  BY <1>1 DEF ActorState
<1>3. Become(a, s)
  BY <1>1, GotoIs, Zenon
<1> HIDE DEF s
<1>4. /\ st' \in [Actors -> ActorState] /\ st'[a] = s
      /\ \A b \in Actors : b # a => st'[b] = st[b]
  BY <1>1, <1>2, <1>3, OneActor, Zenon
<1>5. Control(a, s)
  BY <1>2, Zenon DEF Control, BhControl, FlushControl, FlushPcs, RearmPcs, ServicePcs, ThreadPcs
<1>6. ControlInv'
  BY <1>1, <1>2, <1>3, <1>5, ControlStep, Zenon
<1>7. st[a].pc \in ServicePcs
  BY Zenon DEF ServicePcs, RearmPcs
<1>8. /\ a # PM => st[PM].pc \in {"idle", "lock", "down"}
      /\ a = BH \/ removal = "no"
      /\ removal \notin {"stopped", "deinit"}
  BY <1>7, Holder, Zenon
<1>9. RemovalInv'
  BY <1>1, <1>4, <1>8, Zenon DEF RemovalInv, RestKept
<1>10. /\ st'[BH].pc # "idle" <=> st[BH].pc # "idle"
       /\ st[PM].pc \notin {"off", "drain"} /\ st'[PM].pc \notin {"off", "drain"}
       /\ st'[PM].pc # "idle" <=> st[PM].pc # "idle"
  BY <1>2, <1>4, <1>8, Who, Zenon
<1>11. st[a].pc \notin ReadPcs /\ s.pc \notin ReadPcs /\ OffKept
  BY <1>2, <1>10, Zenon DEF ReadPcs, OffKept
<1>12. RingInv'
  <2>1. UNCHANGED <<put, hw_get, buffer, valid, writing, cacheVars>>
    BY Zenon DEF RestKept, cacheVars
  <2> QED
    BY <1>2, <1>3, <1>11, <2>1, RingKept, Zenon
<1>13. power = "preempted" => \A t \in Threads : st'[t].pc = "idle"
  BY <1>1, <1>4, Who, Zenon DEF SleepInv
<1> QED
  BY <1>2, <1>4, <1>6, <1>9, <1>10, <1>12, <1>13, Zenon

LEMMA UnlockStep ==
  ASSUME IInv, NEW a \in Actors, IsrUnlock(a), isr.handling
  PROVE  IInv'
<1>1. /\ st[a].pc = "unlock" /\ interrupts_lock = Nobody /\ interrupts_lock' = a
      /\ isr' = [isr EXCEPT !.disable_intr_ref_count = isr.disable_intr_ref_count - 1]
      /\ intr' = [intr EXCEPT !.enabled = intr.enabled \/ isr.disable_intr_ref_count = 1]
      /\ Goto(a, "clear") /\ service_lock' = service_lock
  BY Zenon DEF IsrUnlock, At
<1>2. RestKept
  BY Zenon DEF IsrUnlock, RestKept, gpuVars, cacheVars, envVars
<1>3. /\ TypeOK /\ LockInv /\ CountInv /\ SleepInv /\ isr \in IsrState /\ intr \in IntrState
  BY Parts, Zenon DEF TypeOK
<1>4. /\ st' \in [Actors -> ActorState] /\ st'[a].pc = "clear"
      /\ \A b \in Actors : b # a => st'[b] = st[b]
      /\ ControlInv' /\ RingInv' /\ RemovalInv'
      /\ st'[BH].pc # "idle" <=> st[BH].pc # "idle"
      /\ st[PM].pc \notin {"off", "drain"} /\ st'[PM].pc \notin {"off", "drain"}
      /\ st'[PM].pc # "idle" <=> st[PM].pc # "idle"
      /\ power = "preempted" => \A t \in Threads : st'[t].pc = "idle"
  BY <1>1, <1>2, LeaverIs, Zenon
<1>5. /\ service_lock = a /\ ~queued
      /\ \A b \in Actors : b # a => st[b].pc \notin ServicePcs
      /\ a # PM => st[PM].pc \in {"idle", "lock", "down"}
  BY <1>1, Holder, Zenon DEF ServicePcs
<1>6. a \in Disabling
  BY <1>1, <1>5, Zenon DEF Disabling, RearmPcs
<1>7. /\ Counts(isr.disable_intr_ref_count - 1, Disabling \ {a})
      /\ isr.disable_intr_ref_count - 1 \in Nat
      /\ isr.disable_intr_ref_count \in Nat
  BY <1>6, OneLess, Zenon
<1>8. /\ isr' \in IsrState /\ isr'.gpu_kref = isr.gpu_kref
      /\ isr'.handling = isr.handling /\ isr'.is_suspended = isr.is_suspended
      /\ isr'.disable_intr_ref_count = isr.disable_intr_ref_count - 1
  <2>1. isr.disable_intr_ref_count - 1 \in Nat /\ isr \in IsrState
    BY <1>3, <1>7, Zenon
  <2> QED
    BY <1>1, <2>1, IsrCount, Zenon
<1>9. isr.disable_intr_ref_count # 0 /\ ~intr.enabled
  <2>1. isr.disable_intr_ref_count # 0
    BY <1>7
  <2> QED
    BY <1>3, <2>1, Zenon DEF CountInv
<1>10. /\ intr' \in IntrState /\ intr'.kind = intr.kind /\ intr'.pending = intr.pending
       /\ intr'.enabled <=> isr.disable_intr_ref_count = 1
  <2> DEFINE e == intr.enabled \/ isr.disable_intr_ref_count = 1
  <2>1. e \in BOOLEAN /\ (e <=> isr.disable_intr_ref_count = 1)
    BY <1>9, Zenon
  <2>2. intr' = [intr EXCEPT !.enabled = e]
    BY <1>1, Zenon
  <2> HIDE DEF e
  <2>3. /\ intr' \in IntrState /\ intr'.kind = intr.kind /\ intr'.pending = intr.pending
        /\ intr'.enabled = e
    BY <1>3, <2>1, <2>2, Zenon DEF IntrState
  <2> QED
    BY <2>1, <2>3, Zenon
<1>11. TypeOK'
  <2>1. service_lock' \in Actors \cup {Nobody} /\ interrupts_lock' \in Actors \cup {Nobody}
    BY <1>1, <1>3, Zenon DEF TypeOK
  <2> QED
    BY <1>2, <1>3, <1>4, <1>8, <1>10, <2>1, Zenon DEF TypeOK, RestKept
<1>12. LockInv'
  <2>1. \A b \in Actors : st'[b].pc \in ServicePcs <=> b = a
    BY <1>4, <1>5, Zenon DEF ServicePcs, RearmPcs
  <2>2. \A b \in Actors : st'[b].pc \in RearmPcs <=> b = a
    BY <1>4, <1>5, Zenon DEF ServicePcs, RearmPcs
  <2> QED
    BY <1>1, <1>2, <1>5, <2>1, <2>2, Zenon DEF LockInv, RestKept
<1>13. CountInv'
  <2>1. Disabling' = Disabling \ {a}
    BY <1>1, <1>4, <1>5, Zenon DEF Disabling, RearmPcs
  <2>2. Counts(isr'.disable_intr_ref_count, Disabling')
    BY <1>7, <1>8, <2>1, Zenon
  <2>3. intr'.enabled <=> isr'.disable_intr_ref_count = 0
    BY <1>7, <1>8, <1>10
  <2>4. One(st'[BH].pc # "idle") = One(st[BH].pc # "idle")
    BY <1>4, Zenon DEF One
  <2> QED
    BY <1>2, <1>3, <1>8, <2>2, <2>3, <2>4, Zenon DEF CountInv, RestKept
<1>14. BitInv'
  <2>1. \A b \in Actors : st'[b].pc # "rearm"
    BY <1>4, <1>5, Zenon DEF ServicePcs, RearmPcs
  <2> QED
    BY <1>1, <2>1, Who, Zenon DEF BitInv
<1>15. SleepInv'
  <2>1. SleepAt(st[PM].pc)'
    <3>1. CASE a = PM
      BY <1>1, <1>2, <1>3, <1>4, <3>1, Zenon DEF SleepInv, SleepAt, RestKept
    <3>2. CASE a # PM
      BY <1>4, <1>5, <3>2, Who, Zenon DEF SleepAt
    <3> QED
      BY <3>1, <3>2, Zenon
  <2> QED
    BY <1>2, <1>3, <1>4, <1>8, <2>1, Zenon DEF SleepInv, RestKept
<1> QED
  BY <1>4, <1>11, <1>12, <1>13, <1>14, <1>15, Zenon DEF IInv

(* The interrupt has been disabled for good meanwhile.                     *)
LEMMA UnlockLateStep ==
  ASSUME IInv, NEW a \in Actors, IsrUnlock(a), ~isr.handling
  PROVE  IInv'
<1>1. /\ st[a].pc = "unlock" /\ interrupts_lock = Nobody
      /\ interrupts_lock' = interrupts_lock /\ isr' = isr /\ intr' = intr
      /\ Goto(a, Unlocked) /\ service_lock' = Nobody
  BY Zenon DEF IsrUnlock, At
<1>2. RestKept
  BY Zenon DEF IsrUnlock, RestKept, gpuVars, cacheVars, envVars
<1>3. /\ TypeOK /\ LockInv /\ CountInv /\ SleepInv
  BY Parts, Zenon
<1>4. PICK pc \in {"retrigger", "end"} : pc = Unlocked
  BY Zenon DEF Unlocked
<1>5. /\ st' \in [Actors -> ActorState] /\ st'[a].pc = pc
      /\ \A b \in Actors : b # a => st'[b] = st[b]
      /\ ControlInv' /\ RingInv' /\ RemovalInv'
      /\ st'[BH].pc # "idle" <=> st[BH].pc # "idle"
      /\ st[PM].pc \notin {"off", "drain"} /\ st'[PM].pc \notin {"off", "drain"}
      /\ st'[PM].pc # "idle" <=> st[PM].pc # "idle"
      /\ power = "preempted" => \A t \in Threads : st'[t].pc = "idle"
  <2>1. Goto(a, pc) /\ pc \in {"clear", "rearm", "retrigger", "end"}
    BY <1>1, <1>4, Zenon
  <2> QED
    BY <1>1, <1>2, <2>1, LeaverIs, Zenon
<1>6. /\ service_lock = a /\ ~queued
      /\ \A b \in Actors : b # a => st[b].pc \notin ServicePcs
      /\ a = BH \/ removal = "no"
  BY <1>1, Holder, Zenon DEF ServicePcs
<1>7. a = BH
  BY <1>3, <1>6, Zenon DEF CountInv
<1>8. TypeOK'
  BY <1>1, <1>2, <1>3, <1>5, Zenon DEF TypeOK, RestKept
<1>9. LockInv'
  <2>1. \A b \in Actors : st'[b].pc \notin ServicePcs /\ st'[b].pc \notin RearmPcs
    BY <1>5, <1>6, Zenon DEF ServicePcs, RearmPcs, FlushPcs
  <2> QED
    BY <1>1, <1>2, <1>6, <2>1, Who, Zenon DEF LockInv, RestKept
<1>10. CountInv'
  <2>1. One(st'[BH].pc # "idle") = One(st[BH].pc # "idle")
    BY <1>5, Zenon DEF One
  <2> QED
    BY <1>1, <1>2, <1>3, <2>1, Zenon DEF CountInv, RestKept
<1>11. BitInv'
  <2>1. \A b \in Actors : st'[b].pc # "rearm"
    BY <1>5, <1>6, Zenon DEF ServicePcs, RearmPcs
  <2>2. ~intr'.enabled
    BY <1>1, <1>3, Zenon DEF CountInv
  <2> QED
    BY <2>1, <2>2, Zenon DEF BitInv
<1>12. SleepInv'
  <2>1. st'[PM] = st[PM] /\ st[PM].pc \in {"idle", "lock", "down"}
    BY <1>1, <1>5, <1>7, Holder, Who, Zenon DEF ServicePcs
  <2>2. SleepAt(st[PM].pc)'
    BY <2>1, Zenon DEF SleepAt
  <2> QED
    BY <1>1, <1>2, <1>3, <1>5, <2>2, Zenon DEF SleepInv, RestKept
<1> QED
  BY <1>5, <1>8, <1>9, <1>10, <1>11, <1>12, Zenon DEF IInv

LEMMA IntrPending ==
  ASSUME NEW i \in IntrState, NEW p \in BOOLEAN
  PROVE  /\ [i EXCEPT !.pending = p] \in IntrState
         /\ [i EXCEPT !.pending = p].kind = i.kind
         /\ [i EXCEPT !.pending = p].enabled = i.enabled
         /\ [i EXCEPT !.pending = p].pending = p
BY Zenon DEF IntrState

LEMMA ClearIntrStep ==
  ASSUME IInv, NEW a \in Actors, ClearInterrupt(a)
  PROVE  IInv'
<1>1. /\ st[a].pc = "clear" /\ intr' = [intr EXCEPT !.pending = FALSE] /\ Goto(a, "rearm")
      /\ service_lock' = service_lock /\ interrupts_lock' = interrupts_lock /\ isr' = isr
  BY Zenon DEF ClearInterrupt, At, isrVars
<1>2. RestKept
  BY Zenon DEF ClearInterrupt, RestKept, gpuVars, cacheVars, envVars, isrVars
<1>3. /\ TypeOK /\ LockInv /\ CountInv /\ SleepInv /\ RingInv /\ intr \in IntrState
  BY Parts, Zenon DEF TypeOK
<1>4. /\ st' \in [Actors -> ActorState] /\ st'[a].pc = "rearm"
      /\ \A b \in Actors : b # a => st'[b] = st[b]
      /\ ControlInv' /\ RingInv' /\ RemovalInv'
      /\ st'[BH].pc # "idle" <=> st[BH].pc # "idle"
      /\ st[PM].pc \notin {"off", "drain"} /\ st'[PM].pc \notin {"off", "drain"}
      /\ st'[PM].pc # "idle" <=> st[PM].pc # "idle"
      /\ power = "preempted" => \A t \in Threads : st'[t].pc = "idle"
  BY <1>1, <1>2, LeaverIs, Zenon
<1>5. /\ service_lock = a /\ ~queued
      /\ \A b \in Actors : b # a => st[b].pc \notin ServicePcs
      /\ a # PM => st[PM].pc \in {"idle", "lock", "down"}
  BY <1>1, Holder, Zenon DEF ServicePcs, RearmPcs
<1>6. interrupts_lock = a
  BY <1>1, <1>3, Zenon DEF LockInv, RearmPcs
<1>7. /\ intr' \in IntrState /\ intr'.kind = intr.kind /\ intr'.enabled = intr.enabled
      /\ ~intr'.pending
  <2>1. FALSE \in BOOLEAN
    BY Zenon
  <2> QED
    BY <1>1, <1>3, <2>1, IntrPending, Zenon
<1>8. TypeOK'
  BY <1>1, <1>2, <1>3, <1>4, <1>7, Zenon DEF TypeOK, RestKept
<1>9. LockInv'
  <2>1. \A b \in Actors : st'[b].pc \in ServicePcs <=> b = a
    BY <1>4, <1>5, Zenon DEF ServicePcs, RearmPcs
  <2>2. \A b \in Actors : st'[b].pc \in RearmPcs <=> b = a
    BY <1>4, <1>5, Zenon DEF ServicePcs, RearmPcs
  <2> QED
    BY <1>1, <1>2, <1>5, <1>6, <2>1, <2>2, Zenon DEF LockInv, RestKept
<1>10. CountInv'
  <2>1. Disabling' = Disabling
    BY <1>1, <1>4, <1>5, Zenon DEF Disabling, RearmPcs
  <2>2. One(st'[BH].pc # "idle") = One(st[BH].pc # "idle")
    BY <1>4, Zenon DEF One
  <2> QED
    BY <1>1, <1>2, <1>3, <1>7, <2>1, <2>2, Zenon DEF CountInv, RestKept
<1>11. BitInv'
  BY <1>1, <1>6, <1>7, Who, Zenon DEF BitInv
<1>12. SleepInv'
  <2>1. SleepAt(st[PM].pc)'
    <3>1. CASE a = PM
      <4>1. cached_get = put /\ cached_put = put /\ hw_get = cached_get
        BY <1>1, <1>3, <1>4, <3>1, Zenon DEF SleepInv, SleepAt, RingInv
      <4> QED
        BY <1>2, <1>4, <1>7, <3>1, <4>1, Zenon DEF SleepAt, RestKept
    <3>2. CASE a # PM
      BY <1>4, <1>5, <3>2, Who, Zenon DEF SleepAt
    <3> QED
      BY <3>1, <3>2, Zenon
  <2> QED
    BY <1>1, <1>2, <1>3, <1>4, <2>1, Zenon DEF SleepInv, RestKept
<1> QED
  BY <1>4, <1>8, <1>9, <1>10, <1>11, <1>12, Zenon DEF IInv

LEMMA RearmStep ==
  ASSUME IInv, NEW a \in Actors, Rearm(a)
  PROVE  IInv'
<1>1. /\ st[a].pc = "rearm" /\ Goto(a, Unlocked) /\ hw_get' = cached_get
      /\ intr' = [intr EXCEPT !.pending =
                    intr.pending \/ (intr.kind = "pulse" /\ cached_get # put)]
      /\ service_lock' = Nobody /\ interrupts_lock' = Nobody /\ isr' = isr
  BY Zenon DEF Rearm, At, HwWriteGet
<1>2. /\ TypeOK /\ LockInv /\ CountInv /\ SleepInv /\ RingInv /\ BitInv
      /\ intr \in IntrState
  BY Parts, Zenon DEF TypeOK
<1>3. /\ service_lock = a /\ ~queued
      /\ \A b \in Actors : b # a => st[b].pc \notin ServicePcs
      /\ a # PM => st[PM].pc \in {"idle", "lock", "down"}
  BY <1>1, Holder, Zenon DEF ServicePcs, RearmPcs
<1>4. hw_get = cached_get
  <2>1. st[PM].pc # "off"
    BY <1>1, <1>3, Zenon
  <2> QED
    BY <1>2, <2>1, Zenon DEF RingInv
<1>5. RestKept
  BY <1>1, <1>4, Zenon DEF Rearm, RestKept, gpuVars, cacheVars, envVars
<1>6. PICK pc \in {"retrigger", "end"} : pc = Unlocked
  BY Zenon DEF Unlocked
<1>7. /\ st' \in [Actors -> ActorState] /\ st'[a].pc = pc
      /\ \A b \in Actors : b # a => st'[b] = st[b]
      /\ ControlInv' /\ RingInv' /\ RemovalInv'
      /\ st'[BH].pc # "idle" <=> st[BH].pc # "idle"
      /\ st[PM].pc \notin {"off", "drain"} /\ st'[PM].pc \notin {"off", "drain"}
      /\ st'[PM].pc # "idle" <=> st[PM].pc # "idle"
      /\ power = "preempted" => \A t \in Threads : st'[t].pc = "idle"
  <2>1. Goto(a, pc) /\ pc \in {"clear", "rearm", "retrigger", "end"}
    BY <1>1, <1>6, Zenon
  <2> QED
    BY <1>1, <1>5, <2>1, LeaverIs, Zenon
<1>8. /\ intr' \in IntrState /\ intr'.kind = intr.kind /\ intr'.enabled = intr.enabled
      /\ intr'.pending <=> intr.pending \/ (intr.kind = "pulse" /\ cached_get # put)
  <2> DEFINE p == intr.pending \/ (intr.kind = "pulse" /\ cached_get # put)
  <2>1. p \in BOOLEAN
    BY Zenon
  <2>2. intr' = [intr EXCEPT !.pending = p]
    BY <1>1, Zenon
  <2> HIDE DEF p
  <2>3. /\ intr' \in IntrState /\ intr'.kind = intr.kind /\ intr'.enabled = intr.enabled
        /\ intr'.pending = p
    BY <1>2, <2>1, <2>2, Zenon DEF IntrState
  <2> QED
    BY <2>3, Zenon DEF p
<1>9. TypeOK'
  <2>1. service_lock' \in Actors \cup {Nobody} /\ interrupts_lock' \in Actors \cup {Nobody}
    BY <1>1, Zenon
  <2> QED
    BY <1>1, <1>2, <1>5, <1>7, <1>8, <2>1, Zenon DEF TypeOK, RestKept
<1>10. LockInv'
  <2>1. \A b \in Actors : st'[b].pc \notin ServicePcs /\ st'[b].pc \notin RearmPcs
    BY <1>7, <1>3, Zenon DEF ServicePcs, RearmPcs, FlushPcs
  <2> QED
    BY <1>1, <1>5, <1>3, <2>1, Who, Zenon DEF LockInv, RestKept
<1>11. CountInv'
  <2>1. Disabling' = Disabling
    BY <1>1, <1>3, <1>7, Who, Zenon DEF Disabling, RearmPcs
  <2>2. One(st'[BH].pc # "idle") = One(st[BH].pc # "idle")
    BY <1>7, Zenon DEF One
  <2> QED
    BY <1>1, <1>2, <1>5, <1>8, <2>1, <2>2, SMTT(30) DEF CountInv, RestKept
<1>12. BitInv'
  <2>1. \A b \in Actors : st'[b].pc # "rearm"
    BY <1>7, <1>3, Zenon DEF ServicePcs, RearmPcs
  <2>2. intr.kind = "pulse" => (intr.pending => hw_get # put)
    BY <1>1, <1>2, Zenon DEF BitInv
  <2>3. intr'.kind = "pulse" => (intr'.pending <=> hw_get' # put')
    BY <1>4, <1>5, <1>8, <2>2, Zenon DEF RestKept
  <2> QED
    BY <2>1, <2>3, Zenon DEF BitInv
<1>13. SleepInv'
  <2>1. SleepAt(st[PM].pc)'
    <3>1. CASE a = PM
      <4>1. cached_get = put /\ cached_put = put /\ ~intr.pending
        BY <1>1, <1>2, <3>1, Zenon DEF SleepInv, SleepAt
      <4> QED
        BY <1>1, <1>4, <1>5, <1>6, <1>7, <1>8, <3>1, <4>1, Zenon DEF SleepAt, RestKept
    <3>2. CASE a # PM
      BY <1>3, <1>7, <3>2, Who, Zenon DEF SleepAt
    <3> QED
      BY <3>1, <3>2, Zenon
  <2> QED
    BY <1>1, <1>2, <1>5, <1>7, <2>1, Zenon DEF SleepInv, RestKept
<1> QED
  BY <1>7, <1>9, <1>10, <1>11, <1>12, <1>13, Zenon DEF IInv

-----------------------------------------------------------------------------
(* The bottom half starts and ends.                                        *)

LEMMA BottomHalfStep ==
  ASSUME IInv, BottomHalf
  PROVE  IInv'
<1>1. /\ queued /\ st[BH].pc = "idle" /\ queued' = FALSE
      /\ Goto(BH, IF InTable THEN "loop" ELSE "nogpu")
  BY Zenon DEF BottomHalf, At
<1>2. /\ put' = put /\ hw_get' = hw_get /\ buffer' = buffer /\ valid' = valid
      /\ writing' = writing /\ intr' = intr /\ cached_get' = cached_get
      /\ cached_put' = cached_put /\ service_lock' = service_lock
      /\ interrupts_lock' = interrupts_lock /\ isr' = isr
      /\ topHalf' = topHalf /\ removal' = removal /\ power' = power
      /\ access' = access /\ mapped' = mapped /\ replays' = replays
      /\ disturbed' = disturbed
      /\ UNCHANGED <<put, hw_get, buffer, valid, writing, cacheVars>>
  BY Zenon DEF BottomHalf, hwVars, gpuVars, cacheVars, envVars
<1>3. /\ TypeOK /\ ControlInv /\ LockInv /\ CountInv /\ BitInv /\ SleepInv /\ RemovalInv
      /\ st \in [Actors -> ActorState] /\ BH \in Actors /\ BH # PM
  BY Parts, Who, Zenon
<1>4. PICK pc \in {"loop", "nogpu"} : Goto(BH, pc)
  BY <1>1, Zenon
<1> DEFINE s == [st[BH] EXCEPT !.pc = pc]
<1>5. s \in ActorState /\ s.pc = pc
  BY <1>3 DEF ActorState
<1>6. Become(BH, s)
  BY <1>3, <1>4, GotoIs, Zenon
<1> HIDE DEF s
<1>7. /\ st' \in [Actors -> ActorState] /\ st'[BH] = s
      /\ \A b \in Actors : b # BH => st'[b] = st[b]
  BY <1>3, <1>5, <1>6, OneActor, Zenon
<1>8. Control(BH, s)
  BY <1>5, Who, Zenon DEF Control, BhControl, FlushPcs, ServicePcs
<1>9. ControlInv'
  BY <1>3, <1>5, <1>6, <1>8, ControlStep, Zenon
<1>10. service_lock = BH
  BY <1>1, <1>3, Zenon DEF LockInv
<1>11. /\ s.pc \in ServicePcs /\ s.pc \notin RearmPcs /\ s.pc \notin ReadPcs
       /\ st[BH].pc \notin RearmPcs /\ st[BH].pc \notin ReadPcs
  BY <1>1, <1>5, Zenon DEF ServicePcs, RearmPcs, ReadPcs, FlushPcs
<1>12. TypeOK'
  <2>1. queued' \in BOOLEAN
    BY <1>1, Zenon
  <2> QED
    BY <1>2, <1>3, <1>7, <2>1, Zenon DEF TypeOK
<1>13. LockInv'
  BY <1>1, <1>2, <1>3, <1>7, <1>10, <1>11, Zenon DEF LockInv
<1>14. CountInv'
  <2>1. Disabling' = Disabling
    BY <1>1, <1>2, <1>5, <1>7, <1>10, <1>11, Zenon DEF Disabling
  <2>2. /\ One(queued) = 1 /\ One(queued') = 0
    BY <1>1, OneIs, Zenon
  <2>3. One(st[BH].pc # "idle") = 0 /\ One(st'[BH].pc # "idle") = 1
    BY <1>1, <1>5, <1>7, Zenon DEF One
  <2>4. One(removal # "deinit") \in Int /\ One(topHalf) \in Int
    BY DEF One
  <2>5. isr.gpu_kref = Kref(removal, topHalf, queued, st[BH].pc)
    BY <1>3, Zenon DEF CountInv, Kref
  <2>6. isr'.gpu_kref = Kref(removal', topHalf', queued', st'[BH].pc)
    BY <1>2, <2>2, <2>3, <2>4, <2>5 DEF Kref
  <2> QED
    BY <1>2, <1>3, <2>1, <2>6, Zenon DEF CountInv, Kref
<1>15. RingInv'
  <2>1. OffKept
    BY <1>3, <1>7, Who, Zenon DEF OffKept
  <2> QED
    BY <1>2, <1>3, <1>5, <1>6, <1>11, <2>1, RingKept, Zenon
<1>16. BitInv'
  <2>1. \A b \in Actors : st'[b].pc = "rearm" => st[b].pc = "rearm"
    BY <1>7, <1>11, Zenon DEF RearmPcs
  <2> QED
    BY <1>2, <1>3, <2>1, Zenon DEF BitInv
<1>17. SleepInv'
  <2>1. st'[PM] = st[PM] /\ \A t \in Threads : st'[t] = st[t]
    BY <1>3, <1>7, Who, Zenon
  <2>2. SleepAt(st[PM].pc)'
    BY <1>2, <1>3, <2>1, Zenon DEF SleepInv, SleepAt
  <2> QED
    BY <1>2, <1>3, <2>1, <2>2, Zenon DEF SleepInv
<1>18. RemovalInv'
  BY <1>1, <1>2, <1>3, <1>7, Zenon DEF RemovalInv
<1> QED
  BY <1>9, <1>12, <1>13, <1>14, <1>15, <1>16, <1>17, <1>18, Zenon DEF IInv

LEMMA IdleIs ==
  /\ Idle \in ActorState /\ Idle.pc = "idle"
  /\ Flushing \in ActorState /\ Flushing.pc = "lock" /\ Flushing.ret = "unlock"
  /\ Flushing.mode = "WAIT_UPDATE_PUT"
<1>1. 0 \in Slots /\ 0 \in 0 .. max_batch_size /\ 0 \in 0 .. max_batches /\ 0 \in {0, 1}
  BY Sizes DEF Slots
<1>2. TRUE \in BOOLEAN
  BY Zenon
<1>3. ASSUME NEW z \in Slots, z \in 0 .. max_batch_size, z \in 0 .. max_batches,
             z \in {0, 1}, NEW t \in BOOLEAN, NEW e \in SUBSET Pages
      PROVE  LET i == [pc |-> "idle", get |-> z, batch |-> e, index |-> z,
                       num_batches |-> z, num_replays |-> z, ok |-> t,
                       mode |-> "CACHED_PUT", ret |-> "idle"]
             IN  i \in ActorState /\ i.pc = "idle"
  BY <1>3, Zenon DEF ActorState
<1>4. {} \in SUBSET Pages
  BY Zenon
<1>5. Idle \in ActorState /\ Idle.pc = "idle"
  BY <1>1, <1>2, <1>3, <1>4, Zenon DEF Idle
<1> DEFINE f1 == [Idle EXCEPT !.pc = "lock"]
           f2 == [f1 EXCEPT !.mode = "WAIT_UPDATE_PUT"]
           f3 == [f2 EXCEPT !.ret = "unlock"]
<1>6. f1 \in ActorState /\ f1.pc = "lock"
  BY <1>5, Zenon DEF ActorState
<1> HIDE DEF f1
<1>7. f2 \in ActorState /\ f2.pc = "lock" /\ f2.mode = "WAIT_UPDATE_PUT"
  BY <1>6, Zenon DEF ActorState
<1> HIDE DEF f2
<1>8. /\ f3 \in ActorState /\ f3.pc = "lock" /\ f3.mode = "WAIT_UPDATE_PUT"
      /\ f3.ret = "unlock"
  BY <1>7, Zenon DEF ActorState
<1>9. Flushing = f3
  BY Zenon DEF Flushing, f1, f2
<1> HIDE DEF f3
<1> QED
  BY <1>5, <1>8, <1>9, Zenon

LEMMA BottomHalfEndStep ==
  ASSUME IInv, BottomHalfEnd
  PROVE  IInv'
<1>1. /\ st[BH].pc \in {"end", "nogpu"} /\ Become(BH, Idle)
      /\ isr' = [isr EXCEPT !.gpu_kref = isr.gpu_kref - 1]
  BY Zenon DEF BottomHalfEnd, At
<1>2. /\ put' = put /\ hw_get' = hw_get /\ buffer' = buffer /\ valid' = valid
      /\ writing' = writing /\ intr' = intr /\ cached_get' = cached_get
      /\ cached_put' = cached_put /\ service_lock' = service_lock
      /\ interrupts_lock' = interrupts_lock /\ queued' = queued
      /\ topHalf' = topHalf /\ removal' = removal /\ power' = power
      /\ access' = access /\ mapped' = mapped /\ replays' = replays
      /\ disturbed' = disturbed
      /\ UNCHANGED <<put, hw_get, buffer, valid, writing, cacheVars>>
  BY Zenon DEF BottomHalfEnd, hwVars, gpuVars, cacheVars, envVars
<1>3. /\ TypeOK /\ ControlInv /\ LockInv /\ CountInv /\ BitInv /\ SleepInv /\ RemovalInv
      /\ st \in [Actors -> ActorState] /\ BH \in Actors /\ BH # PM
      /\ isr \in IsrState /\ topHalf \in BOOLEAN /\ queued \in BOOLEAN
  BY Parts, Who, Zenon DEF TypeOK
<1>4. PICK s \in ActorState : s = Idle
  BY IdleIs, Zenon
<1>5. s.pc = "idle" /\ Become(BH, s)
  BY <1>1, <1>4, IdleIs, Zenon
<1>6. /\ st' \in [Actors -> ActorState] /\ st'[BH] = s
      /\ \A b \in Actors : b # BH => st'[b] = st[b]
  BY <1>3, <1>5, OneActor, Zenon
<1>7. Control(BH, s)
  BY <1>5, Who, Zenon DEF Control, BhControl, FlushPcs, ServicePcs
<1>8. ControlInv'
  BY <1>3, <1>5, <1>7, ControlStep, Zenon
<1>9. /\ s.pc \notin ServicePcs /\ s.pc \notin RearmPcs /\ s.pc \notin ReadPcs
      /\ st[BH].pc \notin RearmPcs /\ st[BH].pc \notin ReadPcs
  BY <1>1, <1>5, Zenon DEF ServicePcs, RearmPcs, ReadPcs, FlushPcs
<1>10. isr.gpu_kref - 1 = Kref(removal', topHalf', queued', st'[BH].pc)
       /\ isr.gpu_kref - 1 \in 0 .. 4
  <2>1. One(st[BH].pc # "idle") = 1 /\ One(st'[BH].pc # "idle") = 0
    BY <1>1, <1>5, <1>6, Zenon DEF One
  <2>2. One(removal # "deinit") \in Int /\ One(topHalf) \in Int /\ One(queued) \in Int
    BY DEF One
  <2>3. isr.gpu_kref = Kref(removal, topHalf, queued, st[BH].pc)
    BY <1>3, Zenon DEF CountInv, Kref
  <2>4. isr.gpu_kref - 1 = Kref(removal', topHalf', queued', st'[BH].pc)
    BY <1>2, <2>1, <2>2, <2>3 DEF Kref
  <2>5. Kref(removal', topHalf', queued', st'[BH].pc) \in 0 .. 4
    BY <1>2, <1>3, KrefType, Zenon
  <2> QED
    BY <2>4, <2>5, Zenon
<1>11. /\ isr' \in IsrState /\ isr'.gpu_kref = isr.gpu_kref - 1
       /\ isr'.handling = isr.handling /\ isr'.is_suspended = isr.is_suspended
       /\ isr'.disable_intr_ref_count = isr.disable_intr_ref_count
  BY <1>1, <1>3, <1>10, Zenon DEF IsrState
<1>12. TypeOK'
  BY <1>2, <1>3, <1>6, <1>11, Zenon DEF TypeOK
<1>13. LockInv'
  BY <1>2, <1>3, <1>5, <1>6, <1>9, Zenon DEF LockInv
<1>14. CountInv'
  <2>1. Disabling' = Disabling
    BY <1>1, <1>2, <1>5, <1>6, <1>9, Zenon DEF Disabling
  <2> QED
    BY <1>2, <1>3, <1>10, <1>11, <2>1, Zenon DEF CountInv, Kref
<1>15. RingInv'
  <2>1. OffKept
    BY <1>3, <1>6, Who, Zenon DEF OffKept
  <2> QED
    BY <1>2, <1>3, <1>5, <1>9, <2>1, RingKept, Zenon
<1>16. BitInv'
  <2>1. \A b \in Actors : st'[b].pc = "rearm" => st[b].pc = "rearm"
    BY <1>5, <1>6, Zenon
  <2> QED
    BY <1>2, <1>3, <2>1, Zenon DEF BitInv
<1>17. SleepInv'
  <2>1. st'[PM] = st[PM] /\ \A t \in Threads : st'[t] = st[t]
    BY <1>3, <1>6, Who, Zenon
  <2>2. SleepAt(st[PM].pc)'
    BY <1>2, <1>3, <2>1, Zenon DEF SleepInv, SleepAt
  <2> QED
    BY <1>2, <1>3, <1>11, <2>1, <2>2, Zenon DEF SleepInv
<1>18. RemovalInv'
  BY <1>2, <1>3, <1>5, <1>6, Zenon DEF RemovalInv
<1> QED
  BY <1>8, <1>12, <1>13, <1>14, <1>15, <1>16, <1>17, <1>18, Zenon DEF IInv

-----------------------------------------------------------------------------
(* The threads and the sleep cycle.                                        *)

(* An actor other than the bottom half, away from the locks, moves.        *)
Away == {"idle", "lock", "end", "drain", "off"}

LEMMA AwayStep ==
  ASSUME IInv, NEW a \in Actors \ {BH}, NEW s \in ActorState, Become(a, s),
         st[a].pc \in Away, s.pc \in Away, Control(a, s),
         UNCHANGED <<hwVars, service_lock, interrupts_lock, queued, topHalf, removal>>,
         cached_get' \in Slots, cached_put' \in Slots, RingInv',
         isr' \in IsrState, isr'.handling = isr.handling, isr'.gpu_kref = isr.gpu_kref,
         isr'.disable_intr_ref_count = isr.disable_intr_ref_count,
         power' \in {"on", "preempted"}, Bounded,
         removal = "no" \/ s.pc = "idle", SleepInv'
  PROVE  IInv'
<1>1. /\ put' = put /\ hw_get' = hw_get /\ buffer' = buffer /\ valid' = valid
      /\ writing' = writing /\ intr' = intr /\ service_lock' = service_lock
      /\ interrupts_lock' = interrupts_lock /\ queued' = queued
      /\ topHalf' = topHalf /\ removal' = removal
  BY Zenon DEF hwVars
<1>2. /\ TypeOK /\ ControlInv /\ LockInv /\ CountInv /\ BitInv /\ RemovalInv
      /\ st \in [Actors -> ActorState] /\ BH \in Actors
  BY Parts, Who, Zenon
<1>3. /\ st' \in [Actors -> ActorState] /\ st'[a] = s
      /\ \A b \in Actors : b # a => st'[b] = st[b]
  BY <1>2, OneActor, Zenon
<1>4. /\ s.pc \notin ServicePcs /\ s.pc \notin RearmPcs /\ s.pc \notin ReadPcs
      /\ s.pc # "down" /\ s.pc # "rearm"
      /\ st[a].pc \notin ServicePcs /\ st[a].pc \notin RearmPcs /\ st[a].pc \notin ReadPcs
      /\ st[a].pc # "down"
  BY Zenon DEF Away, ServicePcs, RearmPcs, ReadPcs, FlushPcs
<1>5. service_lock # a
  BY <1>2, <1>4, Zenon DEF LockInv
<1>6. TypeOK'
  BY <1>1, <1>2, <1>3, Zenon DEF TypeOK, Bounded
<1>7. ControlInv'
  BY <1>2, ControlStep, Zenon
<1>8. LockInv'
  BY <1>1, <1>2, <1>3, <1>4, <1>5, SMTT(30) DEF LockInv
<1>9. CountInv'
  <2>1. Disabling' = Disabling
    BY <1>1, <1>3, <1>4, <1>5, Zenon DEF Disabling
  <2>2. st'[BH] = st[BH]
    BY <1>2, <1>3, Zenon
  <2> QED
    BY <1>1, <1>2, <2>1, <2>2, Zenon DEF CountInv
<1>10. BitInv'
  <2>1. \A b \in Actors : st'[b].pc = "rearm" => st[b].pc = "rearm"
    BY <1>3, <1>4, Zenon
  <2> QED
    BY <1>1, <1>2, <2>1, Zenon DEF BitInv
<1>11. RemovalInv'
  BY <1>1, <1>2, <1>3 DEF RemovalInv
<1> QED
  BY <1>6, <1>7, <1>8, <1>9, <1>10, <1>11, Zenon DEF IInv

LEMMA AwayKept ==
  ASSUME IInv, NEW a \in Actors \ {BH}, NEW s \in ActorState, Become(a, s),
         st[a].pc \in Away, s.pc \in Away, st[a].pc # "off", s.pc # "off",
         UNCHANGED <<hwVars, cacheVars>>
  PROVE  cached_get' \in Slots /\ cached_put' \in Slots /\ RingInv'
<1>1. TypeOK /\ st \in [Actors -> ActorState]
  BY Parts, Zenon
<1>2. UNCHANGED <<put, hw_get, buffer, valid, writing, cacheVars>>
  BY Zenon DEF hwVars
<1>3. st[a].pc \notin ReadPcs /\ s.pc \notin ReadPcs
  BY Zenon DEF Away, ReadPcs
<1>4. OffKept
  BY <1>1, OneActor, Who, Zenon DEF OffKept
<1>5. RingInv'
  BY <1>2, <1>3, <1>4, RingKept, Zenon
<1> QED
  BY <1>1, <1>5, Zenon DEF TypeOK, cacheVars

LEMMA FlushCallStep ==
  ASSUME IInv, NEW t \in Threads, uvm_gpu_fault_buffer_flush(t)
  PROVE  IInv'
<1>1. /\ st[t].pc = "idle" /\ removal = "no" /\ power = "on" /\ Become(t, Flushing)
      /\ Disturb("flush")
      /\ UNCHANGED <<hwVars, gpuVars, cacheVars, isrVars, topHalf, removal, power>>
  BY Zenon DEF uvm_gpu_fault_buffer_flush, At
<1>2. t \in Actors \ {BH} /\ t # PM /\ TypeOK /\ SleepInv /\ st \in [Actors -> ActorState]
  BY Parts, Who, Zenon
<1>3. PICK s \in ActorState : s = Flushing
  BY IdleIs, Zenon
<1>4. Become(t, s) /\ s.pc = "lock" /\ s.ret = "unlock" /\ s.mode = "WAIT_UPDATE_PUT"
  BY <1>1, <1>3, IdleIs, Zenon
<1>5. Control(t, s)
  BY <1>2, <1>4, Zenon DEF Control, FlushControl, ThreadPcs
<1>6. st[t].pc \in Away /\ s.pc \in Away /\ st[t].pc # "off" /\ s.pc # "off"
  BY <1>1, <1>4, Zenon DEF Away
<1>7. UNCHANGED <<hwVars, cacheVars>>
  BY <1>1, Zenon
<1>8. cached_get' \in Slots /\ cached_put' \in Slots /\ RingInv'
  BY <1>2, <1>4, <1>6, <1>7, AwayKept, Zenon
<1>9. Bounded
  <2>1. disturbed' \subseteq Disturbing
    BY <1>1, <1>2, Zenon DEF Disturb, TypeOK
  <2> QED
    BY <1>1, <1>2, <2>1, Zenon DEF Bounded, TypeOK, gpuVars
<1>10. SleepInv'
  <2>1. st'[PM] = st[PM]
    BY <1>2, <1>4, OneActor, Who, Zenon
  <2>2. /\ put' = put /\ hw_get' = hw_get /\ valid' = valid /\ writing' = writing
        /\ intr' = intr /\ cached_get' = cached_get /\ cached_put' = cached_put
        /\ service_lock' = service_lock /\ isr' = isr /\ power' = power
        /\ removal' = removal
    BY <1>1, Zenon DEF hwVars, cacheVars, isrVars
  <2>3. SleepAt(st[PM].pc)'
    BY <1>2, <2>1, <2>2, Zenon DEF SleepInv, SleepAt
  <2> QED
    BY <1>1, <1>2, <2>1, <2>2, <2>3, Zenon DEF SleepInv
<1>11. /\ isr' \in IsrState /\ isr' = isr /\ power' \in {"on", "preempted"}
       /\ UNCHANGED <<hwVars, service_lock, interrupts_lock, queued, topHalf, removal>>
  BY <1>1, <1>2, Zenon DEF isrVars, TypeOK
<1> QED
  BY <1>1, <1>2, <1>4, <1>5, <1>6, <1>8, <1>9, <1>10, <1>11, AwayStep, Zenon

LEMMA ReturnStep ==
  ASSUME IInv, NEW t \in Threads, FlushReturns(t)
  PROVE  IInv'
<1>1. /\ st[t].pc = "end" /\ Become(t, Idle)
      /\ UNCHANGED <<hwVars, gpuVars, cacheVars, isrVars, envVars>>
  BY Zenon DEF FlushReturns, At
<1>2. t \in Actors \ {BH} /\ t # PM /\ TypeOK /\ SleepInv /\ st \in [Actors -> ActorState]
  BY Parts, Who, Zenon
<1>3. PICK s \in ActorState : s = Idle
  BY IdleIs, Zenon
<1>4. Become(t, s) /\ s.pc = "idle"
  BY <1>1, <1>3, IdleIs, Zenon
<1>5. Control(t, s)
  BY <1>2, <1>4, Zenon DEF Control, FlushControl, ThreadPcs, FlushPcs
<1>6. st[t].pc \in Away /\ s.pc \in Away /\ st[t].pc # "off" /\ s.pc # "off"
  BY <1>1, <1>4, Zenon DEF Away
<1>7. UNCHANGED <<hwVars, cacheVars>>
  BY <1>1, Zenon
<1>8. cached_get' \in Slots /\ cached_put' \in Slots /\ RingInv'
  BY <1>2, <1>4, <1>6, <1>7, AwayKept, Zenon
<1>9. Bounded
  <2>1. UNCHANGED <<gpuVars, disturbed>>
    BY <1>1, Zenon DEF envVars
  <2> QED
    BY <1>2, <2>1, BoundedKept, Zenon
<1>10. SleepInv'
  <2>1. st'[PM] = st[PM] /\ st'[t] = s /\ \A b \in Threads : b # t => st'[b] = st[b]
    BY <1>2, <1>4, OneActor, Who, Zenon
  <2>2. /\ put' = put /\ hw_get' = hw_get /\ valid' = valid /\ writing' = writing
        /\ intr' = intr /\ cached_get' = cached_get /\ cached_put' = cached_put
        /\ service_lock' = service_lock /\ isr' = isr /\ power' = power
        /\ removal' = removal
    BY <1>1, Zenon DEF hwVars, cacheVars, isrVars, envVars
  <2>3. SleepAt(st[PM].pc)'
    BY <1>2, <2>1, <2>2, Zenon DEF SleepInv, SleepAt
  <2> QED
    BY <1>2, <1>4, <2>1, <2>2, <2>3, Zenon DEF SleepInv
<1>11. /\ isr' \in IsrState /\ isr' = isr /\ power' \in {"on", "preempted"}
       /\ UNCHANGED <<hwVars, service_lock, interrupts_lock, queued, topHalf, removal>>
  BY <1>1, <1>2, Zenon DEF isrVars, envVars, TypeOK
<1> QED
  BY <1>2, <1>4, <1>5, <1>6, <1>8, <1>9, <1>10, <1>11, AwayStep, Zenon

LEMMA SuspendStep ==
  ASSUME IInv, Suspend
  PROVE  IInv'
<1>1. /\ st[PM].pc = "idle" /\ removal = "no" /\ Become(PM, Flushing)
      /\ Disturb("suspend") /\ power' = "preempted" /\ access' = Replayed
      /\ \A t \in Threads : st[t].pc = "idle"
      /\ UNCHANGED <<hwVars, mapped, replays, cacheVars, isrVars, topHalf, removal>>
  BY Zenon DEF Suspend, At
<1>2. PM \in Actors \ {BH} /\ TypeOK /\ SleepInv /\ st \in [Actors -> ActorState]
  BY Parts, Who, Zenon
<1>3. PICK s \in ActorState : s = Flushing
  BY IdleIs, Zenon
<1>4. Become(PM, s) /\ s.pc = "lock" /\ s.ret = "unlock" /\ s.mode = "WAIT_UPDATE_PUT"
  BY <1>1, <1>3, IdleIs, Zenon
<1>5. Control(PM, s)
  BY <1>2, <1>4, Zenon DEF Control, FlushControl, ThreadPcs
<1>6. st[PM].pc \in Away /\ s.pc \in Away /\ st[PM].pc # "off" /\ s.pc # "off"
  BY <1>1, <1>4, Zenon DEF Away
<1>7. UNCHANGED <<hwVars, cacheVars>>
  BY <1>1, Zenon
<1>8. cached_get' \in Slots /\ cached_put' \in Slots /\ RingInv'
  BY <1>2, <1>4, <1>6, <1>7, AwayKept, Zenon
<1>9. Bounded
  <2>1. disturbed' \subseteq Disturbing
    BY <1>1, <1>2, Zenon DEF Disturb, TypeOK
  <2>2. Replayed \in [Accesses -> {"run", "stalled", "done"}]
    BY <1>2, Replays, Zenon
  <2> QED
    BY <1>1, <1>2, <2>1, <2>2, Zenon DEF Bounded, TypeOK
<1>10. SleepInv'
  <2>1. st'[PM] = s /\ \A t \in Threads : st'[t] = st[t]
    BY <1>2, <1>4, OneActor, Who, Zenon
  <2>2. SleepAt(st[PM].pc)'
    BY <1>4, <2>1, Zenon DEF SleepAt
  <2>3. ~isr'.is_suspended
    BY <1>1, <1>2, Zenon DEF SleepInv, isrVars
  <2> QED
    BY <1>1, <1>4, <2>1, <2>2, <2>3, Zenon DEF SleepInv
<1>11. /\ isr' \in IsrState /\ isr' = isr /\ power' \in {"on", "preempted"}
       /\ UNCHANGED <<hwVars, service_lock, interrupts_lock, queued, topHalf, removal>>
  BY <1>1, <1>2, Zenon DEF isrVars, TypeOK
<1> QED
  BY <1>1, <1>2, <1>4, <1>5, <1>6, <1>8, <1>9, <1>10, <1>11, AwayStep, Zenon

LEMMA IsrSuspended ==
  ASSUME NEW i \in IsrState, NEW b \in BOOLEAN
  PROVE  /\ [i EXCEPT !.is_suspended = b] \in IsrState
         /\ [i EXCEPT !.is_suspended = b].gpu_kref = i.gpu_kref
         /\ [i EXCEPT !.is_suspended = b].handling = i.handling
         /\ [i EXCEPT !.is_suspended = b].is_suspended = b
         /\ [i EXCEPT !.is_suspended = b].disable_intr_ref_count
              = i.disable_intr_ref_count
BY Zenon DEF IsrState

LEMMA SuspendTopHalfStep ==
  ASSUME IInv, SuspendTopHalf
  PROVE  IInv'
<1> DEFINE s == [st[PM] EXCEPT !.pc = "drain"]
<1>1. /\ st[PM].pc = "end" /\ Goto(PM, "drain")
      /\ isr' = [isr EXCEPT !.is_suspended = TRUE]
      /\ UNCHANGED <<hwVars, gpuVars, cacheVars, service_lock, interrupts_lock, queued,
                     envVars>>
  BY Zenon DEF SuspendTopHalf, At
<1>2. PM \in Actors \ {BH} /\ TypeOK /\ SleepInv /\ st \in [Actors -> ActorState]
      /\ isr \in IsrState
  BY Parts, Who, Zenon DEF TypeOK
<1>3. s \in ActorState /\ s.pc = "drain"
  BY <1>2 DEF ActorState
<1>4. Become(PM, s)
  BY <1>1, <1>2, GotoIs, Zenon
<1> HIDE DEF s
<1>5. Control(PM, s)
  BY <1>2, <1>3, Who, Zenon DEF Control, FlushControl, FlushPcs
<1>6. st[PM].pc \in Away /\ s.pc \in Away /\ st[PM].pc # "off" /\ s.pc # "off"
  BY <1>1, <1>3, Zenon DEF Away
<1>7. UNCHANGED <<hwVars, cacheVars>>
  BY <1>1, Zenon
<1>8. cached_get' \in Slots /\ cached_put' \in Slots /\ RingInv'
  BY <1>2, <1>3, <1>4, <1>6, <1>7, AwayKept, Zenon
<1>9. Bounded
  <2>1. UNCHANGED <<gpuVars, disturbed>>
    BY <1>1, Zenon DEF envVars
  <2> QED
    BY <1>2, <2>1, BoundedKept, Zenon
<1>10. /\ isr' \in IsrState /\ isr'.is_suspended
       /\ isr'.handling = isr.handling /\ isr'.gpu_kref = isr.gpu_kref
       /\ isr'.disable_intr_ref_count = isr.disable_intr_ref_count
  <2>1. TRUE \in BOOLEAN
    BY Zenon
  <2> QED
    BY <1>1, <1>2, <2>1, IsrSuspended, Zenon
<1>11. SleepInv'
  <2>1. st'[PM] = s /\ \A t \in Threads : st'[t] = st[t]
    BY <1>2, <1>3, <1>4, OneActor, Who, Zenon
  <2>2. /\ put' = put /\ hw_get' = hw_get /\ valid' = valid /\ writing' = writing
        /\ intr' = intr /\ cached_get' = cached_get /\ cached_put' = cached_put
        /\ service_lock' = service_lock /\ power' = power /\ removal' = removal
    BY <1>1, Zenon DEF hwVars, cacheVars, envVars
  <2>3. SleepAt(st[PM].pc)'
    BY <1>1, <1>2, <1>3, <2>1, <2>2, Zenon DEF SleepInv, SleepAt
  <2> QED
    BY <1>1, <1>2, <1>3, <1>10, <2>1, <2>2, <2>3, Zenon DEF SleepInv
<1>12. /\ power' \in {"on", "preempted"} /\ removal = "no"
       /\ UNCHANGED <<hwVars, service_lock, interrupts_lock, queued, topHalf, removal>>
  BY <1>1, <1>2, Zenon DEF envVars, TypeOK, SleepInv
<1> QED
  BY <1>2, <1>3, <1>4, <1>5, <1>6, <1>8, <1>9, <1>10, <1>11, <1>12, AwayStep, Zenon

(* Before the power goes the buffer is empty, and nobody reads it.         *)
LEMMA Drained ==
  ASSUME IInv, st[PM].pc \in {"drain", "off"}
  PROVE  /\ \A a \in Actors : st[a].pc \notin ServicePcs /\ st[a].pc \notin ReadPcs
         /\ service_lock = Nobody /\ valid = {} /\ writing = {} /\ Entries = {}
         /\ ~intr.pending /\ hw_get = put /\ removal = "no" /\ power = "preempted"
         /\ \A t \in Threads : st[t].pc = "idle"
         /\ isr.is_suspended /\ isr.handling
<1>1. SleepInv /\ TypeOK /\ CountInv
  BY Parts, Zenon
<1>2. /\ service_lock = Nobody /\ ~intr.pending /\ hw_get = put /\ removal = "no"
      /\ power = "preempted" /\ isr.is_suspended
      /\ \A t \in Threads : st[t].pc = "idle"
  BY <1>1, Zenon DEF SleepInv, SleepAt
<1>3. isr.handling
  BY <1>1, <1>2, Zenon DEF CountInv
<1>4. \A a \in Actors : st[a].pc \notin ServicePcs /\ st[a].pc \notin ReadPcs
  BY <1>2, Unserved, Zenon
<1>5. valid = {} /\ writing = {}
  <2>1. CASE st[PM].pc = "off"
    BY <1>1, <2>1, Zenon DEF SleepInv, SleepAt
  <2>2. CASE st[PM].pc = "drain"
    <3>1. cached_get = put
      BY <1>1, <2>2, Zenon DEF SleepInv, SleepAt
    <3>2. ReadAt(cached_get, cached_get, cached_put, put, Entries)
      BY <1>2, <2>2, Unserved, Zenon
    <3> QED
      BY <1>1, <3>1, <3>2, EmptyRing, Zenon
  <2> QED
    BY <2>1, <2>2, Zenon
<1> QED
  BY <1>2, <1>3, <1>4, <1>5, Zenon DEF Entries

LEMMA SuspendDrainsStep ==
  ASSUME IInv, SuspendDrains
  PROVE  IInv'
<1> DEFINE s == [st[PM] EXCEPT !.pc = "off"]
<1>1. /\ st[PM].pc = "drain" /\ Goto(PM, "off")
      /\ UNCHANGED <<hwVars, gpuVars, cacheVars, isrVars, envVars>>
  BY Zenon DEF SuspendDrains, At
<1>2. PM \in Actors \ {BH} /\ TypeOK /\ SleepInv /\ st \in [Actors -> ActorState]
      /\ isr \in IsrState
  BY Parts, Who, Zenon DEF TypeOK
<1>3. s \in ActorState /\ s.pc = "off"
  BY <1>2 DEF ActorState
<1>4. Become(PM, s)
  BY <1>1, <1>2, GotoIs, Zenon
<1> HIDE DEF s
<1>5. Control(PM, s)
  BY <1>2, <1>3, Who, Zenon DEF Control, FlushControl, FlushPcs
<1>6. st[PM].pc \in Away /\ s.pc \in Away
  BY <1>1, <1>3, Zenon DEF Away
<1>7. /\ \A a \in Actors : st[a].pc \notin ServicePcs /\ st[a].pc \notin ReadPcs
      /\ service_lock = Nobody /\ valid = {} /\ writing = {}
      /\ ~intr.pending /\ hw_get = put /\ removal = "no" /\ power = "preempted"
      /\ \A t \in Threads : st[t].pc = "idle"
      /\ isr.is_suspended
  BY <1>1, Drained, Zenon
<1>8. st'[PM] = s /\ \A b \in Actors : b # PM => st'[b] = st[b]
  BY <1>2, <1>3, <1>4, OneActor, Zenon
<1>9. /\ put' = put /\ hw_get' = hw_get /\ valid' = valid /\ writing' = writing
      /\ intr' = intr /\ cached_get' = cached_get /\ cached_put' = cached_put
      /\ service_lock' = service_lock /\ power' = power /\ removal' = removal
      /\ isr' = isr /\ topHalf' = topHalf /\ queued' = queued
      /\ interrupts_lock' = interrupts_lock
  BY <1>1, Zenon DEF hwVars, cacheVars, envVars, isrVars
<1>10. RingInv'
  <2>1. \A b \in Actors : st'[b].pc \notin ReadPcs
    BY <1>3, <1>7, <1>8, Zenon DEF ReadPcs
  <2>2. valid' \cap writing' = {} /\ \A t \in Entries' : buffer'[t] \in Pages
    BY <1>7, <1>9, Zenon DEF Entries
  <2> QED
    BY <1>3, <1>8, <2>1, <2>2, Zenon DEF RingInv
<1>11. Bounded
  <2>1. UNCHANGED <<gpuVars, disturbed>>
    BY <1>1, Zenon DEF envVars
  <2> QED
    BY <1>2, <2>1, BoundedKept, Zenon
<1>12. SleepInv'
  <2>1. SleepAt(st[PM].pc)'
    BY <1>3, <1>7, <1>8, <1>9, Zenon DEF SleepAt
  <2>2. \A t \in Threads : st'[t].pc = "idle"
    BY <1>7, <1>8, Who, Zenon
  <2> QED
    BY <1>3, <1>7, <1>8, <1>9, <2>1, <2>2, Zenon DEF SleepInv
<1>13. /\ power' \in {"on", "preempted"} /\ isr' \in IsrState /\ isr' = isr
       /\ cached_get' \in Slots /\ cached_put' \in Slots
       /\ UNCHANGED <<hwVars, service_lock, interrupts_lock, queued, topHalf, removal>>
  BY <1>1, <1>2, <1>7, <1>9, SMTT(30) DEF TypeOK
<1> QED
  BY <1>2, <1>3, <1>4, <1>5, <1>6, <1>7, <1>10, <1>11, <1>12, <1>13, AwayStep, SMTT(30)

LEMMA ResumeStep ==
  ASSUME IInv, Resume
  PROVE  IInv'
<1>1. /\ st[PM].pc = "off" /\ Become(PM, Idle) /\ power' = "on"
      /\ cached_get' = hw_get /\ cached_put' = put
      /\ isr' = [isr EXCEPT !.is_suspended = FALSE]
      /\ UNCHANGED <<hwVars, gpuVars, service_lock, interrupts_lock, queued, topHalf,
                     removal, disturbed>>
  BY Zenon DEF Resume, At
<1>2. PM \in Actors \ {BH} /\ TypeOK /\ SleepInv /\ st \in [Actors -> ActorState]
      /\ isr \in IsrState /\ put \in Slots /\ hw_get \in Slots
  BY Parts, Who, Zenon DEF TypeOK
<1>3. PICK s \in ActorState : s = Idle
  BY IdleIs, Zenon
<1>4. Become(PM, s) /\ s.pc = "idle"
  BY <1>1, <1>3, IdleIs, Zenon
<1>5. Control(PM, s)
  BY <1>2, <1>4, Zenon DEF Control, FlushControl, FlushPcs, ThreadPcs
<1>6. st[PM].pc \in Away /\ s.pc \in Away
  BY <1>1, <1>4, Zenon DEF Away
<1>7. /\ \A a \in Actors : st[a].pc \notin ServicePcs /\ st[a].pc \notin ReadPcs
      /\ service_lock = Nobody /\ valid = {} /\ writing = {} /\ Entries = {}
      /\ hw_get = put /\ removal = "no"
  BY <1>1, Drained, Zenon
<1>8. st'[PM] = s /\ \A b \in Actors : b # PM => st'[b] = st[b]
  BY <1>2, <1>4, OneActor, Zenon
<1>9. /\ put' = put /\ hw_get' = hw_get /\ valid' = valid /\ writing' = writing
      /\ intr' = intr /\ removal' = removal /\ buffer' = buffer /\ Entries' = Entries
  BY <1>1, Zenon DEF hwVars, Entries
<1>10. RingInv'
  <2>1. \A b \in Actors : st'[b].pc \notin ReadPcs
    BY <1>4, <1>7, <1>8, Zenon DEF ReadPcs
  <2>2. valid' \cap writing' = {} /\ \A t \in Entries' : buffer'[t] \in Pages
    BY <1>7, <1>9, Zenon
  <2>3. Dist(put, put) = 0 /\ \A t \in Slots : Dist(put, t) \in Nat
    BY <1>2, DistType
  <2>4. ReadAt(put, put, put, put, Entries)
    BY <1>7, <2>3 DEF ReadAt
  <2>5. ReadAt(cached_get', cached_get', cached_put', put', Entries') /\ hw_get' = cached_get'
    BY <1>1, <1>7, <1>9, <2>4, Zenon
  <2> QED
    BY <2>1, <2>2, <2>5, Zenon DEF RingInv
<1>11. Bounded
  <2>1. UNCHANGED <<gpuVars, disturbed>>
    BY <1>1, Zenon
  <2> QED
    BY <1>2, <2>1, BoundedKept, Zenon
<1>12. /\ isr' \in IsrState /\ ~isr'.is_suspended
       /\ isr'.handling = isr.handling /\ isr'.gpu_kref = isr.gpu_kref
       /\ isr'.disable_intr_ref_count = isr.disable_intr_ref_count
  <2>1. FALSE \in BOOLEAN
    BY Zenon
  <2> QED
    BY <1>1, <1>2, <2>1, IsrSuspended, Zenon
<1>13. SleepInv'
  <2>1. SleepAt(st[PM].pc)'
    BY <1>4, <1>8, Zenon DEF SleepAt
  <2> QED
    BY <1>1, <1>4, <1>8, <1>12, <2>1, Zenon DEF SleepInv
<1>14. /\ power' \in {"on", "preempted"} /\ cached_get' \in Slots /\ cached_put' \in Slots
       /\ UNCHANGED <<hwVars, service_lock, interrupts_lock, queued, topHalf, removal>>
  BY <1>1, <1>2, Zenon
<1> QED
  BY <1>2, <1>4, <1>5, <1>6, <1>7, <1>10, <1>11, <1>12, <1>13, <1>14, AwayStep, Zenon

LEMMA PowerLossStep ==
  ASSUME IInv, PowerLoss
  PROVE  IInv'
<1>1. /\ st[PM].pc = "off" /\ put' = 0 /\ hw_get' = 0 /\ valid' = {} /\ writing' = {}
      /\ intr' = [intr EXCEPT !.pending = FALSE]
  BY Zenon DEF PowerLoss, At
<1>2. /\ buffer' = buffer /\ cached_get' = cached_get
      /\ cached_put' = cached_put /\ service_lock' = service_lock
      /\ interrupts_lock' = interrupts_lock /\ isr' = isr /\ queued' = queued
      /\ topHalf' = topHalf /\ removal' = removal /\ power' = power /\ st' = st
      /\ access' = access /\ mapped' = mapped /\ replays' = replays
      /\ disturbed' = disturbed
  BY Zenon DEF PowerLoss, gpuVars, cacheVars, isrVars, envVars
<1>3. /\ TypeOK /\ ControlInv /\ LockInv /\ CountInv /\ SleepInv /\ RemovalInv
      /\ intr \in IntrState
  BY Parts, Zenon DEF TypeOK
<1>4. /\ \A a \in Actors : st[a].pc \notin ServicePcs /\ st[a].pc \notin ReadPcs
      /\ service_lock = Nobody
  BY <1>1, Drained, Zenon
<1>5. /\ intr' \in IntrState /\ intr'.kind = intr.kind /\ intr'.enabled = intr.enabled
      /\ ~intr'.pending
  <2>1. FALSE \in BOOLEAN
    BY Zenon
  <2> QED
    BY <1>1, <1>3, <2>1, IntrPending, Zenon
<1>6. TypeOK'
  <2>1. put' \in Slots /\ hw_get' \in Slots /\ valid' \subseteq Slots
        /\ writing' \subseteq Slots
    BY <1>1, Sizes DEF Slots
  <2> QED
    BY <1>2, <1>3, <1>5, <2>1, Zenon DEF TypeOK
<1>7. ControlInv' /\ LockInv' /\ RemovalInv'
  BY <1>2, <1>3, Zenon DEF ControlInv, LockInv, RemovalInv
<1>8. CountInv'
  BY <1>2, <1>3, <1>5, Zenon DEF CountInv, Disabling
<1>9. RingInv'
  <2>1. \A b \in Actors : st'[b].pc \notin ReadPcs
    BY <1>2, <1>4, Zenon
  <2>2. valid' \cap writing' = {} /\ \A t \in Entries' : buffer'[t] \in Pages
    BY <1>1, Zenon DEF Entries
  <2> QED
    BY <1>1, <1>2, <2>1, <2>2, Zenon DEF RingInv
<1>10. BitInv'
  BY <1>1, <1>5, Zenon DEF BitInv
<1>11. SleepInv'
  <2>1. SleepAt(st[PM].pc)'
    BY <1>1, <1>2, <1>4, <1>5 DEF SleepAt
  <2> QED
    BY <1>2, <1>3, <2>1, Zenon DEF SleepInv
<1> QED
  BY <1>6, <1>7, <1>8, <1>9, <1>10, <1>11, Zenon DEF IInv

-----------------------------------------------------------------------------
(* The removal of the GPU.                                                 *)

LEMMA RemoveStep ==
  ASSUME IInv,
         UNCHANGED <<put, hw_get, buffer, valid, writing, cacheVars, service_lock,
                     interrupts_lock, queued, topHalf, power, st>>,
         intr' \in IntrState, intr'.kind = intr.kind,
         intr' = intr \/ (~intr'.enabled /\ interrupts_lock = Nobody),
         isr' \in IsrState, isr'.is_suspended = isr.is_suspended, Bounded,
         removal' \in {"dying", "removed", "disabled", "stopped", "deinit"},
         CountInv', RemovalInv'
  PROVE  IInv'
<1>1. /\ put' = put /\ hw_get' = hw_get /\ buffer' = buffer /\ valid' = valid
      /\ writing' = writing /\ cached_get' = cached_get
      /\ cached_put' = cached_put /\ service_lock' = service_lock
      /\ interrupts_lock' = interrupts_lock /\ queued' = queued
      /\ topHalf' = topHalf /\ power' = power /\ st' = st
  BY Zenon DEF cacheVars
<1>2. /\ TypeOK /\ ControlInv /\ LockInv /\ RingInv /\ BitInv /\ SleepInv
  BY Parts, Zenon
<1>3. TypeOK'
  <2>1. removal' \in {"no", "dying", "removed", "disabled", "stopped", "deinit"}
    BY Zenon
  <2> QED
    BY <1>1, <1>2, <2>1, Zenon DEF TypeOK, Bounded
<1>4. ControlInv' /\ LockInv'
  <2>1. ControlInv'
    BY <1>1, <1>2, Zenon DEF ControlInv
  <2>2. LockInv'
    BY <1>1, <1>2 DEF LockInv
  <2> QED
    BY <2>1, <2>2, Zenon
<1>5. RingInv'
  BY <1>1, <1>2, Zenon DEF RingInv, Entries
<1>6. BitInv'
  <2>1. CASE intr' = intr
    BY <1>1, <1>2, <2>1, Zenon DEF BitInv
  <2>2. CASE ~intr'.enabled /\ interrupts_lock = Nobody
    <3>1. \A b \in Actors : st'[b].pc # "rearm"
      BY <1>1, <1>2, <2>2, Who, Zenon DEF LockInv, RearmPcs
    <3> QED
      BY <2>2, <3>1, Zenon DEF BitInv
  <2> QED
    BY <2>1, <2>2, Zenon
<1>7. SleepInv'
  <2>1. st'[PM].pc = "idle"
    BY Who, Zenon DEF RemovalInv
  <2>2. SleepAt(st[PM].pc)'
    BY <2>1, Zenon DEF SleepAt
  <2> QED
    BY <1>1, <1>2, <2>1, <2>2, Zenon DEF SleepInv
<1> QED
  BY <1>3, <1>4, <1>5, <1>6, <1>7, Zenon DEF IInv

(* The counters, when only the stage of the removal changes.               *)
LEMMA CountKept ==
  ASSUME IInv, UNCHANGED <<hwVars, isrVars, topHalf, st>>,
         removal' \in {"no", "dying", "removed"} <=> removal \in {"no", "dying", "removed"},
         removal' = "deinit" <=> removal = "deinit"
  PROVE  CountInv'
<1>1. /\ intr' = intr /\ isr' = isr /\ topHalf' = topHalf /\ queued' = queued /\ st' = st
      /\ service_lock' = service_lock
  BY Zenon DEF hwVars, isrVars
<1>2. CountInv
  BY Parts, Zenon
<1>3. Disabling' = Disabling
  BY <1>1, Zenon DEF Disabling
<1>4. One(removal' # "deinit") = One(removal # "deinit")
  BY Zenon DEF One
<1> QED
  BY <1>1, <1>2, <1>3, <1>4, Zenon DEF CountInv

LEMMA LastReleaseStep ==
  ASSUME IInv, LastRelease
  PROVE  IInv'
<1>1. /\ removal = "no" /\ removal' = "dying" /\ Disturb("removal")
      /\ \A a \in Actors \ {BH} : st[a].pc = "idle"
      /\ access' = [a \in Accesses |-> "done"]
      /\ UNCHANGED <<hwVars, mapped, replays, cacheVars, isrVars, topHalf, power, st>>
  BY Zenon DEF LastRelease, At
<1>2. TypeOK /\ intr \in IntrState /\ isr \in IsrState
  BY Parts, Zenon DEF TypeOK
<1>3. /\ intr' = intr /\ isr' = isr /\ st' = st
      /\ UNCHANGED <<hwVars, isrVars, topHalf, st>>
      /\ UNCHANGED <<put, hw_get, buffer, valid, writing, cacheVars, service_lock,
                     interrupts_lock, queued, topHalf, power, st>>
  BY <1>1, Zenon DEF hwVars, isrVars
<1>4. CountInv'
  BY <1>1, <1>3, CountKept, Zenon
<1>5. RemovalInv'
  BY <1>1, <1>3, Zenon DEF RemovalInv
<1>6. Bounded
  <2>1. disturbed' \subseteq Disturbing
    BY <1>1, <1>2 DEF Disturb, TypeOK
  <2> QED
    BY <1>1, <1>2, <2>1, Zenon DEF Bounded, TypeOK
<1> QED
  BY <1>1, <1>2, <1>3, <1>4, <1>5, <1>6, RemoveStep, Zenon

LEMMA RemoveFromTableStep ==
  ASSUME IInv, RemoveFromTable
  PROVE  IInv'
<1>1. /\ removal = "dying" /\ removal' = "removed"
      /\ UNCHANGED <<hwVars, gpuVars, cacheVars, isrVars, topHalf, power, disturbed, st>>
  BY Zenon DEF RemoveFromTable
<1>2. TypeOK /\ intr \in IntrState /\ isr \in IsrState /\ RemovalInv
  BY Parts, Zenon DEF TypeOK
<1>3. /\ intr' = intr /\ isr' = isr /\ st' = st
      /\ UNCHANGED <<hwVars, isrVars, topHalf, st>> /\ UNCHANGED <<gpuVars, disturbed>>
      /\ UNCHANGED <<put, hw_get, buffer, valid, writing, cacheVars, service_lock,
                     interrupts_lock, queued, topHalf, power, st>>
  BY <1>1, Zenon DEF hwVars, isrVars
<1>4. CountInv'
  BY <1>1, <1>3, CountKept, Zenon
<1>5. RemovalInv'
  BY <1>1, <1>2, <1>3, Zenon DEF RemovalInv
<1>6. Bounded
  BY <1>2, <1>3, BoundedKept, Zenon
<1> QED
  BY <1>1, <1>2, <1>3, <1>4, <1>5, <1>6, RemoveStep, Zenon

LEMMA DisableIsrStep ==
  ASSUME IInv, DisableIsr
  PROVE  IInv'
<1> DEFINE n == isr.disable_intr_ref_count + 1
           i1 == [isr EXCEPT !.disable_intr_ref_count = n]
           i2 == [i1 EXCEPT !.was_handling = isr.handling]
<1>1. /\ removal = "removed" /\ interrupts_lock = Nobody /\ removal' = "disabled"
      /\ isr' = [i2 EXCEPT !.handling = FALSE]
      /\ intr' = IntrDisabled
      /\ UNCHANGED <<put, hw_get, buffer, valid, writing, gpuVars, cacheVars, service_lock,
                     interrupts_lock, queued, topHalf, power, disturbed, st>>
  BY Zenon DEF DisableIsr, Disabled
<1>2. TypeOK /\ intr \in IntrState /\ isr \in IsrState /\ RemovalInv /\ CountInv
  BY Parts, Zenon DEF TypeOK
<1>3. Counts(isr.disable_intr_ref_count, Disabling)
  BY <1>1, <1>2, Zenon DEF CountInv
<1>4. n \in Nat /\ n > 0
  BY <1>3 DEF Counts
<1> HIDE DEF n
<1>5. /\ i1 \in IsrState /\ i1.gpu_kref = isr.gpu_kref
      /\ i1.is_suspended = isr.is_suspended /\ i1.disable_intr_ref_count = n
  BY <1>2, <1>4, IsrCount, Zenon
<1> HIDE DEF i1
<1>6. /\ i2 \in IsrState /\ i2.gpu_kref = isr.gpu_kref
      /\ i2.is_suspended = isr.is_suspended /\ i2.disable_intr_ref_count = n
  <2>1. isr.handling \in BOOLEAN
    BY <1>2, Zenon DEF IsrState
  <2> QED
    BY <1>5, <2>1, Zenon DEF IsrState
<1> HIDE DEF i2
<1>7. /\ isr' \in IsrState /\ isr'.gpu_kref = isr.gpu_kref
      /\ isr'.is_suspended = isr.is_suspended /\ isr'.disable_intr_ref_count = n
      /\ ~isr'.handling
  <2>1. ASSUME NEW i \in IsrState, NEW b \in BOOLEAN
        PROVE  /\ [i EXCEPT !.handling = b] \in IsrState
               /\ [i EXCEPT !.handling = b].gpu_kref = i.gpu_kref
               /\ [i EXCEPT !.handling = b].handling = b
               /\ [i EXCEPT !.handling = b].is_suspended = i.is_suspended
               /\ [i EXCEPT !.handling = b].disable_intr_ref_count
                    = i.disable_intr_ref_count
    BY <2>1, Zenon DEF IsrState
  <2>2. FALSE \in BOOLEAN
    BY Zenon
  <2> QED
    BY <1>1, <1>6, <2>1, <2>2, Zenon
<1>8. intr' \in IntrState /\ intr'.kind = intr.kind /\ ~intr'.enabled
  BY <1>1, IntrOff, Zenon
<1>9. /\ st' = st /\ topHalf' = topHalf /\ queued' = queued
      /\ UNCHANGED <<put, hw_get, buffer, valid, writing, cacheVars, service_lock,
                     interrupts_lock, queued, topHalf, power, st>>
      /\ UNCHANGED <<gpuVars, disturbed>>
  BY <1>1, Zenon
<1>10. CountInv'
  <2>1. One(removal' # "deinit") = One(removal # "deinit")
    BY <1>1, Zenon DEF One
  <2>2. isr'.gpu_kref = One(removal' # "deinit") + One(topHalf') + One(queued')
                          + One(st'[BH].pc # "idle")
    BY <1>2, <1>7, <1>9, <2>1, Zenon DEF CountInv
  <2>3. removal' \notin {"no", "dying", "removed"}
    BY <1>1, Zenon
  <2> QED
    BY <1>4, <1>7, <1>8, <2>2, <2>3, Zenon DEF CountInv
<1>11. RemovalInv'
  BY <1>1, <1>2, <1>9, Zenon DEF RemovalInv
<1>12. Bounded
  BY <1>2, <1>9, BoundedKept, Zenon
<1> QED
  BY <1>1, <1>7, <1>8, <1>9, <1>10, <1>11, <1>12, RemoveStep, Zenon

LEMMA StopQueueStep ==
  ASSUME IInv, StopQueue
  PROVE  IInv'
<1>1. /\ removal = "disabled" /\ removal' = "stopped" /\ ~queued /\ st[BH].pc = "idle"
      /\ UNCHANGED <<hwVars, gpuVars, cacheVars, isrVars, topHalf, power, disturbed, st>>
  BY Zenon DEF StopQueue, At
<1>2. TypeOK /\ intr \in IntrState /\ isr \in IsrState /\ RemovalInv
  BY Parts, Zenon DEF TypeOK
<1>3. /\ intr' = intr /\ isr' = isr /\ st' = st /\ queued' = queued
      /\ UNCHANGED <<hwVars, isrVars, topHalf, st>> /\ UNCHANGED <<gpuVars, disturbed>>
      /\ UNCHANGED <<put, hw_get, buffer, valid, writing, cacheVars, service_lock,
                     interrupts_lock, queued, topHalf, power, st>>
  BY <1>1, Zenon DEF hwVars, isrVars
<1>4. CountInv'
  BY <1>1, <1>3, CountKept, Zenon
<1>5. RemovalInv'
  BY <1>1, <1>2, <1>3 DEF RemovalInv
<1>6. Bounded
  BY <1>2, <1>3, BoundedKept, Zenon
<1> QED
  BY <1>1, <1>2, <1>3, <1>4, <1>5, <1>6, RemoveStep, Zenon

LEMMA DeinitStep ==
  ASSUME IInv, Deinit
  PROVE  IInv'
<1>1. /\ removal = "stopped" /\ removal' = "deinit"
      /\ isr' = [isr EXCEPT !.gpu_kref = isr.gpu_kref - 1]
      /\ UNCHANGED <<hwVars, gpuVars, cacheVars, service_lock, interrupts_lock, queued,
                     topHalf, power, disturbed, st>>
  BY Zenon DEF Deinit
<1>2. /\ TypeOK /\ intr \in IntrState /\ isr \in IsrState /\ RemovalInv /\ CountInv
      /\ topHalf \in BOOLEAN /\ queued \in BOOLEAN
  BY Parts, Zenon DEF TypeOK
<1>3. /\ intr' = intr /\ st' = st /\ queued' = queued /\ topHalf' = topHalf
      /\ service_lock' = service_lock
      /\ UNCHANGED <<gpuVars, disturbed>>
      /\ UNCHANGED <<put, hw_get, buffer, valid, writing, cacheVars, service_lock,
                     interrupts_lock, queued, topHalf, power, st>>
  BY <1>1, Zenon DEF hwVars
<1>4. isr.gpu_kref - 1 = Kref(removal', topHalf', queued', st'[BH].pc)
      /\ isr.gpu_kref - 1 \in 0 .. 4
  <2>1. One(removal # "deinit") = 1 /\ One(removal' # "deinit") = 0
    BY <1>1, Zenon DEF One
  <2>2. One(st[BH].pc # "idle") \in Int /\ One(topHalf) \in Int /\ One(queued) \in Int
    BY DEF One
  <2>3. isr.gpu_kref = Kref(removal, topHalf, queued, st[BH].pc)
    BY <1>2, Zenon DEF CountInv, Kref
  <2>4. isr.gpu_kref - 1 = Kref(removal', topHalf', queued', st'[BH].pc)
    BY <1>3, <2>1, <2>2, <2>3 DEF Kref
  <2>5. Kref(removal', topHalf', queued', st'[BH].pc) \in 0 .. 4
    BY <1>2, <1>3, KrefType, Zenon
  <2> QED
    BY <2>4, <2>5, Zenon
<1>5. /\ isr' \in IsrState /\ isr'.gpu_kref = isr.gpu_kref - 1
      /\ isr'.handling = isr.handling /\ isr'.is_suspended = isr.is_suspended
      /\ isr'.disable_intr_ref_count = isr.disable_intr_ref_count
  BY <1>1, <1>2, <1>4, Zenon DEF IsrState
<1>6. CountInv'
  <2>1. isr'.gpu_kref = Kref(removal', topHalf', queued', st'[BH].pc)
    BY <1>4, <1>5, Zenon
  <2>2. ~isr.handling /\ removal' \notin {"no", "dying", "removed"}
    BY <1>1, <1>2, Zenon DEF CountInv
  <2> QED
    BY <1>2, <1>3, <1>5, <2>1, <2>2, Zenon DEF CountInv, Kref
<1>7. RemovalInv'
  BY <1>1, <1>2, <1>3 DEF RemovalInv
<1>8. Bounded
  BY <1>2, <1>3, BoundedKept, Zenon
<1> QED
  BY <1>1, <1>2, <1>3, <1>5, <1>6, <1>7, <1>8, RemoveStep, Zenon

-----------------------------------------------------------------------------
(* The invariant holds at first and is kept.                               *)
LEMMA InitInv ==
  ASSUME Init
  PROVE  IInv
<1>1. PICK setup \in Setups :
        /\ intr = [kind |-> setup[1], pending |-> FALSE, enabled |-> TRUE]
        /\ isr = [disable_intr_ref_count |-> 0, handling |-> TRUE, was_handling |-> FALSE,
                  is_suspended |-> FALSE, gpu_kref |-> 1, replay_policy |-> setup[2]]
  BY Zenon DEF Init
<1>2. /\ put = 0 /\ hw_get = 0 /\ cached_get = 0 /\ cached_put = 0
      /\ valid = {} /\ writing = {} /\ Entries = {}
      /\ service_lock = Nobody /\ interrupts_lock = Nobody
      /\ removal = "no" /\ power = "on"
  BY Zenon DEF Init, Entries
<1>3. \A a \in Actors : st[a] = Idle /\ st[a].pc = "idle"
  BY IdleIs, Zenon DEF Init
<1>4. setup[1] \in {"level", "pulse", "cc"} /\ setup[2] \in {"BATCH", "BATCH_FLUSH", "ONCE"}
  BY <1>1, FaultsAssumption, Zenon
<1>5. TRUE \in BOOLEAN /\ FALSE \in BOOLEAN
  BY Zenon
<1>6. /\ intr \in IntrState /\ ~intr.pending /\ intr.enabled
  <2>1. ASSUME NEW p \in BOOLEAN, NEW e \in BOOLEAN,
               intr = [kind |-> setup[1], pending |-> p, enabled |-> e]
        PROVE  intr \in IntrState /\ intr.pending = p /\ intr.enabled = e
    BY <1>4, <2>1, Zenon DEF IntrState
  <2> QED
    BY <1>1, <1>5, <2>1, Zenon
<1>7. /\ isr \in IsrState /\ isr.disable_intr_ref_count = 0 /\ isr.handling
      /\ ~isr.is_suspended /\ isr.gpu_kref = 1
  <2>1. 0 \in Nat /\ 1 \in 0 .. 4
    OBVIOUS
  <2>2. ASSUME NEW h \in BOOLEAN, NEW w \in BOOLEAN, NEW u \in BOOLEAN,
               isr = [disable_intr_ref_count |-> 0, handling |-> h, was_handling |-> w,
                      is_suspended |-> u, gpu_kref |-> 1, replay_policy |-> setup[2]]
        PROVE  /\ isr \in IsrState /\ isr.disable_intr_ref_count = 0 /\ isr.handling = h
               /\ isr.is_suspended = u /\ isr.gpu_kref = 1
    BY <1>4, <2>1, <2>2, Zenon DEF IsrState
  <2> QED
    BY <1>1, <1>5, <2>2, Zenon
<1>8. TypeOK
  <2>1. 0 \in Slots /\ 0 \in 0 .. PUSHES
    BY Sizes, FaultsAssumption DEF Slots
  <2>2. /\ buffer \in [Slots -> Pages \cup {NO_PAGE}]
        /\ access \in [Accesses -> {"run", "stalled", "done"}]
        /\ mapped \subseteq Pages /\ disturbed \subseteq Disturbing
        /\ replays = 0
    BY Zenon DEF Init
  <2>3. st \in [Actors -> ActorState]
    BY IdleIs, Zenon DEF Init
  <2>4. topHalf \in BOOLEAN /\ queued \in BOOLEAN
    BY <1>5, Zenon DEF Init
  <2>5. removal \in {"no", "dying", "removed", "disabled", "stopped", "deinit"}
        /\ power \in {"on", "preempted"}
    BY <1>2, Zenon
  <2>6. service_lock \in Actors \cup {Nobody} /\ interrupts_lock \in Actors \cup {Nobody}
    BY <1>2, Zenon
  <2>7. /\ put \in Slots /\ hw_get \in Slots /\ cached_get \in Slots /\ cached_put \in Slots
        /\ valid \subseteq Slots /\ writing \subseteq Slots /\ replays \in 0 .. PUSHES
    BY <1>2, <2>1, <2>2, Zenon
  <2> QED
    BY <1>6, <1>7, <2>2, <2>3, <2>4, <2>5, <2>6, <2>7, Zenon DEF TypeOK
<1>9. ControlInv
  BY <1>3, Zenon DEF ControlInv, Control, BhControl, FlushControl, FlushPcs, RearmPcs,
              ServicePcs, ThreadPcs
<1>10. LockInv
  <2>1. ~queued
    BY Zenon DEF Init
  <2> QED
    BY <1>2, <1>3, <2>1, Who, Zenon DEF LockInv, ServicePcs, RearmPcs, FlushPcs
<1>11. CountInv
  <2>1. Disabling = {}
    BY <1>2, <1>3, Who, Zenon DEF Disabling
  <2>2. Counts(0, Disabling)
    <3>1. [i \in 1 .. 0 |-> i] \in [1 .. 0 -> {}]
      OBVIOUS
    <3> QED
      BY <2>1, <3>1, Zenon DEF Counts
  <2>3. ~topHalf /\ ~queued /\ st[BH].pc = "idle"
    BY <1>3, Who, Zenon DEF Init
  <2>4. /\ One(removal # "deinit") = 1 /\ One(topHalf) = 0 /\ One(queued) = 0
        /\ One(st[BH].pc # "idle") = 0
    BY <1>2, <2>3, Zenon DEF One
  <2>5. isr.gpu_kref = One(removal # "deinit") + One(topHalf) + One(queued)
                         + One(st[BH].pc # "idle")
    BY <1>7, <2>4
  <2> QED
    BY <1>2, <1>6, <1>7, <2>2, <2>5, Zenon DEF CountInv
<1>12. RingInv
  <2>1. \A a \in Actors : st[a].pc \notin ReadPcs
    BY <1>3, Zenon DEF ReadPcs
  <2>2. ReadAt(cached_get, cached_get, cached_put, put, Entries)
    <3>1. Dist(0, 0) = 0
      BY DEF Dist
    <3>2. \A s \in Slots : ~(Dist(0, s) < 0)
      BY Sizes DEF Dist, Slots
    <3> QED
      BY <1>2, <3>1, <3>2 DEF ReadAt
  <2> QED
    BY <1>2, <2>1, <2>2, Zenon DEF RingInv
<1>13. BitInv
  BY <1>2, <1>6, Zenon DEF BitInv
<1>14. SleepInv
  <2>1. st[PM].pc = "idle" /\ \A t \in Threads : st[t].pc = "idle"
    BY <1>3, Who, Zenon
  <2> QED
    BY <1>2, <1>7, <2>1, Zenon DEF SleepInv, SleepAt
<1>15. RemovalInv
  BY <1>2 DEF RemovalInv
<1> QED
  BY <1>8, <1>9, <1>10, <1>11, <1>12, <1>13, <1>14, <1>15, Zenon DEF IInv

LEMMA LockingStep ==
  ASSUME IInv, NEW a \in Actors, Locking(a)
  PROVE  IInv'
<1>1. CASE IsrLock(a)
  BY <1>1, IsrLockStep, Zenon
<1>2. CASE Down(a)
  BY <1>2, DownStep, Zenon
<1>3. CASE IsrUnlock(a)
  BY <1>3, UnlockStep, UnlockLateStep, Zenon
<1>4. CASE ClearInterrupt(a)
  BY <1>4, ClearIntrStep, Zenon
<1>5. CASE Rearm(a)
  BY <1>5, RearmStep, Zenon
<1>6. CASE Retrigger(a)
  BY <1>6, RetriggerStep, Zenon
<1>7. CASE PushReplay(a)
  BY <1>7, PushStep, Zenon
<1>8. CASE FlushStart(a)
  BY <1>8, FlushStartStep, Zenon
<1>9. CASE SkipEntry(a)
  BY <1>9, SkipStep, Zenon
<1>10. CASE FlushEnd(a)
  BY <1>10, FlushEndStep, Zenon
<1> QED
  BY <1>1, <1>2, <1>3, <1>4, <1>5, <1>6, <1>7, <1>8, <1>9, <1>10, Zenon DEF Locking

LEMMA ServiceFaultsStep ==
  ASSUME IInv, ServiceFaults
  PROVE  IInv'
<1>1. CASE BottomHalf
  BY <1>1, BottomHalfStep, Zenon
<1>2. CASE FetchStart
  BY <1>2, FetchStartStep, Zenon
<1>3. CASE EnoughBatches
  BY <1>3, EnoughStep, Zenon
<1>4. CASE FetchEntry
  BY <1>4, FetchEntryStep, Zenon
<1>5. CASE FetchEnd
  BY <1>5, FetchEndStep, Zenon
<1>6. CASE ServiceBatch
  BY <1>6, ServiceStep, Zenon
<1>7. CASE CancelFaults
  BY <1>7, CancelStep, Zenon
<1>8. CASE BatchDone
  BY <1>8, DoneStep, Zenon
<1>9. CASE Finish
  BY <1>9, FinishStep, Zenon
<1>10. CASE BottomHalfEnd
  BY <1>10, BottomHalfEndStep, Zenon
<1>11. CASE Locking(BH)
  BY <1>11, LockingStep, Who, Zenon
<1>12. CASE StaleBatch
  BY <1>12, StaleStep
<1> QED
  BY <1>1, <1>2, <1>3, <1>4, <1>5, <1>6, <1>7, <1>8, <1>9, <1>10, <1>11, <1>12, SMTT(30)
     DEF ServiceFaults

LEMMA NextStep ==
  ASSUME IInv, [Next]_vars
  PROVE  IInv'
<1>1. CASE Gpu
  BY <1>1, EntryStep, ReplayStep, AccessStep, Zenon DEF Gpu
<1>2. CASE FaultInterrupt \/ OtherInterrupt
  BY <1>2, TopHalfStep, Zenon DEF FaultInterrupt, OtherInterrupt
<1>3. CASE TopHalfSchedule
  BY <1>3, TopHalfScheduleStep, Zenon
<1>4. CASE ServiceFaults
  BY <1>4, ServiceFaultsStep, Zenon
<1>5. CASE StaleBatch
  BY <1>5, StaleStep, Zenon
<1>6. CASE FetchFails \/ SortFails \/ ServiceFails
  BY <1>6, FetchFailsStep, SortFailsStep, ServiceFailsStep, Zenon
<1>7. CASE Suspend
  BY <1>7, SuspendStep, Zenon
<1>8. CASE Sleep
  BY <1>8, SuspendTopHalfStep, SuspendDrainsStep, ResumeStep, LockingStep, Who, Zenon DEF Sleep
<1>9. CASE PowerLoss
  BY <1>9, PowerLossStep, Zenon
<1>10. CASE LastRelease
  BY <1>10, LastReleaseStep, Zenon
<1>11. CASE Remove
  BY <1>11, RemoveFromTableStep, DisableIsrStep, StopQueueStep, DeinitStep, Zenon DEF Remove
<1>12. CASE \E t \in Threads :
               uvm_gpu_fault_buffer_flush(t) \/ FlushReturns(t) \/ Locking(t)
  BY <1>12, FlushCallStep, ReturnStep, LockingStep, Who, Zenon
<1>13. CASE UNCHANGED vars
  <2>1. /\ UNCHANGED <<hwVars, cacheVars, isrVars, topHalf, removal, power, st>>
        /\ UNCHANGED <<gpuVars, disturbed>>
    BY <1>13, Zenon DEF vars, envVars, hwVars, gpuVars, cacheVars, isrVars
  <2> QED
    BY <2>1, Parts, BoundedKept, GpuOnly, Zenon
<1> QED
  BY <1>1, <1>2, <1>3, <1>4, <1>5, <1>6, <1>7, <1>8, <1>9, <1>10, <1>11, <1>12, <1>13, Zenon
     DEF Next

(* The invariant of the fault path: in every reachable state it is known   *)
(* who owns the locks of the ISRs and the references of the GPU, how many  *)
(* keep the interrupt disabled, from where the buffer is read, what the    *)
(* interrupt's bit says, and that sleep and removal find the rest idle.    *)
THEOREM Invariance == Spec => []IInv
<1>1. Init => IInv
  BY InitInv, Zenon
<1>2. IInv /\ [Next]_vars => IInv'
  BY NextStep, Zenon
<1> QED
  BY <1>1, <1>2, PTL DEF Spec

(* The variables stay within their types: the counters of the ISR (the     *)
(* references of the GPU, disable_intr_ref_count) never drop below 0 nor   *)
(* exceed the actors there are.                                            *)
THEOREM TypeCorrect == Spec => []TypeOK
<1>1. IInv => TypeOK
  BY Zenon DEF IInv
<1> QED
  BY <1>1, Invariance, PTL

(* fetch_fault_buffer_entries() and the flush lose no entry of the buffer: *)
(* GET is written only up to what was read, and nobody reads it while      *)
(* service_lock is free.                                                   *)
THEOREM NoEntryLostCorrect == Spec => []NoEntryLost
<1>1. ASSUME IInv PROVE NoEntryLost
  <2>1. TypeOK /\ RingInv /\ LockInv
    BY <1>1, Parts, Zenon
  <2>2. /\ put \in Slots /\ hw_get \in Slots /\ cached_get \in Slots
        /\ cached_put \in Slots /\ Entries \subseteq Slots
    BY <2>1, Zenon DEF TypeOK, Entries
  <2>3. CASE st[PM].pc = "off"
    <3>1. Entries = {} /\ hw_get = put
      BY <1>1, <2>3, Drained, Zenon
    <3>2. Window(put, put) = {}
      BY <2>2, Sizes DEF Window, Slots
    <3> QED
      BY <3>1, <3>2, Zenon DEF NoEntryLost, Entries
  <2>4. CASE st[PM].pc # "off" /\ \A a \in Actors : st[a].pc \notin ReadPcs
    <3>1. hw_get = cached_get /\ ReadAt(cached_get, cached_get, cached_put, put, Entries)
      BY <2>1, <2>4, Zenon DEF RingInv
    <3>2. \A s \in Slots : s \in Entries <=> s \in Window(hw_get, put)
      BY <2>2, <3>1, WindowIs, Zenon DEF ReadAt
    <3>3. Window(hw_get, put) \subseteq Slots
      BY <2>2, WindowIs, Zenon
    <3> QED
      BY <2>2, <3>2, <3>3, Zenon DEF NoEntryLost, Entries
  <2>5. CASE st[PM].pc # "off" /\ \E a \in Actors : st[a].pc \in ReadPcs
    <3>1. PICK a \in Actors : st[a].pc \in ReadPcs
      BY <2>5, Zenon
    <3>2. service_lock # Nobody
      BY <2>1, <3>1, Who, Zenon DEF LockInv, ServicePcs, FlushPcs, ReadPcs
    <3>3. /\ hw_get = cached_get
          /\ ReadAt(st[a].get, cached_get, cached_put, put, Entries)
          /\ st[a].get \in Slots
      <4>1. st[a].get \in Slots
        BY <2>1, Zenon DEF TypeOK, ActorState
      <4> QED
        BY <2>1, <2>5, <3>1, <4>1, Zenon DEF RingInv
    <3>4. Dist(hw_get, st[a].get) <= Dist(hw_get, put)
      BY <2>2, <3>3, DistType DEF ReadAt
    <3>5. ASSUME NEW s \in Entries PROVE s \in Window(hw_get, put)
      <4>1. s \in Slots
        BY <2>2, Zenon
      <4>2. Dist(st[a].get, s) < Dist(st[a].get, put)
        BY <3>3, <4>1, Zenon DEF ReadAt
      <4>3. Dist(hw_get, s) < Dist(hw_get, put)
        BY <2>2, <3>3, <3>4, <4>1, <4>2, DistWithin, Zenon
      <4> QED
        BY <2>2, <4>1, <4>3, WindowIs, Zenon
    <3> QED
      BY <3>2, <3>5, Zenon DEF NoEntryLost, Entries
  <2> QED
    BY <2>3, <2>4, <2>5, Zenon
<1> QED
  BY <1>1, Invariance, PTL

(* The ISRs keep the interrupt disabled while anybody holds service_lock,  *)
(* and a sleeping GPU has no fault left that could raise it: the top half  *)
(* is not called again and again for an interrupt it cannot serve.         *)
THEOREM NoStormCorrect == Spec => []NoStorm
<1>1. ASSUME IInv PROVE NoStorm
  <2>1. SUFFICES ASSUME interrupts_lock = Nobody,
                        service_lock # Nobody \/ isr.is_suspended
                 PROVE  ~Asserted
    BY Zenon DEF NoStorm
  <2>2. TypeOK /\ CountInv /\ LockInv /\ SleepInv
    BY <1>1, Parts, Zenon
  <2>3. CASE service_lock # Nobody
    <3>1. PICK a \in Actors : service_lock = a
      BY <2>2, <2>3, Zenon DEF TypeOK
    <3>2. a \in Disabling
      BY <2>1, <2>2, <3>1, Who, Zenon DEF LockInv, Disabling
    <3>3. isr.handling => isr.disable_intr_ref_count # 0
      BY <2>2, <3>2, CountsLess, Zenon DEF CountInv
    <3>4. ~intr.enabled
      BY <2>2, <3>3, Zenon DEF CountInv
    <3> QED
      BY <3>4, Zenon DEF Asserted
  <2>4. CASE isr.is_suspended
    <3>1. st[PM].pc \in {"drain", "off"}
      BY <2>2, <2>4, Zenon DEF SleepInv
    <3>2. ~intr.pending /\ hw_get = put
      BY <1>1, <3>1, Drained, Zenon
    <3> QED
      BY <3>2, Zenon DEF Asserted
  <2> QED
    BY <2>1, <2>3, <2>4, Zenon
<1> QED
  BY <1>1, Invariance, PTL

(* isr_unlock's order of clearing the bit, rewriting GET and enabling the  *)
(* interrupt leaves a pulse interrupt with a bit that is current.          *)
THEOREM PendingCurrentCorrect == Spec => []PendingCurrent
<1>1. IInv => PendingCurrent
  BY Zenon DEF IInv, BitInv, PendingCurrent
<1> QED
  BY <1>1, Invariance, PTL

(* remove_gpu() leaves a GPU whose faults nobody services and whose fault  *)
(* interrupt nobody enables again, whatever its bottom half was doing.     *)
THEOREM RemovedQuietCorrect == Spec => []RemovedQuiet
<1>1. ASSUME IInv PROVE RemovedQuiet
  <2>1. SUFFICES ASSUME removal \in {"stopped", "deinit"}
                 PROVE  /\ ~queued /\ At(BH, "idle") /\ ~intr.enabled
                        /\ isr.was_handling => isr.disable_intr_ref_count > 0
    BY Zenon DEF RemovedQuiet
  <2>2. RemovalInv /\ CountInv
    BY <1>1, Parts, Zenon
  <2>3. ~isr.handling
    BY <2>1, <2>2, Zenon DEF CountInv
  <2> QED
    BY <2>1, <2>2, <2>3, Zenon DEF CountInv, RemovalInv, At
<1> QED
  BY <1>1, Invariance, PTL
=============================================================================

---------------------------- MODULE ChannelProof ----------------------------
(***************************************************************************)
(* Proofs about module Channel, for rings, payloads and sets of threads of *)
(* any size.                                                               *)
(***************************************************************************)
EXTENDS Channel, FiniteSetTheorems, TLAPS

-----------------------------------------------------------------------------
(* Arithmetic modulo the size of the ring or of the payload.               *)

(* Quotient and remainder.                                                 *)
LEMMA ModDef ==
  ASSUME NEW N \in Nat \ {0}, NEW a \in Int
  PROVE  /\ a = N * (a \div N) + (a % N)
         /\ a % N \in 0 .. N - 1
         /\ a \div N \in Int
OBVIOUS

(* They are unique.                                                        *)
LEMMA ModUnique ==
  ASSUME NEW N \in Nat \ {0}, NEW p \in Int, NEW q \in Int,
         NEW r \in 0 .. N - 1, NEW s \in 0 .. N - 1,
         N * p + r = N * q + s
  PROVE  p = q /\ r = s
<1>1. N * (p - q) = s - r
  OBVIOUS
<1>2. ~(p > q)
  <2>1. SUFFICES ASSUME p > q PROVE FALSE
    BY Zenon
  <2>2. p - q >= 1
    BY <2>1
  <2>3. N * (p - q) >= N
    BY <2>2
  <2>4. QED
    BY <1>1, <2>3
<1>3. ~(q > p)
  <2>1. SUFFICES ASSUME q > p PROVE FALSE
    BY Zenon
  <2>2. q - p >= 1 /\ N * (q - p) = r - s
    BY <2>1, <1>1
  <2>3. N * (q - p) >= N
    BY <2>2
  <2>4. QED
    BY <2>2, <2>3
<1>4. p = q
  BY <1>2, <1>3
<1>5. QED
  BY <1>4

(* A number below N plus a multiple of N has that number as its remainder. *)
LEMMA ModIs ==
  ASSUME NEW N \in Nat \ {0}, NEW q \in Int, NEW r \in 0 .. N - 1
  PROVE  (N * q + r) % N = r
<1> DEFINE a == N * q + r
<1>1. a \in Int
  OBVIOUS
<1>2. /\ a = N * (a \div N) + (a % N)
      /\ a % N \in 0 .. N - 1 /\ a \div N \in Int
  BY <1>1, ModDef, Zenon
<1>3. N * (a \div N) + (a % N) = N * q + r
  BY <1>2, Zenon
<1> HIDE DEF a
<1>4. a % N = r
  BY <1>2, <1>3, ModUnique, Zenon
<1>5. QED
  BY <1>4, Zenon DEF a

(* Two numbers less than N apart differ modulo N.                          *)
LEMMA ModInj ==
  ASSUME NEW N \in Nat \ {0}, NEW a \in Int, NEW b \in Int,
         a < b, b < a + N
  PROVE  a % N # b % N
<1>1. SUFFICES ASSUME a % N = b % N PROVE FALSE
  BY Zenon
<1> DEFINE p == a \div N
           q == b \div N
           r == a % N
<1>2. /\ a = N * p + r /\ b = N * q + r
      /\ p \in Int /\ q \in Int /\ r \in 0 .. N - 1
  BY <1>1, ModDef, Zenon
<1> HIDE DEF p, q, r
<1>3. N * (q - p) = b - a
  BY <1>2
<1>4. q - p <= 0 \/ q - p >= 1
  BY <1>2
<1>5. CASE q - p <= 0
  <2>1. N * (q - p) <= 0
    BY <1>2, <1>5
  <2>2. QED
    BY <1>3, <2>1
<1>6. CASE q - p >= 1
  <2>1. N * (q - p) >= N
    BY <1>2, <1>6
  <2>2. QED
    BY <1>3, <2>1
<1>7. QED
  BY <1>4, <1>5, <1>6, Zenon

(* The slot after the slot of k is the slot of k + 1.                      *)
LEMMA ModStep ==
  ASSUME NEW N \in Nat \ {0}, NEW a \in Int, NEW n \in Int
  PROVE  ((a % N) + n) % N = (a + n) % N
<1> DEFINE p == a \div N
           r == a % N
<1>1. a = N * p + r /\ p \in Int /\ r \in Int
  BY ModDef
<1> HIDE DEF p, r
<1> DEFINE q == (r + n) \div N
           s == (r + n) % N
<1>2. r + n = N * q + s /\ q \in Int /\ s \in 0 .. N - 1
  <2>1. r + n \in Int
    BY <1>1
  <2>2. QED
    BY <2>1, ModDef, Zenon
<1> HIDE DEF q, s
<1>3. a + n = N * (p + q) + s
  BY <1>1, <1>2
<1>4. p + q \in Int
  BY <1>1, <1>2
<1>5. (a + n) % N = s
  BY <1>2, <1>3, <1>4, ModIs, Zenon
<1>6. QED
  BY <1>5, Zenon DEF r, s

(* The distance of two slots is the distance of the numbers, when these    *)
(* are less than a ring apart.                                             *)
LEMMA ModDiff ==
  ASSUME NEW N \in Nat \ {0}, NEW a \in Int, NEW b \in Int,
         a <= b, b < a + N
  PROVE  ((b % N) - (a % N)) % N = b - a
<1> DEFINE p == a \div N
           q == b \div N
           r == a % N
           s == b % N
<1>1. /\ a = N * p + r /\ p \in Int /\ r \in Int
      /\ b = N * q + s /\ q \in Int /\ s \in Int
  BY ModDef
<1> HIDE DEF p, q, r, s
<1>2. s - r = N * (p - q) + (b - a)
  BY <1>1
<1>3. p - q \in Int /\ b - a \in 0 .. N - 1
  BY <1>1
<1>4. (s - r) % N = b - a
  BY <1>2, <1>3, ModIs, Zenon
<1>5. QED
  BY <1>4, Zenon DEF r, s

(* The 64-bit value is recovered from its low bits when it is less than    *)
(* one turn of the payload ahead of the old one.                           *)
LEMMA ExtendExact ==
  ASSUME NEW old \in Nat, NEW v \in Nat, old <= v, v < old + PAYLOADS
  PROVE  Extend(old, v % PAYLOADS) = v
<1> DEFINE N == PAYLOADS
           p == old \div N
           q == v \div N
           r == old % N
           s == v % N
<1>0. N \in Nat \ {0}
  BY ChannelAssumption
<1>1. /\ old = N * p + r /\ p \in Int /\ r \in 0 .. N - 1
      /\ v = N * q + s /\ q \in Int /\ s \in 0 .. N - 1
  BY <1>0, ModDef
<1>a. Extend(old, v % N) = IF s < r THEN ((old - r) + s) + N ELSE (old - r) + s
  BY Zenon DEF Extend
<1> HIDE DEF p, q, r, s, N
<1>2. N * (q - p) = (v - old) + (r - s)
  BY <1>0, <1>1
<1>3. CASE s < r
  <2>1. N * (q - p) > 0 /\ N * (q - p) < N + N
    BY <1>0, <1>1, <1>2, <1>3 DEF N
  <2>2. q - p = 1
    <3>1. q - p <= 0 => N * (q - p) <= 0
      BY <1>0, <1>1
    <3>2. q - p >= 2 => N * (q - p) >= N + N
      BY <1>0, <1>1
    <3>3. QED
      BY <1>0, <1>1, <2>1, <3>1, <3>2
  <2>3. v = ((old - r) + s) + N
    BY <1>0, <1>1, <1>2, <2>2
  <2>4. QED
    BY <1>3, <1>a, <2>3, Zenon DEF N
<1>4. CASE ~(s < r)
  <2>1. N * (q - p) > -N /\ N * (q - p) < N
    BY <1>0, <1>1, <1>2, <1>4 DEF N
  <2>2. q - p = 0
    <3>1. q - p <= -1 => N * (q - p) <= -N
      BY <1>0, <1>1
    <3>2. q - p >= 1 => N * (q - p) >= N
      BY <1>0, <1>1
    <3>3. QED
      BY <1>0, <1>1, <2>1, <3>1, <3>2
  <2>3. v = (old - r) + s
    BY <1>0, <1>1, <1>2, <2>2
  <2>4. QED
    BY <1>4, <1>a, <2>3, Zenon DEF N
<1>5. QED
  BY <1>3, <1>4, Zenon

-----------------------------------------------------------------------------
(* The inductive invariant.                                                *)

Value(k) == Nth(k).tracking_semaphore_value

(* The pointers are the history counters modulo the size of the ring.      *)
PointersInv ==
  /\ gpu_get = gets % num_gpfifo_entries
  /\ cpu_put = puts % num_gpfifo_entries
  /\ hw_get = done % num_gpfifo_entries

(* The values of the pending entries: those the GPU has yet to process are *)
(* ahead of the semaphore, they grow after each push, and at most as many  *)
(* pushes were queued since an entry as there are entries after it.        *)
ValuesInv ==
  /\ \A k \in gets .. puts - 1 :
       /\ Nth(k).type = "NORMAL" => Value(k) <= queued_value
       /\ queued_value <= Value(k) + (puts - (k + 1))
       /\ done <= k => released < Value(k)
  /\ \A k, l \in gets .. puts - 1 :
       k < l /\ Nth(k).type = "NORMAL" => Value(k) < Value(l)

SemaphoreInv ==
  /\ completed_value <= released /\ released <= queued_value
  /\ payload = released % PAYLOADS
  /\ queued_value <= completed_value + (puts - gets)
  /\ \A t \in Threads : thread[t].completed <= completed_value

(* A push has a push info from uvm_channel_begin_push() on.                *)
InfoInv ==
  /\ \A k \in gets .. puts - 1 :
       Nth(k).type = "NORMAL" => Nth(k).push_info \in PushInfos
  /\ \A t \in Threads :
       thread[t].pc = "building" => thread[t].push_info \in PushInfos

IInv == /\ TypeOK /\ PointersInv /\ NoEarlyReclaim /\ RingHasRoom
        /\ ValuesInv /\ SemaphoreInv /\ InfoInv

-----------------------------------------------------------------------------
(* The initial state.                                                      *)

(* A channel that was just created satisfies the invariant.                *)
LEMMA InitIInv == Init => IInv
<1> SUFFICES ASSUME Init PROVE IInv
  BY Zenon
<1> USE ChannelAssumption DEF Init
<1>1. TypeOK
  <2>1. Idle(FALSE) \in ThreadState
    BY Zenon DEF Idle, ThreadState, PC, Caller
  <2>2. gpfifo_entries \in [Slots -> Entry]
    BY Zenon DEF Entry
  <2>3. 0 \in Slots /\ 0 \in 0 .. PAYLOADS - 1
    BY DEF Slots
  <2>4. available_push_infos \in Seq(PushInfos)
    <3>1. \A i \in 1 .. num_gpfifo_entries : i - 1 \in PushInfos
      BY DEF PushInfos
    <3>2. QED
      BY <3>1
  <2>5. thread \in [Threads -> ThreadState]
    BY <2>1, Zenon
  <2>6. QED
    BY <2>2, <2>3, <2>4, <2>5, Zenon DEF TypeOK
<1>2. PointersInv
  <2>1. 0 % num_gpfifo_entries = 0
    OBVIOUS
  <2>2. QED
    BY <2>1, Zenon DEF PointersInv
<1>3. RingHasRoom
  <2>1. Holders = {} /\ CtrlHolders = {}
    BY Zenon DEF Holders, CtrlHolders, Idle
  <2>2. Held = 0
    BY <2>1, FS_EmptySet DEF Held
  <2>3. QED
    BY <2>2 DEF RingHasRoom
<1>4. SemaphoreInv
  <2>1. 0 % PAYLOADS = 0
    OBVIOUS
  <2>2. QED
    BY <2>1 DEF SemaphoreInv, Idle
<1>5. QED
  BY <1>1, <1>2, <1>3, <1>4 DEF IInv, ValuesInv, NoEarlyReclaim, InfoInv, Idle

-----------------------------------------------------------------------------
(* The entries a thread still has to fill.                                 *)

Weight(pc) == IF pc = "ctrl" THEN 2 ELSE IF pc \in {"begin", "building"} THEN 1 ELSE 0

(* The threads that hold reserved entries are finitely many.               *)
LEMMA HoldersFinite ==
  /\ IsFiniteSet(Holders) /\ IsFiniteSet(CtrlHolders)
  /\ Cardinality(Holders) \in Nat /\ Cardinality(CtrlHolders) \in Nat
  /\ Held \in Nat
<1>1. IsFiniteSet(Threads) /\ Holders \subseteq Threads /\ CtrlHolders \subseteq Threads
  BY ChannelAssumption, Zenon DEF Holders, CtrlHolders
<1>2. IsFiniteSet(Holders) /\ IsFiniteSet(CtrlHolders)
  BY <1>1, FS_Subset, Zenon
<1>3. Cardinality(Holders) \in Nat /\ Cardinality(CtrlHolders) \in Nat
  BY <1>2, FS_CardinalityType, Zenon
<1>4. QED
  BY <1>2, <1>3 DEF Held

(* Adding or removing one element changes the cardinality by at most one.  *)
LEMMA MemberCount ==
  ASSUME NEW S, IsFiniteSet(S), NEW T, NEW x,
         T = S \cup {x} \/ T = S \ {x}
  PROVE  Cardinality(T) = Cardinality(S)
           + ((IF x \in T THEN 1 ELSE 0) - (IF x \in S THEN 1 ELSE 0))
<1>0. Cardinality(S) \in Nat
  BY FS_CardinalityType, Zenon
<1>1. CASE T = S \cup {x}
  BY <1>0, <1>1, FS_AddElement, SMTT(30)
<1>2. CASE T = S \ {x}
  <2>1. CASE x \in S
    <3>1. Cardinality(T) = Cardinality(S) - 1
      BY <1>2, <2>1, FS_RemoveElement, Zenon
    <3>2. x \notin T
      BY <1>2, Zenon
    <3>3. QED
      BY <1>0, <2>1, <3>1, <3>2
  <2>2. CASE x \notin S
    <3>1. T = S
      BY <1>2, <2>2, Zenon
    <3>2. QED
      BY <1>0, <2>2, <3>1
  <2>3. QED
    BY <2>1, <2>2, Zenon
<1>3. QED
  BY <1>1, <1>2, Zenon

(* The count changes by the weight of the one thread that moves.           *)
LEMMA HeldStep ==
  ASSUME thread \in [Threads -> ThreadState], NEW t \in Threads,
         NEW s \in ThreadState, thread' = [thread EXCEPT ![t] = s]
  PROVE  /\ Held \in Nat /\ Held' \in Nat
         /\ Held' = Held + (Weight(s.pc) - Weight(thread[t].pc))
<1>1. /\ \A u \in Threads : u # t => thread'[u] = thread[u]
      /\ thread'[t] = s
  BY Zenon
<1>2. /\ Holders' = IF s.pc \in {"begin", "building"} THEN Holders \cup {t}
                                                     ELSE Holders \ {t}
      /\ t \in Holders <=> thread[t].pc \in {"begin", "building"}
      /\ t \in Holders' <=> s.pc \in {"begin", "building"}
  BY <1>1, Zenon DEF Holders
<1>3. /\ CtrlHolders' = IF s.pc = "ctrl" THEN CtrlHolders \cup {t}
                                         ELSE CtrlHolders \ {t}
      /\ t \in CtrlHolders <=> thread[t].pc = "ctrl"
      /\ t \in CtrlHolders' <=> s.pc = "ctrl"
  BY <1>1, Zenon DEF CtrlHolders
<1>4. Cardinality(Holders') = Cardinality(Holders)
        + ((IF t \in Holders' THEN 1 ELSE 0) - (IF t \in Holders THEN 1 ELSE 0))
  <2>1. IsFiniteSet(Holders)
        /\ (Holders' = Holders \cup {t} \/ Holders' = Holders \ {t})
    BY <1>2, HoldersFinite, Zenon
  <2>2. QED
    BY <2>1, MemberCount, Zenon
<1>5. Cardinality(CtrlHolders') = Cardinality(CtrlHolders)
        + ((IF t \in CtrlHolders' THEN 1 ELSE 0)
           - (IF t \in CtrlHolders THEN 1 ELSE 0))
  <2>1. IsFiniteSet(CtrlHolders)
        /\ (CtrlHolders' = CtrlHolders \cup {t} \/ CtrlHolders' = CtrlHolders \ {t})
    BY <1>3, HoldersFinite, Zenon
  <2>2. QED
    BY <2>1, MemberCount, Zenon
<1>6. Held' = Cardinality(Holders') + 2 * Cardinality(CtrlHolders')
  BY Zenon DEF Held
<1>7. Held' = Held + (Weight(s.pc) - Weight(thread[t].pc))
  BY <1>2, <1>3, <1>4, <1>5, <1>6, HoldersFinite DEF Held, Weight
<1>8. IsFiniteSet(Holders') /\ IsFiniteSet(CtrlHolders')
  BY <1>2, <1>3, HoldersFinite, FS_AddElement, FS_RemoveElement, SMTT(30)
<1>9. Cardinality(Holders') \in Nat /\ Cardinality(CtrlHolders') \in Nat
  BY <1>8, FS_CardinalityType, Zenon
<1>10. QED
  BY <1>6, <1>7, <1>9, HoldersFinite

-----------------------------------------------------------------------------
(* Steps that change nothing but the program counter and locals of one     *)
(* thread, and the error flags.                                            *)

(* The order of the entries' values depends on the ring only.              *)
LEMMA ValuesSame ==
  ASSUME ValuesInv,
         UNCHANGED <<gpfifo_entries, gets, puts, queued_value, done, released>>
  PROVE  ValuesInv'
BY Zenon DEF ValuesInv, Value, Nth

(* The push infos of pending entries depend on the ring only, those of the *)
(* pushes in progress on the threads that build one.                       *)
LEMMA InfoSame ==
  ASSUME TypeOK, InfoInv, NEW t \in Threads, NEW s \in ThreadState,
         thread' = [thread EXCEPT ![t] = s], s.pc # "building",
         UNCHANGED <<gpfifo_entries, gets, puts>>
  PROVE  InfoInv'
<1>1. ASSUME NEW u \in Threads, thread'[u].pc = "building"
      PROVE  thread'[u].push_info \in PushInfos
  BY <1>1, Zenon DEF TypeOK, InfoInv
<1>2. QED
  BY <1>1, Zenon DEF InfoInv, Nth

(* A step that writes the state of one thread keeps the type of all.       *)
LEMMA ThreadType ==
  ASSUME TypeOK, SemaphoreInv, NEW t \in Threads, NEW s \in ThreadState,
         thread' = [thread EXCEPT ![t] = s],
         completed_value' \in Nat, completed_value <= completed_value',
         s.completed <= completed_value'
  PROVE  /\ thread' \in [Threads -> ThreadState]
         /\ \A u \in Threads : thread'[u].completed <= completed_value'
<1>1. thread' \in [Threads -> ThreadState]
  BY Zenon DEF TypeOK
<1>2. ASSUME NEW u \in Threads
      PROVE  thread'[u].completed <= completed_value'
  <2>1. CASE u = t
    BY <2>1, Zenon DEF TypeOK
  <2>2. CASE u # t
    <3>1. thread'[u] = thread[u] /\ thread[u] \in ThreadState
      BY <2>2, Zenon DEF TypeOK
    <3>2. thread[u].completed \in Nat /\ thread[u].completed <= completed_value
      BY <3>1, Zenon DEF SemaphoreInv, ThreadState
    <3>3. QED
      BY <3>1, <3>2 DEF TypeOK
  <2>3. QED
    BY <2>1, <2>2, Zenon
<1>3. QED
  BY <1>1, <1>2, Zenon

(* A step that changes the state of one thread only, which holds no more   *)
(* entries than before and begins no push, preserves the invariant.        *)
LEMMA ThreadLocal ==
  ASSUME IInv, NEW t \in Threads, NEW s \in ThreadState,
         thread' = [thread EXCEPT ![t] = s],
         UNCHANGED <<ring, payload, hw_get, done, released, completed_value>>,
         channel_error' \in BOOLEAN, fatal_error' \in BOOLEAN,
         s.completed <= completed_value,
         Weight(s.pc) <= Weight(thread[t].pc), s.pc # "building"
  PROVE  IInv'
<1> USE DEF ring
<1>1. /\ TypeOK /\ PointersInv /\ NoEarlyReclaim /\ RingHasRoom
      /\ ValuesInv /\ SemaphoreInv /\ InfoInv
  BY Zenon DEF IInv
<1>2. /\ thread' \in [Threads -> ThreadState]
      /\ \A u \in Threads : thread'[u].completed <= completed_value'
  <2>1. completed_value \in Nat /\ completed_value' = completed_value
    BY <1>1, Zenon DEF TypeOK
  <2>2. completed_value' \in Nat /\ completed_value <= completed_value'
        /\ s.completed <= completed_value'
    BY <2>1
  <2>3. QED
    BY <1>1, <2>2, ThreadType, Zenon
<1>3. TypeOK'
  BY <1>1, <1>2, Zenon DEF TypeOK
<1>4. PointersInv' /\ NoEarlyReclaim'
  BY <1>1, Zenon DEF PointersInv, NoEarlyReclaim
<1>5. RingHasRoom'
  <2>1. Held \in Nat /\ Held' \in Nat
        /\ Held' = Held + (Weight(s.pc) - Weight(thread[t].pc))
    BY <1>1, HeldStep, Zenon DEF TypeOK
  <2>2. Weight(s.pc) \in Nat /\ Weight(thread[t].pc) \in Nat
    BY Zenon DEF Weight
  <2>3. current_gpfifo_count \in Int
    BY <1>1 DEF TypeOK, Slots
  <2>4. current_gpfifo_count >= Held'
    BY <1>1, <2>1, <2>2, <2>3 DEF RingHasRoom
  <2>5. QED
    BY <1>1, <2>4, Zenon DEF RingHasRoom
<1>6. ValuesInv'
  BY <1>1, ValuesSame, Zenon
<1>7. SemaphoreInv'
  BY <1>1, <1>2, Zenon DEF SemaphoreInv
<1>8. InfoInv'
  BY <1>1, InfoSame, Zenon
<1>9. QED
  BY <1>3, <1>4, <1>5, <1>6, <1>7, <1>8, Zenon DEF IInv

(* The steps that only move a thread (starts and ends of calls, failed     *)
(* tries, error checks) preserve the invariant.                            *)
LEMMA LocalStep ==
  ASSUME IInv, NEW t \in Threads,
         \/ NoEntry(t) \/ CheckErrors(t) \/ StartUpdate(t)
         \/ BeginPushFails(t) \/ DontWait(t)
         \/ \E caller \in {"pool", "channel", "ctrl"} : StartReserve(t, caller)
  PROVE  IInv'
<1>1. /\ thread \in [Threads -> ThreadState] /\ thread[t] \in ThreadState
      /\ completed_value \in Nat /\ thread[t].completed <= completed_value
      /\ thread[t].completed \in Nat
      /\ channel_error \in BOOLEAN /\ fatal_error \in BOOLEAN
  BY Zenon DEF IInv, TypeOK, SemaphoreInv, ThreadState
<1>2. \E s \in ThreadState :
        /\ thread' = [thread EXCEPT ![t] = s]
        /\ s.completed <= completed_value
        /\ Weight(s.pc) <= Weight(thread[t].pc) /\ s.pc # "building"
  <2> DEFINE S(s) == /\ s \in ThreadState
                     /\ thread' = [thread EXCEPT ![t] = s]
                     /\ s.completed <= completed_value
                     /\ Weight(s.pc) <= Weight(thread[t].pc)
                     /\ s.pc # "building"
  <2> SUFFICES \E s : S(s)
    BY Zenon
  <2>1. ASSUME NEW to \in {"update", "update_all", "check"}, Goto(t, to)
        PROVE  \E s : S(s)
    <3>1. Weight(to) = 0 /\ Weight(thread[t].pc) \in Nat
      BY Zenon DEF Weight
    <3>2. S([thread[t] EXCEPT !.pc = to])
      BY <1>1, <2>1, <3>1 DEF Goto, ThreadState, PC
    <3>3. QED
      BY <3>2, Zenon
  <2>2. ASSUME NEW st \in BOOLEAN, Set(t, Idle(st))
        PROVE  \E s : S(s)
    <3>1. S(Idle(st))
      BY <1>1, <2>2 DEF Set, Idle, ThreadState, PC, Caller, Weight
    <3>2. QED
      BY <3>1, Zenon
  <2>a. ASSUME NEW st \in BOOLEAN,
               Set(t, [thread[t] EXCEPT !.pc = "wait", !.status = st])
        PROVE  \E s : S(s)
    <3>1. [thread[t] EXCEPT !.pc = "wait", !.status = st] \in ThreadState
      BY <1>1, Zenon DEF ThreadState, PC
    <3>2. S([thread[t] EXCEPT !.pc = "wait", !.status = st])
      BY <1>1, <2>a, <3>1 DEF Set, Weight, ThreadState
    <3>3. QED
      BY <3>2, Zenon
  <2>b. ASSUME NEW caller \in {"pool", "channel", "ctrl"}, StartReserve(t, caller)
        PROVE  \E s : S(s)
    <3>1. [thread[t] EXCEPT !.pc = "reserve", !.caller = caller, !.status = TRUE]
            \in ThreadState
      BY <1>1, Zenon DEF ThreadState, PC, Caller
    <3>2. S([thread[t] EXCEPT !.pc = "reserve", !.caller = caller, !.status = TRUE])
      BY <1>1, <2>b, <3>1 DEF StartReserve, Set, Weight, ThreadState
    <3>3. QED
      BY <3>2, Zenon
  <2> HIDE DEF S
  <2>3. CASE NoEntry(t)
    <3>1. Goto(t, "update") \/ Goto(t, "check") \/ Set(t, Idle(FALSE))
      BY <2>3, Zenon DEF NoEntry
    <3>2. QED
      BY <2>1, <2>2, <3>1, Zenon
  <2>4. CASE CheckErrors(t)
    <3>1. \/ Goto(t, "update_all") \/ Goto(t, "update")
          \/ Set(t, [thread[t] EXCEPT !.pc = "wait", !.status = ~fatal_error])
      BY <2>4, Zenon DEF CheckErrors
    <3>2. (~fatal_error) \in BOOLEAN
      BY Zenon
    <3>3. QED
      BY <2>1, <2>a, <3>1, <3>2, Zenon
  <2>5. CASE StartUpdate(t)
    BY <2>1, <2>5, Zenon DEF StartUpdate
  <2>6. CASE BeginPushFails(t)
    <3>1. Goto(t, "update_all") \/ Set(t, Idle(FALSE))
      BY <2>6, Zenon DEF BeginPushFails
    <3>2. QED
      BY <2>1, <2>2, <3>1, Zenon
  <2>7. CASE DontWait(t)
    BY <2>2, <2>7, Zenon DEF DontWait
  <2>9. QED
    BY <2>3, <2>4, <2>5, <2>6, <2>7, <2>b, Zenon
<1>3. UNCHANGED <<ring, payload, hw_get, done, released, completed_value,
                  channel_error, fatal_error>>
  BY Zenon DEF NoEntry, CheckErrors, StartUpdate, BeginPushFails, DontWait,
         StartReserve, gpu
<1>4. QED
  BY <1>1, <1>2, <1>3, ThreadLocal, Zenon

(* Errors of this or another channel preserve the invariant.               *)
LEMMA ErrorStep == ASSUME IInv, GpuError \/ OtherError PROVE IInv'
<1>1. /\ UNCHANGED <<ring, payload, hw_get, done, released, completed_value, thread>>
      /\ channel_error' \in BOOLEAN /\ fatal_error' \in BOOLEAN
  BY Zenon DEF GpuError, OtherError, gpu, IInv, TypeOK
<1>2. TypeOK' /\ PointersInv' /\ NoEarlyReclaim' /\ RingHasRoom' /\ SemaphoreInv'
  BY <1>1, SMTT(30) DEF IInv, TypeOK, PointersInv, NoEarlyReclaim, RingHasRoom, Held,
              Holders, CtrlHolders, SemaphoreInv, ring
<1>3. ValuesInv'
  BY <1>1, ValuesSame, Zenon DEF IInv, ring
<1>4. InfoInv'
  BY <1>1, Zenon DEF IInv, InfoInv, Nth, ring
<1>5. QED
  BY <1>2, <1>3, <1>4, Zenon DEF IInv

-----------------------------------------------------------------------------
(* Reservation: what is claimed was available.                             *)

(* The ring distance pending is the number of entries submitted and not    *)
(* reclaimed.                                                              *)
LEMMA PendingIs ==
  ASSUME IInv
  PROVE  /\ pending = puts - gets /\ pending \in Nat
         /\ gets \in Nat /\ puts \in Nat /\ gets <= puts
         /\ num_gpfifo_entries \in Nat \ {0}
         /\ current_gpfifo_count \in Nat
         /\ puts - gets <= num_gpfifo_entries - 1
<1>1. /\ gets \in Nat /\ puts \in Nat /\ done \in Nat
      /\ num_gpfifo_entries \in Nat \ {0} /\ current_gpfifo_count \in Nat
  BY ChannelAssumption DEF IInv, TypeOK, Slots
<1>2. gets <= puts /\ puts - gets <= num_gpfifo_entries - 1
  BY <1>1 DEF IInv, NoEarlyReclaim, RingHasRoom
<1>3. ((puts % num_gpfifo_entries) - (gets % num_gpfifo_entries))
         % num_gpfifo_entries = puts - gets
  <2>1. gets \in Int /\ puts \in Int /\ puts < gets + num_gpfifo_entries
    BY <1>1, <1>2
  <2>2. QED
    BY <1>1, <1>2, <2>1, ModDiff, Zenon
<1>4. QED
  BY <1>1, <1>2, <1>3 DEF pending, IInv, PointersInv

(* try_claim_channel(), with and without an earlier error, preserves the   *)
(* invariant.                                                              *)
LEMMA ClaimStep ==
  ASSUME IInv, NEW t \in Threads, Claim(t)
  PROVE  IInv'
<1> DEFINE n == Wanted(thread[t].caller)
<1>1. /\ TypeOK /\ PointersInv /\ NoEarlyReclaim /\ RingHasRoom
      /\ ValuesInv /\ SemaphoreInv /\ InfoInv
      /\ thread \in [Threads -> ThreadState] /\ thread[t] \in ThreadState
      /\ completed_value \in Nat /\ thread[t].completed <= completed_value
  BY Zenon DEF IInv, TypeOK, SemaphoreInv
<1>2. /\ UNCHANGED <<gpu_get, cpu_put, gpfifo_entries, available_push_infos,
                     queued_value, gets, puts, payload, hw_get, done, released,
                     completed_value, channel_error, fatal_error>>
      /\ current_gpfifo_count' = current_gpfifo_count + n
      /\ (num_gpfifo_entries - 1) - (current_gpfifo_count + pending) >= n
      /\ thread[t].pc \in {"reserve", "retry"}
  BY Zenon DEF Claim, try_claim_channel, channel_get_available_gpfifo_entries, gpu
<1>3. n \in 1 .. 2
  <2>1. n = 1 \/ n = 2
    BY Zenon DEF Wanted
  <2>2. QED
    BY <2>1
<1>4. \E s \in ThreadState :
        /\ thread' = [thread EXCEPT ![t] = s]
        /\ s.completed <= completed_value
        /\ Weight(s.pc) <= n /\ s.pc # "building"
  <2>1. CASE thread[t].status /\ thread[t].caller = "ctrl"
    <3> DEFINE s == [thread[t] EXCEPT !.pc = "ctrl"]
    <3>1. s \in ThreadState /\ thread' = [thread EXCEPT ![t] = s]
          /\ s.completed <= completed_value /\ Weight(s.pc) <= n
          /\ s.pc # "building"
      BY <1>1, <2>1 DEF Claim, Goto, ThreadState, PC, Weight, Wanted
    <3>2. QED
      BY <3>1, Zenon
  <2>2. CASE thread[t].status /\ thread[t].caller # "ctrl"
    <3> DEFINE s == [thread[t] EXCEPT !.pc = "begin", !.caller = "begin"]
    <3>0. s \in ThreadState
      BY <1>1, Zenon DEF ThreadState, PC, Caller
    <3>1. /\ thread' = [thread EXCEPT ![t] = s]
          /\ s.completed <= completed_value /\ Weight(s.pc) <= n
          /\ s.pc # "building"
      BY <1>1, <2>2 DEF Claim, Set, ThreadState, Weight, Wanted
    <3>2. QED
      BY <3>0, <3>1, Zenon
  <2>3. CASE ~thread[t].status
    <3>1. Idle(FALSE) \in ThreadState
      BY Zenon DEF Idle, ThreadState, PC, Caller
    <3>2. /\ thread' = [thread EXCEPT ![t] = Idle(FALSE)]
          /\ Idle(FALSE).completed <= completed_value
          /\ Weight(Idle(FALSE).pc) <= n /\ Idle(FALSE).pc # "building"
      BY <1>1, <1>3, <2>3 DEF Claim, Set, Weight, Idle
    <3>3. QED
      BY <3>1, <3>2, Zenon
  <2>4. QED
    BY <2>1, <2>2, <2>3, Zenon
<1> HIDE DEF n
<1>5. PICK s \in ThreadState :
        /\ thread' = [thread EXCEPT ![t] = s]
        /\ s.completed <= completed_value
        /\ Weight(s.pc) <= n /\ s.pc # "building"
  BY <1>4, Zenon
<1>6. /\ thread' \in [Threads -> ThreadState]
      /\ \A u \in Threads : thread'[u].completed <= completed_value'
  <2>1. completed_value' \in Nat /\ completed_value <= completed_value'
        /\ s.completed <= completed_value'
    BY <1>1, <1>2, <1>5
  <2>2. QED
    BY <1>1, <1>5, <2>1, ThreadType, Zenon
<1>7. RingHasRoom' /\ current_gpfifo_count' \in Slots
  <2>1. /\ Held \in Nat /\ Held' \in Nat
        /\ Held' = Held + (Weight(s.pc) - Weight(thread[t].pc))
    BY <1>1, <1>5, HeldStep, Zenon
  <2>2. Weight(s.pc) \in Nat /\ Weight(thread[t].pc) = 0
    BY <1>2, Zenon DEF Weight
  <2>3. current_gpfifo_count' >= Held'
    BY <1>1, <1>2, <1>3, <1>5, <2>1, <2>2, PendingIs DEF RingHasRoom
  <2>4. /\ (puts - gets) + current_gpfifo_count' <= num_gpfifo_entries - 1
        /\ current_gpfifo_count' \in Slots
    BY <1>2, <1>3, PendingIs DEF Slots
  <2>5. QED
    BY <1>2, <2>3, <2>4, Zenon DEF RingHasRoom
<1>8. TypeOK'
  BY <1>1, <1>2, <1>6, <1>7, Zenon DEF TypeOK
<1>9. PointersInv' /\ NoEarlyReclaim'
  BY <1>1, <1>2, Zenon DEF PointersInv, NoEarlyReclaim
<1>10. ValuesInv'
  BY <1>1, <1>2, ValuesSame, Zenon
<1>11. SemaphoreInv'
  BY <1>1, <1>2, <1>6, Zenon DEF SemaphoreInv
<1>12. InfoInv'
  BY <1>1, <1>2, <1>5, InfoSame, Zenon
<1>13. QED
  BY <1>7, <1>8, <1>9, <1>10, <1>11, <1>12, Zenon DEF IInv

-----------------------------------------------------------------------------
(* The completed value becomes what the GPU released: at most one ring of  *)
(* pushes, hence less than one turn of the payload, lies in between.       *)

(* update_completed_value_locked() computes the value the GPU released     *)
(* last.                                                                   *)
LEMMA ExtendIs ==
  ASSUME IInv
  PROVE  /\ Extend(completed_value, payload) = released
         /\ completed_value \in Nat /\ released \in Nat
         /\ completed_value <= released
         /\ released <= queued_value /\ queued_value \in Nat
         /\ queued_value - completed_value <= num_gpfifo_entries - 1
<1>1. /\ completed_value \in Nat /\ released \in Nat /\ queued_value \in Nat
      /\ completed_value <= released /\ released <= queued_value
      /\ payload = released % PAYLOADS
      /\ queued_value <= completed_value + (puts - gets)
  BY Zenon DEF IInv, TypeOK, SemaphoreInv
<1>2. queued_value - completed_value <= num_gpfifo_entries - 1
  BY <1>1, PendingIs
<1>3. PAYLOADS \in Nat /\ num_gpfifo_entries \in Nat
      /\ num_gpfifo_entries <= PAYLOADS
  BY ChannelAssumption, Zenon
<1>4. released < completed_value + PAYLOADS
  BY <1>1, <1>2, <1>3
<1>5. Extend(completed_value, released % PAYLOADS) = released
  BY <1>1, <1>4, ExtendExact, Zenon
<1>6. QED
  BY <1>1, <1>2, <1>5, Zenon

(* Updates of the completed value, by progress or by a waiter, preserve    *)
(* the invariant.                                                          *)
LEMMA CompletedStep ==
  ASSUME IInv, NEW t \in Threads, UpdateCompleted(t) \/ Wait(t)
  PROVE  IInv'
<1>1. /\ TypeOK /\ PointersInv /\ NoEarlyReclaim /\ RingHasRoom
      /\ ValuesInv /\ SemaphoreInv /\ InfoInv
      /\ thread \in [Threads -> ThreadState] /\ thread[t] \in ThreadState
      /\ completed_value \in Nat /\ thread[t].completed <= completed_value
      /\ thread[t].completed \in Nat
  BY Zenon DEF IInv, TypeOK, SemaphoreInv, ThreadState
<1>2. /\ UNCHANGED <<ring, payload, hw_get, done, released, channel_error, fatal_error>>
      /\ completed_value' \in {completed_value, released}
  BY ExtendIs, Zenon DEF UpdateCompleted, Wait, gpu
<1>3. /\ completed_value' \in Nat /\ completed_value <= completed_value'
      /\ completed_value' <= released
  BY <1>2, ExtendIs
<1>4. \E s \in ThreadState :
        /\ thread' = [thread EXCEPT ![t] = s]
        /\ s.completed <= completed_value'
        /\ Weight(s.pc) <= Weight(thread[t].pc) /\ s.pc # "building"
  <2>1. CASE UpdateCompleted(t)
    <3> DEFINE to == IF thread[t].pc = "update" THEN "progress" ELSE "progress_all"
               s == [thread[t] EXCEPT !.pc = to, !.completed = completed_value']
    <3>1. /\ to \in PC /\ Weight(to) = 0 /\ Weight(thread[t].pc) \in Nat
          /\ to # "building"
      BY Zenon DEF PC, Weight
    <3>2. thread' = [thread EXCEPT ![t] = s]
      BY <1>1, <2>1, Zenon DEF UpdateCompleted, Set
    <3> HIDE DEF to
    <3>3. s \in ThreadState
      BY <1>1, <1>3, <3>1, Zenon DEF ThreadState
    <3>4. s.completed = completed_value' /\ s.pc = to
      BY <1>1, Zenon DEF ThreadState
    <3>5. /\ s.completed <= completed_value' /\ s.pc # "building"
          /\ Weight(s.pc) <= Weight(thread[t].pc)
      BY <1>3, <3>1, <3>4
    <3> HIDE DEF s
    <3>6. QED
      BY <3>2, <3>3, <3>5, Zenon
  <2>2. CASE Wait(t) /\ Goto(t, "check")
    <3> DEFINE s == [thread[t] EXCEPT !.pc = "check"]
    <3>1. s \in ThreadState /\ thread' = [thread EXCEPT ![t] = s]
          /\ s.completed = thread[t].completed /\ s.pc = "check"
      BY <1>1, <2>2, Zenon DEF Goto, ThreadState, PC
    <3>2. Weight("check") = 0 /\ Weight(thread[t].pc) \in Nat
      BY Zenon DEF Weight
    <3> HIDE DEF s
    <3>3. /\ s.completed <= completed_value' /\ s.pc # "building"
          /\ Weight(s.pc) <= Weight(thread[t].pc)
      BY <1>1, <1>3, <3>1, <3>2
    <3>4. QED
      BY <3>1, <3>3, Zenon
  <2>3. CASE Wait(t) /\ Set(t, Idle(thread[t].status))
    <3> DEFINE s == Idle(thread[t].status)
    <3>1. thread[t].status \in BOOLEAN
      BY <1>1, Zenon DEF ThreadState
    <3>2. s \in ThreadState /\ thread' = [thread EXCEPT ![t] = s]
          /\ s.completed = 0 /\ s.pc = "idle"
      BY <2>3, <3>1, Zenon DEF Set, Idle, ThreadState, PC, Caller
    <3>3. Weight("idle") = 0 /\ Weight(thread[t].pc) \in Nat
      BY Zenon DEF Weight
    <3> HIDE DEF s
    <3>4. /\ s.completed <= completed_value' /\ s.pc # "building"
          /\ Weight(s.pc) <= Weight(thread[t].pc)
      BY <1>3, <3>2, <3>3
    <3>5. QED
      BY <3>2, <3>4, Zenon
  <2>4. QED
    BY <2>1, <2>2, <2>3, Zenon DEF Wait
<1>5. PICK s \in ThreadState :
        /\ thread' = [thread EXCEPT ![t] = s]
        /\ s.completed <= completed_value'
        /\ Weight(s.pc) <= Weight(thread[t].pc) /\ s.pc # "building"
  BY <1>4, Zenon
<1>6. /\ thread' \in [Threads -> ThreadState]
      /\ \A u \in Threads : thread'[u].completed <= completed_value'
  BY <1>1, <1>3, <1>5, ThreadType, Zenon
<1>7. RingHasRoom'
  <2>1. /\ Held \in Nat /\ Held' \in Nat
        /\ Held' = Held + (Weight(s.pc) - Weight(thread[t].pc))
    BY <1>1, <1>5, HeldStep, Zenon
  <2>2. Weight(s.pc) \in Nat /\ Weight(thread[t].pc) \in Nat
    BY Zenon DEF Weight
  <2>3. current_gpfifo_count \in Nat
    BY PendingIs, Zenon
  <2>4. current_gpfifo_count >= Held'
    BY <1>1, <1>5, <2>1, <2>2, <2>3 DEF RingHasRoom
  <2>5. QED
    BY <1>1, <1>2, <2>4, Zenon DEF RingHasRoom, ring
<1>8. TypeOK' /\ PointersInv' /\ NoEarlyReclaim'
  BY <1>1, <1>2, <1>3, <1>6, Zenon DEF TypeOK, PointersInv, NoEarlyReclaim, ring
<1>9. ValuesInv'
  BY <1>1, <1>2, ValuesSame, Zenon DEF ring
<1>10. SemaphoreInv'
  <2>1. queued_value <= completed_value' + (puts - gets)
    BY <1>1, <1>3, PendingIs, ExtendIs DEF SemaphoreInv
  <2>2. QED
    BY <1>1, <1>2, <1>3, <1>6, <2>1, Zenon DEF SemaphoreInv, ring
<1>11. InfoInv'
  BY <1>1, <1>2, <1>5, InfoSame, Zenon DEF ring
<1>12. QED
  BY <1>7, <1>8, <1>9, <1>10, <1>11, Zenon DEF IInv

-----------------------------------------------------------------------------
(* Reclaiming entries.                                                     *)

(* The slot at gpu_get + i holds the entry number gets + i.                *)
LEMMA NthIs ==
  ASSUME IInv, NEW i \in Nat
  PROVE  FirstEntry(i) = Nth(gets + i)
<1>1. num_gpfifo_entries \in Nat \ {0} /\ gets \in Int /\ i \in Int
  BY PendingIs
<1>2. ((gets % num_gpfifo_entries) + i) % num_gpfifo_entries
        = (gets + i) % num_gpfifo_entries
  BY <1>1, ModStep, Zenon
<1>3. QED
  BY <1>2, Zenon DEF FirstEntry, Nth, IInv, PointersInv

(* The entries of the ring have their type.                                *)
LEMMA NthType ==
  ASSUME IInv, NEW k \in Nat
  PROVE  Nth(k) \in Entry /\ Value(k) \in Nat
<1>1. k % num_gpfifo_entries \in Slots
  <2>1. num_gpfifo_entries \in Nat \ {0} /\ k \in Int
    BY PendingIs
  <2>2. QED
    BY <2>1, ModDef, Zenon DEF Slots
<1>2. QED
  BY <1>1, Zenon DEF IInv, TypeOK, Nth, Value, Entry

(* Where a thread goes on after progress is a thread state that holds no   *)
(* entry.                                                                  *)
LEMMA AfterProgressType ==
  ASSUME NEW s \in ThreadState
  PROVE  /\ AfterProgress(s) \in ThreadState
         /\ AfterProgress(s).completed = 0
         /\ AfterProgress(s).pc \in {"idle", "retry", "wait", "update"}
<1>1. /\ Idle(FALSE) \in ThreadState /\ Idle(FALSE).completed = 0
      /\ Idle(FALSE).pc = "idle"
  BY Zenon DEF Idle, ThreadState, PC, Caller
<1>2. ASSUME NEW to \in {"retry"}
      PROVE  /\ [s EXCEPT !.pc = to, !.completed = 0] \in ThreadState
             /\ [s EXCEPT !.pc = to, !.completed = 0].completed = 0
             /\ [s EXCEPT !.pc = to, !.completed = 0].pc = to
  BY Zenon DEF ThreadState, PC
<1>3. ASSUME NEW to \in {"wait", "update"}
      PROVE  /\ [s EXCEPT !.pc = to, !.status = FALSE, !.completed = 0] \in ThreadState
             /\ [s EXCEPT !.pc = to, !.status = FALSE, !.completed = 0].completed = 0
             /\ [s EXCEPT !.pc = to, !.status = FALSE, !.completed = 0].pc = to
  BY Zenon DEF ThreadState, PC
<1>4. QED
  BY <1>1, <1>2, <1>3, Zenon DEF AfterProgress

(* channel_update_progress_with_max() reclaims only entries the GPU has    *)
(* processed, and preserves the invariant.                                 *)
LEMMA UpdateProgressStep ==
  ASSUME IInv, NEW t \in Threads, NEW n \in 0 .. num_gpfifo_entries - 1,
         UpdateProgress(t, n)
  PROVE  IInv'
<1> DEFINE s == AfterProgress(thread[t])
<1>1. /\ TypeOK /\ PointersInv /\ NoEarlyReclaim /\ RingHasRoom
      /\ ValuesInv /\ SemaphoreInv /\ InfoInv
      /\ thread \in [Threads -> ThreadState] /\ thread[t] \in ThreadState
      /\ completed_value \in Nat /\ thread[t].completed <= completed_value
      /\ thread[t].completed \in Nat /\ released \in Nat
      /\ completed_value <= released /\ released <= queued_value
      /\ queued_value \in Nat
  BY Zenon DEF IInv, TypeOK, SemaphoreInv, ThreadState
<1>2. /\ UNCHANGED <<cpu_put, current_gpfifo_count, gpfifo_entries, queued_value,
                     puts, payload, hw_get, done, released, completed_value,
                     channel_error>>
      /\ gpu_get' = (gpu_get + n) % num_gpfifo_entries
      /\ gets' = gets + n
      /\ thread' = [thread EXCEPT ![t] = s]
      /\ thread[t].pc \in {"progress", "progress_all"}
      /\ fatal_error' \in BOOLEAN
      /\ n <= Limit(thread[t].pc)
      /\ \A i \in 0 .. n - 1 :
           FirstEntry(i).tracking_semaphore_value <= thread[t].completed
  BY Zenon DEF UpdateProgress, Completable, Set, gpu
<1>3. /\ s \in ThreadState /\ s.completed = 0
      /\ s.pc \in {"idle", "retry", "wait", "update"}
  BY <1>1, AfterProgressType, Zenon
<1> HIDE DEF s
<1>4. /\ n \in Nat /\ gets \in Nat /\ puts \in Nat /\ done \in Nat
      /\ num_gpfifo_entries \in Nat \ {0}
      /\ n <= puts - gets
  <2>1. Limit(thread[t].pc) <= pending
    BY PendingIs, ChannelAssumption DEF Limit
  <2>2. PROGRESS_COUNT \in Nat /\ Limit(thread[t].pc) \in Int
    BY PendingIs, ChannelAssumption DEF Limit
  <2>3. done \in Nat
    BY <1>1, Zenon DEF TypeOK
  <2>4. QED
    BY <1>2, <2>1, <2>2, <2>3, PendingIs
<1>5. n > 0 => Value(gets + (n - 1)) <= completed_value
  <2>1. SUFFICES ASSUME n > 0 PROVE Value(gets + (n - 1)) <= completed_value
    BY Zenon
  <2>2. n - 1 \in Nat /\ n - 1 \in 0 .. n - 1 /\ gets + (n - 1) \in Nat
    BY <1>4, <2>1
  <2>3. FirstEntry(n - 1) = Nth(gets + (n - 1))
    BY <2>2, NthIs, Zenon
  <2>4. Value(gets + (n - 1)) <= thread[t].completed
    BY <1>2, <2>2, <2>3, Zenon DEF Value
  <2>5. Value(gets + (n - 1)) \in Nat
    BY <2>2, NthType, Zenon
  <2>6. QED
    BY <1>1, <2>4, <2>5
<1>6. NoEarlyReclaim'
  <2>1. CASE n = 0
    BY <1>1, <1>2, <1>4, <2>1 DEF NoEarlyReclaim
  <2>2. CASE n > 0
    <3> DEFINE k == gets + (n - 1)
    <3>1. k \in gets .. puts - 1 /\ k \in Nat
      BY <1>4, <2>2
    <3>2. Value(k) \in Nat
      BY <3>1, NthType, Zenon
    <3>3. done <= k => released < Value(k)
      BY <1>1, <3>1, Zenon DEF ValuesInv
    <3>4. ~(done <= k)
      BY <1>1, <1>5, <2>2, <3>2, <3>3
    <3>5. QED
      BY <1>1, <1>2, <1>4, <3>4 DEF NoEarlyReclaim
  <2>3. QED
    BY <1>4, <2>1, <2>2
<1>7. queued_value <= completed_value + (puts - (gets + n))
  <2>1. CASE n = 0
    BY <1>1, <1>4, <2>1 DEF SemaphoreInv
  <2>2. CASE n > 0
    <3> DEFINE k == gets + (n - 1)
    <3>1. k \in gets .. puts - 1 /\ k \in Nat
      BY <1>4, <2>2
    <3>2. Value(k) \in Nat
      BY <3>1, NthType, Zenon
    <3>3. queued_value <= Value(k) + (puts - (k + 1))
      BY <1>1, <3>1, Zenon DEF ValuesInv
    <3>4. Value(k) <= completed_value
      BY <1>5, <2>2, Zenon
    <3>5. QED
      BY <1>1, <1>4, <3>2, <3>3, <3>4
  <2>3. QED
    BY <1>4, <2>1, <2>2
<1>8. PointersInv' /\ gpu_get' \in Slots
  <2>1. gets \in Int /\ n \in Int /\ gets + n \in Int
    BY <1>4
  <2>2. ((gets % num_gpfifo_entries) + n) % num_gpfifo_entries
          = (gets + n) % num_gpfifo_entries
    BY <1>4, <2>1, ModStep, Zenon
  <2>3. (gets + n) % num_gpfifo_entries \in Slots
    BY <1>4, <2>1, ModDef, Zenon DEF Slots
  <2>4. QED
    BY <1>1, <1>2, <2>2, <2>3, Zenon DEF PointersInv
<1>9. /\ thread' \in [Threads -> ThreadState]
      /\ \A u \in Threads : thread'[u].completed <= completed_value'
  <2>1. completed_value' \in Nat /\ completed_value <= completed_value'
        /\ s.completed <= completed_value'
    BY <1>1, <1>2, <1>3
  <2>2. QED
    BY <1>1, <1>2, <1>3, <2>1, ThreadType, Zenon
<1>10. RingHasRoom'
  <2>1. /\ Held \in Nat /\ Held' \in Nat
        /\ Held' = Held + (Weight(s.pc) - Weight(thread[t].pc))
    BY <1>1, <1>2, <1>3, HeldStep, Zenon
  <2>2. Weight(s.pc) = 0 /\ Weight(thread[t].pc) = 0
    BY <1>2, <1>3, Zenon DEF Weight
  <2>3. Held' = Held
    BY <2>1, <2>2
  <2>4. (puts - (gets + n)) + current_gpfifo_count <= num_gpfifo_entries - 1
    BY <1>1, <1>4, PendingIs DEF RingHasRoom
  <2>5. QED
    BY <1>1, <1>2, <2>3, <2>4, Zenon DEF RingHasRoom
<1>11. available_push_infos' \in Seq(PushInfos)
  <2> DEFINE normal == {i \in 0 .. n - 1 : FirstEntry(i).type = "NORMAL"}
             card == Cardinality(normal)
  <2>1. ASSUME NEW i \in 0 .. n - 1, FirstEntry(i).type = "NORMAL"
        PROVE  FirstEntry(i).push_info \in PushInfos
    <3>1. i \in Nat /\ gets + i \in gets .. puts - 1
      BY <1>4
    <3>2. FirstEntry(i) = Nth(gets + i)
      BY <3>1, NthIs, Zenon
    <3>3. QED
      BY <1>1, <2>1, <3>1, <3>2, Zenon DEF InfoInv
  <2>2. PICK f \in [1 .. card -> normal] :
          available_push_infos' = available_push_infos \o
            [j \in 1 .. card |-> FirstEntry(f[j]).push_info]
    BY Zenon DEF UpdateProgress
  <2>3. card \in Nat
    <3>1. IsFiniteSet(0 .. n - 1)
      BY <1>4, FS_Interval
    <3>2. IsFiniteSet(normal)
      BY <3>1, FS_Subset, Zenon
    <3>3. QED
      BY <3>2, FS_CardinalityType, Zenon
  <2>4. \A j \in 1 .. card : FirstEntry(f[j]).push_info \in PushInfos
    <3>1. \A i \in normal : FirstEntry(i).push_info \in PushInfos
      BY <2>1, Zenon
    <3> HIDE DEF normal, card
    <3>2. QED
      BY <2>2, <3>1, Zenon
  <2> HIDE DEF normal, card
  <2>5. [j \in 1 .. card |-> FirstEntry(f[j]).push_info] \in Seq(PushInfos)
    BY <2>3, <2>4
  <2>6. available_push_infos \in Seq(PushInfos)
    BY <1>1, Zenon DEF TypeOK
  <2> DEFINE g == [j \in 1 .. card |-> FirstEntry(f[j]).push_info]
  <2>7. g \in Seq(PushInfos) /\ available_push_infos' = available_push_infos \o g
    BY <2>2, <2>5, Zenon
  <2> HIDE DEF g
  <2>8. QED
    BY <2>6, <2>7
<1>12. TypeOK'
  <2>1. gets' \in Nat
    BY <1>2, <1>4
  <2>2. QED
    <3>1. /\ queued_value' \in Nat /\ completed_value' \in Nat
          /\ released' \in Nat /\ puts' \in Nat /\ done' \in Nat
          /\ payload' \in 0 .. PAYLOADS - 1
          /\ channel_error' \in BOOLEAN /\ fatal_error' \in BOOLEAN
      BY <1>1, <1>2, <1>9, Zenon DEF TypeOK
    <3>2. /\ gpu_get' \in Slots /\ cpu_put' \in Slots /\ hw_get' \in Slots
          /\ current_gpfifo_count' \in Slots
          /\ gpfifo_entries' \in [Slots -> Entry]
      BY <1>1, <1>2, <1>8, Zenon DEF TypeOK
    <3>3. thread' \in [Threads -> ThreadState]
      BY <1>9, Zenon
    <3>4. QED
      BY <1>11, <2>1, <3>1, <3>2, <3>3, Zenon DEF TypeOK
<1>13. \A k \in gets' .. puts' - 1 : k \in gets .. puts - 1 /\ Nth(k)' = Nth(k)
  BY <1>2, <1>4 DEF Nth
<1>14. ValuesInv'
  BY <1>1, <1>2, <1>13 DEF ValuesInv, Value
<1>15. SemaphoreInv'
  BY <1>1, <1>2, <1>7, <1>9, Zenon DEF SemaphoreInv
<1>16. InfoInv'
  <2>1. ASSUME NEW u \in Threads, thread'[u].pc = "building"
        PROVE  thread'[u].push_info \in PushInfos
    BY <1>1, <1>2, <1>3, <2>1, Zenon DEF InfoInv
  <2>2. QED
    BY <1>1, <1>13, <2>1, Zenon DEF InfoInv
<1>17. QED
  BY <1>6, <1>8, <1>10, <1>12, <1>14, <1>15, <1>16, Zenon DEF IInv

-----------------------------------------------------------------------------
(* Submitting an entry, and the GPU processing it.                         *)

(* An entry submitted at cpu_put takes a free slot and continues the order *)
(* of the values.                                                          *)
LEMMA SubmitStep ==
  ASSUME IInv, NEW t \in Threads, NEW s \in ThreadState, NEW e \in Entry,
         Submit(e), thread' = [thread EXCEPT ![t] = s],
         UNCHANGED <<gpu_get, available_push_infos, gets, gpu, completed_value,
                     fatal_error>>,
         s.completed <= completed_value, s.pc # "building",
         Weight(s.pc) = Weight(thread[t].pc) - 1,
         e.tracking_semaphore_value = queued_value + 1,
         queued_value' \in {queued_value, queued_value + 1},
         e.type = "NORMAL" => /\ queued_value' = queued_value + 1
                              /\ e.push_info \in PushInfos
  PROVE  IInv'
<1>1. /\ TypeOK /\ PointersInv /\ NoEarlyReclaim /\ RingHasRoom
      /\ ValuesInv /\ SemaphoreInv /\ InfoInv
      /\ thread \in [Threads -> ThreadState] /\ thread[t] \in ThreadState
      /\ completed_value \in Nat /\ released \in Nat /\ queued_value \in Nat
      /\ completed_value <= released /\ released <= queued_value
      /\ queued_value <= completed_value + (puts - gets)
      /\ done \in Nat /\ gets <= done /\ done <= puts
  BY Zenon DEF IInv, TypeOK, SemaphoreInv, NoEarlyReclaim
<1>2. /\ gets \in Nat /\ puts \in Nat /\ num_gpfifo_entries \in Nat \ {0}
      /\ current_gpfifo_count \in Nat /\ puts - gets <= num_gpfifo_entries - 1
      /\ gets <= puts
  BY PendingIs, Zenon
<1>3. /\ gpfifo_entries' = [gpfifo_entries EXCEPT ![cpu_put] = e]
      /\ current_gpfifo_count' = current_gpfifo_count - 1
      /\ cpu_put' = (cpu_put + 1) % num_gpfifo_entries
      /\ puts' = puts + 1
      /\ UNCHANGED <<gpu_get, available_push_infos, gets, payload, hw_get, done,
                     released, channel_error, completed_value, fatal_error>>
  BY Zenon DEF Submit, Next_, gpu
<1>4. /\ thread' \in [Threads -> ThreadState]
      /\ \A u \in Threads : thread'[u].completed <= completed_value'
  <2>1. completed_value' \in Nat /\ completed_value <= completed_value'
        /\ s.completed <= completed_value'
    BY <1>1, <1>3
  <2>2. QED
    BY <1>1, <2>1, ThreadType, Zenon
<1>5. RingHasRoom' /\ current_gpfifo_count' \in Slots
  <2>1. /\ Held \in Nat /\ Held' \in Nat
        /\ Held' = Held + (Weight(s.pc) - Weight(thread[t].pc))
    BY <1>1, HeldStep, Zenon
  <2>2. Weight(thread[t].pc) \in Nat
    BY Zenon DEF Weight
  <2>3. Held' = Held - 1
    BY <2>1, <2>2
  <2>4. current_gpfifo_count' >= Held'
    BY <1>1, <1>2, <1>3, <2>1, <2>3 DEF RingHasRoom
  <2>5. /\ (puts' - gets') + current_gpfifo_count' <= num_gpfifo_entries - 1
        /\ current_gpfifo_count' \in Slots
    <3>1. (puts - gets) + current_gpfifo_count <= num_gpfifo_entries - 1
      BY <1>1, Zenon DEF RingHasRoom
    <3>2. puts' = puts + 1 /\ gets' = gets
          /\ current_gpfifo_count' = current_gpfifo_count - 1
      BY <1>3, Zenon
    <3>3. current_gpfifo_count' \in Nat
      BY <1>2, <2>1, <2>4, <3>2
    <3>4. QED
      BY <1>2, <3>1, <3>2, <3>3 DEF Slots
  <2>6. QED
    BY <2>4, <2>5, Zenon DEF RingHasRoom
<1>6. PointersInv' /\ cpu_put' \in Slots
  <2>1. puts \in Int /\ 1 \in Int /\ puts + 1 \in Int
    BY <1>2
  <2>2. ((puts % num_gpfifo_entries) + 1) % num_gpfifo_entries
          = (puts + 1) % num_gpfifo_entries
    BY <1>2, <2>1, ModStep, Zenon
  <2>3. (puts + 1) % num_gpfifo_entries \in Slots
    BY <1>2, <2>1, ModDef, Zenon DEF Slots
  <2>4. QED
    BY <1>1, <1>3, <2>2, <2>3, Zenon DEF PointersInv
<1>7. /\ cpu_put \in Slots /\ cpu_put = puts % num_gpfifo_entries
      /\ gpfifo_entries \in [Slots -> Entry]
  BY <1>1, Zenon DEF TypeOK, PointersInv
<1>8. gpfifo_entries' \in [Slots -> Entry]
  BY <1>3, <1>7, Zenon
<1>9. TypeOK'
  <2>1. puts' \in Nat /\ queued_value' \in Nat
    BY <1>1, <1>2, <1>3
  <2>2. QED
    BY <1>1, <1>3, <1>4, <1>5, <1>6, <1>8, <2>1, Zenon DEF TypeOK
<1>10. NoEarlyReclaim'
  BY <1>1, <1>2, <1>3 DEF NoEarlyReclaim
<1>11. ASSUME NEW k, k = puts
       PROVE  Nth(k)' = e /\ Value(k)' = queued_value + 1
  <2>1. gpfifo_entries'[k % num_gpfifo_entries] = e
    BY <1>3, <1>7, <1>11, Zenon
  <2>2. QED
    BY <2>1, Zenon DEF Nth, Value
<1>12. ASSUME NEW k \in gets .. puts - 1
       PROVE  /\ Nth(k)' = Nth(k) /\ Value(k)' = Value(k)
              /\ Value(k) \in Nat /\ k \in Nat /\ k < puts
  <2>1. k \in Int /\ k \in Nat /\ puts \in Int /\ k < puts
        /\ puts < k + num_gpfifo_entries
    BY <1>2
  <2>2. k % num_gpfifo_entries # puts % num_gpfifo_entries
    BY <1>2, <2>1, ModInj, Zenon
  <2>3. k % num_gpfifo_entries \in Slots
    BY <1>2, <2>1, ModDef, Zenon DEF Slots
  <2>4. gpfifo_entries'[k % num_gpfifo_entries] = gpfifo_entries[k % num_gpfifo_entries]
    BY <1>3, <1>7, <2>2, <2>3, Zenon
  <2>5. QED
    BY <2>1, <2>4, NthType, Zenon DEF Nth, Value
<1>13. \A k \in gets' .. puts' - 1 : k = puts \/ k \in gets .. puts - 1
  BY <1>2, <1>3
<1>14. ValuesInv'
  <2>1. ASSUME NEW k \in gets .. puts - 1
        PROVE  /\ Nth(k).type = "NORMAL" => Value(k) <= queued_value'
               /\ queued_value' <= Value(k) + (puts' - (k + 1))
               /\ done' <= k => released' < Value(k)
    <3>1. /\ Nth(k).type = "NORMAL" => Value(k) <= queued_value
          /\ queued_value <= Value(k) + (puts - (k + 1))
          /\ done <= k => released < Value(k)
      BY <1>1, <2>1, Zenon DEF ValuesInv
    <3>2. Value(k) \in Nat /\ k \in Nat /\ k < puts
      BY <1>12, <2>1, Zenon
    <3>3. queued_value' \in Nat /\ queued_value <= queued_value'
          /\ queued_value' <= queued_value + 1
      BY <1>1
    <3>4. QED
      <4>1. Nth(k).type = "NORMAL" => Value(k) <= queued_value'
        BY <1>1, <3>1, <3>2, <3>3
      <4>2. queued_value' <= Value(k) + (puts' - (k + 1))
        <5>1. puts' = puts + 1
          BY <1>3, Zenon
        <5>2. QED
          BY <1>1, <1>2, <3>1, <3>2, <3>3, <5>1
      <4>3. done' <= k => released' < Value(k)
        BY <1>3, <3>1, Zenon
      <4>4. QED
        BY <4>1, <4>2, <4>3, Zenon
  <2>2. /\ e.type = "NORMAL" => queued_value + 1 <= queued_value'
        /\ queued_value' <= (queued_value + 1) + (puts' - (puts + 1))
        /\ released' < queued_value + 1
    BY <1>1, <1>2, <1>3
  <2>3. ASSUME NEW k \in gets' .. puts' - 1
        PROVE  /\ Nth(k)'.type = "NORMAL" => Value(k)' <= queued_value'
               /\ queued_value' <= Value(k)' + (puts' - (k + 1))
               /\ done' <= k => released' < Value(k)'
    <3>1. CASE k = puts
      BY <1>11, <2>2, <3>1, Zenon
    <3>2. CASE k \in gets .. puts - 1
      BY <1>12, <2>1, <3>2, Zenon
    <3>3. QED
      BY <1>13, <3>1, <3>2, Zenon
  <2>4. ASSUME NEW k \in gets' .. puts' - 1, NEW l \in gets' .. puts' - 1,
               k < l, Nth(k)'.type = "NORMAL"
        PROVE  Value(k)' < Value(l)'
    <3>1. k \in gets .. puts - 1
      BY <1>2, <1>3, <2>4
    <3>2. Nth(k)' = Nth(k) /\ Value(k)' = Value(k) /\ Value(k) \in Nat
      BY <1>12, <3>1, Zenon
    <3>3. CASE l = puts
      <4>1. Value(k) <= queued_value
        BY <1>1, <2>4, <3>1, <3>2, Zenon DEF ValuesInv
      <4>2. QED
        BY <1>1, <1>11, <3>2, <3>3, <4>1
    <3>4. CASE l \in gets .. puts - 1
      BY <1>1, <1>12, <2>4, <3>1, <3>2, <3>4, Zenon DEF ValuesInv
    <3>5. QED
      BY <1>13, <3>3, <3>4, Zenon
  <2>5. QED
    BY <2>3, <2>4, Zenon DEF ValuesInv
<1>15. SemaphoreInv'
  <2>1. /\ released' <= queued_value' /\ completed_value' <= released'
        /\ queued_value' <= completed_value' + (puts' - gets')
    <3>1. puts' = puts + 1 /\ gets' = gets /\ released' = released
          /\ completed_value' = completed_value
      BY <1>3, Zenon
    <3>2. queued_value' \in Nat /\ queued_value <= queued_value'
          /\ queued_value' <= queued_value + 1
      BY <1>1
    <3>3. released' <= queued_value' /\ completed_value' <= released'
      BY <1>1, <3>1, <3>2
    <3>4. queued_value' <= completed_value' + (puts' - gets')
      BY <1>1, <1>2, <3>1, <3>2
    <3>5. QED
      BY <3>3, <3>4, Zenon
  <2>2. payload' = released' % PAYLOADS
    BY <1>1, <1>3, Zenon DEF SemaphoreInv
  <2>3. QED
    BY <1>4, <2>1, <2>2, Zenon DEF SemaphoreInv
<1>16. InfoInv'
  <2>1. ASSUME NEW u \in Threads, thread'[u].pc = "building"
        PROVE  thread'[u].push_info \in PushInfos
    BY <1>1, <2>1, Zenon DEF InfoInv
  <2>2. ASSUME NEW k \in gets' .. puts' - 1, Nth(k)'.type = "NORMAL"
        PROVE  Nth(k)'.push_info \in PushInfos
    BY <1>1, <1>11, <1>12, <1>13, <2>2, Zenon DEF InfoInv
  <2>3. QED
    BY <2>1, <2>2, Zenon DEF InfoInv
<1>17. QED
  BY <1>5, <1>6, <1>9, <1>10, <1>14, <1>15, <1>16, Zenon DEF IInv

(* uvm_channel_end_push() and write_ctrl_gpfifo() preserve the invariant.  *)
LEMMA PushStep ==
  ASSUME IInv, NEW t \in Threads, EndPush(t) \/ WriteCtrl(t)
  PROVE  IInv'
<1>1. /\ thread[t] \in ThreadState /\ completed_value \in Nat
      /\ thread[t].completed <= completed_value /\ queued_value \in Nat
      /\ thread[t].pc = "building" => thread[t].push_info \in PushInfos
      /\ queued_value + 1 \in Nat
  <2>1. TypeOK /\ SemaphoreInv /\ InfoInv
    BY Zenon DEF IInv
  <2>2. /\ thread \in [Threads -> ThreadState]
        /\ completed_value \in Nat /\ queued_value \in Nat
    BY <2>1, Zenon DEF TypeOK
  <2>3. thread[t] \in ThreadState /\ queued_value + 1 \in Nat
    BY <2>2
  <2>4. thread[t].completed <= completed_value
    BY <2>1, Zenon DEF SemaphoreInv
  <2>5. thread[t].pc = "building" => thread[t].push_info \in PushInfos
    BY <2>1, Zenon DEF InfoInv
  <2>6. QED
    BY <2>2, <2>3, <2>4, <2>5, Zenon
<1>2. CASE EndPush(t)
  <2> DEFINE e == [type |-> "NORMAL",
                   tracking_semaphore_value |-> queued_value + 1,
                   push_info |-> thread[t].push_info]
             s == [thread[t] EXCEPT !.pc = "wait", !.caller = "wait",
                                    !.push_info = NO_PUSH_INFO, !.status = TRUE,
                                    !.value = queued_value + 1]
  <2>1. /\ e \in Entry /\ e.tracking_semaphore_value = queued_value + 1
        /\ e.push_info \in PushInfos
    BY <1>1, <1>2, Zenon DEF EndPush, Entry
  <2>2. s \in ThreadState
    BY <1>1, Zenon DEF ThreadState, PC, Caller
  <2>3. /\ s.completed <= completed_value /\ s.pc = "wait"
        /\ Weight("wait") = 0 /\ Weight(thread[t].pc) = 1
    BY <1>1, <1>2, Zenon DEF EndPush, ThreadState, Weight
  <2>4. /\ Submit(e) /\ thread' = [thread EXCEPT ![t] = s]
        /\ queued_value' = queued_value + 1
        /\ UNCHANGED <<gpu_get, available_push_infos, gets, gpu, completed_value,
                       fatal_error>>
    BY <1>2, Zenon DEF EndPush, Set
  <2>5. Weight(s.pc) = Weight(thread[t].pc) - 1 /\ s.pc # "building"
    BY <2>3
  <2> HIDE DEF e, s
  <2>6. QED
    BY <2>1, <2>2, <2>3, <2>4, <2>5, SubmitStep, Zenon
<1>3. CASE WriteCtrl(t)
  <2> DEFINE e == [type |-> "CONTROL",
                   tracking_semaphore_value |-> queued_value + 1,
                   push_info |-> NO_PUSH_INFO]
             s == [thread[t] EXCEPT !.pc = "begin", !.caller = "begin"]
  <2>1. /\ e \in Entry /\ e.tracking_semaphore_value = queued_value + 1
        /\ e.type # "NORMAL"
    BY <1>1, Zenon DEF Entry
  <2>2. s \in ThreadState
    BY <1>1, Zenon DEF ThreadState, PC, Caller
  <2>3. /\ s.completed <= completed_value /\ s.pc = "begin"
        /\ Weight("begin") = 1 /\ Weight(thread[t].pc) = 2
    BY <1>1, <1>3, Zenon DEF WriteCtrl, ThreadState, Weight
  <2>4. /\ Submit(e) /\ thread' = [thread EXCEPT ![t] = s]
        /\ queued_value' = queued_value
        /\ UNCHANGED <<gpu_get, available_push_infos, gets, gpu, completed_value,
                       fatal_error>>
    BY <1>3, Zenon DEF WriteCtrl, Set
  <2>5. Weight(s.pc) = Weight(thread[t].pc) - 1 /\ s.pc # "building"
    BY <2>3
  <2> HIDE DEF e, s
  <2>6. QED
    BY <2>1, <2>2, <2>3, <2>4, <2>5, SubmitStep, Zenon
<1>4. QED
  BY <1>2, <1>3, Zenon

(* uvm_channel_begin_push(), successful or not, preserves the invariant.   *)
LEMMA BeginPushStep ==
  ASSUME IInv, NEW t \in Threads, BeginPush(t)
  PROVE  IInv'
<1>1. /\ TypeOK /\ PointersInv /\ NoEarlyReclaim /\ RingHasRoom
      /\ ValuesInv /\ SemaphoreInv /\ InfoInv
      /\ thread \in [Threads -> ThreadState] /\ thread[t] \in ThreadState
      /\ completed_value \in Nat /\ thread[t].completed <= completed_value
      /\ available_push_infos \in Seq(PushInfos)
  BY Zenon DEF IInv, TypeOK, SemaphoreInv
<1> DEFINE i == Head(available_push_infos)
<1>2. /\ available_push_infos # <<>>
      /\ available_push_infos' = Tail(available_push_infos)
      /\ Set(t, [thread[t] EXCEPT !.pc = "building", !.caller = "none",
                                  !.push_info = i])
  BY Zenon DEF BeginPush
<1>0. i \in PushInfos
  BY <1>1, <1>2
<1> HIDE DEF i
<1> DEFINE s == [thread[t] EXCEPT !.pc = "building", !.caller = "none",
                                  !.push_info = i]
<1>3. /\ thread[t].pc = "begin"
      /\ UNCHANGED <<gpu_get, cpu_put, current_gpfifo_count, gpfifo_entries,
                     queued_value, gets, puts, payload, hw_get, done, released,
                     channel_error, completed_value, fatal_error>>
  BY Zenon DEF BeginPush, gpu
<1>4. s \in ThreadState /\ thread' = [thread EXCEPT ![t] = s] /\ i \in PushInfos
  BY <1>0, <1>1, <1>2, Zenon DEF Set, ThreadState, PC, Caller
<1>5. /\ s.pc = "building" /\ s.push_info = i
      /\ s.completed = thread[t].completed
  BY <1>1, Zenon DEF ThreadState
<1> HIDE DEF s
<1>6. /\ thread' \in [Threads -> ThreadState]
      /\ \A u \in Threads : thread'[u].completed <= completed_value'
  <2>1. completed_value' \in Nat /\ completed_value <= completed_value'
        /\ s.completed <= completed_value'
    BY <1>1, <1>3, <1>5
  <2>2. QED
    BY <1>1, <1>4, <2>1, ThreadType, Zenon
<1>7. RingHasRoom'
  <2>1. /\ Held \in Nat /\ Held' \in Nat
        /\ Held' = Held + (Weight(s.pc) - Weight(thread[t].pc))
    BY <1>1, <1>4, HeldStep, Zenon
  <2>2. Weight(s.pc) = 1 /\ Weight(thread[t].pc) = 1
    BY <1>3, <1>5, Zenon DEF Weight
  <2>3. Held' = Held
    BY <2>1, <2>2
  <2>4. UNCHANGED <<puts, gets, current_gpfifo_count>>
    BY <1>3, Zenon
  <2>5. QED
    BY <1>1, <2>3, <2>4, Zenon DEF RingHasRoom
<1>8. available_push_infos' \in Seq(PushInfos)
  BY <1>1, <1>2
<1>9. TypeOK' /\ PointersInv' /\ NoEarlyReclaim'
  BY <1>1, <1>3, <1>6, <1>8, Zenon DEF TypeOK, PointersInv, NoEarlyReclaim
<1>10. ValuesInv'
  BY <1>1, <1>3, ValuesSame, Zenon
<1>11. SemaphoreInv'
  BY <1>1, <1>3, <1>6, Zenon DEF SemaphoreInv
<1>12. InfoInv'
  <2>1. ASSUME NEW u \in Threads, thread'[u].pc = "building"
        PROVE  thread'[u].push_info \in PushInfos
    BY <1>1, <1>4, <1>5, <2>1, Zenon DEF InfoInv
  <2>2. QED
    BY <1>1, <1>3, <2>1, Zenon DEF InfoInv, Nth
<1>13. QED
  BY <1>7, <1>9, <1>10, <1>11, <1>12, Zenon DEF IInv

(* The GPU processing an entry preserves the invariant.                    *)
LEMMA GpuStep ==
  ASSUME IInv, GpuProcess
  PROVE  IInv'
<1>1. /\ TypeOK /\ PointersInv /\ NoEarlyReclaim /\ RingHasRoom
      /\ ValuesInv /\ SemaphoreInv /\ InfoInv
      /\ completed_value \in Nat /\ released \in Nat /\ queued_value \in Nat
      /\ completed_value <= released /\ released <= queued_value
      /\ done \in Nat /\ gets <= done /\ done <= puts
      /\ PAYLOADS \in Nat \ {0}
  BY ChannelAssumption DEF IInv, TypeOK, SemaphoreInv, NoEarlyReclaim
<1>2. /\ gets \in Nat /\ puts \in Nat /\ num_gpfifo_entries \in Nat \ {0}
  BY PendingIs, Zenon
<1>3. /\ hw_get' = (hw_get + 1) % num_gpfifo_entries
      /\ done' = done + 1
      /\ hw_get # cpu_put
      /\ UNCHANGED <<ring, completed_value, thread, channel_error, fatal_error>>
  BY Zenon DEF GpuProcess, Next_
<1>4. done < puts
  <2>1. done # puts
    BY <1>1, <1>3, Zenon DEF PointersInv
  <2>2. QED
    BY <1>1, <1>2, <2>1
<1>5. NoEarlyReclaim'
  BY <1>1, <1>2, <1>3, <1>4 DEF NoEarlyReclaim, ring
<1>6. PointersInv' /\ hw_get' \in Slots
  <2>1. done \in Int /\ 1 \in Int /\ done + 1 \in Int
    BY <1>1
  <2>2. ((done % num_gpfifo_entries) + 1) % num_gpfifo_entries
          = (done + 1) % num_gpfifo_entries
    BY <1>2, <2>1, ModStep, Zenon
  <2>3. (done + 1) % num_gpfifo_entries \in Slots
    BY <1>2, <2>1, ModDef, Zenon DEF Slots
  <2>4. QED
    BY <1>1, <1>3, <2>2, <2>3, Zenon DEF PointersInv, ring
<1>7. PICK d \in Nat : d = done
  BY <1>1, Zenon
<1>8. /\ d \in gets .. puts - 1 /\ Nth(d) \in Entry /\ Value(d) \in Nat
      /\ gpfifo_entries[hw_get] = Nth(d)
  <2>1. d \in gets .. puts - 1
    BY <1>1, <1>2, <1>4, <1>7
  <2>2. gpfifo_entries[hw_get] = Nth(d)
    BY <1>1, <1>7, Zenon DEF PointersInv, Nth
  <2>3. QED
    BY <1>7, <2>1, <2>2, NthType, Zenon
<1>9. /\ Nth(d).type = "NORMAL" =>
           payload' = Value(d) % PAYLOADS /\ released' = Value(d)
      /\ Nth(d).type # "NORMAL" => payload' = payload /\ released' = released
  BY <1>8, Zenon DEF GpuProcess, Value
<1>10. /\ Nth(d).type = "NORMAL" => Value(d) <= queued_value
       /\ released < Value(d)
  BY <1>1, <1>7, <1>8 DEF ValuesInv
<1>11. /\ released' \in Nat /\ released <= released' /\ released' <= queued_value
       /\ payload' = released' % PAYLOADS
  <2>1. payload = released % PAYLOADS
    BY <1>1, Zenon DEF SemaphoreInv
  <2>2. CASE Nth(d).type = "NORMAL"
    <3>1. payload' = Value(d) % PAYLOADS /\ released' = Value(d)
      BY <1>9, <2>2, Zenon
    <3>2. Value(d) <= queued_value /\ released < Value(d) /\ Value(d) \in Nat
      BY <1>8, <1>10, <2>2, Zenon
    <3>3. released \in Nat /\ queued_value \in Nat
      BY <1>1, Zenon
    <3>4. QED
      BY <3>1, <3>2, <3>3
  <2>3. CASE Nth(d).type # "NORMAL"
    BY <1>1, <1>9, <2>1, <2>3
  <2>4. QED
    BY <2>2, <2>3, Zenon
<1>12. payload' \in 0 .. PAYLOADS - 1
  <2>1. released' \in Int
    BY <1>11
  <2>2. released' % PAYLOADS \in 0 .. PAYLOADS - 1
    BY <1>1, <2>1, ModDef, Zenon
  <2>3. QED
    BY <1>11, <2>2, Zenon
<1>13. TypeOK'
  <2>1. done' \in Nat
    BY <1>1, <1>3
  <2>2. QED
    BY <1>1, <1>3, <1>6, <1>11, <1>12, <2>1, Zenon DEF TypeOK, ring
<1>14. RingHasRoom'
  BY <1>1, <1>3, Zenon DEF RingHasRoom, Held, Holders, CtrlHolders, ring
<1>15. ValuesInv'
  <2>1. ASSUME NEW k \in gets .. puts - 1, done' <= k
        PROVE  released' < Value(k)
    <3>1. k \in Nat /\ d < k /\ done <= k
      BY <1>1, <1>2, <1>3, <1>7, <2>1
    <3>2. CASE Nth(d).type = "NORMAL"
      BY <1>1, <1>8, <1>9, <2>1, <3>1, <3>2, Zenon DEF ValuesInv
    <3>3. CASE Nth(d).type # "NORMAL"
      BY <1>1, <1>9, <2>1, <3>1, <3>3, Zenon DEF ValuesInv
    <3>4. QED
      BY <3>2, <3>3, Zenon
  <2>2. \A k : Nth(k)' = Nth(k) /\ Value(k)' = Value(k)
    BY <1>3, Zenon DEF Nth, Value, ring
  <2>3. gets' = gets /\ puts' = puts /\ queued_value' = queued_value
    BY <1>3, Zenon DEF ring
  <2>4. QED
    BY <1>1, <2>1, <2>2, <2>3, Zenon DEF ValuesInv
<1>16. SemaphoreInv'
  <2>1. completed_value' <= released' /\ released' <= queued_value'
    BY <1>1, <1>3, <1>11 DEF ring
  <2>2. QED
    BY <1>1, <1>3, <1>11, <2>1, Zenon DEF SemaphoreInv, ring
<1>17. InfoInv'
  BY <1>1, <1>3, Zenon DEF InfoInv, Nth, ring
<1>18. QED
  BY <1>5, <1>6, <1>13, <1>14, <1>15, <1>16, <1>17, Zenon DEF IInv

-----------------------------------------------------------------------------
(* The theorems.                                                           *)

(* Every step of the channel preserves the invariant.                      *)
LEMMA NextIInv == IInv /\ [Next]_vars => IInv'
<1> SUFFICES ASSUME IInv, [Next]_vars PROVE IInv'
  BY Zenon
<1>1. ASSUME NEW t \in Threads, ThreadStep(t) PROVE IInv'
  <2>1. CASE Claim(t)
    BY <2>1, ClaimStep, Zenon
  <2>2. CASE NoEntry(t) \/ CheckErrors(t) \/ BeginPushFails(t)
    BY <2>2, LocalStep, Zenon
  <2>3. CASE UpdateCompleted(t) \/ Wait(t)
    BY <2>3, CompletedStep, Zenon
  <2>4. CASE \E n \in 0 .. num_gpfifo_entries - 1 : UpdateProgress(t, n)
    BY <2>4, UpdateProgressStep, Zenon
  <2>5. CASE BeginPush(t)
    BY <2>5, BeginPushStep, Zenon
  <2>6. CASE EndPush(t) \/ WriteCtrl(t)
    BY <2>6, PushStep, Zenon
  <2>7. QED
    BY <1>1, <2>1, <2>2, <2>3, <2>4, <2>5, <2>6, Zenon DEF ThreadStep
<1>2. ASSUME NEW t \in Threads,
             \/ StartUpdate(t) \/ DontWait(t)
             \/ \E caller \in {"pool", "channel", "ctrl"} : StartReserve(t, caller)
      PROVE  IInv'
  BY <1>2, LocalStep, Zenon
<1>3. CASE GpuProcess
  BY <1>3, GpuStep, Zenon
<1>4. CASE GpuError \/ OtherError
  BY <1>4, ErrorStep, Zenon
<1>5. CASE UNCHANGED vars
  <2>1. UNCHANGED <<ring, payload, hw_get, done, released, completed_value,
                    thread, channel_error, fatal_error>>
    BY <1>5, Zenon DEF vars, gpu
  <2>2. TypeOK' /\ PointersInv' /\ NoEarlyReclaim' /\ RingHasRoom' /\ SemaphoreInv'
    BY <2>1, SMTT(30) DEF IInv, TypeOK, PointersInv, NoEarlyReclaim, RingHasRoom, Held,
                Holders, CtrlHolders, SemaphoreInv, ring
  <2>3. ValuesInv'
    BY <2>1, ValuesSame, Zenon DEF IInv, ring
  <2>4. InfoInv'
    BY <2>1, Zenon DEF IInv, InfoInv, Nth, ring
  <2>5. QED
    BY <2>2, <2>3, <2>4, Zenon DEF IInv
<1>6. QED
  BY <1>1, <1>2, <1>3, <1>4, <1>5, Zenon DEF Next, NextNoError

(* The invariant holds of every behaviour of the channel, for every ring   *)
(* size, width of the payload and set of threads.                          *)
THEOREM Invariance == Spec => []IInv
BY InitIInv, NextIInv, PTL DEF Spec

(* The indices into the ring and the count of reserved entries stay within *)
(* it, the semaphore's payload within its width.                           *)
THEOREM TypeCorrect == Spec => []TypeOK
<1>1. IInv => TypeOK
  BY Zenon DEF IInv
<1>2. QED
  BY <1>1, Invariance, PTL

(* Reserved and pending entries fit into the ring: the submissions of      *)
(* uvm_channel_end_push() and write_ctrl_gpfifo() overwrite no entry that  *)
(* is still pending, and the unsigned subtraction of                       *)
(* channel_get_available_gpfifo_entries() does not wrap.                   *)
THEOREM RingHasRoomCorrect == Spec => []RingHasRoom
<1>1. IInv => RingHasRoom
  BY Zenon DEF IInv
<1>2. QED
  BY <1>1, Invariance, PTL

(* channel_update_progress_with_max() reclaims no entry the GPU has yet to *)
(* process.                                                                *)
THEOREM NoEarlyReclaimCorrect == Spec => []NoEarlyReclaim
<1>1. IInv => NoEarlyReclaim
  BY Zenon DEF IInv
<1>2. QED
  BY <1>1, Invariance, PTL

(* update_completed_value_locked() always computes the 64-bit value of the *)
(* last semaphore release from its low bits, provided the payload is at    *)
(* least as wide as the ring is long.                                      *)
THEOREM CompletedExactCorrect == Spec => []CompletedExact
<1>1. IInv => CompletedExact
  BY ExtendIs, Zenon DEF CompletedExact
<1>2. QED
  BY <1>1, Invariance, PTL

(* The step that ends a wait with NV_OK follows the release of the         *)
(* semaphore for that push: uvm_tracker_wait_for_entry() never returns     *)
(* success early, whatever other threads update in between.                *)
THEOREM WaitSoundCorrect == Spec => WaitSound
<1>1. ASSUME IInv, Next, NEW t \in Threads, Returns(t)
      PROVE  released >= thread[t].value
  <2>1. /\ thread \in [Threads -> ThreadState] /\ thread[t] \in ThreadState
        /\ thread[t].value \in Nat
    BY <1>1, Zenon DEF IInv, TypeOK, ThreadState
  <2>2. ASSUME NEW u \in Threads, u # t, NEW s, thread' = [thread EXCEPT ![u] = s]
        PROVE  FALSE
    <3>1. thread'[t] = thread[t]
      BY <2>1, <2>2, Zenon
    <3>2. QED
      BY <1>1, <3>1, Zenon DEF Returns
  <2>3. ASSUME UNCHANGED thread PROVE FALSE
    BY <1>1, <2>3, Zenon DEF Returns
  <2>4. ASSUME NEW u \in Threads, ThreadStep(u) \/ StartUpdate(u) \/ DontWait(u)
                \/ \E caller \in {"pool", "channel", "ctrl"} : StartReserve(u, caller)
        PROVE  \E s : thread' = [thread EXCEPT ![u] = s]
    <3>1. ASSUME NEW s, Set(u, s) PROVE \E r : thread' = [thread EXCEPT ![u] = r]
      BY <3>1, Zenon DEF Set
    <3>2. ASSUME NEW to, Goto(u, to) PROVE \E r : thread' = [thread EXCEPT ![u] = r]
      <4>1. thread' = [thread EXCEPT ![u] = [thread[u] EXCEPT !.pc = to]]
        BY <2>1, <3>2, Zenon DEF Goto
      <4>2. QED
        BY <4>1, Zenon
    <3>3. (\E s : Set(u, s)) \/ (\E to : Goto(u, to))
      BY <2>4, Zenon DEF ThreadStep, Claim, NoEntry, CheckErrors, UpdateCompleted,
        UpdateProgress, BeginPush, BeginPushFails, EndPush, WriteCtrl, Wait,
        StartUpdate, DontWait, StartReserve
    <3>4. QED
      BY <3>1, <3>2, <3>3, Zenon
  <2>5. CASE \E u \in Threads : \/ ThreadStep(u) \/ StartUpdate(u) \/ DontWait(u)
               \/ \E caller \in {"pool", "channel", "ctrl"} : StartReserve(u, caller)
    <3>1. \/ ThreadStep(t) \/ StartUpdate(t) \/ DontWait(t)
          \/ \E caller \in {"pool", "channel", "ctrl"} : StartReserve(t, caller)
      BY <2>2, <2>4, <2>5, Zenon
    <3>2. Wait(t) \/ DontWait(t)
      BY <1>1, <3>1, Zenon DEF ThreadStep, Claim, NoEntry, CheckErrors, UpdateCompleted,
        UpdateProgress, BeginPush, BeginPushFails, EndPush, WriteCtrl,
        StartUpdate, StartReserve, Returns
    <3>3. ASSUME DontWait(t) PROVE FALSE
      <4>1. thread'[t] = Idle(FALSE)
        BY <2>1, <3>3, Zenon DEF DontWait, Set
      <4>2. Idle(FALSE).status = FALSE
        BY Zenon DEF Idle
      <4>3. QED
        BY <1>1, <4>1, <4>2, Zenon DEF Returns
    <3>4. ASSUME Wait(t) PROVE released >= thread[t].value
      <4>1. CASE Goto(t, "check")
        <5>1. thread'[t].pc = "check"
          BY <2>1, <4>1, Zenon DEF Goto, ThreadState
        <5>2. QED
          BY <1>1, <5>1, Zenon DEF Returns
      <4>2. CASE Set(t, Idle(thread[t].status)) /\ thread[t].status
        BY <1>1, <2>1, <3>4, <4>2, ExtendIs DEF Wait, Set, Idle, Goto
      <4>3. CASE Set(t, Idle(thread[t].status)) /\ ~thread[t].status
        <5>1. thread'[t].status = thread[t].status
          BY <2>1, <4>3, Zenon DEF Set, Idle
        <5>2. QED
          BY <1>1, <4>3, <5>1, Zenon DEF Returns
      <4>4. QED
        BY <3>4, <4>1, <4>2, <4>3, Zenon DEF Wait
    <3>5. QED
      BY <3>2, <3>3, <3>4, Zenon
  <2>6. CASE GpuProcess \/ GpuError \/ OtherError
    BY <2>3, <2>6, Zenon DEF GpuProcess, GpuError, OtherError
  <2>7. QED
    BY <1>1, <2>5, <2>6, Zenon DEF Next, NextNoError
<1>2. IInv /\ [Next]_vars => [ReturnsAfterRelease]_vars
  BY <1>1, Zenon DEF ReturnsAfterRelease
<1>3. Spec => [][ReturnsAfterRelease]_vars
  BY <1>2, Invariance, PTL DEF Spec
<1>4. QED
  BY <1>3, PTL DEF WaitSound
=============================================================================

------------------------ MODULE SecureSemaphoreProof ------------------------
(***************************************************************************)
(* Proofs about SecureSemaphore, for rings of any size, notifiers and      *)
(* payloads of any width and any number of pushes: the semaphore never     *)
(* takes a race with the GPU for an error, and its completed value is that *)
(* of a push the GPU has executed.                                         *)
(*                                                                         *)
(* The invariant names the push that each piece of state belongs to.  What *)
(* the reader knows of the push p it reads is that, if the notifier has    *)
(* not moved since, what it has copied is the material of p.  Every try    *)
(* that fails shows a push executed since the try before, and fewer pushes *)
(* than entries can be pending: so the tries suffice.                      *)
(***************************************************************************)
EXTENDS SecureSemaphore, TLAPS

(* The notifier after push p.                                              *)
NotifierOf(p) == (2 * p) % NOTIFIER_MOD

(* 1 while the GPU writes the material of the next push.                   *)
Writing == IF gpu = {} THEN 0 ELSE 1

Still(p) == executed = p /\ gpu = {}

PushInv ==
  /\ last_pushed_notifier = NotifierOf(pushed)
  /\ \A p \in 0 .. pushed :
       pushed - p < num_gpfifo_entries => ivs[p % num_gpfifo_entries] = p

GpuInv ==
  /\ gpu # {} => executed < pushed /\ "entry" \in gpu
  /\ notifier = (2 * executed + Writing) % NOTIFIER_MOD
  /\ auth_tag = (IF "tag" \in gpu THEN executed + 1 ELSE executed)
  /\ encrypted_payload = (IF "payload" \in gpu THEN executed + 1 ELSE executed)

(* The semaphore last saw push c complete.                                 *)
Observed(c) ==
  /\ c \in completed_value .. executed
  /\ cached_payload = c % PAYLOAD_MOD
  /\ last_observed_notifier = NotifierOf(c)

SemInv ==
  /\ completed_value <= executed
  /\ pushed - completed_value < num_gpfifo_entries
  /\ IF reader.pc = "update" THEN \E c \in Nat : Observed(c)
                             ELSE Observed(completed_value)
  /\ ~fatal_error

(* The tries made so far, and the one in progress.                         *)
Tries == num_gpfifo_entries - reader.tries_left + 1

(* The reader reads the material of push p.                                *)
Reading(p) ==
  /\ p \in completed_value .. executed
  /\ reader.gpu_notifier = NotifierOf(p)
  /\ reader.pc # "decrypt" => p >= completed_value + Tries
  /\ reader.pc \in {"payload", "iv", "again"} => (Still(p) => reader.tag = p)
  /\ reader.pc \in {"iv", "again"} => (Still(p) => reader.payload = p)
  /\ reader.pc \in {"again", "decrypt"} => reader.iv = p
  /\ reader.pc = "decrypt" => reader.tag = p /\ reader.payload = p

Copying == {"tag", "payload", "iv", "again", "decrypt"}

ReaderInv ==
  /\ reader.pc = "notifier" => executed + Writing >= completed_value + Tries
  /\ reader.pc \in {"notifier", "tag", "payload", "iv", "again"} =>
       reader.tries_left # 0
  /\ reader.pc \in Copying => \E p \in Nat : Reading(p)

IInv == TypeOK /\ PushInv /\ GpuInv /\ SemInv /\ ReaderInv

-----------------------------------------------------------------------------
(* Arithmetic modulo the size of the ring and the widths of the notifier   *)
(* and of the payload.                                                     *)

LEMMA ModDef ==
  ASSUME NEW N \in Nat \ {0}, NEW a \in Int
  PROVE  /\ a = N * (a \div N) + (a % N)
         /\ a % N \in 0 .. N - 1
         /\ a \div N \in Int
OBVIOUS

(* A remainder is the only number below N at that distance from a multiple.*)
LEMMA ModIs ==
  ASSUME NEW N \in Nat \ {0}, NEW q \in Int, NEW r \in 0 .. N - 1
  PROVE  (N * q + r) % N = r
<1> DEFINE a == N * q + r
           p == a \div N
           s == a % N
<1>1. a \in Int
  OBVIOUS
<1>2. a = N * p + s /\ s \in 0 .. N - 1 /\ p \in Int
  BY <1>1, ModDef, Zenon
<1>3. N * p + s = N * q + r
  BY <1>2
<1> HIDE DEF a, p, s
<1>4. N * (p - q) = r - s
  BY <1>2, <1>3
<1>5. p - q >= 1 => N * (p - q) >= N
  BY <1>2
<1>6. p - q <= -1 => N * (p - q) <= -N
  BY <1>2
<1>7. p - q = 0
  BY <1>2, <1>4, <1>5, <1>6
<1>8. s = r
  BY <1>2, <1>3, <1>7
<1> QED
  BY <1>8 DEF s, a

(* Two numbers less than N apart differ modulo N.                          *)
LEMMA ModInj ==
  ASSUME NEW N \in Nat \ {0}, NEW a \in Int, NEW b \in Int,
         a < b, b < a + N
  PROVE  a % N # b % N
<1> SUFFICES ASSUME a % N = b % N PROVE FALSE
  OBVIOUS
<1> DEFINE p == a \div N
           q == b \div N
           r == a % N
<1>1. /\ a = N * p + r /\ b = N * q + r
      /\ p \in Int /\ q \in Int /\ r \in 0 .. N - 1
  BY ModDef
<1> HIDE DEF p, q, r
<1>2. N * (q - p) = b - a
  BY <1>1
<1>3. q - p <= 0 => N * (q - p) <= 0
  BY <1>1
<1>4. q - p >= 1 => N * (q - p) >= N
  BY <1>1
<1> QED
  BY <1>1, <1>2, <1>3, <1>4

LEMMA ModStep ==
  ASSUME NEW N \in Nat \ {0}, NEW a \in Int, NEW n \in Int
  PROVE  ((a % N) + n) % N = (a + n) % N
<1> DEFINE p == a \div N
           r == a % N
<1>1. a = N * p + r /\ p \in Int /\ r \in Int
  BY ModDef
<1> HIDE DEF p, r
<1> DEFINE q == (r + n) \div N
           s == (r + n) % N
<1>2. r + n \in Int
  BY <1>1
<1>3. r + n = N * q + s /\ q \in Int /\ s \in 0 .. N - 1
  BY <1>2, ModDef, Zenon
<1> HIDE DEF q, s
<1>4. a + n = N * (p + q) + s /\ p + q \in Int
  BY <1>1, <1>3
<1>5. (a + n) % N = s
  BY <1>3, <1>4, ModIs, Zenon
<1> QED
  BY <1>5 DEF r, s

(* The notifier's width is even and a multiple of twice the ring's size,   *)
(* so that the parity and the index of the IV survive its wrap.            *)
LEMMA Constants ==
  /\ num_gpfifo_entries \in Nat \ {0, 1} /\ NOTIFIER_MOD \in Nat \ {0}
  /\ PAYLOAD_MOD \in Nat \ {0} /\ PAYLOAD_MOD > num_gpfifo_entries
  /\ MAX_PUSHES \in Nat
  /\ NOTIFIER_MOD >= 2 * num_gpfifo_entries
  /\ \E k \in Int : NOTIFIER_MOD = 2 * (num_gpfifo_entries * k)
<1> DEFINE N == num_gpfifo_entries
           D == 2 * N
           k == NOTIFIER_MOD \div D
<1>1. /\ N \in Nat \ {0, 1} /\ NOTIFIER_MOD \in Nat \ {0}
      /\ PAYLOAD_MOD \in Nat \ {0} /\ PAYLOAD_MOD > N /\ MAX_PUSHES \in Nat
      /\ NOTIFIER_MOD % D = 0
  BY SecureSemaphoreAssumption
<1>2. D \in Nat \ {0}
  BY <1>1
<1>3. NOTIFIER_MOD = D * k + (NOTIFIER_MOD % D) /\ k \in Int
  <2>1. NOTIFIER_MOD \in Int
    BY <1>1
  <2> HIDE DEF D
  <2> QED
    BY <1>2, <2>1, ModDef
<1>4. NOTIFIER_MOD = D * k
  <2> HIDE DEF D, k
  <2> QED
    BY <1>1, <1>2, <1>3
<1>5. NOTIFIER_MOD = 2 * (N * k)
  <2> HIDE DEF k
  <2> QED
    BY <1>1, <1>3, <1>4
<1>6. NOTIFIER_MOD >= D
  <2> HIDE DEF D, k
  <2>1. k <= 0 => D * k <= 0
    BY <1>2, <1>3
  <2>2. k >= 1 => D * k >= D
    BY <1>2, <1>3
  <2> QED
    BY <1>1, <1>2, <1>3, <1>4, <2>1, <2>2
<1> QED
  BY <1>1, <1>3, <1>5, <1>6

LEMMA Half ==
  ASSUME NEW m \in Int, NEW b \in 0 .. 1
  PROVE  /\ (2 * m + b) \div 2 = m
         /\ (2 * m + b) % 2 = b
<1>1. b = 0 \/ b = 1
  OBVIOUS
<1> QED
  BY <1>1

LEMMA NotifierParts ==
  ASSUME NEW p \in Int, NEW b \in 0 .. 1
  PROVE  /\ (2 * p + b) % NOTIFIER_MOD \in Notifiers
         /\ ((2 * p + b) % NOTIFIER_MOD) % 2 = b
         /\ IvIndex((2 * p + b) % NOTIFIER_MOD) = p % num_gpfifo_entries
<1> DEFINE N == num_gpfifo_entries
           M == NOTIFIER_MOD
           a == 2 * p + b
           q == a \div M
           r == a % M
<1>1. N \in Nat \ {0} /\ M \in Nat \ {0} /\ b \in Int
  BY Constants
<1>2. PICK k \in Int : M = 2 * (N * k)
  BY Constants
<1>3. a = M * q + r /\ q \in Int /\ r \in 0 .. M - 1
  <2>1. a \in Int
    BY <1>1
  <2>2. QED
    BY <1>1, <2>1, ModDef, Zenon
<1> DEFINE h == N * (k * q)
<1>4. M * q = 2 * h /\ h \in Int /\ k * q \in Int
  <2> HIDE DEF q, M, N
  <2>1. k * q \in Int
    BY <1>3
  <2>2. (2 * (N * k)) * q = 2 * (N * (k * q))
    BY <1>1, <1>3
  <2> QED
    BY <1>1, <1>2, <2>1, <2>2
<1>5. r = 2 * (p - h) + b /\ p - h \in Int
  <2> HIDE DEF q, r, M, h
  <2> QED
    BY <1>1, <1>3, <1>4
<1>6. r % 2 = b /\ r \div 2 = p - h
  <2> HIDE DEF h, r
  <2> QED
    BY <1>5, Half
<1> DEFINE c == p \div N
           d == p % N
<1>7. p = N * c + d /\ c \in Int /\ d \in 0 .. N - 1
  BY <1>1, ModDef
<1>8. p - h = N * (c - k * q) + d /\ c - k * q \in Int
  <2> DEFINE e == k * q
  <2>1. e \in Int /\ h = N * e
    BY <1>4
  <2> HIDE DEF c, d, e, N, h
  <2>2. p - h = N * (c - e) + d /\ c - e \in Int
    BY <1>1, <1>7, <2>1
  <2> QED
    BY <2>2 DEF e
<1>9. (p - h) % N = d
  <2> DEFINE e == c - k * q
  <2>1. e \in Int /\ p - h = N * e + d
    BY <1>8
  <2> HIDE DEF c, d, e, N, h
  <2> QED
    BY <1>1, <1>7, <2>1, ModIs
<1> QED
  BY <1>3, <1>6, <1>9 DEF IvIndex, Notifiers

(* Pushes that can be pending together have notifiers of their own.        *)
LEMMA NotifierInj ==
  ASSUME NEW p \in Nat, NEW e \in Nat, NEW b \in 0 .. 1,
         p <= e, e - p < num_gpfifo_entries,
         NotifierOf(p) = (2 * e + b) % NOTIFIER_MOD
  PROVE  p = e /\ b = 0
<1>1. NotifierOf(p) = (2 * p + 0) % NOTIFIER_MOD
  BY DEF NotifierOf
<1>2. b = 0
  <2>1. ((2 * p + 0) % NOTIFIER_MOD) % 2 = 0
    BY NotifierParts
  <2>2. e \in Int
    OBVIOUS
  <2>3. ((2 * e + b) % NOTIFIER_MOD) % 2 = b
    BY <2>2, NotifierParts, Zenon
  <2> QED
    BY <1>1, <2>1, <2>3
<1>3. ASSUME p < e
      PROVE  FALSE
  <2>1. /\ 2 * p < 2 * e /\ 2 * e < 2 * p + NOTIFIER_MOD
        /\ 2 * p \in Int /\ 2 * e \in Int /\ NOTIFIER_MOD \in Nat \ {0}
    BY <1>3, Constants
  <2>2. (2 * p) % NOTIFIER_MOD # (2 * e) % NOTIFIER_MOD
    <3> DEFINE x == 2 * p
               y == 2 * e
    <3> HIDE DEF x, y
    <3>1. x \in Int /\ y \in Int /\ x < y /\ y < x + NOTIFIER_MOD
      BY <2>1 DEF x, y
    <3>2. x % NOTIFIER_MOD # y % NOTIFIER_MOD
      BY <2>1, <3>1, ModInj, Zenon
    <3> QED
      BY <3>2 DEF x, y
  <2>3. 2 * e + b = 2 * e
    BY <1>2
  <2> QED
    BY <2>2, <2>3 DEF NotifierOf
<1> QED
  BY <1>2, <1>3

(* update_completed_value_locked() recovers the 64-bit value.              *)
LEMMA ExtendedExact ==
  ASSUME NEW old \in Nat, NEW v \in Nat, old <= v, v < old + PAYLOAD_MOD
  PROVE  Extended(old, v % PAYLOAD_MOD) = v
<1> DEFINE N == PAYLOAD_MOD
           p == old \div N
           q == v \div N
           r == old % N
           s == v % N
<1>1. N \in Nat \ {0}
  BY Constants
<1>2. /\ old = N * p + r /\ p \in Int /\ r \in 0 .. N - 1
      /\ v = N * q + s /\ q \in Int /\ s \in 0 .. N - 1
  BY <1>1, ModDef
<1>3. Extended(old, v % N) = ((old - r) + s) + (IF s < r THEN N ELSE 0)
  BY DEF Extended
<1>4. v < old + N
  OBVIOUS
<1> HIDE DEF p, q, r, s, N
<1>5. N * (q - p) = (v - old) + (r - s)
  BY <1>1, <1>2
<1>6. q - p <= -1 => N * (q - p) <= -N
  BY <1>1, <1>2
<1>7. q - p >= 2 => N * (q - p) >= N + N
  BY <1>1, <1>2
<1>8. q - p \in {0, 1}
  BY <1>1, <1>2, <1>4, <1>5, <1>6, <1>7
<1>9. CASE q - p = 0
  <2>1. N * (q - p) = 0
    BY <1>1, <1>9
  <2> QED
    BY <1>1, <1>2, <1>3, <1>5, <2>1 DEF N
<1>10. CASE q - p = 1
  <2>1. N * (q - p) = N
    BY <1>1, <1>10
  <2> QED
    BY <1>1, <1>2, <1>3, <1>4, <1>5, <2>1 DEF N
<1> QED
  BY <1>8, <1>9, <1>10

-----------------------------------------------------------------------------
(* What follows from the types.                                            *)
LEMMA Typed ==
  ASSUME TypeOK
  PROVE  /\ pushed \in Nat /\ executed \in Nat /\ executed <= pushed
         /\ completed_value \in Nat /\ MAX_PUSHES \in Nat
         /\ num_gpfifo_entries \in Nat \ {0, 1}
         /\ reader.pc \in {"idle", "notifier", "tag", "payload", "iv", "again",
                           "decrypt", "update"}
         /\ reader.tries_left \in 0 .. num_gpfifo_entries
         /\ Writing \in 0 .. 1
BY Constants DEF TypeOK, Pushes, Writing

LEMMA InitInv ==
  ASSUME Init
  PROVE  IInv
<1>1. /\ num_gpfifo_entries \in Nat \ {0, 1} /\ NOTIFIER_MOD \in Nat \ {0}
      /\ PAYLOAD_MOD \in Nat \ {0} /\ MAX_PUSHES \in Nat
  BY Constants
<1>2. 0 % num_gpfifo_entries = 0
  BY <1>1
<1>3. 0 % NOTIFIER_MOD = 0
  BY <1>1
<1>4. 0 % PAYLOAD_MOD = 0
  BY <1>1
<1>5. TypeOK
  <2>1. reader = Idle
    BY DEF Init
  <2>2. Idle \in [pc : {"idle", "notifier", "tag", "payload", "iv", "again",
                        "decrypt", "update"},
                  gpu_notifier : Notifiers, tag : Pushes, payload : Pushes,
                  iv : Pushes, tries_left : 0 .. num_gpfifo_entries]
    BY <1>1 DEF Idle, Notifiers, Pushes
  <2> QED
    <3>1. 0 \in Notifiers /\ 0 \in Pushes /\ 0 \in Nat /\ 0 \in 0 .. PAYLOAD_MOD - 1
      BY <1>1 DEF Notifiers, Pushes
    <3>2. pushed = 0 /\ executed = 0 /\ executed \in 0 .. pushed
      BY DEF Init
    <3>3. ivs \in [0 .. num_gpfifo_entries - 1 -> Pushes] /\ gpu = {}
      BY <3>1 DEF Init
    <3>4. fatal_error \in BOOLEAN
      BY Zenon DEF Init
    <3> QED
      BY <2>1, <2>2, <3>1, <3>2, <3>3, <3>4 DEF Init, TypeOK
<1>6. Writing = 0 /\ reader.pc = "idle" /\ NotifierOf(0) = 0
  BY <1>3 DEF Init, Writing, Idle, NotifierOf
<1>7. PushInv
  BY <1>1, <1>2, <1>6 DEF Init, PushInv
<1>8. GpuInv
  BY <1>3, <1>6 DEF Init, GpuInv
<1>9. SemInv
  <2>1. Observed(completed_value)
    BY <1>4, <1>6 DEF Init, Observed
  <2>2. ~fatal_error
    BY DEF Init
  <2> QED
    BY <1>1, <1>6, <2>1, <2>2 DEF Init, SemInv
<1>10. ReaderInv
  BY <1>6 DEF ReaderInv, Copying
<1> QED
  BY <1>5, <1>7, <1>8, <1>9, <1>10 DEF IInv

(* A push changes nothing of what the reader and the semaphore know.       *)
LEMMA PushStep ==
  ASSUME IInv, Push
  PROVE  IInv'
<1> DEFINE N == num_gpfifo_entries
<1>1. /\ pushed < MAX_PUSHES /\ pushed - completed_value < N - 1
      /\ pushed' = pushed + 1
      /\ last_pushed_notifier' = NextNotifier(last_pushed_notifier)
      /\ ivs' = [ivs EXCEPT ![IvIndex(last_pushed_notifier')] = pushed']
      /\ UNCHANGED <<gpuVars, semVars, reader>>
  BY DEF Push
<1>2. /\ executed' = executed /\ gpu' = gpu /\ notifier' = notifier
      /\ auth_tag' = auth_tag /\ encrypted_payload' = encrypted_payload
      /\ completed_value' = completed_value /\ cached_payload' = cached_payload
      /\ last_observed_notifier' = last_observed_notifier
      /\ fatal_error' = fatal_error /\ reader' = reader
  BY <1>1 DEF gpuVars, semVars
<1>3. TypeOK /\ PushInv /\ GpuInv /\ SemInv /\ ReaderInv
  BY DEF IInv
<1>4. /\ pushed \in Nat /\ executed \in Nat /\ executed <= pushed
      /\ completed_value \in Nat /\ N \in Nat \ {0, 1} /\ MAX_PUSHES \in Nat
  BY <1>3, Typed
<1>5. last_pushed_notifier' = NotifierOf(pushed')
  <2>1. 2 * pushed \in Int /\ NOTIFIER_MOD \in Nat \ {0}
    BY <1>4, Constants
  <2>2. (((2 * pushed) % NOTIFIER_MOD) + 2) % NOTIFIER_MOD
          = (2 * pushed + 2) % NOTIFIER_MOD
    BY <2>1, ModStep
  <2>3. 2 * pushed + 2 = 2 * pushed'
    BY <1>1, <1>4
  <2> QED
    BY <1>1, <1>3, <2>2, <2>3 DEF PushInv, NextNotifier, NotifierOf
<1>6. IvIndex(last_pushed_notifier') = pushed' % N
  <2>1. pushed' \in Int /\ 2 * pushed' + 0 = 2 * pushed'
    BY <1>1, <1>4
  <2>2. IvIndex((2 * pushed' + 0) % NOTIFIER_MOD) = pushed' % N
    BY <2>1, NotifierParts
  <2> QED
    BY <1>5, <2>1, <2>2 DEF NotifierOf
<1>7. /\ last_pushed_notifier' \in Notifiers /\ pushed' \in Pushes
      /\ pushed' % N \in 0 .. N - 1
  <2>1. last_pushed_notifier' \in Notifiers
    <3>1. pushed' \in Int /\ 2 * pushed' + 0 = 2 * pushed'
      BY <1>1, <1>4
    <3>2. (2 * pushed' + 0) % NOTIFIER_MOD \in Notifiers
      BY <3>1, NotifierParts
    <3> QED
      BY <1>5, <3>1, <3>2 DEF NotifierOf
  <2>2. pushed' \in Pushes
    BY <1>1, <1>4 DEF Pushes
  <2>3. pushed' % N \in 0 .. N - 1
    BY <1>1, <1>4, ModDef
  <2> QED
    BY <2>1, <2>2, <2>3
<1>8. ivs' = [ivs EXCEPT ![pushed' % N] = pushed']
  BY <1>1, <1>6
<1>9. TypeOK'
  <2>1. ivs' \in [0 .. N - 1 -> Pushes]
    BY <1>3, <1>7, <1>8 DEF TypeOK
  <2>2. executed' \in 0 .. pushed'
    BY <1>1, <1>2, <1>4
  <2> QED
    BY <1>2, <1>3, <1>7, <2>1, <2>2, Zenon DEF TypeOK
<1>10. PushInv'
  <2> SUFFICES ASSUME NEW p \in 0 .. pushed', pushed' - p < N
               PROVE  ivs'[p % N] = p
    BY <1>5 DEF PushInv, NotifierOf
  <2>1. p % N \in 0 .. N - 1 /\ ivs \in [0 .. N - 1 -> Pushes]
    BY <1>3, <1>4, ModDef DEF TypeOK
  <2>2. CASE p = pushed'
    BY <1>7, <1>8, <2>1, <2>2
  <2>3. CASE p # pushed'
    <3>1. p \in 0 .. pushed /\ pushed - p < N /\ p < pushed' /\ pushed' < p + N
      BY <1>1, <1>4, <2>3
    <3>2. p % N # pushed' % N
      <4>1. p \in Int /\ pushed' \in Int /\ N \in Nat \ {0}
        BY <1>1, <1>4
      <4> HIDE DEF N
      <4> QED
        BY <3>1, <4>1, ModInj
    <3>3. ivs[p % N] = p
      BY <1>3, <3>1 DEF PushInv
    <3> QED
      BY <1>7, <1>8, <2>1, <3>2, <3>3
  <2> QED
    BY <2>2, <2>3
<1>11. GpuInv'
  BY <1>1, <1>2, <1>3, <1>4 DEF GpuInv, Writing
<1>12. SemInv'
  <2>1. pushed' - completed_value' < N
    BY <1>1, <1>2, <1>4
  <2> QED
    BY <1>2, <1>3, <2>1 DEF SemInv, Observed, NotifierOf
<1>13. ReaderInv'
  BY <1>2, <1>3 DEF ReaderInv, Reading, Still, Writing, Tries, NotifierOf
<1> QED
  BY <1>9, <1>10, <1>11, <1>12, <1>13 DEF IInv

(* A step of the GPU moves forward: a push whose material is in memory     *)
(* after the step was in memory before it.                                 *)
Forward ==
  /\ executed' \in Nat /\ executed <= executed'
  /\ executed + Writing <= executed' + Writing'
  /\ executed' = executed /\ gpu' = {} => gpu = {}

LEMMA GpuFrame ==
  ASSUME IInv, UNCHANGED <<pushVars, semVars, reader>>, Forward, GpuInv', TypeOK'
  PROVE  IInv'
<1>1. /\ pushed' = pushed /\ last_pushed_notifier' = last_pushed_notifier
      /\ ivs' = ivs
      /\ completed_value' = completed_value /\ cached_payload' = cached_payload
      /\ last_observed_notifier' = last_observed_notifier
      /\ fatal_error' = fatal_error /\ reader' = reader
  BY DEF pushVars, semVars
<1>2. TypeOK /\ PushInv /\ GpuInv /\ SemInv /\ ReaderInv
  BY DEF IInv
<1>3. /\ executed \in Nat /\ completed_value \in Nat
      /\ reader.tries_left \in Int /\ num_gpfifo_entries \in Int
      /\ Writing \in 0 .. 1 /\ Writing' \in 0 .. 1
  BY <1>2, Typed DEF Writing
<1>4. executed' \in Nat /\ executed <= executed'
  BY DEF Forward
<1>5. PushInv'
  BY <1>1, <1>2 DEF PushInv, NotifierOf
<1>6. SemInv'
  <2>1. \A c \in Nat : Observed(c) => Observed(c)'
    BY <1>1, <1>3, <1>4 DEF Observed, NotifierOf
  <2>2. completed_value' <= executed'
    BY <1>1, <1>2, <1>3, <1>4 DEF SemInv
  <2> QED
    BY <1>1, <1>2, <1>3, <2>1, <2>2 DEF SemInv
<1>7. ReaderInv'
  <2>1. \A p \in Nat : Reading(p) => Reading(p)'
    <3> SUFFICES ASSUME NEW p \in Nat, Reading(p)
                 PROVE  Reading(p)'
      OBVIOUS
    <3>1. p \in completed_value .. executed
      BY DEF Reading
    <3>2. p \in completed_value' .. executed'
      BY <1>1, <1>3, <1>4, <3>1
    <3>3. Still(p)' => Still(p)
      BY <1>3, <3>1 DEF Still, Forward
    <3> QED
      BY <1>1, <3>2, <3>3, Zenon DEF Reading, Tries, NotifierOf
  <2>2. reader'.pc = "notifier" => executed' + Writing' >= completed_value' + Tries'
    <3>1. Tries' = Tries /\ Tries \in Int
      BY <1>1, <1>3 DEF Tries
    <3>2. reader.pc = "notifier" => executed + Writing >= completed_value + Tries
      BY <1>2 DEF ReaderInv
    <3>3. executed + Writing <= executed' + Writing'
      BY DEF Forward
    <3>4. Writing \in Int /\ Writing' \in Int
      BY <1>3
    <3>5. reader.pc = "notifier" => executed' + Writing' >= completed_value + Tries
      <4>1. executed + Writing \in Int /\ executed' + Writing' \in Int
            /\ completed_value + Tries \in Int
        BY <1>3, <1>4, <3>1, <3>4
      <4> QED
        BY <3>2, <3>3, <4>1
    <3> QED
      BY <1>1, <3>1, <3>5
  <2> QED
    BY <1>1, <1>2, <2>1, <2>2 DEF ReaderInv, Tries
<1> QED
  BY <1>2, <1>5, <1>6, <1>7 DEF IInv

LEMMA GpuEntryStep ==
  ASSUME IInv, GpuEntry
  PROVE  IInv'
<1>1. /\ executed < pushed /\ gpu = {} /\ gpu' = {"entry"}
      /\ notifier' = (2 * executed + 1) % NOTIFIER_MOD
      /\ UNCHANGED <<pushVars, semVars, executed, auth_tag, encrypted_payload, reader>>
  BY DEF GpuEntry
<1>2. TypeOK /\ GpuInv /\ executed \in Nat /\ executed \in Int
  BY Typed DEF IInv
<1>3. Writing = 0 /\ Writing' = 1
  BY <1>1 DEF Writing
<1>4. UNCHANGED <<pushVars, semVars, reader>> /\ executed' = executed
  BY <1>1
<1>5. Forward
  BY <1>1, <1>2, <1>3, <1>4 DEF Forward
<1>6. GpuInv'
  BY <1>1, <1>2, <1>3 DEF GpuInv, pushVars
<1>7. TypeOK'
  <2>1. 1 \in 0 .. 1
    OBVIOUS
  <2>2. notifier' \in Notifiers
    BY <1>1, <1>2, <2>1, NotifierParts
  <2>3. gpu' \subseteq {"entry", "tag", "payload"}
    BY <1>1
  <2> QED
    BY <1>1, <1>2, <2>2, <2>3, Zenon DEF TypeOK, pushVars, semVars
<1> QED
  BY <1>4, <1>5, <1>6, <1>7, GpuFrame

LEMMA GpuEncryptStep ==
  ASSUME IInv, GpuEncrypt
  PROVE  IInv'
<1>1. /\ "entry" \in gpu
      /\ UNCHANGED <<pushVars, semVars, executed, notifier, reader>>
  BY DEF GpuEncrypt
<1>2. /\ TypeOK /\ GpuInv /\ executed \in Nat /\ executed < pushed
      /\ pushed \in 0 .. MAX_PUSHES /\ MAX_PUSHES \in Nat
  BY <1>1, Typed, SMTT(30) DEF IInv, GpuInv, TypeOK, Pushes
<1>3. UNCHANGED <<pushVars, semVars, reader>> /\ executed' = executed
  BY <1>1
<1>4. executed + 1 \in Pushes
  BY <1>2 DEF Pushes
<1>5. CASE /\ "tag" \notin gpu
           /\ gpu' = gpu \cup {"tag"} /\ auth_tag' = executed + 1
           /\ UNCHANGED encrypted_payload
  <2>1. Writing = 1 /\ Writing' = 1 /\ gpu' # {}
    BY <1>1, <1>5 DEF Writing
  <2>2. Forward
    BY <1>2, <1>3, <2>1 DEF Forward
  <2>3. GpuInv'
    BY <1>1, <1>2, <1>5, <2>1 DEF GpuInv, pushVars
  <2>4. TypeOK'
    <3>1. gpu' \subseteq {"entry", "tag", "payload"} /\ auth_tag' \in Pushes
      BY <1>2, <1>4, <1>5 DEF TypeOK
    <3> QED
      BY <1>1, <1>2, <1>5, <3>1, Zenon DEF TypeOK, pushVars, semVars
  <2> QED
    BY <1>3, <2>2, <2>3, <2>4, GpuFrame
<1>6. CASE /\ "payload" \notin gpu
           /\ gpu' = gpu \cup {"payload"} /\ encrypted_payload' = executed + 1
           /\ UNCHANGED auth_tag
  <2>1. Writing = 1 /\ Writing' = 1 /\ gpu' # {}
    BY <1>1, <1>6 DEF Writing
  <2>2. Forward
    BY <1>2, <1>3, <2>1 DEF Forward
  <2>3. GpuInv'
    BY <1>1, <1>2, <1>6, <2>1 DEF GpuInv, pushVars
  <2>4. TypeOK'
    <3>1. gpu' \subseteq {"entry", "tag", "payload"} /\ encrypted_payload' \in Pushes
      BY <1>2, <1>4, <1>6 DEF TypeOK
    <3> QED
      BY <1>1, <1>2, <1>6, <3>1, Zenon DEF TypeOK, pushVars, semVars
  <2> QED
    BY <1>3, <2>2, <2>3, <2>4, GpuFrame
<1> QED
  BY <1>5, <1>6 DEF GpuEncrypt

LEMMA GpuExitStep ==
  ASSUME IInv, GpuExit
  PROVE  IInv'
<1>1. /\ gpu = {"entry", "tag", "payload"} /\ gpu' = {}
      /\ executed' = executed + 1
      /\ notifier' = (2 * executed + 2) % NOTIFIER_MOD
      /\ UNCHANGED <<pushVars, semVars, auth_tag, encrypted_payload, reader>>
  BY DEF GpuExit
<1>2. /\ TypeOK /\ GpuInv /\ executed \in Nat /\ executed < pushed
      /\ pushed \in Nat
  BY <1>1, Typed DEF IInv, GpuInv
<1>3. Writing = 1 /\ Writing' = 0
  BY <1>1 DEF Writing
<1>4. UNCHANGED <<pushVars, semVars, reader>> /\ pushed' = pushed
  BY <1>1 DEF pushVars
<1>5. Forward
  BY <1>1, <1>2, <1>3 DEF Forward
<1>6. 2 * executed + 2 = 2 * executed' + 0 /\ executed' \in Int
  BY <1>1, <1>2
<1>7. GpuInv'
  <2>1. notifier' = (2 * executed' + Writing') % NOTIFIER_MOD
    BY <1>1, <1>3, <1>6
  <2>2. /\ auth_tag' = executed' /\ encrypted_payload' = executed'
        /\ "tag" \notin gpu' /\ "payload" \notin gpu'
    BY <1>1, <1>2 DEF GpuInv
  <2> QED
    BY <1>1, <2>1, <2>2 DEF GpuInv
<1>8. TypeOK'
  <2>1. 0 \in 0 .. 1
    OBVIOUS
  <2>2. notifier' \in Notifiers
    BY <1>1, <1>6, <2>1, NotifierParts
  <2>3. gpu' \subseteq {"entry", "tag", "payload"} /\ executed' \in 0 .. pushed'
    BY <1>1, <1>2, <1>4
  <2> QED
    BY <1>1, <1>2, <2>2, <2>3, Zenon DEF TypeOK, pushVars, semVars
<1> QED
  BY <1>4, <1>5, <1>7, <1>8, GpuFrame

-----------------------------------------------------------------------------
(* The reader's own steps leave the pushes and the GPU alone.              *)
ReaderRec ==
  [pc : {"idle", "notifier", "tag", "payload", "iv", "again", "decrypt", "update"},
   gpu_notifier : Notifiers, tag : Pushes, payload : Pushes, iv : Pushes,
   tries_left : 0 .. num_gpfifo_entries]

LEMMA ReaderFrame ==
  ASSUME IInv, UNCHANGED <<pushVars, gpuVars>>, reader' \in ReaderRec,
         completed_value' \in Nat, cached_payload' \in 0 .. PAYLOAD_MOD - 1,
         last_observed_notifier' \in Notifiers, fatal_error' \in BOOLEAN,
         SemInv', ReaderInv'
  PROVE  IInv'
<1>1. /\ pushed' = pushed /\ last_pushed_notifier' = last_pushed_notifier
      /\ ivs' = ivs
      /\ executed' = executed /\ gpu' = gpu /\ notifier' = notifier
      /\ auth_tag' = auth_tag /\ encrypted_payload' = encrypted_payload
  BY DEF pushVars, gpuVars
<1>2. TypeOK /\ PushInv /\ GpuInv
  BY DEF IInv
<1>3. PushInv' /\ GpuInv'
  BY <1>1, <1>2 DEF PushInv, GpuInv, NotifierOf, Writing
<1>4. executed' \in 0 .. pushed'
  BY <1>1, <1>2 DEF TypeOK
<1>5. TypeOK'
  BY <1>1, <1>2, <1>4, Zenon DEF TypeOK, ReaderRec
<1> QED
  BY <1>3, <1>5 DEF IInv

LEMMA IdleTyped == Idle \in ReaderRec
BY Constants DEF Idle, ReaderRec, Notifiers, Pushes

(* What a step of the reader that leaves the semaphore alone has to show.  *)
LEMMA ReadFrame ==
  ASSUME IInv, UNCHANGED <<pushVars, gpuVars, semVars>>, reader' \in ReaderRec,
         reader.pc # "update",
         ReaderInv'
  PROVE  IInv'
<1>1. /\ pushed' = pushed /\ executed' = executed
      /\ completed_value' = completed_value /\ cached_payload' = cached_payload
      /\ last_observed_notifier' = last_observed_notifier
      /\ fatal_error' = fatal_error
  BY DEF pushVars, gpuVars, semVars
<1>2. TypeOK /\ SemInv /\ completed_value \in Nat
  BY Typed DEF IInv
<1>3. Observed(completed_value)
  BY <1>2 DEF SemInv
<1>4. Observed(completed_value)'
  BY <1>1, <1>3 DEF Observed, NotifierOf
<1>5. (\E c \in Nat : Observed(c))'
  BY <1>1, <1>2, <1>4
<1>6. SemInv'
  BY <1>1, <1>2, <1>4, <1>5 DEF SemInv
<1>7. /\ completed_value' \in Nat /\ cached_payload' \in 0 .. PAYLOAD_MOD - 1
      /\ last_observed_notifier' \in Notifiers /\ fatal_error' \in BOOLEAN
  BY <1>1, <1>2, Zenon DEF TypeOK
<1> QED
  BY <1>6, <1>7, ReaderFrame

LEMMA UpdateStep ==
  ASSUME IInv, Update
  PROVE  IInv'
<1>1. reader.pc = "idle" /\ UNCHANGED <<pushVars, gpuVars, semVars>>
  BY DEF Update
<1>2. /\ TypeOK /\ GpuInv /\ SemInv
      /\ executed \in Nat /\ completed_value \in Nat /\ pushed \in Nat
      /\ executed <= pushed /\ num_gpfifo_entries \in Nat \ {0, 1}
  BY Typed DEF IInv
<1>3. CASE should_skip_secure_semaphore_update
  <2>1. reader' = [Idle EXCEPT !.pc = "update"]
    BY <1>3 DEF Update
  <2>2. reader' \in ReaderRec /\ reader'.pc = "update"
    BY <2>1, IdleTyped DEF ReaderRec, Idle
  <2>3. ReaderInv'
    BY <2>2 DEF ReaderInv, Copying
  <2> QED
    BY <1>1, <2>2, <2>3, ReadFrame
<1>4. CASE ~should_skip_secure_semaphore_update
  <2>1. reader' = [Idle EXCEPT !.pc = "notifier", !.tries_left = TriesAllowed]
    BY <1>4 DEF Update
  <2>2. /\ reader' \in ReaderRec /\ reader'.pc = "notifier"
        /\ reader'.tries_left = num_gpfifo_entries
    <3> DEFINE s == [Idle EXCEPT !.pc = "notifier"]
    <3>1. s \in ReaderRec /\ s.pc = "notifier"
      BY IdleTyped DEF ReaderRec, Idle
    <3>2. reader' = [s EXCEPT !.tries_left = num_gpfifo_entries]
      BY <2>1, Zenon DEF TriesAllowed
    <3>3. num_gpfifo_entries \in 0 .. num_gpfifo_entries
      BY <1>2
    <3> HIDE DEF s
    <3> QED
      BY <3>1, <3>2, <3>3 DEF ReaderRec
  <2>3. last_observed_notifier # notifier /\ notifier % 2 # 1
    BY <1>4 DEF should_skip_secure_semaphore_update
  <2>4. notifier = (2 * executed + Writing) % NOTIFIER_MOD /\ Writing \in 0 .. 1
    BY <1>2 DEF GpuInv, Writing
  <2>5. Writing = 0
    <3>1. executed \in Int
      BY <1>2
    <3>2. notifier % 2 = Writing
      BY <2>4, <3>1, NotifierParts, Zenon
    <3> QED
      BY <2>3, <2>4, <3>2
  <2>6. last_observed_notifier = NotifierOf(completed_value)
    BY <1>1, <1>2 DEF SemInv, Observed
  <2>7. executed # completed_value
    <3>1. 2 * executed + Writing = 2 * executed
      BY <1>2, <2>5
    <3> QED
      BY <2>3, <2>4, <2>6, <3>1 DEF NotifierOf
  <2>8. executed >= completed_value + 1
    BY <1>2, <2>7 DEF SemInv
  <2>9. /\ executed' = executed /\ completed_value' = completed_value
        /\ Writing' = Writing
    BY <1>1 DEF gpuVars, semVars, Writing
  <2>10. Tries' = 1
    BY <1>2, <2>2 DEF Tries
  <2>11. ReaderInv'
    <3>1. executed' + Writing' >= completed_value' + Tries'
      BY <1>2, <2>5, <2>8, <2>9, <2>10
    <3> QED
      BY <1>2, <2>2, <3>1 DEF ReaderInv, Copying
  <2> QED
    BY <1>1, <2>2, <2>11, ReadFrame
<1> QED
  BY <1>3, <1>4

(* The next field of the material is copied.                               *)
LEMMA ReadNotifierStep ==
  ASSUME IInv, ReadNotifier
  PROVE  IInv'
<1>1. /\ reader.pc = "notifier" /\ notifier % 2 = 0
      /\ reader' = [reader EXCEPT !.pc = "tag", !.gpu_notifier = notifier]
      /\ UNCHANGED <<pushVars, gpuVars, semVars>>
  BY DEF ReadNotifier
<1>2. /\ TypeOK /\ GpuInv /\ SemInv /\ ReaderInv
      /\ executed \in Nat /\ completed_value \in Nat
      /\ num_gpfifo_entries \in Nat \ {0, 1}
  BY Typed DEF IInv
<1>3. reader \in ReaderRec /\ notifier \in Notifiers
  BY <1>2 DEF TypeOK, ReaderRec
<1>4. /\ reader' \in ReaderRec /\ reader'.pc = "tag"
      /\ reader'.gpu_notifier = notifier
      /\ reader'.tries_left = reader.tries_left
  BY <1>1, <1>3, Zenon DEF ReaderRec
<1>5. notifier = (2 * executed + Writing) % NOTIFIER_MOD /\ Writing \in 0 .. 1
  BY <1>2 DEF GpuInv, Writing
<1>6. Writing = 0
  <2>1. executed \in Int
    BY <1>2
  <2>2. notifier % 2 = Writing
    BY <1>5, <2>1, NotifierParts, Zenon
  <2> QED
    BY <1>1, <2>2
<1>7. notifier = NotifierOf(executed)
  <2>1. 2 * executed + Writing = 2 * executed
    BY <1>2, <1>6
  <2> QED
    BY <1>5, <2>1 DEF NotifierOf
<1>8. /\ executed' = executed /\ completed_value' = completed_value
      /\ Tries' = Tries
  BY <1>1, <1>4 DEF gpuVars, semVars, Tries
<1>9. executed >= completed_value + Tries /\ reader.tries_left # 0
  <2>1. executed + Writing >= completed_value + Tries
    BY <1>1, <1>2 DEF ReaderInv
  <2> QED
    BY <1>1, <1>2, <1>6, <2>1 DEF ReaderInv
<1>10. Reading(executed)'
  <2>1. executed \in completed_value .. executed
    BY <1>2 DEF SemInv
  <2> QED
    BY <1>4, <1>7, <1>8, <1>9, <2>1 DEF Reading, NotifierOf
<1>11. ReaderInv'
  <2>1. executed' \in Nat
    BY <1>2, <1>8
  <2> QED
    BY <1>4, <1>9, <1>10, <2>1 DEF ReaderInv
<1> QED
  BY <1>1, <1>4, <1>11, ReadFrame

(* What is in memory while the GPU is still at push p is p's material.     *)
LEMMA InMemory ==
  ASSUME GpuInv, NEW p, Still(p)
  PROVE  auth_tag = p /\ encrypted_payload = p
BY DEF GpuInv, Still

LEMMA ReadTagStep ==
  ASSUME IInv, ReadTag
  PROVE  IInv'
<1>1. /\ reader.pc = "tag"
      /\ reader' = [reader EXCEPT !.pc = "payload", !.tag = auth_tag]
      /\ UNCHANGED <<pushVars, gpuVars, semVars>>
  BY DEF ReadTag
<1>2. TypeOK /\ GpuInv /\ ReaderInv
  BY DEF IInv
<1>3. reader \in ReaderRec /\ auth_tag \in Pushes
  BY <1>2 DEF TypeOK, ReaderRec
<1>4. /\ reader' \in ReaderRec /\ reader'.pc = "payload"
      /\ reader'.gpu_notifier = reader.gpu_notifier /\ reader'.tag = auth_tag
      /\ reader'.tries_left = reader.tries_left
  BY <1>1, <1>3, Zenon DEF ReaderRec
<1>5. PICK p \in Nat : Reading(p)
  BY <1>1, <1>2 DEF ReaderInv, Copying
<1>6. /\ executed' = executed /\ gpu' = gpu /\ completed_value' = completed_value
      /\ Tries' = Tries
  BY <1>1, <1>4 DEF gpuVars, semVars, Tries
<1>7. Still(p) => reader'.tag = p
  BY <1>2, <1>4, InMemory
<1>8. Reading(p)'
  BY <1>1, <1>4, <1>5, <1>6, <1>7 DEF Reading, Still, NotifierOf
<1>9. ReaderInv'
  BY <1>1, <1>2, <1>4, <1>8 DEF ReaderInv
<1> QED
  BY <1>1, <1>4, <1>9, ReadFrame

LEMMA ReadPayloadStep ==
  ASSUME IInv, ReadPayload
  PROVE  IInv'
<1>1. /\ reader.pc = "payload"
      /\ reader' = [reader EXCEPT !.pc = "iv", !.payload = encrypted_payload]
      /\ UNCHANGED <<pushVars, gpuVars, semVars>>
  BY DEF ReadPayload
<1>2. TypeOK /\ GpuInv /\ ReaderInv
  BY DEF IInv
<1>3. reader \in ReaderRec /\ encrypted_payload \in Pushes
  BY <1>2 DEF TypeOK, ReaderRec
<1>4. /\ reader' \in ReaderRec /\ reader'.pc = "iv" /\ reader'.tag = reader.tag
      /\ reader'.gpu_notifier = reader.gpu_notifier
      /\ reader'.payload = encrypted_payload
      /\ reader'.tries_left = reader.tries_left
  BY <1>1, <1>3, Zenon DEF ReaderRec
<1>5. PICK p \in Nat : Reading(p)
  BY <1>1, <1>2 DEF ReaderInv, Copying
<1>6. /\ executed' = executed /\ gpu' = gpu /\ completed_value' = completed_value
      /\ Tries' = Tries
  BY <1>1, <1>4 DEF gpuVars, semVars, Tries
<1>7. Still(p) => reader'.payload = p
  BY <1>2, <1>4, InMemory
<1>8. Reading(p)'
  BY <1>1, <1>4, <1>5, <1>6, <1>7 DEF Reading, Still, NotifierOf
<1>9. ReaderInv'
  BY <1>1, <1>2, <1>4, <1>8 DEF ReaderInv
<1> QED
  BY <1>1, <1>4, <1>9, ReadFrame

(* The IV is found where the push logged it: too few pushes can be pending *)
(* for a later one to have taken its place.                                *)
LEMMA ReadIvStep ==
  ASSUME IInv, ReadIv
  PROVE  IInv'
<1> DEFINE N == num_gpfifo_entries
<1>1. /\ reader.pc = "iv"
      /\ reader' = [reader EXCEPT !.pc = "again",
                      !.iv = ivs[IvIndex(reader.gpu_notifier)]]
      /\ UNCHANGED <<pushVars, gpuVars, semVars>>
  BY DEF ReadIv
<1>2. /\ TypeOK /\ PushInv /\ SemInv /\ ReaderInv
      /\ executed \in Nat /\ completed_value \in Nat /\ pushed \in Nat
      /\ executed <= pushed /\ N \in Nat \ {0, 1}
  BY Typed DEF IInv
<1>3. PICK p \in Nat : Reading(p)
  BY <1>1, <1>2 DEF ReaderInv, Copying
<1>4. p \in 0 .. pushed /\ pushed - p < N
  BY <1>2, <1>3 DEF Reading, SemInv
<1>5. ivs[p % N] = p
  BY <1>2, <1>4 DEF PushInv
<1>6. IvIndex(reader.gpu_notifier) = p % N
  <2>1. p \in Int /\ 2 * p + 0 = 2 * p
    OBVIOUS
  <2>2. IvIndex((2 * p + 0) % NOTIFIER_MOD) = p % N
    BY <2>1, NotifierParts
  <2> QED
    BY <1>3, <2>1, <2>2 DEF Reading, NotifierOf
<1>7. reader \in ReaderRec /\ p \in Pushes
  <2>1. reader \in ReaderRec
    BY <1>2 DEF TypeOK, ReaderRec
  <2>2. pushed \in 0 .. MAX_PUSHES /\ MAX_PUSHES \in Nat
    BY <1>2, Constants DEF TypeOK, Pushes
  <2> QED
    BY <1>4, <2>1, <2>2 DEF Pushes
<1>8. reader' = [reader EXCEPT !.pc = "again", !.iv = p]
  BY <1>1, <1>5, <1>6, Zenon
<1>9. /\ reader' \in ReaderRec /\ reader'.pc = "again" /\ reader'.tag = reader.tag
      /\ reader'.gpu_notifier = reader.gpu_notifier /\ reader'.iv = p
      /\ reader'.payload = reader.payload
      /\ reader'.tries_left = reader.tries_left
  BY <1>7, <1>8, Zenon DEF ReaderRec
<1>10. /\ executed' = executed /\ gpu' = gpu
       /\ completed_value' = completed_value /\ Tries' = Tries
  BY <1>1, <1>9 DEF gpuVars, semVars, Tries
<1>11. Reading(p)'
  BY <1>1, <1>3, <1>9, <1>10 DEF Reading, Still, NotifierOf
<1>12. ReaderInv'
  BY <1>1, <1>2, <1>9, <1>11 DEF ReaderInv
<1> QED
  BY <1>1, <1>9, <1>12, ReadFrame

(* The last try is not reached, and a notifier that reads the same again   *)
(* has not moved.                                                          *)
LEMMA EndTryStep ==
  ASSUME IInv, EndTry
  PROVE  IInv'
<1> DEFINE N == num_gpfifo_entries
<1>1. /\ reader.pc = "again"
      /\ fatal_error' = (fatal_error \/ reader.tries_left = 1)
      /\ UNCHANGED <<pushVars, gpuVars, completed_value, last_observed_notifier,
                     cached_payload>>
  BY DEF EndTry
<1>2. /\ TypeOK /\ GpuInv /\ SemInv /\ ReaderInv
      /\ executed \in Nat /\ completed_value \in Nat /\ pushed \in Nat
      /\ executed <= pushed /\ N \in Nat \ {0, 1}
      /\ reader.tries_left \in 0 .. N /\ Writing \in 0 .. 1
  BY Typed DEF IInv
<1>3. PICK p \in Nat : Reading(p)
  BY <1>1, <1>2 DEF ReaderInv, Copying
<1>4. /\ p \in completed_value .. executed /\ p >= completed_value + Tries
      /\ reader.gpu_notifier = NotifierOf(p) /\ reader.iv = p
      /\ Still(p) => reader.tag = p /\ reader.payload = p
  BY <1>1, <1>3 DEF Reading
<1>5. Tries = (N - reader.tries_left) + 1 /\ pushed - completed_value < N
  BY <1>2 DEF Tries, SemInv
<1>6. reader.tries_left # 1 /\ reader.tries_left # 0
  BY <1>1, <1>2, <1>4, <1>5 DEF ReaderInv
<1>7. fatal_error' = fatal_error
  <2>1. fatal_error \in BOOLEAN /\ ~(reader.tries_left = 1)
    BY <1>2, <1>6 DEF TypeOK
  <2> QED
    BY <1>1, <2>1, Zenon
<1>8. UNCHANGED <<pushVars, gpuVars, semVars>>
  BY <1>1, <1>7 DEF semVars
<1>9. reader \in ReaderRec /\ reader.tries_left - 1 \in 1 .. N
  BY <1>2, <1>6 DEF TypeOK, ReaderRec
<1>10. executed' = executed /\ gpu' = gpu /\ completed_value' = completed_value
  BY <1>1 DEF gpuVars
<1>11. notifier = (2 * executed + Writing) % NOTIFIER_MOD
  BY <1>2 DEF GpuInv
<1> DEFINE s == [reader EXCEPT !.tries_left = @ - 1]
<1>12. /\ s \in ReaderRec /\ s.tries_left = reader.tries_left - 1
       /\ s.gpu_notifier = reader.gpu_notifier /\ s.tag = reader.tag
       /\ s.payload = reader.payload /\ s.iv = reader.iv
  <2>1. reader.tries_left - 1 \in 0 .. N
    BY <1>2, <1>9
  <2> QED
    BY <1>9, <2>1 DEF ReaderRec
<1>13. reader' = [s EXCEPT !.pc = IF notifier = reader.gpu_notifier
                                  THEN "decrypt" ELSE "notifier"]
  BY <1>6, Zenon DEF EndTry
<1> HIDE DEF s
<1>14. CASE notifier = reader.gpu_notifier
  <2>1. reader' = [s EXCEPT !.pc = "decrypt"]
    BY <1>13, <1>14
  <2>2. /\ reader' \in ReaderRec /\ reader'.pc = "decrypt"
        /\ reader'.gpu_notifier = reader.gpu_notifier /\ reader'.tag = reader.tag
        /\ reader'.payload = reader.payload /\ reader'.iv = reader.iv
    BY <1>12, <2>1 DEF ReaderRec
  <2>3. p <= executed /\ executed - p < N
    BY <1>2, <1>4, <1>5
  <2>4. p = executed /\ Writing = 0
    BY <1>2, <1>4, <1>11, <1>14, <2>3, NotifierInj
  <2>5. Still(p)
    BY <2>4 DEF Still, Writing
  <2>6. Reading(p)'
    BY <1>4, <1>10, <2>2, <2>5 DEF Reading, NotifierOf
  <2>7. ReaderInv'
    BY <2>2, <2>6 DEF ReaderInv
  <2> QED
    BY <1>1, <1>8, <2>2, <2>7, ReadFrame
<1>15. CASE notifier # reader.gpu_notifier
  <2>1. reader' = [s EXCEPT !.pc = "notifier"]
    BY <1>13, <1>15
  <2>2. /\ reader' \in ReaderRec /\ reader'.pc = "notifier"
        /\ reader'.tries_left = reader.tries_left - 1
    BY <1>12, <2>1 DEF ReaderRec
  <2>3. ~Still(p)
    <3>1. SUFFICES ASSUME Still(p) PROVE FALSE
      OBVIOUS
    <3>2. 2 * executed + Writing = 2 * p
      BY <1>2, <3>1 DEF Still, Writing
    <3> QED
      BY <1>4, <1>11, <1>15, <3>2 DEF NotifierOf
  <2>4. executed + Writing >= p + 1
    <3>1. executed # p \/ Writing = 1
      BY <2>3 DEF Still, Writing
    <3> QED
      BY <1>2, <1>4, <3>1
  <2>5. Tries' = (N - reader.tries_left) + 2 /\ Writing' = Writing
    BY <1>2, <1>10, <2>2 DEF Tries, Writing
  <2>6. executed' + Writing' >= completed_value' + Tries'
    <3>1. executed + Writing >= completed_value + ((N - reader.tries_left) + 2)
      BY <1>2, <1>4, <1>5, <2>4
    <3> QED
      BY <1>10, <2>5, <3>1
  <2>7. ReaderInv'
    <3>1. reader'.tries_left # 0
      BY <1>2, <1>6, <2>2
    <3> QED
      BY <2>2, <2>6, <3>1 DEF ReaderInv, Copying
  <2> QED
    BY <1>1, <1>8, <2>2, <2>7, ReadFrame
<1> QED
  BY <1>14, <1>15

(* What is decrypted is authentic.                                         *)
LEMMA DecryptStep ==
  ASSUME IInv, Decrypt
  PROVE  IInv'
<1>1. /\ reader.pc = "decrypt" /\ reader' = [Idle EXCEPT !.pc = "update"]
      /\ UNCHANGED <<pushVars, gpuVars, completed_value>>
  BY DEF Decrypt
<1>2. TypeOK /\ SemInv /\ ReaderInv /\ completed_value \in Nat /\ executed \in Nat
  BY Typed DEF IInv
<1>3. PICK p \in Nat : Reading(p)
  BY <1>1, <1>2 DEF ReaderInv, Copying
<1>4. /\ p \in completed_value .. executed /\ reader.gpu_notifier = NotifierOf(p)
      /\ reader.tag = p /\ reader.payload = p /\ reader.iv = p
  BY <1>1, <1>3 DEF Reading
<1>5. /\ fatal_error' = (fatal_error \/ FALSE)
      /\ cached_payload' = p % PAYLOAD_MOD
      /\ last_observed_notifier' = NotifierOf(p)
  BY <1>4, Zenon DEF Decrypt
<1>6. fatal_error' \in BOOLEAN /\ ~fatal_error'
  BY <1>2, <1>5, Zenon DEF SemInv
<1>7. /\ executed' = executed /\ pushed' = pushed
      /\ completed_value' = completed_value
  BY <1>1 DEF gpuVars, pushVars
<1>8. reader' \in ReaderRec /\ reader'.pc = "update"
  BY <1>1, IdleTyped DEF ReaderRec, Idle
<1>9. Observed(p)'
  BY <1>4, <1>5, <1>7 DEF Observed, NotifierOf
<1>10. SemInv'
  BY <1>2, <1>6, <1>7, <1>8, <1>9 DEF SemInv
<1>11. ReaderInv'
  BY <1>8 DEF ReaderInv, Copying
<1>12. /\ cached_payload' \in 0 .. PAYLOAD_MOD - 1
       /\ last_observed_notifier' \in Notifiers
  <2>1. PAYLOAD_MOD \in Nat \ {0} /\ p \in Int
    BY Constants
  <2>2. p % PAYLOAD_MOD \in 0 .. PAYLOAD_MOD - 1
    BY <2>1, ModDef
  <2>3. NotifierOf(p) \in Notifiers
    BY <1>2, <1>4 DEF TypeOK
  <2> QED
    BY <1>5, <2>2, <2>3
<1> QED
  BY <1>1, <1>2, <1>6, <1>7, <1>8, <1>10, <1>11, <1>12, ReaderFrame

(* The completed value becomes the number of the push observed.            *)
LEMMA CompletedStep ==
  ASSUME IInv, UpdateCompletedValue
  PROVE  IInv'
<1>1. /\ reader.pc = "update" /\ reader' = Idle
      /\ completed_value' = Extended(completed_value, cached_payload)
      /\ UNCHANGED <<pushVars, gpuVars, last_observed_notifier, cached_payload,
                     fatal_error>>
  BY DEF UpdateCompletedValue
<1>2. /\ TypeOK /\ SemInv /\ completed_value \in Nat /\ executed \in Nat
      /\ pushed \in Nat /\ executed <= pushed
  BY Typed DEF IInv
<1>3. PICK c \in Nat : Observed(c)
  BY <1>1, <1>2 DEF SemInv
<1>4. c \in completed_value .. executed /\ cached_payload = c % PAYLOAD_MOD
  BY <1>3 DEF Observed
<1>5. pushed - completed_value < num_gpfifo_entries
  BY <1>2 DEF SemInv
<1>6. completed_value' = c
  <2>1. completed_value <= c /\ c < completed_value + PAYLOAD_MOD
    BY <1>2, <1>4, <1>5, Constants
  <2>2. Extended(completed_value, c % PAYLOAD_MOD) = c
    BY <1>2, <2>1, ExtendedExact
  <2> QED
    BY <1>1, <1>4, <2>2
<1>7. /\ executed' = executed /\ pushed' = pushed /\ fatal_error' = fatal_error
      /\ last_observed_notifier' = last_observed_notifier
      /\ cached_payload' = cached_payload
  BY <1>1 DEF gpuVars, pushVars
<1>8. reader' \in ReaderRec /\ reader'.pc = "idle"
  BY <1>1, IdleTyped DEF Idle
<1>9. Observed(completed_value)'
  <2>1. c \in c .. executed
    BY <1>2, <1>4
  <2> QED
    BY <1>3, <1>6, <1>7, <2>1 DEF Observed, NotifierOf
<1>10. SemInv'
  <2>1. completed_value' <= executed' /\ pushed' - completed_value' < num_gpfifo_entries
    BY <1>2, <1>4, <1>5, <1>6, <1>7, Constants
  <2> QED
    BY <1>2, <1>7, <1>8, <1>9, <2>1 DEF SemInv
<1>11. ReaderInv'
  BY <1>8 DEF ReaderInv, Copying
<1>12. /\ completed_value' \in Nat /\ cached_payload' \in 0 .. PAYLOAD_MOD - 1
       /\ last_observed_notifier' \in Notifiers /\ fatal_error' \in BOOLEAN
  BY <1>2, <1>6, <1>7, Zenon DEF TypeOK
<1> QED
  BY <1>1, <1>8, <1>10, <1>11, <1>12, ReaderFrame

-----------------------------------------------------------------------------
LEMMA NextStep ==
  ASSUME IInv, [Next]_vars
  PROVE  IInv'
<1>1. CASE Push
  BY <1>1, PushStep
<1>2. CASE Gpu
  BY <1>2, GpuEntryStep, GpuEncryptStep, GpuExitStep DEF Gpu
<1>3. CASE Reader
  BY <1>3, UpdateStep, ReadNotifierStep, ReadTagStep, ReadPayloadStep,
     ReadIvStep, EndTryStep, DecryptStep, CompletedStep DEF Reader
<1>4. CASE UNCHANGED vars
  BY <1>4, Zenon DEF vars, pushVars, gpuVars, semVars, IInv, TypeOK, PushInv, GpuInv,
              SemInv, ReaderInv, Observed, Reading, Still, Writing, Tries, NotifierOf
<1> QED
  BY <1>1, <1>2, <1>3, <1>4 DEF Next

(* The invariant holds in every reachable state.                           *)
THEOREM Invariance == Spec => []IInv
<1>1. Init => IInv
  BY InitInv
<1>2. IInv /\ [Next]_vars => IInv'
  BY NextStep
<1> QED
  BY <1>1, <1>2, PTL DEF Spec

(* The variables keep their types; in particular no more pushes are        *)
(* executed than submitted.                                                *)
THEOREM TypeCorrect == Spec => []TypeOK
<1>1. IInv => TypeOK
  BY DEF IInv
<1> QED
  BY <1>1, Invariance, PTL

(* uvm_gpu_semaphore_encrypted_payload_update() never reports an error     *)
(* because the GPU writes while it reads: the tries are enough, and what   *)
(* it decrypts is the material of one push.                                *)
THEOREM NoFalseAlarmCorrect == Spec => []NoFalseAlarm
<1>1. IInv => NoFalseAlarm
  BY DEF IInv, SemInv, NoFalseAlarm
<1> QED
  BY <1>1, Invariance, PTL

(* The completed value is that of a push the GPU has executed, whatever    *)
(* the widths of the payload and of the notifier.                          *)
THEOREM CompletedExecutedCorrect == Spec => []CompletedExecuted
<1>1. IInv => CompletedExecuted
  BY DEF IInv, SemInv, Observed, CompletedExecuted
<1> QED
  BY <1>1, Invariance, PTL
=============================================================================

------------------------------ MODULE MsgQProof ------------------------------
(***************************************************************************)
(* Proofs about module MsgQ, for rings, records and sequence numbers of    *)
(* any size: the sender never overwrites what the receiver has not         *)
(* consumed, and the queue is a FIFO.                                      *)
(***************************************************************************)
EXTENDS MsgQ, TLAPS

-----------------------------------------------------------------------------
(* The inductive invariant.                                                *)

(* The slot of an element of the stream.                                   *)
SlotOf(q) == q % msgCount

(* The shared pointers are the numbers of elements submitted and consumed, *)
(* modulo the size of the ring; the cached counts are never too large.     *)
PtrInv ==
  /\ writePtr = SlotOf(puts) /\ readPtr = SlotOf(gets)
  /\ gets <= puts /\ puts <= gets + msgCount - 1
  /\ rxAvail <= puts - gets
  /\ txFree <= gets + msgCount - 1 - puts
  /\ ~swapped => txFree <= msgCount - 1 - puts
  /\ ~rxLinked => gets = 0 /\ rx.pc = "idle"

(* The call of the sender: elements 0 .. tx.i - 1 are written, and there   *)
(* is room for them.                                                       *)
TxInv ==
  /\ tx.i <= txFree
  /\ tx.pc = "idle" => tx.i = 0
  /\ tx.pc = "copy" => tx.i < tx.elemCount
  /\ tx.pc = "submit" => tx.i = tx.elemCount /\ tx.i > 0
  /\ tx.pc # "idle" => Len(sent) < MAX_RECORDS
  /\ txSeqNum = Len(sent) % SEQS

(* The call of the receiver.                                               *)
RxInv ==
  rx.pc # "idle" =>
    /\ Len(rx.staged) = rx.i
    /\ rx.i > 0 => rx.nElements = rx.staged[1].elemCount
    /\ rx.pc = "read" => rx.i = 0 \/ rx.i < rx.nElements
    /\ rx.pc = "check" => rx.i > 0 /\ rx.nElements <= rx.i

(* The first element of record k.                                          *)
Start(k) == IF k <= Len(sent) THEN sent[k].start ELSE puts

(* The records follow one another in the stream.                           *)
SentInv ==
  /\ Len(sent) <= MAX_RECORDS
  /\ Start(1) = 0
  /\ \A k \in 1 .. Len(sent) :
       /\ sent[k].start + sent[k].elemCount = Start(k + 1)
       /\ sent[k].start + sent[k].elemCount <= puts

(* A store that waits for a slot of the record being written is the        *)
(* record's own.                                                           *)
WrittenInv ==
  \A i \in 0 .. tx.i - 1 :
    pend[SlotOf(puts + i)] # NO_STORE =>
      pend[SlotOf(puts + i)].no = Len(sent) + 1

(* An element other than zeroed memory has its record's sequence number.   *)
Proper(e, last) ==
  e.elemCount > 0 => e.no \in 1 .. last /\ e.seqNum = (e.no - 1) % SEQS

(* What is in memory or on the way to it was written for a record sent, or *)
(* for the next one; what the receiver may look at, for a record sent.     *)
ProperInv ==
  /\ \A s \in Slots :
       /\ Proper(ring[s], Len(sent) + 1)
       /\ pend[s] # NO_STORE => Proper(pend[s], Len(sent) + 1)
  /\ \A q \in gets .. puts - 1 :
       /\ Proper(ring[SlotOf(q)], Len(sent))
       /\ pend[SlotOf(q)] # NO_STORE => Proper(pend[SlotOf(q)], Len(sent))
  /\ rx.pc # "idle" =>
       \A j \in 1 .. rx.i : Proper(rx.staged[j], Len(sent))

(* The part of the invariant that holds for every sender.                  *)
RingInv ==
  /\ TypeOK /\ PtrInv /\ TxInv /\ RxInv /\ SentInv
  /\ NoOverwrite /\ WrittenInv /\ ProperInv

(* Element i of record k, as it was written.                               *)
ElementOf(k, i) ==
  [no |-> k, part |-> i, elemCount |-> sent[k].elemCount,
   seqNum |-> (k - 1) % SEQS, iv |-> sent[k].iv]

(* With a fence the receiver sees what was sent, and reads the record that *)
(* follows the last one it returned.                                       *)
FenceInv ==
  /\ gets = Start(Len(received) + 1)
  /\ \A k \in 1 .. Len(sent) : \A i \in 0 .. sent[k].elemCount - 1 :
       sent[k].start + i >= gets =>
         /\ pend[SlotOf(sent[k].start + i)] = NO_STORE
         /\ ring[SlotOf(sent[k].start + i)] = ElementOf(k, i)
  /\ \A i \in 0 .. tx.i - 1 :
       LET s == SlotOf(puts + i)
           e == [NewElement EXCEPT !.part = i]
       IN  pend[s] = e \/ (pend[s] = NO_STORE /\ ring[s] = e)
  /\ rx.pc # "idle" /\ rx.i > 0 =>
       /\ Len(received) < Len(sent)
       /\ rx.nElements = sent[Len(received) + 1].elemCount
       /\ \A j \in 1 .. rx.i : rx.staged[j] = ElementOf(Len(received) + 1, j - 1)

(* Sequence numbers tell the records apart: there is a fence, or they do   *)
(* not wrap.                                                               *)
Ordered == setup.fenced \/ MAX_RECORDS < SEQS

(* What was received is a prefix of what was sent.                         *)
OrderInv ==
  /\ Ordered
  /\ Len(received) <= Len(sent)
  /\ \A i \in 1 .. Len(received) : received[i] = i
  /\ rxSeqNum = Len(received) % SEQS
  /\ setup.fenced => FenceInv

IInv == RingInv /\ OrderInv

-----------------------------------------------------------------------------
(* The elements of a sequence over S are members of S.                     *)
LEMMA Member ==
  ASSUME NEW S, NEW s \in Seq(S), NEW n, n = Len(s)
  PROVE  /\ \A j \in 1 .. n : s[j] \in S
         /\ n > 0 => s[1] \in S
  OBVIOUS

-----------------------------------------------------------------------------
(* Arithmetic modulo the size of the ring.                                 *)

(* Quotient and remainder.                                                 *)
LEMMA Division ==
  ASSUME NEW N \in Nat \ {0}, NEW a \in Int
  PROVE  /\ a = N * (a \div N) + (a % N)
         /\ a % N \in 0 .. N - 1
         /\ a \div N \in Int
OBVIOUS

(* A number in the range 0 .. N - 1 that differs from a by a multiple of N *)
(* is the remainder of a.                                                  *)
LEMMA Remainder ==
  ASSUME NEW N \in Nat \ {0}, NEW a \in Int, NEW q \in Int,
         NEW r \in 0 .. N - 1, a = N * q + r
  PROVE  a % N = r
<1> DEFINE p == a \div N
           s == a % N
<1>1. a = N * p + s /\ s \in 0 .. N - 1 /\ p \in Int
  BY Division, Zenon
<1> HIDE DEF p, s
<1>2. N * (p - q) = r - s
  BY <1>1
<1>3. CASE p > q
  <2>1. N * (p - q) >= N
    <3>1. p - q >= 1 /\ p - q \in Int
      BY <1>1, <1>3
    <3>2. QED
      BY <3>1
  <2>2. QED
    BY <1>1, <1>2, <2>1
<1>4. CASE p < q
  <2>1. N * (q - p) >= N
    <3>1. q - p >= 1 /\ q - p \in Int
      BY <1>1, <1>4
    <3>2. QED
      BY <3>1
  <2>2. N * (q - p) = s - r
    BY <1>1
  <2>3. QED
    BY <1>1, <2>1, <2>2
<1>5. CASE p = q
  BY <1>1, <1>5 DEF s
<1>6. QED
  BY <1>1, <1>3, <1>4, <1>5

(* Two elements less than a ring apart are in different slots.             *)
LEMMA SlotsDiffer ==
  ASSUME NEW a \in Int, NEW b \in Int, a < b, b < a + msgCount
  PROVE  SlotOf(a) # SlotOf(b)
<1>1. msgCount \in Nat \ {0}
  BY MsgQAssumption
<1>2. SUFFICES ASSUME SlotOf(a) = SlotOf(b) PROVE FALSE
  BY Zenon
<1> DEFINE p == a \div msgCount
           q == b \div msgCount
           r == a % msgCount
<1>3. /\ a = msgCount * p + r /\ b = msgCount * q + r
      /\ p \in Int /\ q \in Int /\ r \in Int
  BY <1>1, <1>2, Division DEF SlotOf
<1> HIDE DEF p, q, r
<1>4. msgCount * (q - p) = b - a
  BY <1>1, <1>3
<1>5. CASE q <= p
  <2>1. msgCount * (q - p) <= 0
    BY <1>1, <1>3, <1>5
  <2>2. QED
    BY <1>4, <2>1
<1>6. CASE q > p
  <2>1. q - p \in Int /\ q - p >= 1
    BY <1>3, <1>6
  <2>2. msgCount * (q - p) >= msgCount
    BY <1>1, <2>1
  <2>3. QED
    BY <1>1, <1>4, <2>2
<1>7. QED
  BY <1>3, <1>5, <1>6

(* Counting modulo N.                                                      *)
LEMMA NextSeqNum ==
  ASSUME NEW N \in Nat \ {0}, NEW a \in Nat
  PROVE  ((a % N) + 1) % N = (a + 1) % N
<1> DEFINE p == a \div N
           r == a % N
<1>1. a = N * p + r /\ r \in 0 .. N - 1 /\ p \in Int
  BY Division
<1> HIDE DEF p, r
<1>2. CASE r + 1 < N
  <2> DEFINE t == r + 1
  <2>1. t \in 0 .. N - 1 /\ t \in Int /\ a + 1 = N * p + t /\ a + 1 \in Int
    BY <1>1, <1>2
  <2>2. t % N = t
    BY <1>2, <2>1
  <2> HIDE DEF t
  <2>3. (a + 1) % N = t
    BY <1>1, <2>1, Remainder, Zenon
  <2>4. QED
    BY <2>2, <2>3, Zenon DEF t, r
<1>3. CASE r + 1 = N
  <2> DEFINE q == p + 1
             c == a + 1
  <2>1. q \in Int /\ c \in Int /\ c = N * q + 0 /\ 0 \in 0 .. N - 1
    BY <1>1, <1>3
  <2> HIDE DEF q, c
  <2>2. c % N = 0
    BY <2>1, Remainder, Zenon
  <2>3. N % N = 0
    OBVIOUS
  <2>4. QED
    BY <1>3, <2>2, <2>3, Zenon DEF c, r
<1>4. QED
  BY <1>1, <1>2, <1>3

(* A slot is a slot.                                                       *)
LEMMA SlotType == ASSUME NEW a \in Int PROVE SlotOf(a) \in Slots
BY MsgQAssumption, Division DEF SlotOf, Slots

(* The one subtraction of the library is enough to stay in range.          *)
LEMMA WrapSlot ==
  ASSUME NEW a \in Nat, NEW n \in 0 .. msgCount
  PROVE  Wrap(SlotOf(a) + n) = SlotOf(a + n)
<1> DEFINE p == a \div msgCount
           r == a % msgCount
<1>1. msgCount \in Nat \ {0}
  BY MsgQAssumption
<1>2. a = msgCount * p + r /\ r \in 0 .. msgCount - 1 /\ p \in Int
  BY <1>1, Division
<1> HIDE DEF p, r
<1>3. CASE r + n < msgCount
  <2>1. a + n = msgCount * p + (r + n) /\ r + n \in 0 .. msgCount - 1
    BY <1>1, <1>2, <1>3
  <2>2. (a + n) % msgCount = r + n
    BY <1>1, <1>2, <2>1, Remainder
  <2>3. QED
    BY <1>1, <1>2, <1>3, <2>2 DEF Wrap, SlotOf, r
<1>4. CASE r + n >= msgCount
  <2> DEFINE q == p + 1
             t == r + n - msgCount
             c == a + n
  <2>1. /\ q \in Int /\ t \in 0 .. msgCount - 1 /\ c \in Int
        /\ c = msgCount * q + t
    BY <1>1, <1>2, <1>4
  <2> HIDE DEF q, t, c
  <2>2. c % msgCount = t
    BY <1>1, <2>1, Remainder, Zenon
  <2>3. QED
    BY <1>1, <1>2, <1>4, <2>2 DEF Wrap, SlotOf, r, t, c
<1>5. QED
  BY <1>1, <1>2, <1>3, <1>4

(* The distance of two slots, computed by the library, is the distance of  *)
(* the elements.                                                           *)
LEMMA WrapDistance ==
  ASSUME NEW a \in Nat, NEW b \in Nat, a <= b, b <= a + msgCount - 1
  PROVE  Wrap((SlotOf(b) + msgCount) - SlotOf(a)) = b - a
<1> DEFINE p == a \div msgCount
           r == a % msgCount
<1>1. msgCount \in Nat \ {0}
  BY MsgQAssumption
<1>2. a = msgCount * p + r /\ r \in 0 .. msgCount - 1 /\ p \in Int
  BY <1>1, Division
<1> HIDE DEF p, r
<1>3. CASE r + (b - a) < msgCount
  <2> DEFINE t == r + (b - a)
  <2>1. t \in 0 .. msgCount - 1 /\ b = msgCount * p + t
    BY <1>1, <1>2, <1>3
  <2> HIDE DEF t
  <2>2. SlotOf(b) = t /\ SlotOf(a) = r
    BY <1>1, <1>2, <2>1, Remainder, SMTT(30) DEF SlotOf, r
  <2>3. QED
    BY <1>1, <1>2, <2>2 DEF Wrap, t
<1>4. CASE r + (b - a) >= msgCount
  <2> DEFINE q == p + 1
             t == r + (b - a) - msgCount
  <2>1. /\ q \in Int /\ t \in 0 .. msgCount - 1
        /\ b = msgCount * q + t
    BY <1>1, <1>2, <1>4
  <2> HIDE DEF q, t
  <2>2. SlotOf(b) = t /\ SlotOf(a) = r
    BY <1>1, <2>1, Remainder DEF SlotOf, r
  <2>3. QED
    BY <1>1, <1>2, <2>2 DEF Wrap, t
<1>5. QED
  BY <1>1, <1>2, <1>3, <1>4

-----------------------------------------------------------------------------
(* What the library computes from the pointers.                            *)

(* The receiver sees every element submitted, and the sender never more    *)
(* room than there is, even before it sees the read pointer.               *)
LEMMA Pointers ==
  ASSUME TypeOK, PtrInv
  PROVE  /\ msgqRxGetReadAvailable = puts - gets
         /\ puts - gets \in 0 .. msgCount - 1
         /\ msgqTxGetFreeSpace \in 0 .. msgCount - 1
         /\ msgqTxGetFreeSpace <= gets + msgCount - 1 - puts
         /\ ~swapped => msgqTxGetFreeSpace <= msgCount - 1 - puts
<1> USE DEF TypeOK, PtrInv
<1>1. msgCount \in Nat \ {0} /\ puts \in Nat /\ gets \in Nat
  BY MsgQAssumption
<1>2. msgqRxGetReadAvailable = puts - gets
  BY <1>1, WrapDistance, Zenon DEF msgqRxGetReadAvailable
<1>3. puts - gets \in 0 .. msgCount - 1
  BY <1>1
<1>4. CASE swapped
  <2> DEFINE d == gets + msgCount - 1 - puts
             w == SlotOf(puts)
             g == SlotOf(gets)
  <2>1. w \in 0 .. msgCount - 1 /\ g \in 0 .. msgCount - 1
    BY <1>1, SlotType, Zenon DEF Slots
  <2>2. Wrap((w + msgCount) - g) = puts - gets
    BY <1>1, WrapDistance, Zenon
  <2>3. msgqTxGetFreeSpace = Wrap((g + msgCount) - (w + 1))
    BY <1>4, Zenon DEF msgqTxGetFreeSpace, ReadIncoming
  <2> HIDE DEF w, g
  <2>4. Wrap((g + msgCount) - (w + 1)) = d
    BY <1>1, <2>1, <2>2, SMTT(30) DEF Wrap
  <2> HIDE DEF TypeOK, PtrInv
  <2>5. d \in 0 .. msgCount - 1 /\ d <= gets + msgCount - 1 - puts
    BY <1>1, <1>3
  <2>6. QED
    BY <1>2, <1>3, <1>4, <2>3, <2>4, <2>5, Zenon
<1>5. CASE ~swapped
  <2>1. puts \in 0 .. msgCount - 1
    BY <1>1, <1>5
  <2>2. writePtr = puts % msgCount
    BY Zenon DEF SlotOf
  <2>3. writePtr = puts
    <3> HIDE DEF TypeOK, PtrInv
    <3> QED
      BY <1>1, <2>1, <2>2
  <2>4. msgqTxGetFreeSpace = msgCount - 1 - puts
    BY <1>1, <1>5, <2>1, <2>3 DEF msgqTxGetFreeSpace, ReadIncoming, Wrap
  <2>5. QED
    BY <1>1, <1>2, <1>3, <1>5, <2>1, <2>4
<1>6. QED
  BY <1>4, <1>5, Zenon

(* The queue starts in the invariant.                                      *)
LEMMA InitRing == Init => RingInv
<1> SUFFICES ASSUME Init PROVE RingInv
  BY Zenon
<1> USE DEF Init
<1>1. /\ msgCount \in Nat \ {0} /\ MAX_ELEMS \in Nat /\ SEQS \in Nat \ {0}
      /\ MAX_RECORDS \in Nat
  BY MsgQAssumption
<1>2. SlotOf(0) = 0 /\ 0 % SEQS = 0
  BY <1>1, Remainder DEF SlotOf
<1>3. TypeOK
  <2>1. ring \in [Slots -> Element] /\ pend \in [Slots -> Element \cup {NO_STORE}]
    BY Zenon DEF Element, ZeroElement
  <2>2. /\ writePtr \in Slots /\ readPtr \in Slots
        /\ txFree \in 0 .. msgCount - 1 /\ rxAvail \in 0 .. msgCount - 1
        /\ txSeqNum \in 0 .. SEQS - 1 /\ rxSeqNum \in 0 .. SEQS - 1
    BY <1>1 DEF Slots
  <2>3. /\ sent \in Seq([elemCount : 1 .. MAX_ELEMS, iv : Nat, start : Nat])
        /\ received \in Seq(Nat)
    OBVIOUS
  <2>4. tx \in [pc : {"idle", "copy", "submit"}, elemCount : 0 .. MAX_ELEMS,
               i : 0 .. MAX_ELEMS]
    BY <1>1 DEF TxIdle
  <2>5. rx \in [pc : {"idle", "read", "check"}, i : 0 .. msgCount,
               nElements : Nat, staged : Seq(Element), nRetries : Nat,
               nMaxRetries : Nat, seqMismatchDiff : Nat]
    BY <1>1 DEF RxIdle
  <2>6. QED
    BY <2>1, <2>2, <2>3, <2>4, <2>5, Zenon DEF TypeOK
<1>4. PtrInv /\ TxInv /\ RxInv
  BY <1>1, <1>2 DEF PtrInv, TxInv, RxInv, TxIdle, RxIdle
<1>5. SentInv
  BY <1>1 DEF SentInv, Start
<1>6. NoOverwrite /\ WrittenInv
  BY DEF NoOverwrite, WrittenInv, TxIdle
<1>7. ProperInv
  BY DEF ProperInv, Proper, ZeroElement, RxIdle
<1>8. QED
  BY <1>3, <1>4, <1>5, <1>6, <1>7, Zenon DEF RingInv

LEMMA InitOrder == Init /\ Ordered => OrderInv
<1> SUFFICES ASSUME Init, Ordered PROVE OrderInv
  BY Zenon
<1> USE DEF Init
<1>1. SEQS \in Nat \ {0}
  BY MsgQAssumption, Zenon
<1>2. 0 % SEQS = 0
  BY <1>1
<1>3. FenceInv
  BY DEF FenceInv, Start, TxIdle, RxIdle
<1>4. QED
  BY <1>2, <1>3 DEF OrderInv

-----------------------------------------------------------------------------
(* Steps of the receiver that consume nothing.                             *)

RxCall ==
  [pc : {"idle", "read", "check"}, i : 0 .. msgCount, nElements : Nat,
   staged : Seq(Element), nRetries : Nat, nMaxRetries : Nat,
   seqMismatchDiff : Nat]

(* What the receiver has read is fit to be looked at.                      *)
StagedProper ==
  rx.pc # "idle" => \A j \in 1 .. rx.i : Proper(rx.staged[j], Len(sent))

(* What it has read of a fenced queue is the next record.                  *)
StagedExact ==
  rx.pc # "idle" /\ rx.i > 0 =>
    /\ Len(received) < Len(sent)
    /\ rx.nElements = sent[Len(received) + 1].elemCount
    /\ \A j \in 1 .. rx.i : rx.staged[j] = ElementOf(Len(received) + 1, j - 1)

LEMMA RxLocalRing ==
  ASSUME RingInv,
         UNCHANGED <<setup, txVars, rxLinked, rxSeqNum, received, gets, readPtr,
                     ring, pend>>,
         rx' \in RxCall, rxIv' \in Nat,
         rxAvail' \in 0 .. msgCount - 1, rxAvail' <= puts - gets,
         rxLinked \/ rx'.pc = "idle",
         RxInv', StagedProper'
  PROVE  RingInv'
<1> USE DEF txVars
<1>1. TypeOK'
  BY Zenon DEF RingInv, TypeOK, RxCall
<1>2. PtrInv'
  BY Zenon DEF RingInv, PtrInv
<1>3. TxInv' /\ SentInv'
  BY Zenon DEF RingInv, TxInv, SentInv, Start
<1>4. NoOverwrite' /\ WrittenInv'
  BY Zenon DEF RingInv, NoOverwrite, WrittenInv
<1>5. ProperInv'
  BY Zenon DEF RingInv, ProperInv, StagedProper
<1>6. QED
  BY <1>1, <1>2, <1>3, <1>4, <1>5, Zenon DEF RingInv

LEMMA RxLocalOrder ==
  ASSUME OrderInv,
         UNCHANGED <<setup, txVars, rxLinked, rxSeqNum, received, gets, readPtr,
                     ring, pend>>,
         setup.fenced => StagedExact'
  PROVE  OrderInv'
<1> USE DEF txVars
<1>1. setup.fenced => FenceInv'
  <2>1. SUFFICES ASSUME setup.fenced PROVE FenceInv'
    BY Zenon
  <2>2. FenceInv
    BY <2>1, Zenon DEF OrderInv
  <2>3. gets' = Start(Len(received) + 1)'
    BY <2>2, Zenon DEF FenceInv, Start
  <2>4. (\A i \in 0 .. tx.i - 1 :
           LET s == SlotOf(puts + i)
               e == [NewElement EXCEPT !.part = i]
           IN  pend[s] = e \/ (pend[s] = NO_STORE /\ ring[s] = e))'
    BY <2>2, Zenon DEF FenceInv, NewElement
  <2>5. (\A k \in 1 .. Len(sent) : \A i \in 0 .. sent[k].elemCount - 1 :
           sent[k].start + i >= gets =>
             /\ pend[SlotOf(sent[k].start + i)] = NO_STORE
             /\ ring[SlotOf(sent[k].start + i)] = ElementOf(k, i))'
    BY <2>2, Zenon DEF FenceInv, ElementOf
  <2>6. QED
    BY <2>1, <2>3, <2>4, <2>5, Zenon DEF FenceInv, StagedExact
<1>2. QED
  BY <1>1, Zenon DEF OrderInv, Ordered

(* A call that ends or starts to read again has read nothing.              *)
LEMMA NothingStaged ==
  ASSUME TypeOK, NEW n \in Nat, NEW m \in Nat, NEW d \in Nat,
         rx' = RxIdle \/ rx' = Try(n, m, d)
  PROVE  rx' \in RxCall /\ RxInv' /\ StagedProper' /\ StagedExact'
<1>1. rx' \in RxCall
  <2>1. 0 \in 0 .. msgCount /\ << >> \in Seq(Element)
    BY MsgQAssumption
  <2>2. RxIdle \in RxCall
    BY <2>1, Zenon DEF RxIdle, RxCall
  <2>3. Try(n, m, d) \in RxCall
    BY <2>1, Zenon DEF Try, RxCall
  <2>4. QED
    BY <2>2, <2>3, Zenon
<1>2. rx'.i = 0 /\ Len(rx'.staged) = 0 /\ rx'.pc # "check"
  BY DEF RxIdle, Try
<1>3. QED
  BY <1>1, <1>2 DEF RxInv, StagedProper, StagedExact

LEMMA RetryIs ==
  ASSUME TypeOK, NEW m \in Nat, NEW d \in Nat, Retry(m, d)
  PROVE  rx' \in RxCall /\ RxInv' /\ StagedProper' /\ StagedExact'
<1>1. rx.nRetries + 1 \in Nat
  <2>1. rx.nRetries \in Nat
    BY Zenon DEF TypeOK
  <2>2. QED
    BY <2>1
<1>2. rx' = RxIdle \/ rx' = Try(rx.nRetries + 1, m, d)
  BY Zenon DEF Retry
<1>3. QED
  BY <1>1, <1>2, NothingStaged, Zenon

(* The steps that end a call, or one of its tries, without consuming       *)
(* anything.                                                               *)
RxGivesUp ==
  \/ ReceiveStatus \/ NothingToDo \/ IncompleteRead \/ BadChecksum
  \/ DecryptionFails \/ IncorrectLength

LEMMA RxGivesUpStep ==
  ASSUME RingInv, RxGivesUp
  PROVE  RingInv' /\ (OrderInv => OrderInv')
<1> USE DEF RingInv
<1>1. /\ rx' \in RxCall /\ RxInv' /\ StagedProper' /\ StagedExact'
  <2>1. /\ rx.nMaxRetries \in Nat /\ rx.seqMismatchDiff \in Nat
        /\ SEQS - 1 \in Nat
    BY MsgQAssumption DEF TypeOK
  <2>2. CASE ReceiveStatus
    BY <2>1, <2>2, NothingStaged, Zenon DEF ReceiveStatus
  <2>3. CASE NothingToDo
    BY <2>3, NothingStaged, Zenon DEF NothingToDo
  <2>4. CASE IncompleteRead
    BY <2>1, <2>4, RetryIs, Zenon DEF IncompleteRead
  <2>5. CASE BadChecksum
    BY <2>1, <2>5, RetryIs, Zenon DEF BadChecksum
  <2>6. CASE DecryptionFails
    BY <2>6, NothingStaged, Zenon DEF DecryptionFails
  <2>7. CASE IncorrectLength
    BY <2>7, NothingStaged, Zenon DEF IncorrectLength
  <2>8. QED
    BY <2>2, <2>3, <2>4, <2>5, <2>6, <2>7, Zenon DEF RxGivesUp
<1>2. /\ UNCHANGED <<setup, txVars, rxLinked, rxSeqNum, received, gets, readPtr,
                     ring, pend>>
      /\ rxAvail' = rxAvail \/ rxAvail' = msgqRxGetReadAvailable
      /\ rxIv' = rxIv \/ rxIv' = rxIv + 1
      /\ rxLinked \/ rx.pc # "idle"
  BY Zenon DEF RxGivesUp, ReceiveStatus, NothingToDo, IncompleteRead, BadChecksum,
         DecryptionFails, IncorrectLength, Decrypt, Valid
<1>3. rxAvail' \in 0 .. msgCount - 1 /\ rxAvail' <= puts - gets
  <2>1. rxAvail \in 0 .. msgCount - 1 /\ rxAvail <= puts - gets
    BY Zenon DEF TypeOK, PtrInv
  <2>2. /\ msgqRxGetReadAvailable = puts - gets
        /\ puts - gets \in 0 .. msgCount - 1
    BY Pointers, Zenon
  <2>3. QED
    BY <1>2, <2>1, <2>2
<1>4. rxIv' \in Nat
  BY <1>2, SMTT(30) DEF TypeOK
<1>5. rxLinked
  BY <1>2, Zenon DEF PtrInv, TypeOK
<1>6. RingInv'
  BY <1>1, <1>2, <1>3, <1>4, <1>5, RxLocalRing, Zenon
<1>7. QED
  BY <1>1, <1>2, <1>6, RxLocalOrder, Zenon

(* The fields of a record sent.                                            *)
LEMMA RecordType ==
  ASSUME RingInv, NEW k \in 1 .. Len(sent)
  PROVE  /\ sent[k].elemCount \in Nat /\ sent[k].elemCount >= 1
         /\ sent[k].start \in Nat /\ sent[k].iv \in Nat
<1> DEFINE S == [elemCount : 1 .. MAX_ELEMS, iv : Nat, start : Nat]
<1>1. sent \in Seq(S)
  BY Zenon DEF RingInv, TypeOK
<1> HIDE DEF S
<1>2. sent[k] \in S
  BY <1>1
<1>3. QED
  BY <1>2, MsgQAssumption DEF S

(* Reading an element: it is one the sender has submitted.                 *)
LEMMA ReadElementStep ==
  ASSUME RingInv, ReadElement
  PROVE  RingInv' /\ (OrderInv => OrderInv')
<1> DEFINE e == ring[SlotOf(gets + rx.i)]
           n == IF rx.i = 0 THEN e.elemCount ELSE rx.nElements
<1>0. /\ rx \in RxCall /\ rx.staged \in Seq(Element)
      /\ Len(rx.staged) = rx.i
  <2>1. rx \in RxCall
    BY Zenon DEF RingInv, TypeOK, RxCall
  <2>2. QED
    BY <2>1, Zenon DEF RingInv, RxInv, RxCall, ReadElement
<1>1. /\ rx.pc = "read" /\ rx.i \in Nat /\ rx.nElements \in Nat
      /\ gets \in Nat /\ puts \in Nat /\ msgCount \in Nat \ {0}
  <2>1. gets \in Nat /\ puts \in Nat /\ msgCount \in Nat \ {0}
    BY MsgQAssumption DEF RingInv, TypeOK
  <2>2. QED
    BY <1>0, <2>1 DEF RxCall, ReadElement
<1>2. UNCHANGED <<setup, txVars, rxLinked, rxSeqNum, rxIv, received, gets,
                  readPtr, ring, pend>>
  BY Zenon DEF ReadElement
<1>3. /\ rxAvail' \in 0 .. msgCount - 1 /\ rxAvail' <= puts - gets
      /\ rx.i < puts - gets /\ rx.i + 1 \in 0 .. msgCount
  <2>1. rxAvail \in 0 .. msgCount - 1 /\ rxAvail <= puts - gets
    BY Zenon DEF RingInv, TypeOK, PtrInv
  <2>2. /\ msgqRxGetReadAvailable = puts - gets
        /\ puts - gets \in 0 .. msgCount - 1
    BY Pointers, Zenon DEF RingInv
  <2>3. \/ rx.i < rxAvail /\ rxAvail' = rxAvail
        \/ rx.i < msgqRxGetReadAvailable /\ rxAvail' = msgqRxGetReadAvailable
    BY Zenon DEF ReadElement
  <2>4. QED
    BY <1>1, <2>1, <2>2, <2>3
<1>4. Wrap(readPtr + rx.i) = SlotOf(gets + rx.i)
  <2>1. rx.i \in 0 .. msgCount
    BY <1>1, <1>3
  <2>2. QED
    BY <1>1, <2>1, WrapSlot, Zenon DEF RingInv, PtrInv
<1>5. SlotOf(gets + rx.i) \in Slots
  BY <1>1, SlotType
<1>6. e \in Element /\ e.elemCount \in Nat
  BY <1>5, Zenon DEF RingInv, TypeOK, Element
<1>7. Proper(e, Len(sent))
  <2>1. gets + rx.i \in gets .. puts - 1
    BY <1>1, <1>3
  <2>2. QED
    BY <2>1, Zenon DEF RingInv, ProperInv
<1>8. rx' = [rx EXCEPT !.i = @ + 1, !.nElements = n,
                       !.staged = Append(@, e),
                       !.pc = IF rx.i + 1 < n THEN "read" ELSE "check"]
  BY <1>4, Zenon DEF ReadElement
<1> HIDE DEF e
<1>9. /\ rx'.i = rx.i + 1 /\ rx'.nElements = n
      /\ rx'.staged = Append(rx.staged, e)
      /\ rx'.pc = IF rx.i + 1 < n THEN "read" ELSE "check"
      /\ n \in Nat
  BY <1>0, <1>1, <1>6, <1>8, Zenon DEF RxCall
<1>10. /\ Append(rx.staged, e) \in Seq(Element)
       /\ Len(Append(rx.staged, e)) = rx.i + 1
       /\ \A j \in 1 .. rx.i : Append(rx.staged, e)[j] = rx.staged[j]
       /\ Append(rx.staged, e)[rx.i + 1] = e
  BY <1>0, <1>6
<1>11. rx' \in RxCall
  BY <1>0, <1>1, <1>3, <1>8, <1>9, <1>10, Zenon DEF RxCall
<1>12. RxInv'
  <2>1. rx'.nElements = rx'.staged[1].elemCount
    BY <1>1, <1>9, <1>10 DEF RingInv, RxInv
  <2>2. QED
    BY <1>1, <1>9, <1>10, <2>1 DEF RxInv
<1>13. StagedProper'
  <2>1. \A j \in 1 .. rx.i + 1 : Proper(rx'.staged[j], Len(sent))
    <3>1. \A j \in 1 .. rx.i : Proper(rx.staged[j], Len(sent))
      BY <1>1, Zenon DEF RingInv, ProperInv
    <3>2. \A j \in 1 .. rx.i + 1 : j \in 1 .. rx.i \/ j = rx.i + 1
      BY <1>1
    <3>3. QED
      BY <1>7, <1>9, <1>10, <3>1, <3>2, Zenon
  <2>2. QED
    BY <1>2, <1>9, <2>1, Zenon DEF StagedProper, txVars
<1>14. ASSUME OrderInv, setup.fenced
       PROVE  StagedExact'
  <2> DEFINE r == Len(received)
             c == sent[r + 1].elemCount
  <2>1. FenceInv /\ SentInv
    BY <1>14, Zenon DEF OrderInv, RingInv
  <2>a. r \in Nat /\ Len(sent) \in Nat
    BY SMTT(30) DEF RingInv, TypeOK
  <2>2. r < Len(sent) /\ r \in Nat
    <3>1. r + 1 <= Len(sent) \/ gets = puts
      BY <2>1, Zenon DEF FenceInv, Start
    <3>2. QED
      BY <1>1, <1>3, <2>a, <3>1
  <2>3. /\ gets = sent[r + 1].start /\ c \in Nat /\ c >= 1
        /\ r + 1 \in 1 .. Len(sent)
    <3>1. r + 1 \in 1 .. Len(sent) /\ r + 1 <= Len(sent)
      BY <2>a, <2>2
    <3>2. c \in Nat /\ c >= 1
      BY <3>1, RecordType, Zenon
    <3>3. QED
      BY <2>1, <3>1, <3>2, Zenon DEF FenceInv, Start
  <2>4. rx.i > 0 => /\ rx.nElements = c
                    /\ \A j \in 1 .. rx.i : rx.staged[j] = ElementOf(r + 1, j - 1)
    BY <1>1, <2>1, Zenon DEF FenceInv
  <2>5. rx.i \in 0 .. c - 1
    BY <1>1, <2>3, <2>4 DEF RingInv, RxInv
  <2>6. e = ElementOf(r + 1, rx.i)
    <3>1. sent[r + 1].start + rx.i >= gets
      BY <1>1, <2>3
    <3>2. QED
      BY <2>1, <2>3, <2>5, <3>1, Zenon DEF FenceInv, e
  <2>7. n = c
    BY <1>1, <2>4, <2>6 DEF ElementOf
  <2>8. \A j \in 1 .. rx.i + 1 : rx'.staged[j] = ElementOf(r + 1, j - 1)
    BY <1>1, <1>9, <1>10, <2>4, <2>6, SMTT(30)
  <2>9. sent' = sent /\ received' = received
    BY <1>2, Zenon DEF txVars
  <2>10. \A j \in 1 .. rx'.i :
           rx'.staged[j] = ElementOf(Len(received) + 1, j - 1)'
    BY <1>9, <2>8, <2>9, Zenon DEF ElementOf
  <2>11. QED
    BY <1>9, <2>2, <2>7, <2>9, <2>10, Zenon DEF StagedExact
<1>15. rxLinked
  BY <1>1, Zenon DEF RingInv, PtrInv, TypeOK
<1>16. RingInv'
  BY <1>2, <1>3, <1>11, <1>12, <1>13, <1>15, RxLocalRing, Zenon DEF RingInv, TypeOK
<1>17. QED
  BY <1>2, <1>14, <1>16, RxLocalOrder, Zenon

-----------------------------------------------------------------------------
(* Steps of the receiver that consume what it has read.                    *)

LEMMA ConsumeRing ==
  ASSUME RingInv, NEW n \in Nat, msgqRxMarkConsumed(n),
         UNCHANGED <<setup, txVars, rxLinked, ring, pend>>, rxLinked,
         rx' \in RxCall, rxIv' \in Nat, rxSeqNum' \in 0 .. SEQS - 1,
         received' \in Seq(Nat), RxInv', StagedProper'
  PROVE  RingInv'
<1> USE DEF txVars
<1>1. /\ gets \in Nat /\ puts \in Nat /\ msgCount \in Nat \ {0}
      /\ rxAvail \in 0 .. msgCount - 1 /\ rxAvail <= puts - gets
      /\ puts <= gets + msgCount - 1
      /\ txFree \in Nat /\ txFree <= gets + msgCount - 1 - puts
  BY MsgQAssumption DEF RingInv, TypeOK, PtrInv
<1>2. /\ n <= rxAvail /\ gets' = gets + n /\ rxAvail' = rxAvail - n
      /\ readPtr' = Wrap(readPtr + n)
  BY Zenon DEF msgqRxMarkConsumed
<1>3. readPtr' = SlotOf(gets + n) /\ SlotOf(gets + n) \in Slots
  <2>1. n \in 0 .. msgCount
    BY <1>1, <1>2
  <2>2. QED
    BY <1>1, <1>2, <2>1, WrapSlot, SlotType DEF RingInv, PtrInv
<1>4. gets' \in Nat /\ rxAvail' \in 0 .. msgCount - 1
  BY <1>1, <1>2
<1>5. TypeOK'
  BY <1>3, <1>4, Zenon DEF RingInv, TypeOK, RxCall
<1>6. PtrInv'
  <2>1. /\ gets' <= puts' /\ puts' <= gets' + msgCount - 1
        /\ rxAvail' <= puts' - gets'
        /\ txFree' <= gets' + msgCount - 1 - puts'
    BY <1>1, <1>2
  <2>2. QED
    BY <1>2, <1>3, <2>1, Zenon DEF RingInv, PtrInv
<1>7. TxInv' /\ SentInv'
  BY Zenon DEF RingInv, TxInv, SentInv, Start
<1>8. NoOverwrite'
  <2>1. SUFFICES ASSUME NEW k \in 1 .. Len(sent),
                        NEW i \in 0 .. sent[k].elemCount - 1,
                        sent[k].start + i >= gets'
                 PROVE  LET s == (sent[k].start + i) % msgCount
                        IN  pend[s] # NO_STORE => pend[s].no = k
    BY Zenon DEF NoOverwrite
  <2>2. sent[k].start + i >= gets
    BY <1>1, <1>2, <2>1, RecordType, SMTT(30)
  <2>3. QED
    BY <2>2, Zenon DEF RingInv, NoOverwrite
<1>9. WrittenInv'
  BY Zenon DEF RingInv, WrittenInv
<1>10. ProperInv'
  <2>1. \A q \in gets' .. puts - 1 : q \in gets .. puts - 1
    BY <1>1, <1>2
  <2>2. \A q \in gets' .. puts - 1 :
          /\ Proper(ring[SlotOf(q)], Len(sent))
          /\ pend[SlotOf(q)] # NO_STORE => Proper(pend[SlotOf(q)], Len(sent))
    BY <2>1, Zenon DEF RingInv, ProperInv
  <2>3. \A s \in Slots :
          /\ Proper(ring[s], Len(sent) + 1)
          /\ pend[s] # NO_STORE => Proper(pend[s], Len(sent) + 1)
    BY Zenon DEF RingInv, ProperInv
  <2>4. QED
    BY <2>2, <2>3, Zenon DEF ProperInv, StagedProper
<1>11. QED
  BY <1>5, <1>6, <1>7, <1>8, <1>9, <1>10, Zenon DEF RingInv

(* A record that passes the checks is the one that follows the last one    *)
(* received.                                                               *)
LEMMA StagedNext ==
  ASSUME RingInv, OrderInv, rx.pc = "check", rx.nElements > 0,
         setup.fenced \/ rx.staged[1].seqNum = rxSeqNum
  PROVE  /\ Len(received) < Len(sent)
         /\ rx.staged[1].no = Len(received) + 1
         /\ rx.staged[1].seqNum = rxSeqNum
         /\ setup.fenced => rx.nElements = sent[Len(received) + 1].elemCount
<1> DEFINE r == Len(received)
<1>1. /\ r \in Nat /\ Len(sent) \in Nat /\ SEQS \in Nat \ {0}
      /\ MAX_RECORDS \in Nat
  BY MsgQAssumption DEF RingInv, TypeOK
<1>2. rx.i > 0 /\ rx.nElements = rx.staged[1].elemCount /\ rx.i \in Nat
  BY DEF RingInv, RxInv, TypeOK
<1>3. CASE setup.fenced
  <2>1. FenceInv
    BY <1>3, Zenon DEF OrderInv
  <2>2. /\ r < Len(sent) /\ rx.nElements = sent[r + 1].elemCount
        /\ rx.staged[1] = ElementOf(r + 1, 0)
    BY <1>2, <2>1 DEF FenceInv
  <2>3. rx.staged[1].no = r + 1 /\ rx.staged[1].seqNum = r % SEQS
    BY <1>1, <2>2 DEF ElementOf
  <2>4. QED
    BY <2>2, <2>3, Zenon DEF OrderInv
<1>4. CASE ~setup.fenced
  <2> DEFINE a == rx.staged[1].no
             m == a - 1
  <2>1. a \in 1 .. Len(sent) /\ rx.staged[1].seqNum = m % SEQS
    <3>1. Proper(rx.staged[1], Len(sent))
      BY <1>2 DEF RingInv, ProperInv
    <3>2. QED
      BY <1>2, <3>1, Zenon DEF Proper
  <2>2. /\ MAX_RECORDS < SEQS /\ r <= Len(sent) /\ rxSeqNum = r % SEQS
        /\ Len(sent) <= MAX_RECORDS
    BY <1>4, Zenon DEF OrderInv, Ordered, RingInv, SentInv
  <2>3. m \in 0 .. SEQS - 1 /\ r \in 0 .. SEQS - 1
    <3> HIDE DEF a, r
    <3> QED
      BY <1>1, <2>1, <2>2
  <2>4. m % SEQS = m /\ r % SEQS = r
    <3> HIDE DEF m, r
    <3> QED
      BY <1>1, <2>3
  <2>5. m = r
    BY <1>4, <2>1, <2>2, <2>4, Zenon
  <2>6. rx.staged[1].no = r + 1 /\ r < Len(sent)
    BY <1>1, <2>1, <2>5, SMTT(30)
  <2>7. QED
    BY <1>4, <2>6, Zenon
<1>5. QED
  BY <1>3, <1>4, Zenon

(* The rest of a fenced queue stays as it was sent.                        *)
LEMMA FenceRest ==
  ASSUME RingInv, FenceInv, NEW n \in Nat, gets' = gets + n,
         UNCHANGED <<txVars, ring, pend>>
  PROVE  /\ (\A k \in 1 .. Len(sent) : \A i \in 0 .. sent[k].elemCount - 1 :
               sent[k].start + i >= gets =>
                 /\ pend[SlotOf(sent[k].start + i)] = NO_STORE
                 /\ ring[SlotOf(sent[k].start + i)] = ElementOf(k, i))'
         /\ (\A i \in 0 .. tx.i - 1 :
               LET s == SlotOf(puts + i)
                   e == [NewElement EXCEPT !.part = i]
               IN  pend[s] = e \/ (pend[s] = NO_STORE /\ ring[s] = e))'
<1> USE DEF txVars
<1>1. ASSUME NEW k \in 1 .. Len(sent), NEW i \in 0 .. sent[k].elemCount - 1,
             sent[k].start + i >= gets'
      PROVE  /\ pend[SlotOf(sent[k].start + i)] = NO_STORE
             /\ ring[SlotOf(sent[k].start + i)] = ElementOf(k, i)
  <2>1. sent[k].start + i >= gets
    <3>1. gets \in Nat /\ sent[k].start \in Nat /\ sent[k].elemCount \in Nat
      BY RecordType, Zenon DEF RingInv, TypeOK
    <3>2. QED
      BY <1>1, <3>1
  <2>2. QED
    BY <2>1, Zenon DEF FenceInv
<1>2. (\A k \in 1 .. Len(sent) : \A i \in 0 .. sent[k].elemCount - 1 :
         sent[k].start + i >= gets =>
           /\ pend[SlotOf(sent[k].start + i)] = NO_STORE
           /\ ring[SlotOf(sent[k].start + i)] = ElementOf(k, i))'
  BY <1>1 DEF ElementOf
<1>3. (\A i \in 0 .. tx.i - 1 :
         LET s == SlotOf(puts + i)
             e == [NewElement EXCEPT !.part = i]
         IN  pend[s] = e \/ (pend[s] = NO_STORE /\ ring[s] = e))'
  BY Zenon DEF FenceInv, NewElement
<1>4. QED
  BY <1>2, <1>3, Zenon

(* A record is returned.                                                   *)
LEMMA AcceptStep ==
  ASSUME RingInv, Accept
  PROVE  RingInv' /\ (OrderInv => OrderInv')
<1> DEFINE r == Len(received)
<1>1. /\ rx.pc = "check" /\ rx.nElements > 0 /\ rx.staged[1].seqNum = rxSeqNum
      /\ msgqRxMarkConsumed(rx.nElements) /\ rx' = RxIdle
      /\ received' = Append(received, rx.staged[1].no)
      /\ rxSeqNum' = (rxSeqNum + 1) % SEQS
      /\ rxIv' = rxIv \/ rxIv' = rxIv + 1
      /\ UNCHANGED <<setup, txVars, rxLinked, ring, pend>>
  BY Zenon DEF Accept, Valid, Decrypt
<1>2. /\ rx.nElements \in Nat /\ rxLinked /\ rxIv' \in Nat
      /\ SEQS \in Nat \ {0} /\ rxSeqNum \in Nat
  <2>1. /\ rx.nElements \in Nat /\ rxIv \in Nat /\ rxSeqNum \in 0 .. SEQS - 1
        /\ SEQS \in Nat \ {0} /\ rxLinked \in BOOLEAN
    BY MsgQAssumption, Zenon DEF RingInv, TypeOK
  <2>2. rxLinked
    BY <1>1, <2>1, Zenon DEF RingInv, PtrInv
  <2>3. QED
    BY <1>1, <2>1, <2>2
<1>3. /\ rx' \in RxCall /\ RxInv' /\ StagedProper'
  BY <1>1, NothingStaged, Zenon DEF RingInv
<1>4. rxSeqNum' \in 0 .. SEQS - 1
  BY <1>1, <1>2
<1>5. rx.staged[1].no \in Nat
  <2>1. rx.staged \in Seq(Element) /\ Len(rx.staged) > 0
    <3>1. rx.staged \in Seq(Element)
      BY Zenon DEF RingInv, TypeOK
    <3>2. Len(rx.staged) > 0
      BY <1>1, Zenon DEF RingInv, RxInv
    <3>3. QED
      BY <3>1, <3>2, Zenon
  <2>2. rx.staged[1] \in Element
    BY <2>1
  <2>3. QED
    BY <2>2, Zenon DEF Element
<1>6. /\ received' \in Seq(Nat) /\ Len(received') = r + 1 /\ r \in Nat
      /\ received'[r + 1] = rx.staged[1].no
      /\ \A i \in 1 .. r : received'[i] = received[i]
  <2>1. received \in Seq(Nat)
    BY Zenon DEF RingInv, TypeOK
  <2>2. QED
    BY <1>1, <1>5, <2>1
<1>7. RingInv'
  BY <1>1, <1>2, <1>3, <1>4, <1>6, ConsumeRing, Zenon
<1>8. ASSUME OrderInv PROVE OrderInv'
  <2>1. /\ r < Len(sent) /\ rx.staged[1].no = r + 1
        /\ setup.fenced => rx.nElements = sent[r + 1].elemCount
    BY <1>1, <1>8, StagedNext, Zenon
  <2>2. Len(sent) \in Nat /\ sent' = sent /\ setup' = setup
    BY <1>1 DEF RingInv, TypeOK, txVars
  <2>3. Len(received') <= Len(sent')
    BY <1>6, <2>1, <2>2
  <2>4. \A i \in 1 .. r + 1 : received'[i] = i
    <3>1. \A i \in 1 .. r : received[i] = i
      BY <1>8, Zenon DEF OrderInv
    <3>2. \A i \in 1 .. r + 1 : i \in 1 .. r \/ i = r + 1
      BY <1>6
    <3>3. QED
      BY <1>6, <2>1, <3>1, <3>2, Zenon
  <2>5. rxSeqNum' = (r + 1) % SEQS
    <3>1. rxSeqNum = r % SEQS
      BY <1>8, Zenon DEF OrderInv
    <3>2. ((r % SEQS) + 1) % SEQS = (r + 1) % SEQS
      <4> HIDE DEF r
      <4> QED
        BY <1>2, <1>6, NextSeqNum, Zenon
    <3>3. QED
      BY <1>1, <3>1, <3>2, Zenon
  <2>6. ASSUME setup.fenced PROVE FenceInv'
    <3>1. FenceInv /\ SentInv
      BY <1>8, <2>6, Zenon DEF OrderInv, RingInv
    <3>2. r + 1 \in 1 .. Len(sent) /\ r + 1 <= Len(sent)
      BY <1>6, <2>1, <2>2
    <3>3. gets' = sent[r + 1].start + sent[r + 1].elemCount
      BY <1>1, <2>1, <2>6, <3>1, <3>2, Zenon DEF FenceInv, Start, msgqRxMarkConsumed
    <3>4. gets' = Start(r + 2)
      BY <1>6, <3>1, <3>2, <3>3 DEF SentInv
    <3>5. Start(Len(received) + 1)' = Start(r + 2)
      BY <1>1, <1>6, <2>2 DEF Start, txVars
    <3>6. gets' = gets + rx.nElements
      BY <1>1, Zenon DEF msgqRxMarkConsumed
    <3>7. QED
      BY <1>1, <1>2, <3>1, <3>4, <3>5, <3>6, FenceRest, Zenon DEF FenceInv, RxIdle
  <2>7. QED
    BY <1>6, <1>8, <2>2, <2>3, <2>4, <2>5, <2>6, Zenon DEF OrderInv, Ordered
<1>9. QED
  BY <1>7, <1>8, Zenon

(* A record with a wrong sequence number is discarded, or read again.  In  *)
(* a fenced queue there is none.                                           *)
LEMMA BadSequenceNumberStep ==
  ASSUME RingInv, BadSequenceNumber
  PROVE  RingInv' /\ (OrderInv => OrderInv')
<1> DEFINE diff == rxSeqNum - rx.staged[1].seqNum
<1>1. /\ rx.pc = "check" /\ rx.staged[1].seqNum # rxSeqNum
      /\ \/ /\ diff > 0 /\ msgqRxMarkConsumed(rx.nElements)
            /\ Retry(rx.nMaxRetries + 1, diff)
         \/ /\ Retry(rx.nMaxRetries, rx.seqMismatchDiff)
            /\ UNCHANGED <<rxAvail, gets, readPtr>>
      /\ UNCHANGED <<setup, txVars, rxLinked, rxSeqNum, rxIv, received, ring,
                     pend>>
  BY Zenon DEF BadSequenceNumber
<1>2. /\ rx.nElements \in Nat /\ rx.nMaxRetries \in Nat
      /\ rx.seqMismatchDiff \in Nat /\ rxLinked \in BOOLEAN /\ rxIv \in Nat
      /\ rxSeqNum \in 0 .. SEQS - 1 /\ SEQS \in Nat \ {0}
  BY MsgQAssumption, Zenon DEF RingInv, TypeOK
<1>3. rxLinked
  BY <1>1, Zenon DEF RingInv, PtrInv
<1>4. rx.staged[1].seqNum \in Nat
  <2>1. rx.staged \in Seq(Element) /\ Len(rx.staged) > 0
    <3>1. rx.staged \in Seq(Element)
      BY Zenon DEF RingInv, TypeOK
    <3>2. Len(rx.staged) > 0
      BY <1>1, Zenon DEF RingInv, RxInv
    <3>3. QED
      BY <3>1, <3>2, Zenon
  <2>2. rx.staged[1] \in Element
    BY <2>1, Member, Zenon
  <2>3. QED
    BY <2>2, Zenon DEF Element
<1>5. CASE /\ diff > 0 /\ msgqRxMarkConsumed(rx.nElements)
           /\ Retry(rx.nMaxRetries + 1, diff)
  <2>1. diff \in Nat
    <3>1. diff \in Int
      BY <1>2, <1>4
    <3> HIDE DEF diff
    <3>2. QED
      BY <1>5, <3>1
  <2> HIDE DEF diff
  <2>2. /\ rx' \in RxCall /\ RxInv' /\ StagedProper'
    BY <1>2, <1>5, <2>1, RetryIs DEF RingInv
  <2>3. RingInv'
    <3>1. received \in Seq(Nat)
      BY Zenon DEF RingInv, TypeOK
    <3>2. QED
      BY <1>1, <1>2, <1>3, <1>5, <2>2, <3>1, ConsumeRing, Zenon
  <2>4. ASSUME OrderInv PROVE ~setup.fenced
    <3>1. SUFFICES ASSUME setup.fenced PROVE FALSE
      BY Zenon
    <3>2. FenceInv /\ rx.i > 0
      BY <1>1, <2>4, <3>1, Zenon DEF OrderInv, RingInv, RxInv
    <3>3. rx.i \in Nat /\ Len(received) \in Nat
      BY DEF RingInv, TypeOK
    <3>4. rx.staged[1] = ElementOf(Len(received) + 1, 0)
      BY <1>1, <3>2, <3>3 DEF FenceInv
    <3>5. rx.staged[1].seqNum = Len(received) % SEQS
      BY <3>3, <3>4 DEF ElementOf
    <3>6. QED
      BY <1>1, <2>4, <3>5, Zenon DEF OrderInv
  <2>5. OrderInv => OrderInv'
    BY <1>1, <2>4, Zenon DEF OrderInv, Ordered, txVars
  <2>6. QED
    BY <2>3, <2>5, Zenon
<1>6. CASE /\ Retry(rx.nMaxRetries, rx.seqMismatchDiff)
           /\ UNCHANGED <<rxAvail, gets, readPtr>>
  <2>1. rx' \in RxCall /\ RxInv' /\ StagedProper' /\ StagedExact'
    BY <1>2, <1>6, RetryIs, Zenon DEF RingInv
  <2>2. rxAvail' \in 0 .. msgCount - 1 /\ rxAvail' <= puts - gets
    BY <1>6, Zenon DEF RingInv, TypeOK, PtrInv
  <2>3. RingInv'
    BY <1>1, <1>2, <1>3, <1>6, <2>1, <2>2, RxLocalRing, Zenon
  <2>4. QED
    BY <1>1, <1>6, <2>1, <2>3, RxLocalOrder, Zenon
<1>7. QED
  BY <1>1, <1>5, <1>6, Zenon

-----------------------------------------------------------------------------
(* Linking the queues.                                                     *)

LEMMA LinkStep ==
  ASSUME RingInv, msgqRxLink \/ SwapReadPointers
  PROVE  RingInv' /\ (OrderInv => OrderInv')
<1>1. /\ UNCHANGED <<setup, tx, txFree, txSeqNum, txIv, sent, puts, writePtr, rx,
                     rxAvail, rxSeqNum, rxIv, received, gets, ring, pend>>
      /\ \/ rxLinked' = TRUE /\ ~rxLinked /\ readPtr' = 0 /\ swapped' = swapped
         \/ swapped' = TRUE /\ UNCHANGED <<rxLinked, readPtr>>
  BY Zenon DEF msgqRxLink, SwapReadPointers, txVars, rxVars
<1>2. readPtr' = SlotOf(gets) /\ SlotOf(gets) \in Slots
  <2>1. gets \in Nat /\ readPtr = SlotOf(gets)
    BY Zenon DEF RingInv, TypeOK, PtrInv
  <2>2. SlotOf(0) = 0
    BY MsgQAssumption DEF SlotOf
  <2>3. ~rxLinked => gets = 0
    BY Zenon DEF RingInv, PtrInv
  <2>4. QED
    BY <1>1, <2>1, <2>2, <2>3, SlotType
<1>3. TypeOK'
  BY <1>1, <1>2, Zenon DEF RingInv, TypeOK
<1>4. PtrInv'
  BY <1>1, <1>2, Zenon DEF RingInv, PtrInv
<1>5. TxInv' /\ RxInv' /\ SentInv'
  BY <1>1, Zenon DEF RingInv, TxInv, RxInv, SentInv, Start
<1>6. NoOverwrite' /\ WrittenInv' /\ ProperInv'
  BY <1>1, Zenon DEF RingInv, NoOverwrite, WrittenInv, ProperInv
<1>7. OrderInv => OrderInv'
  BY <1>1 DEF OrderInv, Ordered, FenceInv, Start, NewElement, ElementOf
<1>8. QED
  BY <1>3, <1>4, <1>5, <1>6, <1>7, Zenon DEF RingInv

-----------------------------------------------------------------------------
(* Steps of the sender.                                                    *)

(* The fields of the call in progress.                                     *)
LEMMA SenderTypes ==
  ASSUME RingInv
  PROVE  /\ tx.i \in Nat /\ tx.elemCount \in 0 .. MAX_ELEMS
         /\ tx.i \in 0 .. MAX_ELEMS
         /\ MAX_ELEMS \in Nat /\ MAX_ELEMS < msgCount
         /\ msgCount \in Nat \ {0} /\ puts \in Nat /\ gets \in Nat
         /\ txFree \in 0 .. msgCount - 1 /\ tx.i <= txFree
         /\ txIv \in Nat /\ txSeqNum \in 0 .. SEQS - 1 /\ Len(sent) \in Nat
         /\ gets <= puts /\ puts <= gets + msgCount - 1
         /\ txFree <= gets + msgCount - 1 - puts
<1>1. MAX_ELEMS \in Nat /\ MAX_ELEMS < msgCount /\ msgCount \in Nat \ {0}
  BY MsgQAssumption
<1>2. /\ tx.elemCount \in 0 .. MAX_ELEMS /\ tx.i \in 0 .. MAX_ELEMS
      /\ puts \in Nat /\ gets \in Nat /\ txFree \in 0 .. msgCount - 1
      /\ txIv \in Nat /\ txSeqNum \in 0 .. SEQS - 1 /\ Len(sent) \in Nat
  BY DEF RingInv, TypeOK
<1>3. /\ tx.i <= txFree /\ gets <= puts /\ puts <= gets + msgCount - 1
      /\ txFree <= gets + msgCount - 1 - puts
  BY Zenon DEF RingInv, TxInv, PtrInv
<1>4. QED
  BY <1>1, <1>2, <1>3

(* A call starts, or gives up: nothing is written.                         *)
LEMMA NothingWritten ==
  ASSUME RingInv,
         \/ \E n \in 1 .. MAX_ELEMS : SendCommand(n)
         \/ EncryptionFails \/ SendTimeout
  PROVE  RingInv' /\ (OrderInv => OrderInv')
<1>1. UNCHANGED <<setup, swapped, txSeqNum, sent, puts, writePtr, rxVars, ring,
                  pend>>
  BY Zenon DEF SendCommand, EncryptionFails, SendTimeout
<1> USE <1>1 DEF rxVars
<1>2. /\ tx' = TxIdle \/ \E n \in 1 .. MAX_ELEMS :
                           tx' = [pc |-> "copy", elemCount |-> n, i |-> 0]
      /\ txIv' = txIv \/ txIv' = txIv + 1
      /\ txFree' = txFree \/ txFree' = msgqTxGetFreeSpace
  BY Zenon DEF SendCommand, EncryptionFails, SendTimeout
<1>3. /\ tx' \in [pc : {"idle", "copy", "submit"}, elemCount : 0 .. MAX_ELEMS,
                  i : 0 .. MAX_ELEMS]
      /\ tx'.i = 0 /\ tx'.pc # "submit"
      /\ tx'.pc = "copy" => tx'.elemCount > 0
  <2>1. MAX_ELEMS \in Nat
    BY SenderTypes, Zenon
  <2>2. CASE tx' = TxIdle
    BY <2>1, <2>2 DEF TxIdle
  <2>3. ASSUME NEW n \in 1 .. MAX_ELEMS,
               tx' = [pc |-> "copy", elemCount |-> n, i |-> 0]
        PROVE  <1>3!1
    BY <2>1, <2>3
  <2>4. QED
    BY <1>2, <2>2, <2>3
<1>4. /\ txFree' \in 0 .. msgCount - 1
      /\ txFree' <= gets + msgCount - 1 - puts
      /\ ~swapped => txFree' <= msgCount - 1 - puts
  <2>1. TypeOK /\ PtrInv
    BY Zenon DEF RingInv
  <2>2. txFree \in 0 .. msgCount - 1
    BY <2>1, Zenon DEF TypeOK
  <2>3. /\ txFree <= gets + msgCount - 1 - puts
        /\ ~swapped => txFree <= msgCount - 1 - puts
    BY <2>1, Zenon DEF PtrInv
  <2>4. /\ msgqTxGetFreeSpace \in 0 .. msgCount - 1
        /\ msgqTxGetFreeSpace <= gets + msgCount - 1 - puts
        /\ ~swapped => msgqTxGetFreeSpace <= msgCount - 1 - puts
    BY <2>1, Pointers, Zenon
  <2>5. QED
    BY <1>2, <2>2, <2>3, <2>4, Zenon
<1>5. txIv' \in Nat
  BY <1>2, SenderTypes, SMTT(30)
<1>6. TypeOK'
  BY <1>3, <1>4, <1>5, Zenon DEF RingInv, TypeOK
<1>7. PtrInv'
  BY <1>4, Zenon DEF RingInv, PtrInv
<1>8. TxInv'
  <2>1. tx'.pc # "idle" => Len(sent) < MAX_RECORDS
    BY <1>2 DEF SendCommand, EncryptionFails, SendTimeout, TxIdle
  <2>2. QED
    BY <1>3, <1>4, <2>1, SenderTypes DEF RingInv, TxInv
<1>9. RxInv' /\ SentInv' /\ NoOverwrite' /\ ProperInv'
  BY Zenon DEF RingInv, RxInv, SentInv, Start, NoOverwrite, ProperInv
<1>10. WrittenInv'
  BY <1>3 DEF WrittenInv
<1>11. ASSUME OrderInv PROVE OrderInv'
  <2>1. ASSUME FenceInv PROVE FenceInv'
    <3>1. (\A k \in 1 .. Len(sent) : \A i \in 0 .. sent[k].elemCount - 1 :
             sent[k].start + i >= gets =>
               /\ pend[SlotOf(sent[k].start + i)] = NO_STORE
               /\ ring[SlotOf(sent[k].start + i)] = ElementOf(k, i))'
      BY <2>1, Zenon DEF FenceInv, ElementOf
    <3>2. (rx.pc # "idle" /\ rx.i > 0 =>
             /\ Len(received) < Len(sent)
             /\ rx.nElements = sent[Len(received) + 1].elemCount
             /\ \A j \in 1 .. rx.i :
                  rx.staged[j] = ElementOf(Len(received) + 1, j - 1))'
      BY <2>1, Zenon DEF FenceInv, ElementOf
    <3>3. (gets = Start(Len(received) + 1))'
      BY <2>1, Zenon DEF FenceInv, Start
    <3>4. QED
      BY <1>3, <3>1, <3>2, <3>3 DEF FenceInv
  <2>2. QED
    BY <1>11, <2>1, Zenon DEF OrderInv, Ordered
<1>12. QED
  BY <1>6, <1>7, <1>8, <1>9, <1>10, <1>11, Zenon DEF RingInv

(* Element i of n elements from a on, not below g, where a + n is not above *)
(* p.                                                                      *)
LEMMA Between ==
  ASSUME NEW a \in Nat, NEW n \in Nat, NEW p \in Nat, NEW g \in Nat,
         NEW i \in 0 .. n - 1, a + n <= p, a + i >= g
  PROVE  a + i \in g .. p - 1
  OBVIOUS

(* Elements submitted and not consumed.                                    *)
LEMMA Unconsumed ==
  ASSUME RingInv, NEW k \in 1 .. Len(sent), NEW i \in 0 .. sent[k].elemCount - 1,
         sent[k].start + i >= gets
  PROVE  sent[k].start + i \in gets .. puts - 1
<1>1. /\ sent[k].start \in Nat /\ sent[k].elemCount \in Nat
      /\ puts \in Nat /\ gets \in Nat
  BY RecordType, SenderTypes, Zenon
<1>2. sent[k].start + sent[k].elemCount <= puts
  BY Zenon DEF RingInv, SentInv
<1>3. QED
  BY <1>1, <1>2, Between, Zenon

(* The next element of the record, as all its elements.                    *)
LEMMA NewElementIs ==
  ASSUME RingInv
  PROVE  /\ NewElement \in Element
         /\ NewElement.no = Len(sent) + 1
         /\ Proper(NewElement, Len(sent) + 1)
         /\ [NewElement EXCEPT !.part = tx.i] = NewElement
<1>1. SEQS \in Nat \ {0}
  BY MsgQAssumption, Zenon
<1>2. /\ tx.i \in Nat /\ tx.elemCount \in Nat /\ txIv \in Nat /\ txSeqNum \in Nat
      /\ Len(sent) \in Nat
  BY <1>1, SenderTypes, SMTT(30)
<1>3. txSeqNum = Len(sent) % SEQS
  BY Zenon DEF RingInv, TxInv
<1>4. NewElement \in Element
  BY <1>2 DEF NewElement, Element
<1>5. /\ NewElement.no = Len(sent) + 1 /\ NewElement.seqNum = txSeqNum
      /\ [NewElement EXCEPT !.part = tx.i] = NewElement
  BY DEF NewElement
<1>6. (Len(sent) + 1) - 1 = Len(sent) /\ Len(sent) + 1 \in 1 .. Len(sent) + 1
  BY <1>2
<1>7. QED
  BY <1>3, <1>4, <1>5, <1>6, Zenon DEF Proper

(* Writing an element: its slot is free.                                   *)
LEMMA WriteElementStep ==
  ASSUME RingInv, WriteElement
  PROVE  RingInv' /\ (OrderInv => OrderInv')
<1> DEFINE w == SlotOf(puts + tx.i)
<1>1. /\ UNCHANGED <<setup, swapped, txSeqNum, txIv, sent, puts, writePtr, rxVars,
                     ring>>
      /\ tx.pc = "copy"
  BY Zenon DEF WriteElement
<1>0. /\ tx.i \in Nat /\ tx.elemCount \in 0 .. MAX_ELEMS /\ MAX_ELEMS \in Nat
      /\ MAX_ELEMS < msgCount /\ msgCount \in Nat
      /\ puts \in Nat /\ gets \in Nat
      /\ gets <= puts /\ puts <= gets + msgCount - 1
  BY SenderTypes, Zenon
<1>2. tx.i < tx.elemCount
  BY <1>1, Zenon DEF RingInv, TxInv
<1>3. /\ txFree' \in 0 .. msgCount - 1 /\ tx.i < txFree'
      /\ txFree' <= gets + msgCount - 1 - puts
      /\ ~swapped => txFree' <= msgCount - 1 - puts
  <2>1. TypeOK /\ PtrInv
    BY Zenon DEF RingInv
  <2>2. txFree \in 0 .. msgCount - 1
    BY <2>1, Zenon DEF TypeOK
  <2>3. /\ txFree <= gets + msgCount - 1 - puts
        /\ ~swapped => txFree <= msgCount - 1 - puts
    BY <2>1, Zenon DEF PtrInv
  <2>4. /\ msgqTxGetFreeSpace \in 0 .. msgCount - 1
        /\ msgqTxGetFreeSpace <= gets + msgCount - 1 - puts
        /\ ~swapped => msgqTxGetFreeSpace <= msgCount - 1 - puts
    BY <2>1, Pointers, Zenon
  <2>5. \/ tx.i < txFree /\ txFree' = txFree
        \/ tx.i < msgqTxGetFreeSpace /\ txFree' = msgqTxGetFreeSpace
    BY Zenon DEF WriteElement
  <2>6. QED
    BY <2>2, <2>3, <2>4, <2>5, Zenon
<1>4. w \in Slots /\ pend' = [pend EXCEPT ![w] = NewElement]
  <2>1. tx.i \in 0 .. msgCount
    BY <1>0, <1>2
  <2>2. Wrap(writePtr + tx.i) = w
    BY <2>1, WrapSlot, <1>0, Zenon DEF RingInv, PtrInv
  <2>3. pend' = [pend EXCEPT ![Wrap(writePtr + tx.i)] = NewElement]
    BY Zenon DEF WriteElement
  <2>4. w \in Slots
    BY <1>0, SlotType
  <2>5. QED
    BY <2>2, <2>3, <2>4, Zenon
<1>5. /\ \A q \in gets .. puts - 1 : SlotOf(q) # w /\ SlotOf(q) \in Slots
      /\ \A i \in 0 .. tx.i - 1 : SlotOf(puts + i) # w /\ SlotOf(puts + i) \in Slots
  <2>1. ASSUME NEW q \in gets .. puts - 1
        PROVE  SlotOf(q) # w /\ SlotOf(q) \in Slots
    <3>1. q \in Int /\ puts + tx.i \in Int /\ q < puts + tx.i /\ puts + tx.i < q + msgCount
      BY <1>0, <1>3
    <3>2. QED
      BY <3>1, SlotsDiffer, SlotType, Zenon
  <2>2. ASSUME NEW i \in 0 .. tx.i - 1
        PROVE  SlotOf(puts + i) # w /\ SlotOf(puts + i) \in Slots
    <3>1. /\ puts + i \in Int /\ puts + tx.i \in Int /\ puts + i < puts + tx.i
          /\ puts + tx.i < puts + i + msgCount
      BY <1>0, <1>3
    <3>2. QED
      BY <3>1, SlotsDiffer, SlotType, Zenon
  <2>3. QED
    BY <2>1, <2>2, Zenon
<1>6. pend \in [Slots -> Element \cup {NO_STORE}]
  BY Zenon DEF RingInv, TypeOK
<1>7. /\ pend' \in [Slots -> Element \cup {NO_STORE}] /\ pend'[w] = NewElement
      /\ \A q \in gets .. puts - 1 : pend'[SlotOf(q)] = pend[SlotOf(q)]
      /\ \A i \in 0 .. tx.i - 1 : pend'[SlotOf(puts + i)] = pend[SlotOf(puts + i)]
      /\ \A s \in Slots : pend'[s] = pend[s] \/ pend'[s] = NewElement
  <2>1. NewElement \in Element
    BY NewElementIs, Zenon
  <2> HIDE DEF w
  <2>2. QED
    BY <1>4, <1>5, <1>6, <2>1, Zenon
<1>8. /\ tx' \in [pc : {"idle", "copy", "submit"}, elemCount : 0 .. MAX_ELEMS,
                  i : 0 .. MAX_ELEMS]
      /\ tx'.i = tx.i + 1 /\ tx'.elemCount = tx.elemCount
      /\ tx'.pc = IF tx.i + 1 = tx.elemCount THEN "submit" ELSE "copy"
  <2>1. tx \in [pc : {"idle", "copy", "submit"}, elemCount : 0 .. MAX_ELEMS,
                i : 0 .. MAX_ELEMS]
    BY Zenon DEF RingInv, TypeOK
  <2>2. tx.i + 1 \in 0 .. MAX_ELEMS
    BY <1>0, <1>2
  <2>3. QED
    BY <2>1, <2>2, Zenon DEF WriteElement
<1> HIDE DEF w
<1> USE <1>1 DEF rxVars
<1>9. TypeOK'
  BY <1>3, <1>7, <1>8, Zenon DEF RingInv, TypeOK
<1>10. PtrInv'
  BY <1>3, Zenon DEF RingInv, PtrInv
<1>11. TxInv'
  <2>1. tx'.i <= txFree'
    BY <1>0, <1>3, <1>8
  <2>2. /\ tx'.pc = "copy" => tx'.i < tx'.elemCount
        /\ tx'.pc = "submit" => tx'.i = tx'.elemCount /\ tx'.i > 0
        /\ tx'.pc # "idle"
    BY <1>0, <1>2, <1>8
  <2>3. QED
    BY <2>1, <2>2, Zenon DEF RingInv, TxInv
<1>12. RxInv' /\ SentInv'
  BY Zenon DEF RingInv, RxInv, SentInv, Start
<1>13. NoOverwrite'
  <2>1. SUFFICES ASSUME NEW k \in 1 .. Len(sent),
                        NEW i \in 0 .. sent[k].elemCount - 1,
                        sent[k].start + i >= gets
                 PROVE  LET s == (sent[k].start + i) % msgCount
                        IN  pend'[s] # NO_STORE => pend'[s].no = k
    BY Zenon DEF NoOverwrite
  <2>2. pend'[SlotOf(sent[k].start + i)] = pend[SlotOf(sent[k].start + i)]
    BY <1>7, <2>1, Unconsumed, Zenon
  <2>3. QED
    BY <2>1, <2>2, Zenon DEF RingInv, NoOverwrite, SlotOf
<1>14. WrittenInv'
  <2>1. SUFFICES ASSUME NEW i \in 0 .. tx.i, pend'[SlotOf(puts + i)] # NO_STORE
                 PROVE  pend'[SlotOf(puts + i)].no = Len(sent) + 1
    BY <1>0, <1>8 DEF WrittenInv
  <2>2. CASE i = tx.i
    BY <1>7, <2>2, NewElementIs, Zenon DEF w
  <2>3. CASE i # tx.i
    <3>1. i \in 0 .. tx.i - 1
      BY <1>0, <2>3
    <3>2. QED
      BY <1>7, <2>1, <3>1, Zenon DEF RingInv, WrittenInv
  <2>4. QED
    BY <2>2, <2>3, Zenon
<1>15. ProperInv'
  <2>1. \A s \in Slots :
          /\ Proper(ring[s], Len(sent) + 1)
          /\ pend'[s] # NO_STORE => Proper(pend'[s], Len(sent) + 1)
    BY <1>7, NewElementIs, Zenon DEF RingInv, ProperInv
  <2>2. \A q \in gets .. puts - 1 :
          /\ Proper(ring[SlotOf(q)], Len(sent))
          /\ pend'[SlotOf(q)] # NO_STORE => Proper(pend'[SlotOf(q)], Len(sent))
    BY <1>7, Zenon DEF RingInv, ProperInv
  <2>3. QED
    BY <2>1, <2>2, Zenon DEF RingInv, ProperInv
<1>16. RingInv'
  BY <1>9, <1>10, <1>11, <1>12, <1>13, <1>14, <1>15, Zenon DEF RingInv
<1>17. ASSUME OrderInv, setup.fenced PROVE FenceInv'
  <2>1. FenceInv
    BY <1>17, Zenon DEF OrderInv
  <2>2. (\A k \in 1 .. Len(sent) : \A i \in 0 .. sent[k].elemCount - 1 :
           sent[k].start + i >= gets =>
             /\ pend[SlotOf(sent[k].start + i)] = NO_STORE
             /\ ring[SlotOf(sent[k].start + i)] = ElementOf(k, i))'
    <3>1. SUFFICES ASSUME NEW k \in 1 .. Len(sent),
                          NEW i \in 0 .. sent[k].elemCount - 1,
                          sent[k].start + i >= gets
                   PROVE  /\ pend'[SlotOf(sent[k].start + i)] = NO_STORE
                          /\ ring[SlotOf(sent[k].start + i)] = ElementOf(k, i)
      BY Zenon DEF ElementOf
    <3>2. pend'[SlotOf(sent[k].start + i)] = pend[SlotOf(sent[k].start + i)]
      BY <1>7, <3>1, Unconsumed, Zenon
    <3>3. QED
      BY <2>1, <3>1, <3>2, Zenon DEF FenceInv
  <2>3. \A i \in 0 .. tx.i :
          LET s == SlotOf(puts + i)
              e == [NewElement EXCEPT !.part = i]
          IN  pend'[s] = e \/ (pend'[s] = NO_STORE /\ ring[s] = e)
    <3>1. SUFFICES ASSUME NEW i \in 0 .. tx.i
                   PROVE  LET s == SlotOf(puts + i)
                              e == [NewElement EXCEPT !.part = i]
                          IN  pend'[s] = e \/ (pend'[s] = NO_STORE /\ ring[s] = e)
      BY Zenon
    <3>2. CASE i = tx.i
      BY <1>7, <3>2, NewElementIs, Zenon DEF w
    <3>3. CASE i # tx.i
      <4>1. i \in 0 .. tx.i - 1
        BY <1>0, <3>3
      <4>2. QED
        BY <1>7, <2>1, <4>1, Zenon DEF FenceInv
    <3>4. QED
      BY <3>2, <3>3, Zenon
  <2>4. \A i \in 0 .. tx.i :
          [NewElement EXCEPT !.part = i]' = [NewElement EXCEPT !.part = i]
    BY <1>8 DEF NewElement
  <2>5. (\A i \in 0 .. tx.i - 1 :
           LET s == SlotOf(puts + i)
               e == [NewElement EXCEPT !.part = i]
           IN  pend[s] = e \/ (pend[s] = NO_STORE /\ ring[s] = e))'
    <3>1. 0 .. tx'.i - 1 = 0 .. tx.i
      BY <1>0, <1>8
    <3>2. QED
      BY <2>3, <2>4, <3>1, Zenon
  <2>6. (rx.pc # "idle" /\ rx.i > 0 =>
           /\ Len(received) < Len(sent)
           /\ rx.nElements = sent[Len(received) + 1].elemCount
           /\ \A j \in 1 .. rx.i :
                rx.staged[j] = ElementOf(Len(received) + 1, j - 1))'
    BY <2>1, Zenon DEF FenceInv, ElementOf
  <2>7. (gets = Start(Len(received) + 1))'
    BY <2>1, Zenon DEF FenceInv, Start
  <2>8. QED
    BY <2>2, <2>5, <2>6, <2>7, Zenon DEF FenceInv
<1>18. QED
  BY <1>16, <1>17, Zenon DEF OrderInv, Ordered

(* A store lands.                                                          *)
LEMMA StoreLandsStep ==
  ASSUME RingInv, NEW t \in Slots, StoreLands(t)
  PROVE  RingInv' /\ (OrderInv => OrderInv')
<1>1. /\ UNCHANGED <<setup, txVars, rxVars>>
      /\ pend[t] # NO_STORE /\ ring' = [ring EXCEPT ![t] = pend[t]]
      /\ pend' = [pend EXCEPT ![t] = NO_STORE]
  BY Zenon DEF StoreLands
<1>2. /\ ring \in [Slots -> Element] /\ pend \in [Slots -> Element \cup {NO_STORE}]
      /\ gets \in Nat /\ puts \in Nat
  BY Zenon DEF RingInv, TypeOK
<1>3. /\ ring' \in [Slots -> Element] /\ pend' \in [Slots -> Element \cup {NO_STORE}]
      /\ ring'[t] = pend[t] /\ pend'[t] = NO_STORE
      /\ \A s \in Slots : s # t => ring'[s] = ring[s] /\ pend'[s] = pend[s]
  BY <1>1, <1>2, Zenon
<1> USE <1>1 DEF txVars, rxVars
<1>4. TypeOK'
  BY <1>3, Zenon DEF RingInv, TypeOK
<1>5. PtrInv' /\ TxInv' /\ RxInv' /\ SentInv'
  BY Zenon DEF RingInv, PtrInv, TxInv, RxInv, SentInv, Start
<1>6. NoOverwrite'
  <2>1. SUFFICES ASSUME NEW k \in 1 .. Len(sent),
                        NEW i \in 0 .. sent[k].elemCount - 1,
                        sent[k].start + i >= gets
                 PROVE  LET s == SlotOf(sent[k].start + i)
                        IN  pend'[s] # NO_STORE => pend'[s].no = k
    BY Zenon DEF NoOverwrite, SlotOf
  <2>2. SlotOf(sent[k].start + i) \in Slots
    BY <1>2, <2>1, Unconsumed, SlotType
  <2>3. QED
    BY <1>3, <2>1, <2>2, Zenon DEF RingInv, NoOverwrite, SlotOf
<1>7. WrittenInv'
  <2>1. ASSUME NEW i \in 0 .. tx.i - 1 PROVE SlotOf(puts + i) \in Slots
    BY <1>2, SlotType
  <2>2. QED
    BY <1>3, <2>1, Zenon DEF RingInv, WrittenInv
<1>8. ProperInv'
  <2>1. \A s \in Slots :
          /\ Proper(ring'[s], Len(sent) + 1)
          /\ pend'[s] # NO_STORE => Proper(pend'[s], Len(sent) + 1)
    BY <1>3, Zenon DEF RingInv, ProperInv
  <2>2. ASSUME NEW q \in gets .. puts - 1
        PROVE  /\ Proper(ring'[SlotOf(q)], Len(sent))
               /\ pend'[SlotOf(q)] # NO_STORE => Proper(pend'[SlotOf(q)], Len(sent))
    <3>1. SlotOf(q) \in Slots
      BY <1>2, SlotType
    <3>2. QED
      BY <1>3, <3>1, Zenon DEF RingInv, ProperInv
  <2>3. QED
    BY <2>1, <2>2, Zenon DEF RingInv, ProperInv
<1>9. RingInv'
  BY <1>4, <1>5, <1>6, <1>7, <1>8, Zenon DEF RingInv
<1>10. ASSUME OrderInv, setup.fenced PROVE FenceInv'
  <2>1. FenceInv
    BY <1>10, Zenon DEF OrderInv
  <2>2. (\A k \in 1 .. Len(sent) : \A i \in 0 .. sent[k].elemCount - 1 :
           sent[k].start + i >= gets =>
             /\ pend[SlotOf(sent[k].start + i)] = NO_STORE
             /\ ring[SlotOf(sent[k].start + i)] = ElementOf(k, i))'
    <3>1. SUFFICES ASSUME NEW k \in 1 .. Len(sent),
                          NEW i \in 0 .. sent[k].elemCount - 1,
                          sent[k].start + i >= gets
                   PROVE  /\ pend'[SlotOf(sent[k].start + i)] = NO_STORE
                          /\ ring'[SlotOf(sent[k].start + i)] = ElementOf(k, i)
      BY DEF ElementOf
    <3>2. SlotOf(sent[k].start + i) \in Slots
      <4>1. sent[k].start + i \in Nat
        BY <1>2, <3>1, Unconsumed
      <4> QED
        BY <4>1, SlotType
    <3>3. /\ pend[SlotOf(sent[k].start + i)] = NO_STORE
          /\ ring[SlotOf(sent[k].start + i)] = ElementOf(k, i)
      BY <2>1, <3>1, Zenon DEF FenceInv
    <3>4. QED
      BY <1>3, <3>2, <3>3, Zenon
  <2>3. (\A i \in 0 .. tx.i - 1 :
           LET s == SlotOf(puts + i)
               e == [NewElement EXCEPT !.part = i]
           IN  pend[s] = e \/ (pend[s] = NO_STORE /\ ring[s] = e))'
    <3>1. SUFFICES ASSUME NEW i \in 0 .. tx.i - 1
                   PROVE  LET s == SlotOf(puts + i)
                              e == [NewElement EXCEPT !.part = i]
                          IN  pend'[s] = e \/ (pend'[s] = NO_STORE /\ ring'[s] = e)
      BY Zenon DEF NewElement
    <3>2. SlotOf(puts + i) \in Slots
      BY <1>2, SlotType
    <3>3. QED
      BY <1>3, <2>1, <3>2 DEF FenceInv
  <2>4. (rx.pc # "idle" /\ rx.i > 0 =>
           /\ Len(received) < Len(sent)
           /\ rx.nElements = sent[Len(received) + 1].elemCount
           /\ \A j \in 1 .. rx.i :
                rx.staged[j] = ElementOf(Len(received) + 1, j - 1))'
    BY <2>1, Zenon DEF FenceInv, ElementOf
  <2>5. (gets = Start(Len(received) + 1))'
    BY <2>1, Zenon DEF FenceInv, Start
  <2>6. QED
    BY <2>2, <2>3, <2>4, <2>5, Zenon DEF FenceInv
<1>11. QED
  BY <1>9, <1>10, Zenon DEF OrderInv, Ordered

(* A larger bound on the numbers of records.                               *)
LEMMA ProperWeaker ==
  ASSUME NEW e \in Element, NEW m \in Nat, Proper(e, m)
  PROVE  Proper(e, m + 1)
BY DEF Proper, Element

(* The record of the call is submitted.                                    *)
LEMMA SubmitStep ==
  ASSUME RingInv, Submit
  PROVE  RingInv' /\ (OrderInv => OrderInv')
<1> DEFINE n == tx.elemCount
           rec == [elemCount |-> n, iv |-> txIv, start |-> puts]
           S == [elemCount : 1 .. MAX_ELEMS, iv : Nat, start : Nat]
<1>0. PICK L \in Nat : L = Len(sent)
  BY SenderTypes, Zenon
<1>1. /\ tx.pc = "submit" /\ n <= txFree
      /\ setup.fenced => \A s \in Slots : pend[s] = NO_STORE
      /\ writePtr' = Wrap(writePtr + n) /\ txFree' = txFree - n
      /\ txSeqNum' = (txSeqNum + 1) % SEQS
      /\ tx' = TxIdle /\ sent' = Append(sent, rec) /\ puts' = puts + n
  BY Zenon DEF Submit
<1>p. puts' = puts + n /\ txFree' = txFree - n /\ n <= txFree /\ tx' = TxIdle
  BY Zenon DEF Submit
<1>u. UNCHANGED <<setup, swapped, txIv, rxVars, ring, pend>>
  BY Zenon DEF Submit
<1>2. /\ n \in Nat /\ n > 0 /\ n <= MAX_ELEMS /\ MAX_ELEMS \in Nat
      /\ MAX_ELEMS < msgCount /\ msgCount \in Nat /\ puts \in Nat /\ gets \in Nat
      /\ gets <= puts /\ puts <= gets + msgCount - 1 /\ txFree \in 0 .. msgCount - 1
      /\ txFree <= gets + msgCount - 1 - puts /\ txIv \in Nat
      /\ L \in Nat /\ L < MAX_RECORDS /\ tx.i = n
  <2>1. tx.i = tx.elemCount /\ tx.i > 0 /\ L < MAX_RECORDS
    BY <1>0, <1>1, Zenon DEF RingInv, TxInv
  <2>2. QED
    BY <2>1, SenderTypes, SMTT(30)
<1>3. writePtr' = SlotOf(puts + n) /\ SlotOf(puts + n) \in Slots
  <2>1. n \in 0 .. msgCount
    BY <1>2
  <2>2. writePtr = SlotOf(puts)
    BY Zenon DEF RingInv, PtrInv
  <2> HIDE DEF n
  <2>3. Wrap(SlotOf(puts) + n) = SlotOf(puts + n)
    BY <1>2, <2>1, WrapSlot, Zenon
  <2>4. puts + n \in Int
    BY <1>2
  <2>5. QED
    BY <1>1, <2>2, <2>3, <2>4, SlotType, Zenon
<1>4. /\ sent \in Seq(S) /\ rec \in S
      /\ rec.elemCount = n /\ rec.iv = txIv /\ rec.start = puts
  BY <1>2, SMTT(30) DEF RingInv, TypeOK
<1> HIDE DEF rec, S
<1>5. /\ sent' \in Seq(S) /\ Len(sent') = L + 1 /\ sent'[L + 1] = rec
      /\ \A k \in 1 .. L : sent'[k] = sent[k]
  BY <1>0, <1>1, <1>4
<1> HIDE DEF n
<1>6. txSeqNum' = (L + 1) % SEQS /\ txSeqNum' \in 0 .. SEQS - 1
  <2>1. SEQS \in Nat \ {0} /\ txSeqNum = L % SEQS
    BY <1>0, MsgQAssumption, Zenon DEF RingInv, TxInv
  <2>2. ((L % SEQS) + 1) % SEQS = (L + 1) % SEQS
    BY <2>1, NextSeqNum, Zenon
  <2>3. (L + 1) % SEQS \in 0 .. SEQS - 1
    BY <2>1
  <2>4. QED
    BY <1>1, <2>1, <2>2, <2>3, Zenon
<1>7. \A k \in 1 .. L + 1 : k \in 1 .. L \/ k = L + 1
  BY <1>2
<1>8. txFree' \in 0 .. msgCount - 1 /\ puts' \in Nat
  BY <1>p, <1>2
<1> USE <1>u DEF rxVars
<1>9. TypeOK'
  <2>1. tx' \in [pc : {"idle", "copy", "submit"}, elemCount : 0 .. MAX_ELEMS,
                 i : 0 .. MAX_ELEMS]
    BY <1>2, <1>p DEF TxIdle
  <2>2. sent' \in Seq([elemCount : 1 .. MAX_ELEMS, iv : Nat, start : Nat])
    BY <1>5, Zenon DEF S
  <2>3. QED
    BY <1>3, <1>6, <1>8, <2>1, <2>2, Zenon DEF RingInv, TypeOK
<1>10. PtrInv'
  <2>1. /\ gets <= puts' /\ puts' <= gets + msgCount - 1
        /\ txFree' <= gets + msgCount - 1 - puts'
    BY <1>p, <1>2
  <2>2. rxAvail' <= puts' - gets'
    <3>1. rxAvail \in Nat /\ rxAvail <= puts - gets
      BY DEF RingInv, TypeOK, PtrInv
    <3>2. QED
      BY <1>p, <1>2, <3>1
  <2>3. ~swapped => txFree' <= msgCount - 1 - puts'
    <3>1. ~swapped => txFree <= msgCount - 1 - puts
      BY Zenon DEF RingInv, PtrInv
    <3>2. QED
      BY <1>p, <1>2, <3>1
  <2>4. QED
    BY <1>p, <1>3, <2>1, <2>2, <2>3, Zenon DEF RingInv, PtrInv
<1>11. TxInv'
  <2>1. tx'.i = 0 /\ tx'.pc = "idle"
    BY <1>p, Zenon DEF TxIdle
  <2>2. tx'.i <= txFree'
    BY <1>8, <2>1
  <2>3. txSeqNum' = Len(sent') % SEQS
    BY <1>5, <1>6, Zenon
  <2>4. QED
    BY <2>1, <2>2, <2>3, Zenon DEF TxInv
<1>12. RxInv'
  BY Zenon DEF RingInv, RxInv
<1>13. \A k \in 1 .. L + 1 : Start(k)' = Start(k)
  <2>1. \A k \in 1 .. L : Start(k)' = Start(k)
    BY <1>0, <1>2, <1>5 DEF Start
  <2>2. Start(L + 1)' = Start(L + 1)
    BY <1>0, <1>2, <1>4, <1>5 DEF Start
  <2>3. QED
    BY <1>7, <2>1, <2>2, Zenon
<1>14. SentInv'
  <2>1. Len(sent') <= MAX_RECORDS
    BY <1>2, <1>5, MsgQAssumption
  <2>2. Start(1)' = 0
    BY <1>2, <1>13 DEF RingInv, SentInv
  <2>3. ASSUME NEW k \in 1 .. L
        PROVE  /\ sent'[k].start + sent'[k].elemCount = Start(k + 1)'
               /\ sent'[k].start + sent'[k].elemCount <= puts'
    <3>1. /\ sent[k].start + sent[k].elemCount = Start(k + 1)
          /\ sent[k].start + sent[k].elemCount <= puts
          /\ sent[k].start \in Nat /\ sent[k].elemCount \in Nat
      BY <1>0, RecordType, Zenon DEF RingInv, SentInv
    <3>2. Start(k + 1)' = Start(k + 1)
      BY <1>2, <1>13
    <3>3. sent'[k] = sent[k]
      BY <1>5, Zenon
    <3>4. QED
      BY <1>p, <1>2, <3>1, <3>2, <3>3
  <2>4. /\ sent'[L + 1].start + sent'[L + 1].elemCount = Start((L + 1) + 1)'
        /\ sent'[L + 1].start + sent'[L + 1].elemCount <= puts'
    <3>1. /\ sent'[L + 1].start = puts /\ sent'[L + 1].elemCount = n
          /\ ~((L + 1) + 1 <= Len(sent'))
      BY <1>4, <1>5
    <3>2. Start((L + 1) + 1)' = puts'
      BY <3>1, Zenon DEF Start
    <3>3. QED
      BY <1>p, <1>2, <3>1, <3>2
  <2>5. (\A k \in 1 .. Len(sent) :
           /\ sent[k].start + sent[k].elemCount = Start(k + 1)
           /\ sent[k].start + sent[k].elemCount <= puts)'
    <3>1. SUFFICES ASSUME NEW k \in 1 .. L + 1
                   PROVE  /\ sent'[k].start + sent'[k].elemCount = Start(k + 1)'
                          /\ sent'[k].start + sent'[k].elemCount <= puts'
      BY <1>5, Zenon
    <3>2. CASE k = L + 1
      BY <1>2, <2>4, <3>2, Zenon
    <3>3. QED
      BY <1>7, <2>3, <3>2, Zenon
  <2>6. QED
    BY <2>1, <2>2, <2>5, Zenon DEF SentInv
<1>15. NoOverwrite'
  <2>1. SUFFICES ASSUME NEW k \in 1 .. L + 1,
                        NEW i \in 0 .. sent'[k].elemCount - 1,
                        sent'[k].start + i >= gets,
                        pend[SlotOf(sent'[k].start + i)] # NO_STORE
                 PROVE  pend[SlotOf(sent'[k].start + i)].no = k
    BY <1>5, Zenon DEF NoOverwrite, SlotOf
  <2>2. CASE k \in 1 .. L
    BY <1>0, <1>5, <2>1, <2>2, Zenon DEF RingInv, NoOverwrite, SlotOf
  <2>3. CASE k = L + 1
    BY <1>0, <1>2, <1>4, <1>5, <2>1, <2>3, Zenon DEF RingInv, WrittenInv
  <2>4. QED
    BY <1>7, <2>2, <2>3, Zenon
<1>16. WrittenInv'
  <2>1. tx'.i = 0
    BY <1>p, Zenon DEF TxIdle
  <2>2. 0 .. tx'.i - 1 = {}
    BY <2>1
  <2>3. QED
    BY <2>2, Zenon DEF WrittenInv
<1>17. ProperInv'
  <2>1. /\ ring \in [Slots -> Element]
        /\ pend \in [Slots -> Element \cup {NO_STORE}]
    BY Zenon DEF RingInv, TypeOK
  <2>2. \A s \in Slots :
          /\ Proper(ring[s], L + 1)
          /\ pend[s] # NO_STORE => Proper(pend[s], L + 1)
    BY <1>0, Zenon DEF RingInv, ProperInv
  <2>3. \A s \in Slots :
          /\ Proper(ring[s], L + 1 + 1)
          /\ pend[s] # NO_STORE => Proper(pend[s], L + 1 + 1)
    <3>1. L + 1 \in Nat
      BY <1>2
    <3>2. QED
      BY <2>1, <2>2, <3>1, ProperWeaker, Zenon
  <2>4. \A q \in gets .. puts' - 1 : SlotOf(q) \in Slots
    BY <1>2, <1>8, SlotType
  <2>5. StagedProper'
    <3>1. rx.pc # "idle" =>
            /\ rx.staged \in Seq(Element) /\ Len(rx.staged) = rx.i
            /\ \A j \in 1 .. rx.i : Proper(rx.staged[j], L)
      BY <1>0, Zenon DEF RingInv, TypeOK, RxInv, ProperInv
    <3>2. rx.pc # "idle" =>
            \A j \in 1 .. rx.i : rx.staged[j] \in Element /\ Proper(rx.staged[j], L)
      BY <3>1, Member, Zenon
    <3>3. rx.pc # "idle" => \A j \in 1 .. rx.i : Proper(rx.staged[j], L + 1)
      BY <1>2, <3>2, ProperWeaker, Zenon
    <3>4. QED
      BY <1>5, <3>3, Zenon DEF StagedProper
  <2>6. QED
    BY <1>5, <2>2, <2>3, <2>4, <2>5, Zenon DEF ProperInv, StagedProper
<1>18. RingInv'
  BY <1>9, <1>10, <1>11, <1>12, <1>14, <1>15, <1>16, <1>17, Zenon DEF RingInv
<1>19. ASSUME OrderInv PROVE Len(received) \in 0 .. L
  <2>1. Len(received) \in Nat /\ Len(received) <= L
    BY <1>0, <1>19 DEF RingInv, TypeOK, OrderInv
  <2>2. QED
    BY <1>2, <2>1
<1>20. ASSUME OrderInv, setup.fenced PROVE FenceInv'
  <2>1. FenceInv /\ \A s \in Slots : pend[s] = NO_STORE
    BY <1>1, <1>20, Zenon DEF OrderInv
  <2>2. \A k \in 1 .. L : \A i : ElementOf(k, i)' = ElementOf(k, i)
    BY <1>5, Zenon DEF ElementOf
  <2>3. (gets = Start(Len(received) + 1))'
    <3>1. Len(received) + 1 \in 1 .. L + 1
      BY <1>2, <1>19, <1>20
    <3>2. QED
      BY <1>13, <2>1, <3>1, Zenon DEF FenceInv
  <2>4. ASSUME NEW i \in 0 .. n - 1
        PROVE  /\ pend[SlotOf(puts + i)] = NO_STORE
               /\ ring[SlotOf(puts + i)] = ElementOf(L + 1, i)'
    <3>1. SlotOf(puts + i) \in Slots
      BY <1>2, SlotType
    <3>2. /\ pend[SlotOf(puts + i)] = NO_STORE
          /\ [NewElement EXCEPT !.part = i] \in Element
      <4>1. NewElement \in Element /\ i \in Nat
        BY <1>2, NewElementIs
      <4>2. [NewElement EXCEPT !.part = i] \in Element
        BY <4>1, Zenon DEF Element
      <4>3. QED
        BY <2>1, <3>1, <4>2, Zenon
    <3>3. ring[SlotOf(puts + i)] = [NewElement EXCEPT !.part = i]
      BY <1>2, <2>1, <3>2, MsgQAssumption, Zenon DEF FenceInv
    <3>4. [NewElement EXCEPT !.part = i]
            = [no |-> L + 1, part |-> i, elemCount |-> n, seqNum |-> txSeqNum,
               iv |-> txIv]
      BY <1>0 DEF NewElement, n
    <3>5. txSeqNum = ((L + 1) - 1) % SEQS
      BY <1>0, <1>2 DEF RingInv, TxInv
    <3>6. ElementOf(L + 1, i)'
            = [no |-> L + 1, part |-> i, elemCount |-> rec.elemCount,
               seqNum |-> ((L + 1) - 1) % SEQS, iv |-> rec.iv]
      BY <1>5, Zenon DEF ElementOf
    <3>7. QED
      BY <1>4, <3>2, <3>3, <3>4, <3>5, <3>6, Zenon
  <2>5. (\A k \in 1 .. Len(sent) : \A i \in 0 .. sent[k].elemCount - 1 :
           sent[k].start + i >= gets =>
             /\ pend[SlotOf(sent[k].start + i)] = NO_STORE
             /\ ring[SlotOf(sent[k].start + i)] = ElementOf(k, i))'
    <3>1. SUFFICES ASSUME NEW k \in 1 .. L + 1,
                          NEW i \in 0 .. sent'[k].elemCount - 1,
                          sent'[k].start + i >= gets
                   PROVE  /\ pend[SlotOf(sent'[k].start + i)] = NO_STORE
                          /\ ring[SlotOf(sent'[k].start + i)] = ElementOf(k, i)'
      BY <1>5, Zenon
    <3>2. CASE k \in 1 .. L
      <4>1. sent'[k] = sent[k]
        BY <1>5, <3>2, Zenon
      <4>2. QED
        BY <1>0, <2>1, <2>2, <3>1, <3>2, <4>1 DEF FenceInv
    <3>3. CASE k = L + 1
      BY <1>4, <1>5, <2>4, <3>3, Zenon
    <3>4. QED
      BY <1>7, <3>2, <3>3, Zenon
  <2>6. StagedExact'
    <3>1. SUFFICES ASSUME rx.pc # "idle", rx.i > 0
                   PROVE  /\ Len(received) < L + 1
                          /\ rx.nElements = sent'[Len(received) + 1].elemCount
                          /\ \A j \in 1 .. rx.i :
                               rx.staged[j] = ElementOf(Len(received) + 1, j - 1)'
      BY <1>5, Zenon DEF StagedExact
    <3>2. /\ Len(received) < L
          /\ rx.nElements = sent[Len(received) + 1].elemCount
          /\ \A j \in 1 .. rx.i : rx.staged[j] = ElementOf(Len(received) + 1, j - 1)
      BY <1>0, <2>1, <3>1, Zenon DEF FenceInv
    <3>3. Len(received) + 1 \in 1 .. L /\ Len(received) < L + 1
      BY <1>2, <1>19, <1>20, <3>2
    <3>4. QED
      BY <1>5, <2>2, <3>2, <3>3, Zenon
  <2>7. QED
    <3>1. 0 .. tx'.i - 1 = {}
      BY <1>p DEF TxIdle
    <3>2. QED
      BY <2>3, <2>5, <2>6, <3>1, Zenon DEF FenceInv, StagedExact
<1>21. ASSUME OrderInv PROVE OrderInv'
  <2>1. Len(received') <= Len(sent')
    BY <1>2, <1>5, <1>19, <1>21
  <2>2. QED
    BY <1>20, <1>21, <2>1, Zenon DEF OrderInv, Ordered
<1>22. QED
  BY <1>18, <1>21, Zenon

-----------------------------------------------------------------------------
(* The theorems.                                                           *)

LEMMA NextStep ==
  ASSUME RingInv, [Next]_vars
  PROVE  RingInv' /\ (OrderInv => OrderInv')
<1>1. CASE msgqRxLink \/ SwapReadPointers
  BY <1>1, LinkStep, Zenon
<1>2. CASE \/ \E n \in 1 .. MAX_ELEMS : SendCommand(n)
           \/ EncryptionFails \/ SendTimeout
  BY <1>2, NothingWritten, Zenon
<1>3. CASE WriteElement
  BY <1>3, WriteElementStep, Zenon
<1>4. CASE Submit
  BY <1>4, SubmitStep, Zenon
<1>5. CASE \E s \in Slots : StoreLands(s)
  BY <1>5, StoreLandsStep, Zenon
<1>6. CASE RxGivesUp
  BY <1>6, RxGivesUpStep, Zenon
<1>7. CASE ReadElement
  BY <1>7, ReadElementStep, Zenon
<1>8. CASE BadSequenceNumber
  BY <1>8, BadSequenceNumberStep, Zenon
<1>9. CASE Accept
  BY <1>9, AcceptStep, Zenon
<1>10. CASE UNCHANGED vars
  <2> USE <1>10 DEF vars, txVars, rxVars
  <2>1. TypeOK' /\ PtrInv' /\ TxInv' /\ RxInv' /\ SentInv'
    BY Zenon DEF RingInv, TypeOK, PtrInv, TxInv, RxInv, SentInv, Start
  <2>2. NoOverwrite' /\ WrittenInv' /\ ProperInv'
    BY Zenon DEF RingInv, NoOverwrite, WrittenInv, ProperInv
  <2>3. OrderInv => OrderInv'
    BY DEF OrderInv, Ordered, FenceInv, Start, NewElement, ElementOf
  <2>4. QED
    BY <2>1, <2>2, <2>3, Zenon DEF RingInv
<1>11. QED
  BY <1>1, <1>2, <1>3, <1>4, <1>5, <1>6, <1>7, <1>8, <1>9, <1>10, Zenon
  DEF Next, Sender, Receiver, RxGivesUp

(* The invariant of the ring holds for every sender.                       *)
THEOREM RingInvariance == Spec => []RingInv
<1>1. Init => RingInv
  BY InitRing, Zenon
<1>2. RingInv /\ [Next]_vars => RingInv'
  BY NextStep, Zenon
<1>3. QED
  BY <1>1, <1>2, PTL DEF Spec

(* Every variable of the queue keeps its type: the pointers of msgq.c stay *)
(* in the ring, although they are only ever reduced by one subtraction.    *)
THEOREM TypeCorrect == Spec => []TypeOK
<1>1. RingInv => TypeOK
  BY Zenon DEF RingInv
<1>2. QED
  BY <1>1, RingInvariance, PTL

(* msgqTxGetWriteBuffer() never hands out an element that the receiver has *)
(* not consumed, for every size of the ring and of the records, with or    *)
(* without a store fence, and before the read pointers are swapped.        *)
THEOREM NoOverwriteCorrect == Spec => []NoOverwrite
<1>1. RingInv => NoOverwrite
  BY Zenon DEF RingInv
<1>2. QED
  BY <1>1, RingInvariance, PTL

(* The invariant that relates what was received to what was sent.          *)
LEMMA Invariance == Spec /\ Ordered => []IInv
<1>1. Init /\ Ordered => IInv
  BY InitRing, InitOrder, Zenon DEF IInv
<1>2. IInv /\ [Next]_vars => IInv'
  BY NextStep, Zenon DEF IInv
<1>3. QED
  BY <1>1, <1>2, PTL DEF Spec

(* The queue starts as an empty FIFO.                                      *)
LEMMA QueueInit == Init => Queue!Init
<1>1. SUFFICES ASSUME Init PROVE Queue!Init
  BY Zenon
<1>2. setup.fenced \in BOOLEAN
  BY <1>1, MsgQAssumption, Zenon DEF Init, Setup
<1>3. sent = << >> /\ received = << >> /\ Len(sent) = 0
  BY <1>1, Zenon DEF Init
<1>4. [k \in 1 .. Len(sent) |-> k] = << >>
  BY <1>3
<1>5. QED
  BY <1>2, <1>3, <1>4, Zenon DEF Queue!Init

(* Submitting a record sends it, accepting one receives it, and every      *)
(* other step leaves the FIFO as it is.                                    *)
LEMMA QueueStep ==
  ASSUME IInv, [Next]_vars
  PROVE  [Queue!Next]_(Queue!vars)
<1> DEFINE asent == [k \in 1 .. Len(sent) |-> k]
           anext == IF received = << >> THEN 1 ELSE received[Len(received)] + 1
<1>1. PICK L \in Nat : L = Len(sent)
  BY SenderTypes, Zenon DEF IInv
<1>2. CASE Submit
  <2>1. /\ sent' = Append(sent, [elemCount |-> tx.elemCount, iv |-> txIv,
                                 start |-> puts])
        /\ received' = received /\ setup' = setup
    BY <1>2, Zenon DEF Submit, rxVars
  <2>2. Len(sent') = L + 1
    <3>1. sent \in Seq([elemCount : 1 .. MAX_ELEMS, iv : Nat, start : Nat])
      BY Zenon DEF IInv, RingInv, TypeOK
    <3>2. QED
      BY <1>1, <2>1, <3>1
  <2>3. L + 1 \in 1 .. MAX_RECORDS
    <3>1. L < MAX_RECORDS /\ MAX_RECORDS \in Nat
      BY <1>1, <1>2, MsgQAssumption, Zenon DEF IInv, RingInv, TxInv, Submit
    <3>2. QED
      BY <3>1
  <2>4. asent' = Append(asent, L + 1)
    <3>1. [k \in 1 .. L + 1 |-> k] = Append([k \in 1 .. L |-> k], L + 1)
      OBVIOUS
    <3>2. QED
      BY <1>1, <2>2, <3>1, Zenon
  <2>5. Queue!Send(L + 1)
    BY <2>1, <2>4, Zenon DEF Queue!Send
  <2>6. QED
    BY <2>3, <2>5, Zenon DEF Queue!Next
<1>3. CASE Accept
  <2> DEFINE r == Len(received)
  <2>1. /\ r < L /\ rx.staged[1].no = r + 1
        /\ received' = Append(received, rx.staged[1].no)
        /\ sent' = sent /\ setup' = setup
    BY <1>1, <1>3, StagedNext, Zenon DEF IInv, Accept, Valid, txVars
  <2>2. received \in Seq(Nat) /\ r \in Nat
    BY DEF IInv, RingInv, TypeOK
  <2>3. /\ received' = Append(received, r + 1) /\ received' # << >>
        /\ Len(received') = r + 1 /\ received'[r + 1] = r + 1
    BY <2>1, <2>2
  <2>4. anext' = (r + 1) + 1
    BY <2>3, Zenon
  <2>5. anext = r + 1
    <3>1. CASE received = << >>
      BY <3>1
    <3>2. CASE received # << >>
      <4>1. r \in 1 .. r
        BY <2>2, <3>2
      <4>2. received[r] = r
        BY <4>1, Zenon DEF IInv, OrderInv
      <4>3. QED
        BY <3>2, <4>2, Zenon
    <3>3. QED
      BY <3>1, <3>2, Zenon
  <2>6. r + 1 \in 1 .. Len(sent) /\ asent[r + 1] = r + 1
    BY <1>1, <2>1, <2>2
  <2>7. Len(asent) = Len(sent)
    BY <1>1
  <2>8. Queue!Receive(r + 1)
    BY <2>1, <2>2, <2>3, <2>4, <2>5, <2>6 DEF Queue!Receive
  <2>9. QED
    BY <2>6, <2>7, <2>8, Zenon DEF Queue!Next
<1>4. CASE ~Submit /\ ~Accept
  <2>1. UNCHANGED <<sent, received, setup>>
    BY <1>4, Zenon DEF Next, Sender, Receiver, vars, txVars, rxVars, msgqRxLink,
         SwapReadPointers, SendCommand, EncryptionFails, WriteElement,
         SendTimeout, StoreLands, ReceiveStatus, ReadElement, NothingToDo,
         IncompleteRead, BadChecksum, BadSequenceNumber, DecryptionFails, IncorrectLength
  <2>2. QED
    BY <2>1, Zenon DEF Queue!vars
<1>5. QED
  BY <1>2, <1>3, <1>4, Zenon

(* The queue is a FIFO: GspMsgQueueReceiveStatus() returns the records of  *)
(* GspMsgQueueSendCommand() whole, in order and each once, for rings and   *)
(* records of every size, when the sender issues the store fence, as the   *)
(* CPU does, however often the 32-bit sequence number wraps; and without   *)
(* the fence, as long as the sequence number does not wrap.                *)
THEOREM QueueCorrect == Spec /\ Ordered => QueueSpec
<1>1. Spec /\ Ordered => []IInv
  BY Invariance, Zenon
<1>2. IInv /\ [Next]_vars => [Queue!Next]_(Queue!vars)
  BY QueueStep, Zenon
<1>3. Init => Queue!Init
  BY QueueInit, Zenon
<1>4. QED
  BY <1>1, <1>2, <1>3, PTL DEF Spec, QueueSpec, Queue!Spec
=============================================================================

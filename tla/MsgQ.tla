-------------------------------- MODULE MsgQ --------------------------------
(***************************************************************************)
(* One direction of the queue pair between the CPU and the GPU system      *)
(* processor (GSP): the shared-memory ring of msgq.c, with the sender of   *)
(* GspMsgQueueSendCommand() at one end and the receiver of                 *)
(* GspMsgQueueReceiveStatus() at the other.  Both ends use msgq.c; the     *)
(* firmware is the receiver of the command queue and the sender of the     *)
(* status queue, and is taken to run the same code.                        *)
(*                                                                         *)
(* A record is 1 .. MAX_ELEMS ring elements; it is identified by its       *)
(* number, and its checksum is taken to catch every mixture of elements of *)
(* different records.  Stores to the ring become visible in any order, up  *)
(* to a fence.                                                             *)
(***************************************************************************)
EXTENDS Integers, Sequences

CONSTANTS msgCount,     \* elements of the ring
          MAX_ELEMS,    \* elements of the longest record
          SEQS,         \* sequence numbers, 2^32 in the code
          Setups,       \* the kinds of queues, see Setup
          NO_STORE,     \* no store is waiting for a slot
          MAX_RECORDS,  \* bound: records sent
          MAX_SENDS     \* bound: calls that encrypt a record

VARIABLES
  writePtr, readPtr,   \* the two shared pointers
  ring,                \* the elements, as the receiver sees them
  pend,                \* the sender's store to a slot that is not visible yet
  swapped,             \* the sender's handle was linked, it sees readPtr
  tx,                  \* the call of GspMsgQueueSendCommand() in progress
  txFree,              \* cached free space
  txSeqNum, txIv,
  rxLinked,            \* the receiver linked the queue
  rx,                  \* the call of GspMsgQueueReceiveStatus() in progress
  rxAvail,             \* cached number of elements available
  rxSeqNum, rxIv,
  setup,               \* the kind of this queue
  sent,                \* history: the records submitted
  received,            \* history: the numbers of the records returned
  puts, gets           \* history: elements submitted and consumed

txVars == <<swapped, tx, txFree, txSeqNum, txIv, sent, puts, writePtr>>
rxVars == <<rxLinked, rx, rxAvail, rxSeqNum, rxIv, received, gets, readPtr>>
vars == <<txVars, rxVars, ring, pend, setup>>

Slots == 0 .. msgCount - 1

(* Records are encrypted under confidential computing, and the sender      *)
(* issues a store fence: the CPU does, and the receiver has its retries in *)
(* case the other side does not.                                           *)
Setup == [cc : BOOLEAN, fenced : BOOLEAN]

(* Element i of record number no.  Only the first element has the header,  *)
(* all have a share in the checksum.                                       *)
Element == [no : Nat, part : Nat, elemCount : Nat, seqNum : Nat, iv : Nat]

(* A record fits in the ring; GSP_MSG_QUEUE_ELEMENT_SIZE_MAX sees to it.   *)
ASSUME MsgQAssumption ==
  /\ msgCount \in Nat /\ MAX_ELEMS \in 1 .. msgCount - 1
  /\ SEQS \in Nat \ {0}
  /\ Setups \subseteq Setup
  /\ NO_STORE \notin Element
  /\ MAX_RECORDS \in Nat /\ MAX_SENDS \in Nat

(* Zeroed memory.                                                          *)
ZeroElement == [no |-> 0, part |-> 0, elemCount |-> 0, seqNum |-> 0, iv |-> 0]

TxIdle == [pc |-> "idle", elemCount |-> 0, i |-> 0]

RxIdle == [pc |-> "idle", i |-> 0, nElements |-> 0, staged |-> << >>,
           nRetries |-> 0, nMaxRetries |-> 0, seqMismatchDiff |-> 0]

TypeOK ==
  /\ setup \in Setups
  /\ writePtr \in Slots /\ readPtr \in Slots
  /\ ring \in [Slots -> Element]
  /\ pend \in [Slots -> Element \cup {NO_STORE}]
  /\ swapped \in BOOLEAN /\ rxLinked \in BOOLEAN
  /\ tx \in [pc : {"idle", "copy", "submit"}, elemCount : 0 .. MAX_ELEMS,
             i : 0 .. MAX_ELEMS]
  /\ txFree \in 0 .. msgCount - 1 /\ rxAvail \in 0 .. msgCount - 1
  /\ txSeqNum \in 0 .. SEQS - 1 /\ rxSeqNum \in 0 .. SEQS - 1
  /\ txIv \in Nat /\ rxIv \in Nat
  /\ rx \in [pc : {"idle", "read", "check"}, i : 0 .. msgCount,
             nElements : Nat, staged : Seq(Element), nRetries : Nat,
             nMaxRetries : Nat, seqMismatchDiff : Nat]
  /\ sent \in Seq([elemCount : 1 .. MAX_ELEMS, iv : Nat, start : Nat])
  /\ received \in Seq(Nat)
  /\ puts \in Nat /\ gets \in Nat

(* msgqInit() and msgqTxCreate(): messages may be added before the         *)
(* receiver links the queue.                                               *)
Init ==
  /\ setup \in Setups
  /\ writePtr = 0 /\ readPtr = 0
  /\ ring = [s \in Slots |-> ZeroElement] 
  /\ pend = [s \in Slots |-> NO_STORE]
  /\ swapped = FALSE /\ rxLinked = FALSE
  /\ tx = TxIdle /\ txFree = msgCount - 1 /\ txSeqNum = 0 /\ txIv = 0
  /\ rx = RxIdle /\ rxAvail = 0 /\ rxSeqNum = 0 /\ rxIv = 0
  /\ sent = << >> /\ received = << >> /\ puts = 0 /\ gets = 0

-----------------------------------------------------------------------------
(* The library keeps pointers in range by one subtraction.                 *)
Wrap(p) == IF p >= msgCount THEN p - msgCount ELSE p

(* msgqRxLink() on the receiver's handle.  GspStatusQueueInit() retries it *)
(* until the sender's header is there.                                     *)
msgqRxLink ==
  /\ ~rxLinked
  /\ rxLinked' = TRUE
  /\ readPtr' = 0
  /\ UNCHANGED <<setup, txVars, rx, rxAvail, rxSeqNum, rxIv, received, gets,
                 ring, pend>>

(* msgqRxLink() on the sender's handle, for the queue of the other         *)
(* direction: from now on the sender reads the receiver's own read         *)
(* pointer, the read pointers being swapped, and no longer its own zero.   *)
SwapReadPointers ==
  /\ ~swapped
  /\ swapped' = TRUE
  /\ UNCHANGED <<setup, tx, txFree, txSeqNum, txIv, sent, puts, writePtr,
                 rxVars, ring, pend>>

-----------------------------------------------------------------------------
(* The sender.                                                             *)

ReadIncoming == IF swapped THEN readPtr ELSE 0

(* The free space, computed from the two pointers.                         *)
msgqTxGetFreeSpace == Wrap((ReadIncoming + msgCount) - (writePtr + 1))

(* GspMsgQueueSendCommand() numbers the record, and encrypts it with the   *)
(* next IV before it looks for space.                                      *)
SendCommand(n) ==
  /\ tx.pc = "idle"
  /\ Len(sent) < MAX_RECORDS /\ txIv < MAX_SENDS
  /\ tx' = [pc |-> "copy", elemCount |-> n, i |-> 0]
  /\ txIv' = IF setup.cc THEN txIv + 1 ELSE txIv
  /\ UNCHANGED <<setup, swapped, txFree, txSeqNum, sent, puts, writePtr,
                 rxVars, ring, pend>>

(* ccslEncrypt() has moved to the next IV when it fails: the call returns  *)
(* before anything is written.                                             *)
EncryptionFails ==
  /\ tx.pc = "idle" /\ setup.cc
  /\ Len(sent) < MAX_RECORDS /\ txIv < MAX_SENDS
  /\ txIv' = txIv + 1
  /\ tx' = TxIdle
  /\ UNCHANGED <<setup, swapped, txFree, txSeqNum, sent, puts, writePtr,
                 rxVars, ring, pend>>

(* The next element of the record being sent.                              *)
NewElement ==
  [no |-> Len(sent) + 1, part |-> tx.i, elemCount |-> tx.elemCount,
   seqNum |-> txSeqNum, iv |-> txIv]

(* msgqTxGetWriteBuffer() and the copy of one element.  The read pointer   *)
(* is only read when the cached free space is used up.                     *)
WriteElement ==
  /\ tx.pc = "copy"
  /\ \/ tx.i < txFree /\ UNCHANGED txFree
     \/ /\ tx.i >= txFree /\ tx.i < msgqTxGetFreeSpace
        /\ txFree' = msgqTxGetFreeSpace
  /\ pend' = [pend EXCEPT ![Wrap(writePtr + tx.i)] = NewElement]
  /\ tx' = [tx EXCEPT !.i = @ + 1,
                      !.pc = IF tx.i + 1 = tx.elemCount
                             THEN "submit" ELSE "copy"]
  /\ UNCHANGED <<setup, swapped, txSeqNum, txIv, sent, puts, writePtr, rxVars,
                 ring>>

(* No space until the timeout: the call returns NV_ERR_BUSY_RETRY, with    *)
(* the elements copied so far left unpublished.                            *)
SendTimeout ==
  /\ tx.pc = "copy" /\ tx.i >= txFree /\ tx.i >= msgqTxGetFreeSpace
  /\ txFree' = msgqTxGetFreeSpace
  /\ tx' = TxIdle
  /\ UNCHANGED <<setup, swapped, txSeqNum, txIv, sent, puts, writePtr, rxVars,
                 ring, pend>>

(* A store reaches memory.                                                 *)
StoreLands(s) ==
  /\ pend[s] # NO_STORE
  /\ ring' = [ring EXCEPT ![s] = pend[s]]
  /\ pend' = [pend EXCEPT ![s] = NO_STORE]
  /\ UNCHANGED <<setup, txVars, rxVars>>

(* Mistake: the cached free space is not adjusted.                         *)
SubmitKeepsFree ==
  /\ tx.pc = "submit"
  /\ setup.fenced => \A s \in Slots : pend[s] = NO_STORE
  /\ tx.elemCount <= txFree
  /\ writePtr' = Wrap(writePtr + tx.elemCount)
  /\ txSeqNum' = (txSeqNum + 1) % SEQS
  /\ tx' = TxIdle
  /\ sent' = Append(sent, [elemCount |-> tx.elemCount, iv |-> txIv,
                           start |-> puts])
  /\ puts' = puts + tx.elemCount
  /\ UNCHANGED <<setup, swapped, txFree, txIv, rxVars, ring, pend>>

(* portAtomicMemoryFenceStore(), msgqTxSubmitBuffers() and the end of the  *)
(* call.                                                                   *)
Submit ==
  /\ tx.pc = "submit"
  /\ setup.fenced => \A s \in Slots : pend[s] = NO_STORE
  /\ tx.elemCount <= txFree
  /\ writePtr' = Wrap(writePtr + tx.elemCount)
  /\ txFree' = txFree - tx.elemCount
  /\ txSeqNum' = (txSeqNum + 1) % SEQS
  /\ tx' = TxIdle
  /\ sent' = Append(sent, [elemCount |-> tx.elemCount, iv |-> txIv,
                           start |-> puts])
  /\ puts' = puts + tx.elemCount
  /\ UNCHANGED <<setup, swapped, txIv, rxVars, ring, pend>>

-----------------------------------------------------------------------------
(* The receiver.                                                           *)

(* The number of elements available, computed from the two pointers.       *)
msgqRxGetReadAvailable == Wrap((writePtr + msgCount) - readPtr)

Try(nRetries, nMaxRetries, seqMismatchDiff) ==
  [pc |-> "read", i |-> 0, nElements |-> 1, staged |-> << >>,
   nRetries |-> nRetries, nMaxRetries |-> nMaxRetries,
   seqMismatchDiff |-> seqMismatchDiff]

(* The next iteration of the retry loop, or the return of the error.       *)
Retry(nMaxRetries, seqMismatchDiff) ==
  rx' = IF rx.nRetries + 1 < nMaxRetries
        THEN Try(rx.nRetries + 1, nMaxRetries, seqMismatchDiff)
        ELSE RxIdle

(* A call of GspMsgQueueReceiveStatus().  The drain loop that makes it     *)
(* ends with the first call that returns no record.                        *)
ReceiveStatus ==
  /\ rxLinked /\ rx.pc = "idle"
  /\ rx' = Try(0, 3, SEQS - 1)
  /\ UNCHANGED <<setup, txVars, rxLinked, rxAvail, rxSeqNum, rxIv, received,
                 gets, readPtr, ring, pend>>

(* msgqRxGetReadBuffer() and the copy of one element.  The first element   *)
(* says how many there are.                                                *)
ReadElement ==
  /\ rx.pc = "read"
  /\ \/ rx.i < rxAvail /\ UNCHANGED rxAvail
     \/ /\ rx.i >= rxAvail /\ rx.i < msgqRxGetReadAvailable
        /\ rxAvail' = msgqRxGetReadAvailable
  /\ LET e == ring[Wrap(readPtr + rx.i)]
         n == IF rx.i = 0 THEN e.elemCount ELSE rx.nElements
     IN  rx' = [rx EXCEPT !.i = @ + 1, !.nElements = n,
                          !.staged = Append(@, e),
                          !.pc = IF rx.i + 1 < n THEN "read" ELSE "check"]
  /\ UNCHANGED <<setup, txVars, rxLinked, rxSeqNum, rxIv, received, gets,
                 readPtr, ring, pend>>

(* The queue is empty: NV_WARN_NOTHING_TO_DO.                              *)
NothingToDo ==
  /\ rx.pc = "read" /\ rx.i = 0 /\ rxAvail = 0 /\ msgqRxGetReadAvailable = 0
  /\ rx' = RxIdle
  /\ UNCHANGED <<setup, txVars, rxLinked, rxAvail, rxSeqNum, rxIv, received,
                 gets, readPtr, ring, pend>>

(* The rest of the record is not there: NV_ERR_NOT_READY.                  *)
IncompleteRead ==
  /\ rx.pc = "read" /\ rx.i > 0
  /\ rx.i >= rxAvail /\ rx.i >= msgqRxGetReadAvailable
  /\ rxAvail' = msgqRxGetReadAvailable
  /\ Retry(rx.nMaxRetries, rx.seqMismatchDiff)
  /\ UNCHANGED <<setup, txVars, rxLinked, rxSeqNum, rxIv, received, gets,
                 readPtr, ring, pend>>

(* msgqRxMarkConsumed().  Its check, n > rxAvail, was made by the reads.   *)
msgqRxMarkConsumed(n) ==
  /\ n <= rxAvail
  /\ readPtr' = Wrap(readPtr + n)
  /\ rxAvail' = rxAvail - n
  /\ gets' = gets + n

(* The checksum is zero.  That of no elements is.                          *)
ChecksumOk ==
  \A i \in 1 .. rx.nElements :
    rx.staged[i] = [rx.staged[1] EXCEPT !.part = i - 1]

BadChecksum ==
  /\ rx.pc = "check" /\ ~ChecksumOk
  /\ Retry(rx.nMaxRetries, rx.seqMismatchDiff)
  /\ UNCHANGED <<setup, txVars, rxLinked, rxAvail, rxSeqNum, rxIv, received,
                 gets, readPtr, ring, pend>>

(* The wrong sequence number.  What looks like an old record is consumed,  *)
(* as long as that brings the sequence number closer.                      *)
BadSequenceNumber ==
  /\ rx.pc = "check" /\ ChecksumOk /\ rx.staged[1].seqNum # rxSeqNum
  /\ LET diff == rxSeqNum - rx.staged[1].seqNum IN
     \/ /\ diff > 0 /\ diff < rx.seqMismatchDiff
        /\ msgqRxMarkConsumed(rx.nElements)
        /\ Retry(rx.nMaxRetries + 1, diff)
     \/ /\ diff <= 0 \/ diff >= rx.seqMismatchDiff
        /\ Retry(rx.nMaxRetries, rx.seqMismatchDiff)
        /\ UNCHANGED <<rxAvail, gets, readPtr>>
  /\ UNCHANGED <<setup, txVars, rxLinked, rxSeqNum, rxIv, received, ring,
                 pend>>

(* Mistake: the sequence number is not compared.                           *)
ValidAnyNumber == rx.pc = "check" /\ ChecksumOk

Valid == rx.pc = "check" /\ ChecksumOk /\ rx.staged[1].seqNum = rxSeqNum

(* Mistake: the IV only moves on when decryption works.                    *)
DecryptionKeepsIv ==
  /\ Valid /\ setup.cc /\ rx.staged[1].iv # rxIv + 1
  /\ rx' = RxIdle
  /\ UNCHANGED <<setup, txVars, rxLinked, rxAvail, rxSeqNum, rxIv, received,
                 gets, readPtr, ring, pend>>

(* ccslDecrypt() moves to the next IV whether or not it is the record's.   *)
DecryptionFails ==
  /\ Valid /\ setup.cc /\ rx.staged[1].iv # rxIv + 1
  /\ rxIv' = rxIv + 1
  /\ rx' = RxIdle
  /\ UNCHANGED <<setup, txVars, rxLinked, rxAvail, rxSeqNum, received, gets,
                 readPtr, ring, pend>>

Decrypt ==
  /\ setup.cc => rx.staged[1].iv = rxIv + 1
  /\ rxIv' = IF setup.cc THEN rxIv + 1 ELSE rxIv

(* The length of a record that is still zero: it stays in the queue.       *)
IncorrectLength ==
  /\ Valid /\ rx.nElements = 0
  /\ Decrypt
  /\ rx' = RxIdle
  /\ UNCHANGED <<setup, txVars, rxLinked, rxAvail, rxSeqNum, received, gets,
                 readPtr, ring, pend>>

Accept ==
  /\ Valid /\ rx.nElements > 0
  /\ Decrypt
  /\ rxSeqNum' = (rxSeqNum + 1) % SEQS
  /\ msgqRxMarkConsumed(rx.nElements)
  /\ received' = Append(received, rx.staged[1].no)
  /\ rx' = RxIdle
  /\ UNCHANGED <<setup, txVars, rxLinked, ring, pend>>

-----------------------------------------------------------------------------
Sender == WriteElement \/ SendTimeout \/ Submit

Receiver ==
  \/ ReadElement \/ NothingToDo \/ IncompleteRead \/ BadChecksum
  \/ BadSequenceNumber \/ DecryptionFails \/ IncorrectLength \/ Accept

Next ==
  \/ msgqRxLink \/ SwapReadPointers
  \/ \E n \in 1 .. MAX_ELEMS : SendCommand(n)
  \/ EncryptionFails \/ Sender
  \/ \E s \in Slots : StoreLands(s)
  \/ ReceiveStatus \/ Receiver

Spec == Init /\ [][Next]_vars

(* Both ends link the queues when they start, a call runs to its end and a *)
(* store becomes visible.  Nothing calls the receiver: the drain loop of   *)
(* _kgspRpcDrainEvents() ends with the first error, and what calls again   *)
(* is the next RPC or interrupt, which need not come.                      *)
Fairness ==
  /\ WF_vars(msgqRxLink) /\ WF_vars(SwapReadPointers)
  /\ WF_vars(Sender) /\ WF_vars(Receiver)
  /\ WF_vars(\E s \in Slots : StoreLands(s))

FairSpec == Spec /\ Fairness

-----------------------------------------------------------------------------
(* Properties.                                                             *)

(* A record that the sender's msgqTxGetWriteBuffer() calls and a stale     *)
(* txFree let it write never touches an element the receiver has not       *)
(* consumed: a store that still waits for such an element is the one that  *)
(* belongs there.  This holds whatever the order in which the stores land, *)
(* and even when the sender does not see the read pointer yet.             *)
NoOverwrite ==
  \A k \in 1 .. Len(sent) : \A i \in 0 .. sent[k].elemCount - 1 :
    LET s == (sent[k].start + i) % msgCount
    IN  sent[k].start + i >= gets /\ pend[s] # NO_STORE => pend[s].no = k

(* With the store fence the queue delivers every record once, whole and in *)
(* the order of GspMsgQueueSendCommand(), as a FIFO does.  When the        *)
(* elements land after the write pointer ("the data is in flight (no       *)
(* fence)") the checksum, the length and the sequence number still keep    *)
(* GspMsgQueueReceiveStatus() from returning a record twice, out of order  *)
(* or put together from two, but its recovery may skip some.               *)
Queue == INSTANCE Fifo WITH
  Messages <- 1 .. MAX_RECORDS,
  sent <- [k \in 1 .. Len(sent) |-> k],
  next <- IF received = << >> THEN 1 ELSE received[Len(received)] + 1,
  reliable <- setup.fenced

QueueSpec == Queue!Spec

(* What "ignoring old package" discards is old: every element that         *)
(* msgqRxMarkConsumed() skips in the recovery belongs to a record that was *)
(* returned before.                                                        *)
(* TLC refutes this: README, section 4.                                    *)
SkipsOnlyOld ==
  [][gets' # gets /\ received' = received =>
       \A k \in Len(received) + 1 .. Len(sent) : sent[k].start >= gets']_vars

(* As long as GspMsgQueueReceiveStatus() is called again, also after the   *)
(* errors at which _kgspRpcDrainEvents() stops, every record sent with a   *)
(* fence is returned: no full queue, no send that failed and no IV it      *)
(* skipped leaves the receiver stuck on a record, which each failed        *)
(* decryption brings one IV closer.                                        *)
Delivered ==
  []<>(rx.pc # "idle") =>
    (setup.fenced /\ Len(received) < Len(sent) ~> Len(received) = Len(sent))
=============================================================================

------------------------------- MODULE GspRpc -------------------------------
(***************************************************************************)
(* Remote procedure calls of the CPU to the GSP firmware: rpc.c issues     *)
(* them, kernel_gsp.c sends their records and polls for the response while *)
(* it handles the events that arrive before it, and the interrupt handler  *)
(* kgspService() handles the events that arrive while nobody polls.        *)
(*                                                                         *)
(* The two queues are FIFOs of records, which is what MsgQ implements.     *)
(* All the CPU's code runs under the GPU lock; it is one stack of calls,   *)
(* since an event handler may issue an RPC itself.  The firmware is        *)
(* modelled from what the CPU expects of it.                               *)
(***************************************************************************)
EXTENDS Integers, Sequences, SequencesExt

CONSTANTS Funcs,          \* functions of RPCs
          EVENT,          \* function of an event
          LOG,            \* function of an event that is only logged
          CONTINUATION,   \* NV_VGPU_MSG_FUNCTION_CONTINUATION_RECORD
          NONE,           \* NV_VGPU_MSG_FUNCTION_NUM_FUNCTIONS
          Sizes,          \* buffer sizes of large RPCs
          maxRpcSize,     \* the longest record
          HEADER,         \* sizeof(rpc_message_header_v)
          QUEUE_SIZE,     \* records that fit in a queue
          MAX_DEPTH,      \* bound: calls on the stack
          MAX_RPCS,       \* bound: RPCs issued
          MAX_EVENTS,     \* bound: events sent, and LOG events queued
          MAX_FAILURES    \* bound: receives and event handlers that fail,
                          \* crashes of the firmware, losses of the GPU

VARIABLES
  calls,        \* the stack of calls in progress, the innermost first
  bPollingForRpcResponse,
  expired,      \* the time of the poll in progress is over
  cmdq, statq,  \* the command and the status queue
  gspReq,       \* firmware: the request being received
  gspOut,       \* firmware: the response being sent
  intr,         \* the interrupt that announces records is pending
  halted,       \* the firmware stopped
  haltIntr,     \* the interrupt that announces that is pending
  report,       \* an error report waits for kgspHealthCheck()
  gpuLost,
  reqs,         \* history: the requests, by number
  abandoned,    \* history: requests whose response nobody waits for
  last,         \* history: the call that returned in the last step
  inTime,       \* history: what was in the status queue when time was over
  raised, handled,   \* history: events sent and handled
  failures,     \* history: what failed, counted
  drainFailed   \* history: a drain failed, and none that could
                \* reach the end of the queue has started since

failVars == <<failures, drainFailed>>
callVars == <<calls, bPollingForRpcResponse, reqs, abandoned, handled>>
cpuVars == <<callVars, failVars>>
gspVars == <<gspReq, gspOut, halted, gpuLost, raised>>
vars == <<cpuVars, last, gspVars, expired, inTime, cmdq, statq, intr, haltIntr,
          report>>

ASSUME GspRpcAssumption ==
  /\ {EVENT, LOG, CONTINUATION, NONE} \cap Funcs = {}
  /\ IsInjective(<<EVENT, LOG, CONTINUATION, NONE>>)
  /\ HEADER \in Nat \ {0} /\ maxRpcSize \in Nat /\ HEADER < maxRpcSize
  /\ Sizes \subseteq {n \in Nat : n >= HEADER}
  /\ {QUEUE_SIZE, MAX_DEPTH, MAX_RPCS, MAX_EVENTS, MAX_FAILURES} \subseteq Nat

(* A byte of a message is its number and its place; of an event, 0.        *)
Bytes(id, from, n) == [k \in 1 .. n |-> <<id, from + k>>]

(* A record of request or event id.                                        *)
Record(func, id, length, data, result) ==
  [func |-> func, id |-> id, length |-> length, data |-> data, result |-> result]

Least(a, b) == IF a < b THEN a ELSE b

-----------------------------------------------------------------------------
(* The calls.                                                              *)

Call(func, id, bufSize, bBidirectional, bWait) ==
  [pc |-> "send", func |-> func, id |-> id, bufSize |-> bufSize,
   bBidirectional |-> bBidirectional, bWait |-> bWait,
   remainingSize |-> bufSize, recordCount |-> 0, expectedFunc |-> func,
   timeoutStatus |-> FALSE, buf |-> << >>]

(* The interrupt handler waits for no response.                            *)
Service == [Call(NONE, 0, 0, FALSE, FALSE) EXCEPT !.pc = "drain"]

cur == Head(calls)

Become(c) == calls' = <<c>> \o Tail(calls)

Goto(pc) == Become([cur EXCEPT !.pc = pc])

Running(pc) == calls # << >> /\ cur.pc = pc

(* The whole response of the call is in its buffer, and the assertion      *)
(* recordCount == 0 holds.                                                 *)
HasOwnAnswer(c) ==
  IF c.bBidirectional
  THEN c.buf = Bytes(c.id, 0, c.bufSize) /\ c.recordCount = 0
  ELSE c.buf = Bytes(c.id, 0, Least(c.bufSize, maxRpcSize))

(* Calls that wait for a response, from the first look for it.             *)
Polls(c) == c.bWait /\ c.pc \in {"check", "drain", "drained", "event"}

(* The innermost call, in its last state c, returns.                       *)
Return(c, status) ==
  /\ calls' = Tail(calls)
  /\ last' = [status |-> status, inTime |-> inTime,
              own |-> c.bWait => HasOwnAnswer(c),
              clean |-> \A a \in abandoned : a > c.id]
  /\ abandoned' =
       IF c.bWait /\ c.pc # "send" /\ ~HasOwnAnswer(c)
       THEN abandoned \cup {c.id} ELSE abandoned
  /\ UNCHANGED <<reqs, handled>>

NoReturn == [status |-> "OK", inTime |-> FALSE, own |-> TRUE, clean |-> TRUE]

NoneReturns == last' = NoReturn

TypeOK ==
  /\ calls \in Seq([pc : {"send", "poll", "check", "drain", "drained", "event"},
                    func : Funcs \cup {NONE}, id : 0 .. MAX_RPCS,
                    bufSize : Nat, bBidirectional : BOOLEAN, bWait : BOOLEAN,
                    remainingSize : Nat, recordCount : Int,
                    expectedFunc : Funcs \cup {NONE, CONTINUATION},
                    timeoutStatus : BOOLEAN, buf : Seq(Nat \X Nat)])
  /\ Len(calls) <= MAX_DEPTH
  /\ bPollingForRpcResponse \in BOOLEAN /\ expired \in BOOLEAN
  /\ intr \in BOOLEAN /\ halted \in BOOLEAN /\ haltIntr \in BOOLEAN
  /\ report \in BOOLEAN /\ gpuLost \in BOOLEAN /\ inTime \in BOOLEAN
  /\ Len(cmdq) <= QUEUE_SIZE /\ Len(statq) <= QUEUE_SIZE
  /\ \A r \in Range(cmdq) \cup Range(statq) : r.length \in HEADER .. maxRpcSize
  /\ abandoned \subseteq 1 .. Len(reqs) /\ raised \in 0 .. MAX_EVENTS
  /\ drainFailed \in BOOLEAN

NoRequest == [func |-> NONE, data |-> << >>]

NoResponse == [func |-> NONE, id |-> 0, size |-> 0, left |-> 0, result |-> TRUE]

Init ==
  /\ calls = << >> /\ bPollingForRpcResponse = FALSE /\ expired = FALSE
  /\ cmdq = << >> /\ statq = << >> /\ gspReq = NoRequest /\ gspOut = NoResponse
  /\ intr = FALSE /\ halted = FALSE /\ haltIntr = FALSE /\ report = FALSE
  /\ gpuLost = FALSE
  /\ reqs = << >> /\ abandoned = {} /\ inTime = FALSE
  /\ last = NoReturn
  /\ raised = 0 /\ handled = << >> /\ failures = 0 /\ drainFailed = FALSE

-----------------------------------------------------------------------------
(* Issuing an RPC: by a thread that got the GPU lock, or by the handler of *)
(* an event.                                                               *)

Issue(func, bufSize, bBidirectional, bWait) ==
  /\ calls = << >> \/ Running("event")
  /\ Len(calls) < MAX_DEPTH /\ Len(reqs) < MAX_RPCS
  /\ reqs' = Append(reqs, [bufSize |-> bufSize, bWait |-> bWait,
                           bBidirectional |-> bBidirectional])
  /\ calls' = <<Call(func, Len(reqs) + 1, bufSize, bBidirectional, bWait)>> \o calls
  /\ NoneReturns
  /\ UNCHANGED <<bPollingForRpcResponse, abandoned, handled, failVars,
                 gspVars, expired, inTime, cmdq, statq, intr, haltIntr, report>>

(* A message that fits in one record.                                      *)
issueRpcAndWait(func) == Issue(func, HEADER, FALSE, TRUE)

issueRpcAsync(func) == Issue(func, HEADER, FALSE, FALSE)

(* _issueRpcAndWaitLarge() and _issueRpcAsyncLarge().                      *)
issueRpcLarge(func, bufSize, bBidirectional, bWait) ==
  /\ bBidirectional => bWait
  /\ Issue(func, bufSize, bBidirectional, bWait)

(* The next record of a message: the first one has as much of the buffer   *)
(* as fits, each other one a header of its own.                            *)
NextRecord(func, id, bufSize, remainingSize, result) ==
  IF remainingSize = bufSize
  THEN LET n == Least(bufSize, maxRpcSize)
       IN  Record(func, id, n, Bytes(id, 0, n), result)
  ELSE LET n == Least(remainingSize, maxRpcSize - HEADER)
       IN  Record(CONTINUATION, id, n + HEADER,
                  Bytes(id, bufSize - remainingSize, n), result)

(* _kgspRpcSendMessage() for the next record of the call.                  *)
SendMessage ==
  LET r == NextRecord(cur.func, cur.id, cur.bufSize, cur.remainingSize, TRUE)
      left == cur.remainingSize - Len(r.data)
      c == [cur EXCEPT !.remainingSize = left,
                       !.recordCount = IF r.func = CONTINUATION THEN @ + 1 ELSE @,
                       !.pc = IF left = 0 THEN "poll" ELSE "send"]
  IN  /\ Running("send") /\ ~gpuLost /\ Len(cmdq) < QUEUE_SIZE
      /\ cmdq' = Append(cmdq, r)
      /\ \/ /\ left > 0 \/ cur.bWait
            /\ Become(c)
            /\ UNCHANGED <<reqs, abandoned, handled, failVars>> /\ NoneReturns
         \/ left = 0 /\ ~cur.bWait /\ Return(cur, "OK") /\ UNCHANGED failVars
      /\ UNCHANGED <<bPollingForRpcResponse, gspVars, expired, inTime, statq,
                     intr, haltIntr, report>>

(* _kgspRpcSanityCheck() fails, or the queue stays full.                   *)
SendFails ==
  /\ Running("send")
  /\ \/ gpuLost /\ Return(cur, "GPU_IS_LOST")
     \/ ~gpuLost /\ Len(cmdq) = QUEUE_SIZE /\ Return(cur, "GENERIC")
  /\ UNCHANGED <<bPollingForRpcResponse, failVars, gspVars, expired, inTime,
                 cmdq, statq, intr, haltIntr, report>>

-----------------------------------------------------------------------------
(* _kgspRpcRecvPoll().                                                     *)

(* Mistake: recursive polling is allowed.                                  *)
RecvPollRecursive ==
  /\ Running("poll")
  /\ bPollingForRpcResponse' = TRUE
  /\ Goto("check")
  /\ NoneReturns
  /\ UNCHANGED <<reqs, abandoned, handled, failVars, gspVars,
                 expired, inTime, cmdq, statq, intr, haltIntr, report>>

RecvPoll ==
  /\ Running("poll") /\ ~bPollingForRpcResponse
  /\ bPollingForRpcResponse' = TRUE
  /\ Goto("check")
  /\ NoneReturns
  /\ UNCHANGED <<reqs, abandoned, handled, failVars, gspVars,
                 expired, inTime, cmdq, statq, intr, haltIntr, report>>

(* Recursive polling is refused, when the request was already sent.        *)
RecvPollRefused ==
  /\ Running("poll") /\ bPollingForRpcResponse
  /\ Return(cur, "INVALID_STATE")
  /\ UNCHANGED <<bPollingForRpcResponse, failVars, gspVars, expired, inTime,
                 cmdq, statq, intr, haltIntr, report>>

(* Time runs out.                                                          *)
Expire ==
  /\ bPollingForRpcResponse /\ ~expired
  /\ expired' = TRUE
  /\ inTime' = \E k \in 1 .. Len(calls) : Polls(calls[k]) /\
                 \E r \in Range(statq) : r.func = calls[k].expectedFunc
  /\ NoneReturns
  /\ UNCHANGED <<cpuVars, gspVars, cmdq, statq, intr, haltIntr, report>>

CheckTimeout ==
  /\ Running("check")
  /\ Become([cur EXCEPT !.pc = "drain", !.timeoutStatus = expired])
  /\ NoneReturns
  /\ UNCHANGED <<bPollingForRpcResponse, reqs, abandoned, handled,
                 failVars, gspVars, expired, inTime, cmdq, statq, intr,
                 haltIntr, report>>

(* _kgspRpcDrainOneEvent(): an event, or a response nobody waits for.      *)
DrainOneEvent ==
  /\ Running("drain") /\ statq # << >> /\ Head(statq).func # cur.expectedFunc
  /\ statq' = Tail(statq)
  /\ \/ /\ Head(statq).func = EVENT
        /\ Goto("event")
        /\ handled' = Append(handled, Head(statq).id)
     \/ /\ Head(statq).func # EVENT
        /\ UNCHANGED <<calls, handled>>
  /\ NoneReturns
  /\ UNCHANGED <<bPollingForRpcResponse, reqs, abandoned, failVars,
                 gspVars, expired, inTime, cmdq, intr, haltIntr, report>>

(* The handler of an event returns.                                        *)
ProcessRpcEvent ==
  /\ Running("event")
  /\ Goto("drain")
  /\ NoneReturns
  /\ UNCHANGED <<bPollingForRpcResponse, reqs, abandoned, handled,
                 failVars, gspVars, expired, inTime, cmdq, statq, intr,
                 haltIntr, report>>

(* The label done: and the return of the RPC with an error.                *)
PollFails(status) ==
  /\ bPollingForRpcResponse' = FALSE
  /\ expired' = FALSE /\ inTime' = FALSE
  /\ Return(cur, status)

Failure == failures < MAX_FAILURES /\ failures' = failures + 1

(* The handler of an event fails, and so does whoever drains the queue.    *)
ProcessRpcEventFails ==
  /\ Running("event") /\ Failure
  /\ drainFailed' = TRUE
  /\ PollFails(IF report THEN "RESET_REQUIRED" ELSE "ERROR")
  /\ report' = FALSE
  /\ UNCHANGED <<gspVars, cmdq, statq, intr, haltIntr>>

(* GspMsgQueueReceiveStatus() fails for a record that is there, such as    *)
(* one behind a skipped IV: the record stays, and the drain ends.          *)
ReceiveFails ==
  /\ Running("drain") /\ statq # << >> /\ Failure
  /\ drainFailed' = TRUE
  /\ PollFails(IF report THEN "RESET_REQUIRED" ELSE "ERROR")
  /\ report' = FALSE
  /\ UNCHANGED <<gspVars, cmdq, statq, intr, haltIntr>>

(* The queue is empty, or its first record is the response.  Then          *)
(* kgspHealthCheck() takes an error report, if there is one.               *)
ErrorReported ==
  /\ Running("drain")
  /\ report /\ report' = FALSE
  /\ \/ statq = << >> /\ UNCHANGED statq
     \/ /\ statq # << >> /\ Head(statq).func = cur.expectedFunc
        /\ statq' = Tail(statq)
  /\ PollFails("RESET_REQUIRED")
  /\ UNCHANGED <<failVars, gspVars, cmdq, intr, haltIntr>>

NothingToDo ==
  /\ Running("drain") /\ statq = << >> /\ ~report
  /\ \/ /\ cur.bWait /\ Goto("drained")
        /\ UNCHANGED <<reqs, abandoned, handled>> /\ NoneReturns
     \/ ~cur.bWait /\ Return(cur, "OK")
  /\ drainFailed' = FALSE
  /\ UNCHANGED <<bPollingForRpcResponse, failures, gspVars, expired, inTime,
                 cmdq, statq, intr, haltIntr, report>>

SanityCheckFails ==
  /\ Running("drained") /\ gpuLost
  /\ PollFails("GPU_IS_LOST")
  /\ UNCHANGED <<failVars, gspVars, cmdq, statq, intr, haltIntr, report>>

(* Mistake: the time is looked at after the queue.                         *)
TimeoutNow ==
  /\ Running("drained") /\ ~gpuLost /\ expired
  /\ PollFails("TIMEOUT")
  /\ UNCHANGED <<failVars, gspVars, cmdq, statq, intr, haltIntr, report>>

Timeout ==
  /\ Running("drained") /\ ~gpuLost /\ cur.timeoutStatus
  /\ PollFails("TIMEOUT")
  /\ UNCHANGED <<failVars, gspVars, cmdq, statq, intr, haltIntr, report>>

(* Mistake: the time is looked at once, before the loop.                   *)
SpinWithoutCheck ==
  /\ Running("drained") /\ ~gpuLost /\ ~cur.timeoutStatus
  /\ Goto("drain")
  /\ NoneReturns
  /\ UNCHANGED <<bPollingForRpcResponse, reqs, abandoned, handled,
                 failVars, gspVars, expired, inTime, cmdq, statq, intr,
                 haltIntr, report>>

Spin ==
  /\ Running("drained") /\ ~gpuLost /\ ~cur.timeoutStatus
  /\ Goto("check")
  /\ NoneReturns
  /\ UNCHANGED <<bPollingForRpcResponse, reqs, abandoned, handled,
                 failVars, gspVars, expired, inTime, cmdq, statq, intr,
                 haltIntr, report>>

(* The record's share of the caller's buffer.                              *)
Received(r) ==
  IF cur.expectedFunc = CONTINUATION
  THEN LET n == Least(r.length - HEADER, cur.remainingSize)
       IN  [cur EXCEPT !.buf = @ \o SubSeq(r.data, 1, n),
                       !.remainingSize = @ - n, !.recordCount = @ - 1]
  ELSE LET n == Least(r.length, cur.bufSize)
       IN  [cur EXCEPT !.buf = SubSeq(r.data, 1, n),
                       !.remainingSize = cur.bufSize - n]

(* Mistake: the poll clears the interrupt.                                 *)
ReceiveResponseClears ==
  LET c == Received(Head(statq))
      more == /\ c.bBidirectional /\ c.remainingSize > 0
              /\ cur.expectedFunc = CONTINUATION \/ cur.recordCount > 0
  IN  /\ Running("drain") /\ statq # << >> /\ ~report
      /\ Head(statq).func = cur.expectedFunc
      /\ statq' = Tail(statq)
      /\ bPollingForRpcResponse' = FALSE
      /\ expired' = FALSE /\ inTime' = FALSE
      /\ \/ /\ more
            /\ Become([c EXCEPT !.pc = "poll", !.expectedFunc = CONTINUATION])
            /\ UNCHANGED <<reqs, abandoned, handled>> /\ NoneReturns
         \/ ~more /\ Return(c, IF Head(statq).result THEN "OK" ELSE "FAILED")
      /\ UNCHANGED <<failVars, gspVars, cmdq, haltIntr, report>>
      /\ intr' = FALSE

(* The poll found a record of the function it waits for, which is taken    *)
(* for the response.  A large RPC that has sent continuation records polls *)
(* again until its buffer is full, and the last record has the result.     *)
ReceiveResponse ==
  LET c == Received(Head(statq))
      more == /\ c.bBidirectional /\ c.remainingSize > 0
              /\ cur.expectedFunc = CONTINUATION \/ cur.recordCount > 0
  IN  /\ Running("drain") /\ statq # << >> /\ ~report
      /\ Head(statq).func = cur.expectedFunc
      /\ statq' = Tail(statq)
      /\ bPollingForRpcResponse' = FALSE
      /\ expired' = FALSE /\ inTime' = FALSE
      /\ \/ /\ more
            /\ Become([c EXCEPT !.pc = "poll", !.expectedFunc = CONTINUATION])
            /\ UNCHANGED <<reqs, abandoned, handled>> /\ NoneReturns
         \/ ~more /\ Return(c, IF Head(statq).result THEN "OK" ELSE "FAILED")
      /\ UNCHANGED <<failVars, gspVars, cmdq, intr, haltIntr,
                     report>>

-----------------------------------------------------------------------------
(* kgspService(): the interrupt is cleared before the records are looked   *)
(* at.  A halt only has its report logged.                                 *)
ServiceInterrupt ==
  /\ calls = << >> /\ ~gpuLost
  /\ intr \/ haltIntr
  /\ haltIntr' = FALSE
  /\ report' = (report /\ ~haltIntr)
  /\ intr' = FALSE
  /\ calls' = IF intr THEN <<Service>> ELSE << >>
  /\ NoneReturns
  /\ drainFailed' = (drainFailed /\ ~intr)
  /\ UNCHANGED <<bPollingForRpcResponse, reqs, abandoned, handled,
                 failures, gspVars, expired, inTime, cmdq, statq>>

-----------------------------------------------------------------------------
(* The firmware.                                                           *)

(* A record of a request is received; the request is answered when it is   *)
(* complete, if it is not asynchronous.                                    *)
GspReceive ==
  /\ ~halted /\ cmdq # << >> /\ gspOut.left = 0
  /\ cmdq' = Tail(cmdq)
  /\ LET r == Head(cmdq)
         data == IF r.func = CONTINUATION THEN gspReq.data \o r.data ELSE r.data
         func == IF r.func = CONTINUATION THEN gspReq.func ELSE r.func
         q == reqs[r.id]
         n == IF q.bBidirectional THEN q.bufSize ELSE Least(q.bufSize, maxRpcSize)
     IN  \/ /\ Len(data) < q.bufSize
            /\ gspReq' = [func |-> func, data |-> data]
            /\ UNCHANGED gspOut
         \/ /\ Len(data) = q.bufSize /\ ~q.bWait
            /\ gspReq' = NoRequest
            /\ UNCHANGED gspOut
         \/ /\ Len(data) = q.bufSize /\ q.bWait
            /\ gspReq' = NoRequest
            /\ \E result \in BOOLEAN :
                 gspOut' = [func |-> func, id |-> r.id, size |-> n,
                            left |-> n, result |-> result]
  /\ NoneReturns
  /\ UNCHANGED <<cpuVars, halted, gpuLost, raised, expired, inTime, statq,
                 intr, haltIntr, report>>

(* A record of the response is sent.                                       *)
GspRespond ==
  LET r == NextRecord(gspOut.func, gspOut.id, gspOut.size, gspOut.left,
                      gspOut.result)
  IN  /\ ~halted /\ gspOut.left > 0 /\ Len(statq) < QUEUE_SIZE
      /\ statq' = Append(statq, r)
      /\ gspOut' = IF gspOut.left = Len(r.data) THEN NoResponse
                   ELSE [gspOut EXCEPT !.left = @ - Len(r.data)]
      /\ intr' = TRUE
      /\ NoneReturns
      /\ UNCHANGED <<cpuVars, gspReq, halted, gpuLost, raised, expired, inTime,
                     cmdq, haltIntr, report>>

Events == raised + Cardinality({k \in DOMAIN statq : statq[k].func = LOG})

(* An event is sent.                                                       *)
GspRaise ==
  /\ ~halted /\ Events < MAX_EVENTS /\ Len(statq) < QUEUE_SIZE
  /\ raised' = raised + 1
  /\ statq' = Append(statq, Record(EVENT, raised', HEADER, << >>, TRUE))
  /\ intr' = TRUE
  /\ NoneReturns
  /\ UNCHANGED <<cpuVars, gspReq, gspOut, halted, gpuLost, expired, inTime,
                 cmdq, haltIntr, report>>

(* An event is sent whose handler does nothing but log it, such as         *)
(* NV_VGPU_MSG_EVENT_OS_ERROR_LOG.  Nothing bounds how many.               *)
GspLog ==
  /\ ~halted /\ Events < MAX_EVENTS /\ Len(statq) < QUEUE_SIZE
  /\ statq' = Append(statq, Record(LOG, 0, HEADER, << >>, TRUE))
  /\ intr' = TRUE
  /\ NoneReturns
  /\ UNCHANGED <<cpuVars, gspVars, expired, inTime, cmdq, haltIntr, report>>

(* The firmware crashes.                                                   *)
GspCrash ==
  /\ ~halted /\ Failure
  /\ halted' = TRUE /\ haltIntr' = TRUE /\ report' = TRUE
  /\ NoneReturns
  /\ UNCHANGED <<callVars, drainFailed, gspReq, gspOut, gpuLost, raised,
                 expired, inTime, cmdq, statq, intr>>

(* The GPU falls off the bus.                                              *)
GpuLost ==
  /\ ~gpuLost /\ Failure
  /\ gpuLost' = TRUE /\ halted' = TRUE
  /\ NoneReturns
  /\ UNCHANGED <<callVars, drainFailed, gspReq, gspOut, raised, expired, inTime,
                 cmdq, statq, intr, haltIntr, report>>

-----------------------------------------------------------------------------
Issues ==
  \E func \in Funcs :
    \/ issueRpcAndWait(func) \/ issueRpcAsync(func)
    \/ \E n \in Sizes, bidirectional \in BOOLEAN, wait \in BOOLEAN :
         issueRpcLarge(func, n, bidirectional, wait)

Cpu ==
  \/ SendMessage \/ SendFails \/ RecvPoll \/ RecvPollRefused \/ CheckTimeout
  \/ DrainOneEvent \/ ProcessRpcEvent \/ ProcessRpcEventFails \/ ReceiveFails
  \/ ErrorReported \/ NothingToDo \/ SanityCheckFails \/ Timeout \/ Spin
  \/ ReceiveResponse

Next ==
  \/ Issues \/ Cpu \/ Expire \/ ServiceInterrupt
  \/ GspReceive \/ GspRespond \/ GspRaise \/ GspLog \/ GspCrash \/ GpuLost

Spec == Init /\ [][Next]_vars

(* The thread that has the GPU lock runs on, time passes, and a pending    *)
(* interrupt is serviced.  Nothing is assumed of the firmware.             *)
Fairness == WF_vars(Cpu) /\ WF_vars(Expire) /\ WF_vars(ServiceInterrupt)

FairSpec == Spec /\ Fairness

-----------------------------------------------------------------------------
(* Properties.                                                             *)

(* An RPC that gets a response, none before it having been given up, got the *)
(* whole response to its own request, every byte in its place, with the    *)
(* assertion recordCount == 0 of _issueRpcLarge() true.  This is so        *)
(* although _kgspRpcDrainOneEvent() compares the function only, and in     *)
(* spite of the RPCs that event handlers send in between.                  *)
OwnAnswer ==
  last.status \in {"OK", "FAILED"} /\ last.clean => last.own

(* A timeout is honest: the response was not in the status queue when the  *)
(* time was over, since gpuCheckTimeout() is called before the queue is    *)
(* drained.                                                                *)
TimeoutHonest == last.status = "TIMEOUT" => ~last.inTime

(* Every RPC and every run of the interrupt handler returns, whether the   *)
(* firmware answers, fails or falls silent, unless it sends without end:   *)
(* _kgspRpcRecvPoll() looks at the time before it drains the queue and not *)
(* in _kgspRpcDrainEvents(), whose loop goes on as long as there is a      *)
(* record.                                                                 *)
RpcReturns == <>[][~GspLog]_vars => (calls # << >> ~> calls = << >>)

(* No event is forgotten: as long as the firmware runs, an event is        *)
(* handled in the end, unless a drain fails, in a handler or in            *)
(* GspMsgQueueReceiveStatus(), and none that goes on to the end of the     *)
(* queue, or was started by the interrupt, comes after it.  kgspService()  *)
(* clears the interrupt before it looks, and a poll that finds its         *)
(* response leaves the interrupt for what is queued behind it.             *)
EventsHandled ==
  \A e \in 1 .. MAX_EVENTS :
    raised >= e ~> Len(handled) >= e \/ drainFailed \/ halted

(* "The response eventually comes in as an unexpected event": no RPC takes *)
(* the late response of one that timed out for its own.                    *)
(* TLC refutes this: README, section 4.                                    *)
LateIsUnexpected == last.status = "OK" => last.own
=============================================================================

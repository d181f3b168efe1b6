-------------------------------- MODULE Fifo --------------------------------
(***************************************************************************)
(* What a message queue promises: the messages received are messages sent, *)
(* in the order they were sent, none twice.  A reliable queue skips none.  *)
(***************************************************************************)
EXTENDS Naturals, Sequences

CONSTANT Messages

VARIABLES sent,      \* the messages accepted, oldest first
          received,  \* the messages delivered, oldest first
          next,      \* the position in sent of the next one to deliver
          reliable   \* no message is skipped

vars == <<sent, received, next, reliable>>

Init == sent = << >> /\ received = << >> /\ next = 1 /\ reliable \in BOOLEAN

Send(m) ==
  /\ sent' = Append(sent, m)
  /\ UNCHANGED <<received, next, reliable>>

Receive(k) ==
  /\ next <= k /\ (reliable => k = next)
  /\ received' = Append(received, sent[k])
  /\ next' = k + 1
  /\ UNCHANGED <<sent, reliable>>

Next ==
  \/ \E m \in Messages : Send(m)
  \/ \E k \in 1 .. Len(sent) : Receive(k)

Spec == Init /\ [][Next]_vars
=============================================================================

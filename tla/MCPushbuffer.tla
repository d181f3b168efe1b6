----------------------------- MODULE MCPushbuffer -----------------------------
(* Pushbuffer on a small instance: threads and GPFIFO entries are          *)
(* interchangeable, chunks are not (the bitmaps are searched in order).    *)
EXTENDS Pushbuffer, TLC

Symmetry == Permutations(Pushes) \cup Permutations(Gpfifos)

(* What an entry or a push was last used for is overwritten before it is   *)
(* read again, so two states that differ only in it are the same.          *)
View ==
  <<next_push_start, pending_gpfifos, current_push, available_chunks,
    idle_chunks, concurrent_pushes_sema, inflight, channel_error,
    [g \in inflight |-> gpfifo[g]],
    [p \in Pushes |->
       CASE push[p].pc \in {"spin", "check"} -> <<push[p].pc, push[p].status>>
         [] push[p].pc = "claimed" -> <<push[p].pc, push[p].chunk>>
         [] push[p].pc = "building" -> <<push[p].pc, push[p].begin>>
         [] OTHER -> <<push[p].pc>>]>>
=============================================================================

------------------------------ MODULE Pushbuffer ------------------------------
(***************************************************************************)
(* The UVM pushbuffer (uvm_pushbuffer.c): the allocator of the memory in   *)
(* which the CPU writes the methods of a push and from which the GPU reads *)
(* them.  The memory is divided into chunks; each chunk is "roughly a      *)
(* ringbuffer" of pending pushes, which the GPU may complete in any order  *)
(* because a chunk serves several channels.                                *)
(*                                                                         *)
(* Every action below is one critical section of pushbuffer->lock, or one  *)
(* step of claim_chunk()'s retry loop between two of them.  The software   *)
(* GPFIFO entries are identified by the members of Gpfifos; which of them  *)
(* completes, and when, is left to the environment (module Channel).       *)
(***************************************************************************)
EXTENDS Integers, Sequences, FiniteSets

CONSTANTS
  UVM_PUSHBUFFER_CHUNKS,      \* number of chunks
  UVM_PUSHBUFFER_CHUNK_SIZE,  \* size of a chunk
  UVM_MAX_PUSH_SIZE,          \* space claimed for every new push
  Pushes,                     \* uvm_push_t objects, one per CPU thread
  Gpfifos,                    \* software GPFIFO entries of all the channels
  NULL

ASSUME PushbufferAssumption ==
  /\ UVM_PUSHBUFFER_CHUNKS \in Nat \ {0}
  /\ UVM_MAX_PUSH_SIZE \in Nat \ {0}
  /\ UVM_PUSHBUFFER_CHUNK_SIZE \in Nat
  /\ UVM_MAX_PUSH_SIZE <= UVM_PUSHBUFFER_CHUNK_SIZE
  /\ NULL \notin Pushes

VARIABLES
  next_push_start,         \* chunk -> offset in the chunk of the next push
  pending_gpfifos,         \* chunk -> list of pending GPFIFO entries
  current_push,            \* chunk -> the on-going push in it, or NULL
  available_chunks,        \* bitmap: room for a push of maximal size
  idle_chunks,             \* bitmap: no on-going and no pending push
  concurrent_pushes_sema,  \* counting semaphore
  gpfifo,                  \* GPFIFO entry -> offset and size in the pushbuffer
  inflight,                \* GPFIFO entries submitted and not yet completed
  push,                    \* push -> program counter, locals and begin
  channel_error            \* some channel reported an error

chunkVars == <<next_push_start, current_push, available_chunks, idle_chunks>>
vars == <<next_push_start, pending_gpfifos, current_push, available_chunks,
          idle_chunks, concurrent_pushes_sema, gpfifo, inflight, push,
          channel_error>>

Chunks == 0 .. UVM_PUSHBUFFER_CHUNKS - 1

(* The program points of uvm_pushbuffer_begin_push() and claim_chunk():    *)
(* "first" is the try before the loop, "spin" the loop's condition,        *)
(* "check" its body, "claimed" the code after a successful claim, which no *)
(* longer holds the lock; "building" is between begin_push and end_push.   *)
Holding == {"first", "spin", "check", "claimed", "building"}
PushPC == {"none", "wlc"} \cup Holding
PushState == [pc : PushPC, chunk : Chunks, begin : Nat, status : BOOLEAN]

TypeOK ==
  /\ next_push_start \in [Chunks -> Nat]
  /\ pending_gpfifos \in [Chunks -> Seq(Gpfifos)]
  /\ current_push \in [Chunks -> Pushes \cup {NULL}]
  /\ available_chunks \in SUBSET Chunks
  /\ idle_chunks \in SUBSET Chunks
  /\ concurrent_pushes_sema \in Nat
  /\ gpfifo \in [Gpfifos -> [pushbuffer_offset : Nat, pushbuffer_size : Nat]]
  /\ inflight \in SUBSET Gpfifos
  /\ push \in [Pushes -> PushState]
  /\ channel_error \in BOOLEAN

-----------------------------------------------------------------------------
(* Geometry of a chunk.                                                    *)

chunk_get_offset(c) == c * UVM_PUSHBUFFER_CHUNK_SIZE

offset_to_chunk(offset) == offset \div UVM_PUSHBUFFER_CHUNK_SIZE

gpfifo_to_chunk(g) == offset_to_chunk(gpfifo[g].pushbuffer_offset)

(* The functions below take the list and the entries they read, so that    *)
(* update_chunk() can be applied to the state after list_add or list_del.  *)
chunk_get_cpu_put(c, list, entry) ==
  IF list = << >>
  THEN 0
  ELSE LET last == entry[list[Len(list)]]
       IN  last.pushbuffer_offset + last.pushbuffer_size - chunk_get_offset(c)

chunk_get_gpu_get(c, list, entry) ==
  IF list = << >>
  THEN 0
  ELSE entry[list[1]].pushbuffer_offset - chunk_get_offset(c)

(* The decision of update_chunk(): whether a push of maximal size fits in, *)
(* and where it starts.                                                    *)
FitsBetween(get, put) == get > put /\ get - put >= UVM_MAX_PUSH_SIZE
FitsAtEnd(get, put) ==
  get < put /\ UVM_PUSHBUFFER_CHUNK_SIZE >= put + UVM_MAX_PUSH_SIZE
FitsAtStart(get, put) ==
  get < put /\ ~FitsAtEnd(get, put) /\ get >= UVM_MAX_PUSH_SIZE

update_chunk(c, list, entry) ==
  LET get == chunk_get_gpu_get(c, list, entry)
      put == chunk_get_cpu_put(c, list, entry)
      idle == get = put /\ list = << >>
      fits == \/ FitsBetween(get, put)
              \/ FitsAtEnd(get, put)
              \/ FitsAtStart(get, put)
  IN  /\ idle_chunks' = IF idle THEN idle_chunks \cup {c} ELSE idle_chunks
      /\ available_chunks' = IF idle \/ fits THEN available_chunks \cup {c}
                                             ELSE available_chunks
      /\ next_push_start' =
           [next_push_start EXCEPT ![c] =
              IF idle \/ FitsAtStart(get, put) THEN 0
              ELSE IF fits THEN put ELSE @]

(* find_first_bit() on the idle bitmap, then on the available one.         *)
get_chunk_in_mask(mask) == {c \in mask : \A d \in mask : c <= d}
pick_chunk ==
  IF idle_chunks # {} THEN get_chunk_in_mask(idle_chunks)
                      ELSE get_chunk_in_mask(available_chunks)

-----------------------------------------------------------------------------
Init ==
  /\ next_push_start = [c \in Chunks |-> 0]
  /\ pending_gpfifos = [c \in Chunks |-> << >>]
  /\ current_push = [c \in Chunks |-> NULL]
  /\ available_chunks = Chunks
  /\ idle_chunks = Chunks
  /\ concurrent_pushes_sema = UVM_PUSHBUFFER_CHUNKS
  /\ gpfifo = [g \in Gpfifos |-> [pushbuffer_offset |-> 0, pushbuffer_size |-> 0]]
  /\ inflight = {}
  /\ push = [p \in Pushes |-> [pc |-> "none", chunk |-> 0, begin |-> 0,
                             status |-> TRUE]]
  /\ channel_error = FALSE

(* A push on a WLC channel uses a static buffer of the channel: it takes   *)
(* neither the semaphore nor a chunk.                                      *)
BeginPushWlc(p) ==
  /\ push[p].pc = "none"
  /\ push' = [push EXCEPT ![p].pc = "wlc"]
  /\ UNCHANGED <<chunkVars, pending_gpfifos, concurrent_pushes_sema, gpfifo,
                 inflight, channel_error>>

(* uvm_down(&pushbuffer->concurrent_pushes_sema).                          *)
BeginPush(p) ==
  /\ push[p].pc = "none"
  /\ concurrent_pushes_sema > 0
  /\ concurrent_pushes_sema' = concurrent_pushes_sema - 1
  /\ push' = [push EXCEPT ![p] = [@ EXCEPT !.pc = "first", !.status = TRUE]]
  /\ UNCHANGED <<chunkVars, pending_gpfifos, gpfifo, inflight, channel_error>>

(* Mistake: the claimed chunk stays available.                             *)
try_claim_chunk_StillAvailable(p, c) ==
  /\ c \in pick_chunk
  /\ current_push' = [current_push EXCEPT ![c] = p]
  /\ idle_chunks' = idle_chunks \ {c}
  /\ UNCHANGED <<available_chunks, next_push_start>>

(* try_claim_chunk() on chunk c.                                           *)
try_claim_chunk(p, c) ==
  /\ c \in pick_chunk
  /\ current_push' = [current_push EXCEPT ![c] = p]
  /\ idle_chunks' = idle_chunks \ {c}
  /\ available_chunks' = available_chunks \ {c}
  /\ UNCHANGED next_push_start

(* A successful try, with claim_chunk() returning NV_OK.                   *)
ClaimChunk(p, c) ==
  /\ push[p].pc \in {"first", "spin"}
  /\ push[p].status
  /\ try_claim_chunk(p, c)
  /\ push' = [push EXCEPT ![p] = [@ EXCEPT !.pc = "claimed", !.chunk = c]]
  /\ UNCHANGED <<pending_gpfifos, concurrent_pushes_sema, gpfifo, inflight,
                 channel_error>>

(* begin_push() sets push->begin by chunk_get_next_push_start_addr(),      *)
(* after try_claim_chunk() released the lock.                              *)
SetBegin(p) ==
  LET c == push[p].chunk
  IN  /\ push[p].pc = "claimed"
      /\ push' = [push EXCEPT
                    ![p] = [@ EXCEPT
                      !.pc = "building",
                      !.begin = chunk_get_offset(c) + next_push_start[c]]]
      /\ UNCHANGED <<chunkVars, pending_gpfifos, concurrent_pushes_sema,
                     gpfifo, inflight, channel_error>>

(* The loop's condition tries again after check_errors() failed.  When     *)
(* that try succeeds, claim_chunk() still returns the error: begin_push()  *)
(* ups the semaphore and leaves the chunk claimed.                         *)
ClaimChunkAndFail(p, c) ==
  /\ push[p].pc = "spin"
  /\ ~push[p].status
  /\ try_claim_chunk(p, c)
  /\ concurrent_pushes_sema' = concurrent_pushes_sema + 1
  /\ push' = [push EXCEPT ![p].pc = "none"]
  /\ UNCHANGED <<pending_gpfifos, gpfifo, inflight, channel_error>>

(* An unsuccessful try: go round the loop, or give up on an error.         *)
NoChunk(p) ==
  /\ push[p].pc \in {"first", "spin"}
  /\ pick_chunk = {}
  /\ \/ /\ push[p].status
        /\ push' = [push EXCEPT ![p].pc = IF @ = "first" THEN "spin" ELSE "check"]
        /\ UNCHANGED concurrent_pushes_sema
     \/ /\ ~push[p].status
        /\ push' = [push EXCEPT ![p].pc = "none"]
        /\ concurrent_pushes_sema' = concurrent_pushes_sema + 1
  /\ UNCHANGED <<chunkVars, pending_gpfifos, gpfifo, inflight, channel_error>>

(* The loop's body: status = uvm_channel_manager_check_errors().           *)
CheckErrors(p) ==
  /\ push[p].pc = "check"
  /\ push' = [push EXCEPT
                ![p] = [@ EXCEPT !.pc = "spin", !.status = ~channel_error]]
  /\ UNCHANGED <<chunkVars, pending_gpfifos, concurrent_pushes_sema, gpfifo,
                 inflight, channel_error>>

(* uvm_pushbuffer_end_push() of a push that used size bytes and was given  *)
(* the GPFIFO entry g by uvm_channel_end_push().                           *)
EndPush(p, g, size) ==
  LET entry == [gpfifo EXCEPT ![g] = [pushbuffer_offset |-> push[p].begin,
                                      pushbuffer_size |-> size]]
      c == offset_to_chunk(push[p].begin)
      list == Append(pending_gpfifos[c], g)
  IN  /\ push[p].pc = "building"
      /\ g \notin inflight
      /\ gpfifo' = entry
      /\ inflight' = inflight \cup {g}
      /\ pending_gpfifos' = [pending_gpfifos EXCEPT ![c] = list]
      /\ update_chunk(c, list, entry)
      /\ current_push' = [current_push EXCEPT ![c] = NULL]
      /\ push' = [push EXCEPT ![p].pc = "none"]
      /\ concurrent_pushes_sema' = concurrent_pushes_sema + 1
      /\ UNCHANGED channel_error

(* Mistake: a WLC push ups the semaphore it never took.                    *)
EndPushWlc_Up(p, g, size) ==
  /\ push[p].pc = "wlc"
  /\ g \notin inflight
  /\ gpfifo' = [gpfifo EXCEPT ![g] = [pushbuffer_offset |-> 0,
                                      pushbuffer_size |-> size]]
  /\ inflight' = inflight \cup {g}
  /\ push' = [push EXCEPT ![p].pc = "none"]
  /\ concurrent_pushes_sema' = concurrent_pushes_sema + 1
  /\ UNCHANGED <<chunkVars, pending_gpfifos, channel_error>>

EndPushWlc(p, g, size) ==
  /\ push[p].pc = "wlc"
  /\ g \notin inflight
  /\ gpfifo' = [gpfifo EXCEPT ![g] = [pushbuffer_offset |-> 0,
                                      pushbuffer_size |-> size]]
  /\ inflight' = inflight \cup {g}
  /\ push' = [push EXCEPT ![p].pc = "none"]
  /\ UNCHANGED <<chunkVars, pending_gpfifos, concurrent_pushes_sema,
                 channel_error>>

(* uvm_pushbuffer_mark_completed() of the entry at position i of its       *)
(* chunk's list.                                                           *)
list_del(list, i) ==
  [j \in 1 .. Len(list) - 1 |-> IF j < i THEN list[j] ELSE list[j + 1]]

(* Mistake: the completion of the last entry does not update the chunk.    *)
MarkCompleted_FirstOnly(g, i) ==
  LET c == gpfifo_to_chunk(g)
      list == list_del(pending_gpfifos[c], i)
  IN  /\ pending_gpfifos[c][i] = g
      /\ inflight' = inflight \ {g}
      /\ pending_gpfifos' = [pending_gpfifos EXCEPT ![c] = list]
      /\ IF i = 1 /\ current_push[c] = NULL
         THEN update_chunk(c, list, gpfifo)
         ELSE UNCHANGED <<next_push_start, available_chunks, idle_chunks>>
      /\ UNCHANGED <<current_push, concurrent_pushes_sema, gpfifo, push,
                     channel_error>>

MarkCompleted(g, i) ==
  LET c == gpfifo_to_chunk(g)
      list == list_del(pending_gpfifos[c], i)
      need_to_update_chunk == i = 1 \/ i = Len(pending_gpfifos[c])
  IN  /\ i \in DOMAIN pending_gpfifos[c]
      /\ pending_gpfifos[c][i] = g
      /\ inflight' = inflight \ {g}
      /\ pending_gpfifos' = [pending_gpfifos EXCEPT ![c] = list]
      /\ IF need_to_update_chunk /\ current_push[c] = NULL
         THEN update_chunk(c, list, gpfifo)
         ELSE UNCHANGED <<next_push_start, available_chunks, idle_chunks>>
      /\ UNCHANGED <<current_push, concurrent_pushes_sema, gpfifo, push,
                     channel_error>>

(* The same function for an entry of a WLC channel: it is in no list, so   *)
(* it is neither the first nor the last of one and list_del() is a no-op.  *)
MarkCompletedWlc(g) ==
  /\ g \in inflight
  /\ \A c \in Chunks : \A i \in DOMAIN pending_gpfifos[c] :
       pending_gpfifos[c][i] # g
  /\ inflight' = inflight \ {g}
  /\ UNCHANGED <<chunkVars, pending_gpfifos, concurrent_pushes_sema, gpfifo,
                 push, channel_error>>

(* A channel's error notifier is written by the GPU; it stays set.         *)
ChannelError ==
  /\ ~channel_error
  /\ channel_error' = TRUE
  /\ UNCHANGED <<chunkVars, pending_gpfifos, concurrent_pushes_sema, gpfifo,
                 inflight, push>>

Next ==
  \/ \E p \in Pushes :
       \/ BeginPush(p) \/ BeginPushWlc(p) \/ NoChunk(p) \/ CheckErrors(p)
       \/ SetBegin(p)
       \/ \E c \in Chunks : ClaimChunk(p, c) \/ ClaimChunkAndFail(p, c)
       \/ \E g \in Gpfifos : \E size \in 1 .. UVM_MAX_PUSH_SIZE :
            EndPush(p, g, size) \/ EndPushWlc(p, g, size)
  \/ \E g \in inflight :
       \/ \E i \in 1 .. Len(pending_gpfifos[gpfifo_to_chunk(g)]) :
            MarkCompleted(g, i)
       \/ MarkCompletedWlc(g)
  \/ ChannelError

Spec == Init /\ [][Next]_vars

-----------------------------------------------------------------------------
(* Correctness.                                                            *)

Start(g) == gpfifo[g].pushbuffer_offset
End(g) == Start(g) + gpfifo[g].pushbuffer_size

(* The entries whose methods the GPU may still read in chunk c.            *)
PendingIn(c) == {pending_gpfifos[c][i] : i \in DOMAIN pending_gpfifos[c]}

(* The pushes that own a region of chunk c: BeginPush .. EndPush.          *)
BuildingIn(c) ==
  {p \in Pushes : push[p].pc = "building" /\ offset_to_chunk(push[p].begin) = c}

(* The methods the CPU is writing, and those the GPU may still read, never *)
(* share memory: the UVM_MAX_PUSH_SIZE bytes a push was given by           *)
(* uvm_pushbuffer_begin_push() lie inside one chunk and outside every      *)
(* pending push of it, whatever completed, in whatever order, since.       *)
NoOverwrite ==
  \A c \in Chunks : \A p \in BuildingIn(c) :
    /\ push[p].begin + UVM_MAX_PUSH_SIZE <= chunk_get_offset(c + 1)
    /\ \A g \in PendingIn(c) :
         \/ End(g) <= push[p].begin
         \/ push[p].begin + UVM_MAX_PUSH_SIZE <= Start(g)

(* Two pending pushes of a chunk occupy disjoint memory, each inside the   *)
(* chunk it is listed in, so gpfifo_to_chunk() finds the list it is in.    *)
PendingDisjoint ==
  \A c \in Chunks :
    /\ \A g \in PendingIn(c) :
         chunk_get_offset(c) <= Start(g) /\ End(g) <= chunk_get_offset(c + 1)
    /\ \A g, h \in PendingIn(c) :
         g # h => End(g) <= Start(h) \/ End(h) <= Start(g)

(* A chunk without an on-going push is never lost: if the bitmaps hide it  *)
(* from pick_chunk(), it has a pending push whose completion will call     *)
(* update_chunk() again, and it is idle exactly when nothing is pending.   *)
BitmapsExact ==
  \A c \in Chunks : current_push[c] = NULL =>
    /\ c \in idle_chunks <=> pending_gpfifos[c] = << >>
    /\ c \in available_chunks <=>
         \/ pending_gpfifos[c] = << >>
         \/ LET get == Start(pending_gpfifos[c][1])
                put == End(pending_gpfifos[c][Len(pending_gpfifos[c])])
            IN  IF get >= put
                THEN put + UVM_MAX_PUSH_SIZE <= get
                ELSE \/ put + UVM_MAX_PUSH_SIZE <= chunk_get_offset(c + 1)
                     \/ chunk_get_offset(c) + UVM_MAX_PUSH_SIZE <= get

(* As long as no channel has failed, a push past the semaphore always has  *)
(* a chunk to wait for: one that can be claimed now, or one without        *)
(* on-going push that a completion will free.                              *)
ClaimCanSucceed ==
  (~channel_error /\ \E p \in Pushes : push[p].pc \in {"first", "spin", "check"})
    => \E c \in Chunks :
         current_push[c] = NULL /\ (c \in available_chunks
                                    \/ pending_gpfifos[c] # << >>)

(* "Currently on-going push in the chunk": a push recorded in a chunk is   *)
(* between uvm_push_begin() and uvm_push_end().                            *)
(* TLC refutes this: README, section 4.                                    *)
CurrentPushIsOngoing ==
  \A c \in Chunks : current_push[c] # NULL =>
    LET p == push[current_push[c]]
    IN  \/ p.pc = "claimed" /\ p.chunk = c
        \/ p.pc = "building" /\ offset_to_chunk(p.begin) = c
=============================================================================

--------------------------- MODULE PushbufferProof ---------------------------
(***************************************************************************)
(* Proofs about the pushbuffer for every number of chunks, chunk size,     *)
(* maximal push size, set of pushes and set of GPFIFO entries.             *)
(*                                                                         *)
(* The heart of the argument is RingOrder: the regions of a chunk, in the  *)
(* order of its list, go once around the chunk.  Each region lies after    *)
(* the previous ones, until the list wraps to the chunk's start; from      *)
(* there on every region lies before all the regions that precede the      *)
(* wrap.  Written on pairs and triples of positions, it survives the       *)
(* removal of any element, which is what out-of-order completion does.     *)
(*                                                                         *)
(* The bitmaps rest on it: without its first or last region a list leaves  *)
(* at least the room it left before (SpaceKept).  That a push past the     *)
(* semaphore can claim a chunk is then counting: the semaphore and the     *)
(* pushes past it add up to the chunks (SemaInv), and every claimed chunk  *)
(* has an owner of its own (OwnerInv).                                     *)
(***************************************************************************)
EXTENDS Pushbuffer, SequenceTheorems, FiniteSetTheorems, TLAPS

(* Region i lies in lo[i] .. hi[i] - 1, relative to the chunk's start.     *)
RingOrder(n, lo, hi) ==
  /\ \A i \in 1 .. n :
       0 <= lo[i] /\ lo[i] < hi[i] /\ hi[i] <= UVM_PUSHBUFFER_CHUNK_SIZE
  /\ \A i, j \in 1 .. n : i < j => hi[i] <= lo[j] \/ hi[j] <= lo[i]
  /\ \A i, j, k \in 1 .. n : i < j /\ j < k =>
       /\ hi[j] <= lo[i] => hi[k] <= lo[i] /\ hi[j] <= lo[k]
       /\ hi[k] <= lo[j] => hi[k] <= lo[i] /\ hi[i] <= lo[j]

-----------------------------------------------------------------------------
(* Any region but the last may be removed, and the last one, if it is not  *)
(* the region of the next push: m tells the two cases apart.               *)
LEMMA RingOrderDel ==
  ASSUME NEW n \in Nat, n > 0, NEW k \in 1 .. n,
         NEW lo \in [1 .. n + 1 -> Int], NEW hi \in [1 .. n + 1 -> Int],
         NEW L \in [1 .. n -> Int], NEW H \in [1 .. n -> Int],
         \A i \in 1 .. n : /\ L[i] = IF i < k THEN lo[i] ELSE lo[i + 1]
                           /\ H[i] = IF i < k THEN hi[i] ELSE hi[i + 1]
  PROVE  /\ RingOrder(n, lo, hi) => RingOrder(n - 1, L, H)
         /\ RingOrder(n + 1, lo, hi) => RingOrder(n, L, H)
<1>1. SUFFICES ASSUME NEW m \in {n - 1, n}, RingOrder(m + 1, lo, hi)
               PROVE  RingOrder(m, L, H)
  BY n - 1 + 1 = n
<1> DEFINE at(i) == IF i < k THEN i ELSE i + 1
<1>2. ASSUME NEW i \in 1 .. m
      PROVE  /\ i \in 1 .. n /\ at(i) \in 1 .. m + 1
             /\ L[i] = lo[at(i)] /\ H[i] = hi[at(i)]
             /\ L[i] \in Int /\ H[i] \in Int
  BY SMTT(30)
<1>3. ASSUME NEW i \in 1 .. m, NEW j \in 1 .. m, i < j
      PROVE  at(i) < at(j)
  BY <1>3
<1> HIDE DEF at
<1>4. ASSUME NEW i \in 1 .. m
      PROVE  0 <= L[i] /\ L[i] < H[i] /\ H[i] <= UVM_PUSHBUFFER_CHUNK_SIZE
  BY <1>1, <1>2, Zenon DEF RingOrder
<1>5. ASSUME NEW i \in 1 .. m, NEW j \in 1 .. m, i < j
      PROVE  H[i] <= L[j] \/ H[j] <= L[i]
  <2>1. at(i) < at(j) /\ at(i) \in 1 .. m + 1 /\ at(j) \in 1 .. m + 1
    BY <1>2, <1>3, <1>5, Zenon
  <2>2. hi[at(i)] <= lo[at(j)] \/ hi[at(j)] <= lo[at(i)]
    BY <1>1, <2>1, Zenon DEF RingOrder
  <2>3. QED
    BY <1>2, <2>2, SMTT(30)
<1>6. ASSUME NEW i \in 1 .. m, NEW j \in 1 .. m, NEW l \in 1 .. m, i < j, j < l
      PROVE  /\ H[j] <= L[i] => H[l] <= L[i] /\ H[j] <= L[l]
             /\ H[l] <= L[j] => H[l] <= L[i] /\ H[i] <= L[j]
  <2>1. /\ at(i) < at(j) /\ at(j) < at(l)
        /\ at(i) \in 1 .. m + 1 /\ at(j) \in 1 .. m + 1 /\ at(l) \in 1 .. m + 1
    BY <1>2, <1>3, <1>6, Zenon
  <2>2. /\ hi[at(j)] <= lo[at(i)] =>
             hi[at(l)] <= lo[at(i)] /\ hi[at(j)] <= lo[at(l)]
        /\ hi[at(l)] <= lo[at(j)] =>
             hi[at(l)] <= lo[at(i)] /\ hi[at(i)] <= lo[at(j)]
    BY <1>1, <2>1, Zenon DEF RingOrder
  <2>3. QED
    BY <1>2, <2>2, Zenon
<1>7. QED
  BY <1>4, <1>5, <1>6, Zenon DEF RingOrder

(* The last region may shrink: of the region claimed for a push only a     *)
(* part was used.                                                          *)
LEMMA RingOrderShrink ==
  ASSUME NEW n \in Nat, n > 0, NEW L \in [1 .. n -> Int],
         NEW H \in [1 .. n -> Int], NEW Z \in [1 .. n -> Int],
         \A i \in 1 .. n : i # n => Z[i] = H[i],
         L[n] < Z[n], Z[n] <= H[n],
         RingOrder(n, L, H)
  PROVE  RingOrder(n, L, Z)
<1>0. UVM_PUSHBUFFER_CHUNK_SIZE \in Nat
  BY PushbufferAssumption, Zenon
<1>1. \A i \in 1 .. n :
        0 <= L[i] /\ L[i] < Z[i] /\ Z[i] <= UVM_PUSHBUFFER_CHUNK_SIZE
  BY <1>0, SMTT(30) DEF RingOrder
<1>2. ASSUME NEW i \in 1 .. n, NEW j \in 1 .. n, i < j
      PROVE  Z[i] <= L[j] \/ Z[j] <= L[i]
  <2>1. H[i] <= L[j] \/ H[j] <= L[i]
    BY <1>2, Zenon DEF RingOrder
  <2>2. QED
    BY <1>2, <2>1, SMTT(30)
<1>3. ASSUME NEW i \in 1 .. n, NEW j \in 1 .. n, NEW k \in 1 .. n, i < j, j < k
      PROVE  /\ Z[j] <= L[i] => Z[k] <= L[i] /\ Z[j] <= L[k]
             /\ Z[k] <= L[j] => Z[k] <= L[i] /\ Z[i] <= L[j]
  <2>0. i # n /\ j # n
    BY <1>3
  <2>1. Z[i] = H[i] /\ Z[j] = H[j] /\ Z[k] <= H[k] /\ L[k] < Z[k]
    BY <1>1, <2>0, SMTT(30)
  <2>2. H[j] <= L[i] => H[k] <= L[i] /\ H[j] <= L[k]
    BY <1>3, Zenon DEF RingOrder
  <2>3. H[k] <= L[j] => H[k] <= L[i] /\ H[i] <= L[j]
    BY <1>3, Zenon DEF RingOrder
  <2>4. (H[j] <= L[k] \/ H[k] <= L[j]) /\ L[j] < H[j]
    BY <1>3, Zenon DEF RingOrder
  <2>5. QED
    BY <2>1, <2>2, <2>3, <2>4, SMTT(30)
<1>4. QED
  BY <1>1, <1>2, <1>3, Zenon DEF RingOrder

(* A new last region may be added where update_chunk() puts it, which it   *)
(* decides from the first region (gpu_get) and the last one (cpu_put).     *)
LEMMA RingOrderPlace ==
  ASSUME NEW n \in Nat, n > 0,
         NEW L \in [1 .. n + 1 -> Int], NEW H \in [1 .. n + 1 -> Int],
         RingOrder(n, L, H),
         H[n + 1] = L[n + 1] + UVM_MAX_PUSH_SIZE,
         \/ FitsBetween(L[1], H[n]) /\ L[n + 1] = H[n]
         \/ FitsAtEnd(L[1], H[n]) /\ L[n + 1] = H[n]
         \/ FitsAtStart(L[1], H[n]) /\ L[n + 1] = 0
  PROVE  RingOrder(n + 1, L, H)
<1> DEFINE M == UVM_MAX_PUSH_SIZE
           C == UVM_PUSHBUFFER_CHUNK_SIZE
           x == L[n + 1]
<1>0. M \in Nat /\ M > 0 /\ C \in Nat /\ M <= C
  BY PushbufferAssumption
<1>1. 1 \in 1 .. n /\ n \in 1 .. n /\ n + 1 \in 1 .. n + 1
  OBVIOUS
<1>2. ASSUME NEW i \in 1 .. n
      PROVE  i \in 1 .. n + 1 /\ 0 <= L[i] /\ L[i] < H[i] /\ H[i] <= C
  BY <1>0 DEF RingOrder
<1>3. ASSUME NEW i \in 1 .. n, NEW j \in 1 .. n, i < j
      PROVE  H[i] <= L[j] \/ H[j] <= L[i]
  BY <1>3, Zenon DEF RingOrder
<1>4. ASSUME NEW i \in 1 .. n, NEW j \in 1 .. n, NEW k \in 1 .. n, i < j, j < k
      PROVE  /\ H[j] <= L[i] => H[k] <= L[i] /\ H[j] <= L[k]
             /\ H[k] <= L[j] => H[k] <= L[i] /\ H[i] <= L[j]
  BY <1>4, Zenon DEF RingOrder
<1>5. 0 <= x /\ x + M <= C
  BY <1>0, <1>1, <1>2, SMTT(30) DEF FitsBetween, FitsAtEnd, FitsAtStart
<1>6. SUFFICES
        /\ \A i \in 1 .. n : H[i] <= x \/ x + M <= L[i]
        /\ \A i, j \in 1 .. n : i < j =>
             /\ H[j] <= L[i] => x + M <= L[i] /\ H[j] <= x
             /\ x + M <= L[j] => x + M <= L[i] /\ H[i] <= L[j]
  <2>1. ASSUME NEW i \in 1 .. n + 1
        PROVE  0 <= L[i] /\ L[i] < H[i] /\ H[i] <= C
    BY <1>0, <1>2, <1>5, SMTT(30)
  <2>2. ASSUME NEW i \in 1 .. n + 1, NEW j \in 1 .. n + 1, i < j
        PROVE  H[i] <= L[j] \/ H[j] <= L[i]
    <3>1. CASE j = n + 1
      BY <1>6, <2>2, <3>1, SMTT(30)
    <3>2. CASE j # n + 1
      BY <1>3, <2>2, <3>2, SMTT(30)
    <3>3. QED
      BY <3>1, <3>2, Zenon
  <2>3. ASSUME NEW i \in 1 .. n + 1, NEW j \in 1 .. n + 1, NEW k \in 1 .. n + 1,
               i < j, j < k
        PROVE  /\ H[j] <= L[i] => H[k] <= L[i] /\ H[j] <= L[k]
               /\ H[k] <= L[j] => H[k] <= L[i] /\ H[i] <= L[j]
    <3>1. CASE k = n + 1
      <4>1. i \in 1 .. n /\ j \in 1 .. n
        BY <2>3, <3>1
      <4>2. H[k] = x + M /\ L[k] = x
        BY <3>1, Zenon
      <4>3. /\ H[j] <= L[i] => x + M <= L[i] /\ H[j] <= x
            /\ x + M <= L[j] => x + M <= L[i] /\ H[i] <= L[j]
        BY <1>6, <2>3, <4>1, Zenon
      <4>4. QED
        BY <4>2, <4>3, Zenon
    <3>2. CASE k # n + 1
      <4>1. i \in 1 .. n /\ j \in 1 .. n /\ k \in 1 .. n
        BY <2>3, <3>2
      <4>2. QED
        BY <1>4, <2>3, <4>1, Zenon
    <3>3. QED
      BY <3>1, <3>2, Zenon
  <2>4. QED
    BY <2>1, <2>2, <2>3, Zenon DEF RingOrder
<1>7. CASE FitsBetween(L[1], H[n])
  (* The list has wrapped: a region lies behind the first one, or before   *)
  (* the last one.                                                         *)
  <2>1. x = H[n] /\ H[n] + M <= L[1]
    BY <1>0, <1>1, <1>2, <1>7, SMTT(30) DEF FitsBetween, FitsAtEnd, FitsAtStart
  <2>2. ASSUME NEW i \in 1 .. n
        PROVE  H[i] <= x \/ x + M <= L[i]
    <3>1. CASE i = 1 \/ i = n
      BY <2>1, <3>1
    <3>2. CASE i # 1 /\ i # n
      <4>1. 1 < i /\ i < n
        BY <3>2
      <4>2. /\ H[1] <= L[i] \/ H[i] <= L[1]
            /\ H[i] <= L[1] => H[i] <= L[n]
        BY <1>1, <1>3, <1>4, <4>1, Zenon
      <4>3. QED
        BY <1>0, <1>1, <1>2, <2>1, <4>2, SMTT(30)
    <3>3. QED
      BY <3>1, <3>2, Zenon
  <2>3. ASSUME NEW i \in 1 .. n, NEW j \in 1 .. n, i < j
        PROVE  /\ H[j] <= L[i] => x + M <= L[i] /\ H[j] <= x
               /\ x + M <= L[j] => x + M <= L[i] /\ H[i] <= L[j]
    <3>1. j # n => /\ H[n] <= L[j] \/ H[j] <= L[n]
                   /\ H[j] <= L[i] => H[n] <= L[i] /\ H[j] <= L[n]
                   /\ H[n] <= L[j] => H[n] <= L[i] /\ H[i] <= L[j]
      BY <1>1, <1>3, <1>4, <2>3, SMTT(30)
    <3>2. H[i] <= x \/ x + M <= L[i]
      BY <2>2, Zenon
    <3>3. /\ L[i] < H[i] /\ L[j] < H[j] /\ L[n] < H[n]
          /\ L[i] \in Int /\ L[j] \in Int /\ L[n] \in Int
          /\ H[i] \in Int /\ H[j] \in Int /\ H[n] \in Int
          /\ x = H[n] /\ H[n] + M <= L[1] /\ L[1] \in Int
          /\ i # n
      BY <1>1, <1>2, <2>1, <2>3
    <3>4. H[j] <= x \/ x + M <= L[j]
      BY <2>2, Zenon
    <3> HIDE DEF x, M
    <3>5. CASE j = n
      BY <1>0, <3>2, <3>3, <3>5, SMTT(30)
    <3>6. CASE j # n
      BY <1>0, <3>1, <3>2, <3>3, <3>4, <3>6, SMTT(30)
    <3>7. QED
      BY <3>5, <3>6, Zenon
  <2>4. QED
    BY <2>2, <2>3, Zenon
<1>8. CASE L[1] < H[n]
  (* The list has not wrapped: its regions are in increasing order.        *)
  <2>1. ASSUME NEW i \in 1 .. n
        PROVE  L[1] <= L[i] /\ H[i] <= H[n]
    <3>1. /\ 1 < i => H[1] <= L[i] \/ H[i] <= L[1]
          /\ i < n => H[i] <= L[n] \/ H[n] <= L[i]
          /\ 1 < i /\ i < n => /\ H[i] <= L[1] => H[n] <= L[1]
                               /\ H[n] <= L[i] => H[n] <= L[1]
      BY <1>1, <1>3, <1>4, Zenon
    <3>2. L[i] < H[i] /\ L[n] < H[n] /\ L[1] < H[1]
      BY <1>1, <1>2, Zenon
    <3>3. QED
      BY <1>1, <1>8, <3>1, <3>2
  <2>2. ASSUME NEW i \in 1 .. n, NEW j \in 1 .. n, i < j
        PROVE  H[i] <= L[j]
    <3>1. H[i] <= L[j] \/ H[j] <= L[i]
      BY <1>3, <2>2, Zenon
    <3>2. i # 1 => (H[j] <= L[i] => H[j] <= L[1])
      BY <1>1, <1>4, <2>2
    <3>3. L[1] <= L[j] /\ L[j] < H[j]
      BY <1>2, <2>1, Zenon
    <3>4. QED
      BY <1>1, <3>1, <3>2, <3>3, SMTT(30)
  <2> HIDE DEF x
  <2>3. CASE x = H[n]
    <3>1. \A i \in 1 .. n : H[i] <= x /\ ~(x + M <= L[i])
      BY <1>0, <1>1, <1>2, <2>1, <2>3, SMTT(30)
    <3>2. \A i, j \in 1 .. n : i < j => ~(H[j] <= L[i])
      BY <1>2, <2>2, SMTT(30)
    <3>3. QED
      BY <3>1, <3>2, Zenon
  <2>4. CASE x = 0 /\ M <= L[1]
    <3>1. \A i \in 1 .. n : x + M <= L[i]
      BY <1>0, <1>1, <2>1, <2>4
    <3>2. \A i, j \in 1 .. n : i < j => ~(H[j] <= L[i])
      BY <1>2, <2>2, SMTT(30)
    <3>3. QED
      BY <2>2, <3>1, <3>2, Zenon
  <2>5. QED
    BY <1>0, <1>1, <1>8, <2>3, <2>4, Zenon DEF x, FitsBetween, FitsAtEnd, FitsAtStart
<1>9. QED
  BY <1>7, <1>8, Zenon DEF FitsAtEnd, FitsAtStart

-----------------------------------------------------------------------------
(* Facts about the geometry of the chunks; below them chunk_get_offset and *)
(* offset_to_chunk stay folded.                                            *)
LEMMA ChunkOffset ==
  ASSUME NEW c \in Chunks
  PROVE  /\ chunk_get_offset(c) \in Nat
         /\ chunk_get_offset(c + 1)
              = chunk_get_offset(c) + UVM_PUSHBUFFER_CHUNK_SIZE
BY PushbufferAssumption DEF Chunks, chunk_get_offset

(* offset_to_chunk() finds the chunk an offset lies in.                    *)
LEMMA OffsetToChunk ==
  ASSUME NEW c \in Chunks, NEW x \in Nat, x < UVM_PUSHBUFFER_CHUNK_SIZE
  PROVE  offset_to_chunk(chunk_get_offset(c) + x) = c
<1> DEFINE s == UVM_PUSHBUFFER_CHUNK_SIZE
           q == (c * s + x) \div s
<1>1. c \in Nat /\ s \in Nat /\ s > 0 /\ c * s + x \in Nat
  BY PushbufferAssumption DEF Chunks
<1>2. q \in Nat /\ q * s <= c * s + x /\ c * s + x < q * s + s
  BY <1>1
<1> HIDE DEF q
<1>3. ~(q >= c + 1)
  <2>1. SUFFICES ASSUME q >= c + 1 PROVE FALSE
    BY Zenon
  <2>2. q * s >= (c + 1) * s
    BY <1>1, <1>2, <2>1
  <2>3. (c + 1) * s = c * s + s
    BY <1>1
  <2>4. QED
    BY <1>1, <1>2, <2>2, <2>3
<1>4. ~(c >= q + 1)
  <2>1. SUFFICES ASSUME c >= q + 1 PROVE FALSE
    BY Zenon
  <2>2. c * s >= (q + 1) * s
    BY <1>1, <1>2, <2>1
  <2>3. (q + 1) * s = q * s + s
    BY <1>1, <1>2
  <2>4. QED
    BY <1>1, <1>2, <2>2, <2>3
<1>5. QED
  BY <1>1, <1>2, <1>3, <1>4 DEF offset_to_chunk, chunk_get_offset, q

(* list_del() removes one entry and keeps the order of the others.         *)
LEMMA ListDel ==
  ASSUME NEW list \in Seq(Gpfifos), NEW i \in 1 .. Len(list)
  PROVE  /\ list_del(list, i) \in Seq(Gpfifos)
         /\ Len(list_del(list, i)) = Len(list) - 1
         /\ \A j \in 1 .. Len(list) - 1 :
              list_del(list, i)[j] = IF j < i THEN list[j] ELSE list[j + 1]
<1> DEFINE d == list_del(list, i)
<1>1. Len(list) \in Nat /\ Len(list) - 1 \in Nat
  BY LenProperties
<1>2. d \in [1 .. Len(list) - 1 -> Gpfifos]
  BY <1>1, ElementOfSeq DEF list_del
<1>3. d \in Seq(Gpfifos)
  BY <1>1, <1>2, SeqDef, Zenon
<1>4. DOMAIN d = 1 .. Len(list) - 1
  BY <1>2, Zenon
<1>5. Len(d) = Len(list) - 1
  BY <1>1, <1>3, <1>4, LenProperties
<1>6. QED
  BY <1>3, <1>5, Zenon DEF list_del

-----------------------------------------------------------------------------
(* The regions of a chunk: those of its list, followed by the region of    *)
(* maximal size at x that is, or may be, claimed for the next push.        *)
Entry == [pushbuffer_offset : Nat, pushbuffer_size : Nat]

Low(c, list, entry, x) ==
  [i \in 1 .. Len(list) + 1 |->
     IF i <= Len(list)
     THEN entry[list[i]].pushbuffer_offset - chunk_get_offset(c)
     ELSE x]
High(c, list, entry, x) ==
  [i \in 1 .. Len(list) + 1 |->
     IF i <= Len(list)
     THEN entry[list[i]].pushbuffer_offset + entry[list[i]].pushbuffer_size
            - chunk_get_offset(c)
     ELSE x + UVM_MAX_PUSH_SIZE]

Packed(c, list, entry, x) ==
  RingOrder(Len(list), Low(c, list, entry, x), High(c, list, entry, x))
Room(c, list, entry, x) ==
  RingOrder(Len(list) + 1, Low(c, list, entry, x), High(c, list, entry, x))

(* The regions of a list have integer bounds.                              *)
LEMMA RegionType ==
  ASSUME NEW c \in Chunks, NEW list \in Seq(Gpfifos),
         NEW entry \in [Gpfifos -> Entry], NEW x \in Nat
  PROVE  /\ Len(list) \in Nat
         /\ Low(c, list, entry, x) \in [1 .. Len(list) + 1 -> Int]
         /\ High(c, list, entry, x) \in [1 .. Len(list) + 1 -> Int]
<1>1. Len(list) \in Nat /\ UVM_MAX_PUSH_SIZE \in Nat
  BY LenProperties, PushbufferAssumption, Zenon
<1>2. chunk_get_offset(c) \in Nat
  BY ChunkOffset, Zenon
<1>3. \A i \in 1 .. Len(list) : list[i] \in Gpfifos
  BY ElementOfSeq, Zenon
<1>4. \A g \in Gpfifos : /\ entry[g].pushbuffer_offset \in Nat
                         /\ entry[g].pushbuffer_size \in Nat
  BY Zenon DEF Entry
<1>5. QED
  BY <1>1, <1>2, <1>3, <1>4 DEF Low, High

(* Room for the next push includes that the pending ones are in order.     *)
LEMMA RoomIsPacked ==
  ASSUME NEW c \in Chunks, NEW list \in Seq(Gpfifos),
         NEW entry \in [Gpfifos -> Entry], NEW x \in Nat,
         Room(c, list, entry, x)
  PROVE  Packed(c, list, entry, x)
<1>1. Len(list) \in Nat
  BY RegionType, Zenon
<1>2. \A i \in 1 .. Len(list) : i \in 1 .. Len(list) + 1
  BY <1>1
<1>3. QED
  BY <1>2, Zenon DEF Room, Packed, RingOrder

(* The positions of the list do not depend on where the next push starts,  *)
(* nor on entries that are not in the list.                                *)
LEMMA RegionsSame ==
  ASSUME NEW c \in Chunks, NEW list \in Seq(Gpfifos),
         NEW entry \in [Gpfifos -> Entry], NEW x \in Nat,
         NEW other \in [Gpfifos -> Entry], NEW y \in Nat,
         \A i \in 1 .. Len(list) : other[list[i]] = entry[list[i]]
  PROVE  /\ Packed(c, list, entry, x) => Packed(c, list, other, y)
         /\ x = y /\ Room(c, list, entry, x) => Room(c, list, other, y)
<1> DEFINE n == Len(list)
           lo == Low(c, list, entry, x)
           hi == High(c, list, entry, x)
           L == Low(c, list, other, y)
           H == High(c, list, other, y)
<1>1. /\ n \in Nat
      /\ lo \in [1 .. n + 1 -> Int] /\ hi \in [1 .. n + 1 -> Int]
      /\ L \in [1 .. n + 1 -> Int] /\ H \in [1 .. n + 1 -> Int]
  BY RegionType, Zenon
<1>2. \A i \in 1 .. n : L[i] = lo[i] /\ H[i] = hi[i]
  BY <1>1 DEF Low, High
<1>3. x = y => \A i \in 1 .. n + 1 : L[i] = lo[i] /\ H[i] = hi[i]
  BY <1>1 DEF Low, High
<1> HIDE DEF n, lo, hi, L, H
<1>4. ASSUME RingOrder(n, lo, hi) PROVE RingOrder(n, L, H)
  BY <1>1, <1>2, <1>4, Zenon DEF RingOrder
<1>5. ASSUME x = y, RingOrder(n + 1, lo, hi) PROVE RingOrder(n + 1, L, H)
  BY <1>1, <1>3, <1>5, Zenon DEF RingOrder
<1>6. QED
  BY <1>4, <1>5, Zenon DEF Packed, Room, n, lo, hi, L, H

(* Completion in any order keeps the regions in ring order.                *)
LEMMA RegionsDel ==
  ASSUME NEW c \in Chunks, NEW list \in Seq(Gpfifos),
         NEW entry \in [Gpfifos -> Entry], NEW x \in Nat,
         NEW i \in 1 .. Len(list)
  PROVE  /\ Packed(c, list, entry, x) => Packed(c, list_del(list, i), entry, x)
         /\ Room(c, list, entry, x) => Room(c, list_del(list, i), entry, x)
<1> DEFINE n == Len(list)
           d == list_del(list, i)
           lo == Low(c, list, entry, x)
           hi == High(c, list, entry, x)
           L == Low(c, d, entry, x)
           H == High(c, d, entry, x)
<1>1. /\ n \in Nat /\ n > 0
      /\ lo \in [1 .. n + 1 -> Int] /\ hi \in [1 .. n + 1 -> Int]
  BY RegionType
<1>2. /\ d \in Seq(Gpfifos) /\ Len(d) = n - 1
      /\ \A j \in 1 .. n - 1 : d[j] = IF j < i THEN list[j] ELSE list[j + 1]
  BY ListDel, Zenon
<1>3. L \in [1 .. n -> Int] /\ H \in [1 .. n -> Int]
  <2>1. L \in [1 .. Len(d) + 1 -> Int] /\ H \in [1 .. Len(d) + 1 -> Int]
    BY <1>2, RegionType, Zenon
  <2>2. Len(d) + 1 = n
    BY <1>1, <1>2
  <2>3. QED
    BY <2>1, <2>2, Zenon
<1>4. ASSUME NEW j \in 1 .. n
      PROVE  /\ L[j] = IF j < i THEN lo[j] ELSE lo[j + 1]
             /\ H[j] = IF j < i THEN hi[j] ELSE hi[j + 1]
  <2>1. CASE j = n
    BY <1>1, <1>2, <2>1 DEF Low, High
  <2>2. CASE j # n
    BY <1>1, <1>2, <2>2 DEF Low, High
  <2>3. QED
    BY <2>1, <2>2, Zenon
<1>5. Len(d) = n - 1 /\ Len(d) + 1 = n
  BY <1>1, <1>2
<1> HIDE DEF n, d, lo, hi, L, H
<1>6. /\ RingOrder(n, lo, hi) => RingOrder(n - 1, L, H)
      /\ RingOrder(n + 1, lo, hi) => RingOrder(n, L, H)
  <2>1. i \in 1 .. n
    BY Zenon DEF n
  <2>2. QED
    BY <1>1, <1>3, <1>4, <2>1, RingOrderDel, Zenon
<1>7. QED
  BY <1>5, <1>6, Zenon DEF Packed, Room, n, d, lo, hi, L, H

(* A finished push takes the beginning of the region claimed for it.       *)
LEMMA RegionsAppend ==
  ASSUME NEW c \in Chunks, NEW list \in Seq(Gpfifos),
         NEW entry \in [Gpfifos -> Entry], NEW x \in Nat, NEW y \in Nat,
         NEW g \in Gpfifos, \A i \in 1 .. Len(list) : list[i] # g,
         NEW size \in 1 .. UVM_MAX_PUSH_SIZE,
         NEW other \in [Gpfifos -> Entry],
         other = [entry EXCEPT ![g] =
                    [pushbuffer_offset |-> chunk_get_offset(c) + x,
                     pushbuffer_size |-> size]],
         Room(c, list, entry, x)
  PROVE  Packed(c, Append(list, g), other, y)
<1> DEFINE n == Len(list)
           a == Append(list, g)
           lo == Low(c, list, entry, x)
           hi == High(c, list, entry, x)
           zhi == [hi EXCEPT ![n + 1] = x + size]
           L == Low(c, a, other, y)
           H == High(c, a, other, y)
<1>0. UVM_MAX_PUSH_SIZE \in Nat /\ chunk_get_offset(c) \in Nat /\ size \in Nat
  BY PushbufferAssumption, ChunkOffset
<1>1. /\ n \in Nat
      /\ lo \in [1 .. n + 1 -> Int] /\ hi \in [1 .. n + 1 -> Int]
  BY RegionType, Zenon
<1>2. /\ a \in Seq(Gpfifos) /\ Len(a) = n + 1
      /\ \A i \in 1 .. n : a[i] = list[i]
      /\ a[n + 1] = g
  BY <1>1
<1>3. L \in [1 .. n + 1 + 1 -> Int] /\ H \in [1 .. n + 1 + 1 -> Int]
  BY <1>2, RegionType, Zenon
<1>4. RingOrder(n + 1, lo, zhi)
  <2>1. /\ zhi \in [1 .. n + 1 -> Int]
        /\ zhi[n + 1] = x + size
        /\ \A i \in 1 .. n + 1 : i # n + 1 => zhi[i] = hi[i]
    BY <1>0, <1>1
  <2>2. lo[n + 1] = x /\ hi[n + 1] = x + UVM_MAX_PUSH_SIZE
    BY <1>1 DEF Low, High
  <2>3. lo[n + 1] < zhi[n + 1] /\ zhi[n + 1] <= hi[n + 1]
    BY <1>0, <2>1, <2>2
  <2>4. RingOrder(n + 1, lo, hi)
    BY Zenon DEF Room
  <2>5. n + 1 \in Nat /\ n + 1 > 0
    BY <1>1
  <2> HIDE DEF lo, hi, zhi, n
  <2>6. QED
    BY <1>1, <2>1, <2>3, <2>4, <2>5, RingOrderShrink, Zenon
<1>5. ASSUME NEW i \in 1 .. n + 1
      PROVE  L[i] = lo[i] /\ H[i] = zhi[i]
  <2>1. CASE i = n + 1
    BY <1>0, <1>1, <1>2, <2>1 DEF Low, High
  <2>2. CASE i # n + 1
    <3>1. i \in 1 .. n /\ a[i] = list[i] /\ list[i] # g
      BY <1>1, <1>2, <2>2
    <3>2. list[i] \in Gpfifos
      BY <3>1, ElementOfSeq, Zenon
    <3>3. other[a[i]] = entry[list[i]]
      BY <3>1, <3>2, Zenon
    <3> HIDE DEF a
    <3>4. QED
      BY <1>1, <1>2, <2>2, <3>1, <3>3 DEF Low, High
  <2>3. QED
    BY <2>1, <2>2, Zenon
<1> HIDE DEF n, a, lo, zhi, L, H
<1>6. RingOrder(n + 1, L, H)
  BY <1>1, <1>4, <1>5, Zenon DEF RingOrder
<1>7. QED
  BY <1>2, <1>6, Zenon DEF Packed, a, L, H

-----------------------------------------------------------------------------
(* What update_chunk() leaves behind: either the chunk has room at its     *)
(* next_push_start, or neither that nor the chunk's bits were touched.     *)
LEMMA UpdateChunk ==
  ASSUME next_push_start \in [Chunks -> Nat],
         NEW c \in Chunks, NEW list \in Seq(Gpfifos),
         NEW entry \in [Gpfifos -> Entry],
         Packed(c, list, entry, next_push_start[c]),
         update_chunk(c, list, entry)
  PROVE  /\ next_push_start' \in [Chunks -> Nat]
         /\ \A d \in Chunks : d # c => next_push_start'[d] = next_push_start[d]
         /\ available_chunks' \in {available_chunks, available_chunks \cup {c}}
         /\ \/ idle_chunks' = idle_chunks
            \/ /\ idle_chunks' = idle_chunks \cup {c}
               /\ available_chunks' = available_chunks \cup {c}
         /\ Packed(c, list, entry, next_push_start'[c])
         /\ \/ Room(c, list, entry, next_push_start'[c])
            \/ /\ next_push_start' = next_push_start
               /\ available_chunks' = available_chunks
<1> DEFINE n == Len(list)
           M == UVM_MAX_PUSH_SIZE
           get == chunk_get_gpu_get(c, list, entry)
           put == chunk_get_cpu_put(c, list, entry)
           fits == FitsBetween(get, put) \/ FitsAtEnd(get, put) \/ FitsAtStart(get, put)
           x == IF FitsAtStart(get, put) THEN 0 ELSE put
<1>0. /\ M \in Nat /\ M > 0 /\ UVM_PUSHBUFFER_CHUNK_SIZE \in Nat
      /\ M <= UVM_PUSHBUFFER_CHUNK_SIZE
  BY PushbufferAssumption
<1>1. CASE list = << >>
  <2>1. get = 0 /\ put = 0 /\ n = 0
    BY <1>1, Zenon DEF chunk_get_gpu_get, chunk_get_cpu_put
  <2>2. /\ next_push_start' = [next_push_start EXCEPT ![c] = 0]
        /\ available_chunks' = available_chunks \cup {c}
        /\ idle_chunks' = idle_chunks \cup {c}
    BY <1>1, <2>1, Zenon DEF update_chunk
  <2>3. next_push_start'[c] = 0
    BY <2>2, Zenon
  <2>4. Room(c, list, entry, 0)
    <3>1. Low(c, list, entry, 0)[1] = 0 /\ High(c, list, entry, 0)[1] = M
      BY <1>0, <2>1 DEF Low, High
    <3>2. \A i \in 1 .. n + 1 : i = 1
      BY <2>1
    <3>3. QED
      BY <1>0, <3>1, <3>2 DEF Room, RingOrder
  <2>5. Packed(c, list, entry, 0)
    BY <2>4, RoomIsPacked, Zenon
  <2>6. QED
    BY <2>2, <2>3, <2>4, <2>5, Zenon
<1>2. CASE list # << >> /\ ~fits
  <2>1. /\ next_push_start' = next_push_start
        /\ available_chunks' = available_chunks /\ idle_chunks' = idle_chunks
    BY <1>2, Zenon DEF update_chunk
  <2>2. QED
    BY <2>1, Zenon
<1>3. CASE list # << >> /\ fits
  <2>1. /\ next_push_start' = [next_push_start EXCEPT ![c] = x]
        /\ available_chunks' = available_chunks \cup {c}
        /\ idle_chunks' = idle_chunks
    BY <1>3, Zenon DEF update_chunk
  <2>2. n \in Nat /\ n > 0
    BY <1>3, EmptySeq, LenProperties
  <2>3. get \in Int /\ put \in Int /\ get >= 0 /\ put > 0
    <3> DEFINE lo == Low(c, list, entry, next_push_start[c])
               hi == High(c, list, entry, next_push_start[c])
    <3>1. /\ lo \in [1 .. n + 1 -> Int] /\ hi \in [1 .. n + 1 -> Int]
          /\ 1 \in 1 .. n /\ n \in 1 .. n /\ 1 \in 1 .. n + 1 /\ n \in 1 .. n + 1
      BY <2>2, RegionType
    <3>2. lo[1] = get /\ hi[n] = put
      BY <1>3, <2>2, <3>1 DEF Low, High, chunk_get_gpu_get, chunk_get_cpu_put
    <3>3. 0 <= lo[1] /\ 0 <= lo[n] /\ lo[n] < hi[n]
      BY <3>1, Zenon DEF Packed, RingOrder
    <3> HIDE DEF lo, hi
    <3>4. QED
      BY <3>1, <3>2, <3>3
  <2>4. x \in Nat
    BY <2>3
  <2>5. Room(c, list, entry, x)
    <3> DEFINE lo == Low(c, list, entry, x)
               hi == High(c, list, entry, x)
    <3>1. lo \in [1 .. n + 1 -> Int] /\ hi \in [1 .. n + 1 -> Int]
      BY <2>4, RegionType, Zenon
    <3>2. lo[1] = get /\ hi[n] = put /\ lo[n + 1] = x /\ hi[n + 1] = x + M
      <4>1. /\ 1 \in 1 .. n + 1 /\ n \in 1 .. n + 1 /\ n + 1 \in 1 .. n + 1
            /\ 1 # n + 1 /\ n # n + 1
        BY <2>2
      <4>2. lo[n + 1] = x /\ hi[n + 1] = x + M
        BY <4>1, SMTT(30) DEF Low, High
      <4>3. lo[1] = get
        BY <4>1, SMTT(30) DEF Low, chunk_get_gpu_get
      <4>4. hi[n] = put
        BY <4>1, SMTT(30) DEF High, chunk_get_cpu_put
      <4>5. QED
        BY <4>2, <4>3, <4>4, Zenon
    <3>3. RingOrder(n, lo, hi)
      BY <2>4, RegionsSame, Zenon DEF Packed
    <3>4. \/ FitsBetween(get, put) /\ x = put
          \/ FitsAtEnd(get, put) /\ x = put
          \/ FitsAtStart(get, put) /\ x = 0
      BY <1>3, <2>3, <1>0, Zenon DEF FitsBetween, FitsAtEnd, FitsAtStart
    <3> HIDE DEF lo, hi, n, get, put, x, fits
    <3>5. RingOrder(n + 1, lo, hi)
      BY <2>2, <3>1, <3>2, <3>3, <3>4, RingOrderPlace, Zenon
    <3>6. QED
      BY <3>5, Zenon DEF Room, lo, hi, n
  <2>6. next_push_start'[c] = x
    BY <2>1, Zenon
  <2>7. Packed(c, list, entry, x)
    BY <2>4, <2>5, RoomIsPacked, Zenon
  <2>8. QED
    BY <2>1, <2>4, <2>5, <2>6, <2>7, Zenon
<1>4. QED
  BY <1>1, <1>2, <1>3, Zenon

-----------------------------------------------------------------------------
(* The inductive invariant.                                                *)

HasRoom(c) == c \in available_chunks \/ current_push[c] # NULL

RegionsInv ==
  \A c \in Chunks :
    /\ Packed(c, pending_gpfifos[c], gpfifo, next_push_start[c])
    /\ HasRoom(c) => Room(c, pending_gpfifos[c], gpfifo, next_push_start[c])

ClaimInv ==
  /\ idle_chunks \subseteq available_chunks
  /\ \A c \in available_chunks : current_push[c] = NULL

ListInv ==
  /\ \A c \in Chunks : \A i \in 1 .. Len(pending_gpfifos[c]) :
       pending_gpfifos[c][i] \in inflight
  /\ \A c, d \in Chunks : \A i \in 1 .. Len(pending_gpfifos[c]) :
       \A j \in 1 .. Len(pending_gpfifos[d]) :
         pending_gpfifos[c][i] = pending_gpfifos[d][j] => c = d /\ i = j
  /\ \A g \in inflight : gpfifo_to_chunk(g) \in Chunks

PushInv ==
  \A p \in Pushes :
    LET c == push[p].chunk
    IN  /\ push[p].pc \in {"claimed", "building"} => current_push[c] = p
        /\ push[p].pc = "building" =>
             push[p].begin = chunk_get_offset(c) + next_push_start[c]

IInv == TypeOK /\ RegionsInv /\ ClaimInv /\ ListInv /\ PushInv

(* uvm_pushbuffer_create() establishes the invariant.                      *)
LEMMA InitIInv == Init => IInv
<1> SUFFICES ASSUME Init PROVE IInv
  BY Zenon
<1>0. 0 \in Chunks
  BY PushbufferAssumption DEF Chunks
<1>1. TypeOK
  BY <1>0, PushbufferAssumption, SMTT(30) DEF Init, TypeOK, PushState, PushPC, Holding
<1>2. RegionsInv
  <2> SUFFICES ASSUME NEW c \in Chunks
               PROVE  Room(c, << >>, gpfifo, 0)
    <3>1. gpfifo \in [Gpfifos -> Entry] /\ << >> \in Seq(Gpfifos)
      BY <1>1 DEF TypeOK, Entry
    <3>2. QED
      BY <3>1, RoomIsPacked, Zenon DEF RegionsInv, Init
  <2>1. Len(<< >>) = 0
    BY Zenon
  <2>2. /\ Low(c, << >>, gpfifo, 0)[1] = 0
        /\ High(c, << >>, gpfifo, 0)[1] = UVM_MAX_PUSH_SIZE
    BY <2>1, PushbufferAssumption DEF Low, High
  <2>3. \A i \in 1 .. Len(<< >>) + 1 : i = 1
    BY <2>1
  <2>4. QED
    BY <2>2, <2>3, PushbufferAssumption DEF Room, RingOrder
<1>3. ClaimInv
  BY Zenon DEF Init, ClaimInv
<1>4. ListInv
  BY DEF Init, ListInv
<1>5. PushInv
  BY Zenon DEF Init, PushInv
<1>6. QED
  BY <1>1, <1>2, <1>3, <1>4, <1>5, Zenon DEF IInv

(* The steps of begin_push() that touch no chunk, WLC pushes included, and *)
(* the environment's.                                                      *)
LEMMA NoChunkStep ==
  ASSUME IInv, NEW p \in Pushes,
         \/ BeginPush(p) \/ BeginPushWlc(p) \/ NoChunk(p) \/ CheckErrors(p)
         \/ ChannelError \/ UNCHANGED vars
  PROVE  IInv'
<1> USE DEF IInv
<1>1. UNCHANGED <<chunkVars, pending_gpfifos, gpfifo, inflight>>
  BY Zenon DEF BeginPush, BeginPushWlc, NoChunk, CheckErrors, ChannelError, vars,
         chunkVars
<1>2. TypeOK'
  <2> USE DEF TypeOK, PushState, PushPC, Holding, chunkVars
  <2>1. CASE BeginPush(p)
    <3>1. push[p] \in PushState
      BY Zenon
    <3>2. [push[p] EXCEPT !.pc = "first", !.status = TRUE] \in PushState
      BY <3>1, Zenon
    <3>3. push' \in [Pushes -> PushState]
      BY <2>1, <3>2, Zenon DEF BeginPush
    <3>4. concurrent_pushes_sema' \in Nat /\ channel_error' \in BOOLEAN
      BY <2>1 DEF BeginPush
    <3>5. QED
      BY <1>1, <3>3, <3>4, Zenon
  <2>2. CASE BeginPushWlc(p)
    <3>1. push[p] \in PushState
      BY Zenon
    <3>2. [push[p] EXCEPT !.pc = "wlc"] \in PushState
      BY <3>1, Zenon
    <3>3. push' \in [Pushes -> PushState]
      BY <2>2, <3>2, Zenon DEF BeginPushWlc
    <3>4. concurrent_pushes_sema' \in Nat /\ channel_error' \in BOOLEAN
      BY <2>2, Zenon DEF BeginPushWlc
    <3>5. QED
      BY <1>1, <3>3, <3>4, Zenon
  <2>3. CASE NoChunk(p)
    <3>1. concurrent_pushes_sema' \in Nat
      BY <2>3 DEF NoChunk
    <3>2. push' \in [Pushes -> PushState]
      <4>1. PICK pc \in PushPC : push' = [push EXCEPT ![p].pc = pc]
        BY <2>3, Zenon DEF NoChunk
      <4>2. push[p] \in PushState
        BY Zenon
      <4>3. [push[p] EXCEPT !.pc = pc] \in PushState
        BY <4>2, Zenon
      <4>4. QED
        BY <4>1, <4>3, Zenon
    <3>3. channel_error' \in BOOLEAN
      BY <2>3, Zenon DEF NoChunk
    <3>4. QED
      BY <1>1, <3>1, <3>2, <3>3, Zenon
  <2>4. CASE CheckErrors(p)
    <3>1. push[p] \in PushState
      BY Zenon
    <3>2. ASSUME NEW b \in BOOLEAN
          PROVE  [push[p] EXCEPT !.pc = "spin", !.status = b] \in PushState
      BY <3>1, Zenon
    <3>3. PICK b \in BOOLEAN : b = ~channel_error
      BY Zenon
    <3>4. push' = [push EXCEPT ![p] = [push[p] EXCEPT !.pc = "spin", !.status = b]]
      BY <2>4, <3>3, Zenon DEF CheckErrors
    <3>5. push' \in [Pushes -> PushState]
      BY <3>2, <3>4, Zenon
    <3>6. concurrent_pushes_sema' \in Nat /\ channel_error' \in BOOLEAN
      BY <2>4, Zenon DEF CheckErrors
    <3>7. QED
      BY <1>1, <3>5, <3>6, Zenon
  <2>5. CASE ChannelError \/ UNCHANGED vars
    BY <2>5, Zenon DEF ChannelError, vars
  <2>6. QED
    BY <2>1, <2>2, <2>3, <2>4, <2>5, Zenon
<1>3. RegionsInv'
  BY <1>1, Zenon DEF RegionsInv, HasRoom, chunkVars
<1>4. ClaimInv'
  BY <1>1, Zenon DEF ClaimInv, chunkVars
<1>5. ListInv'
  BY <1>1 DEF ListInv, gpfifo_to_chunk, chunkVars
<1>6. PushInv'
  <2>1. ASSUME NEW q \in Pushes
        PROVE  push'[q] = push[q] \/ push'[q].pc \notin {"claimed", "building"}
    <3> USE DEF TypeOK, PushState
    <3>1. CASE BeginPush(p) \/ BeginPushWlc(p)
      BY <3>1, ZenonT(60) DEF BeginPush, BeginPushWlc
    <3>2. CASE NoChunk(p)
      BY <3>2 DEF NoChunk
    <3>3. CASE CheckErrors(p)
      BY <3>3, Zenon DEF CheckErrors
    <3>4. CASE ChannelError \/ UNCHANGED vars
      BY <3>4, Zenon DEF ChannelError, vars
    <3>5. QED
      BY <3>1, <3>2, <3>3, <3>4, Zenon
  <2>2. QED
    BY <1>1, <2>1, Zenon DEF PushInv, chunkVars
<1>7. QED
  BY <1>2, <1>3, <1>4, <1>5, <1>6, Zenon

(* A step that changes neither lists nor entries keeps each entry in the   *)
(* one list it is in.                                                      *)
LEMMA ListInvSame ==
  ASSUME ListInv, UNCHANGED <<pending_gpfifos, gpfifo, inflight>>
  PROVE  ListInv'
BY DEF ListInv, gpfifo_to_chunk

(* try_claim_chunk(): the claimed chunk keeps the room that made it        *)
(* available, also when claim_chunk() returns an error.                    *)
LEMMA ClaimStep ==
  ASSUME IInv, NEW p \in Pushes, NEW c \in Chunks,
         ClaimChunk(p, c) \/ ClaimChunkAndFail(p, c)
  PROVE  IInv'
<1> USE DEF IInv
<1>1. /\ try_claim_chunk(p, c)
      /\ UNCHANGED <<pending_gpfifos, gpfifo, inflight, channel_error>>
  BY Zenon DEF ClaimChunk, ClaimChunkAndFail
<1>2. c \in available_chunks /\ current_push[c] = NULL
  BY <1>1, Zenon DEF try_claim_chunk, pick_chunk, get_chunk_in_mask, ClaimInv
<1>3. /\ current_push' = [current_push EXCEPT ![c] = p]
      /\ idle_chunks' = idle_chunks \ {c}
      /\ available_chunks' = available_chunks \ {c}
      /\ next_push_start' = next_push_start
  BY <1>1, Zenon DEF try_claim_chunk
<1>4. TypeOK'
  <2> USE DEF TypeOK, PushState, PushPC, Holding
  <2>1. concurrent_pushes_sema' \in Nat
    BY DEF ClaimChunk, ClaimChunkAndFail
  <2>2. push' \in [Pushes -> PushState]
    <3>1. push[p] \in PushState
      BY Zenon
    <3>2. /\ [push[p] EXCEPT !.pc = "claimed", !.chunk = c] \in PushState
          /\ [push[p] EXCEPT !.pc = "none"] \in PushState
      BY <3>1, Zenon
    <3>3. QED
      BY <3>2, Zenon DEF ClaimChunk, ClaimChunkAndFail
  <2>3. current_push' \in [Chunks -> Pushes \cup {NULL}]
    BY <1>3, Zenon
  <2>4. QED
    BY <1>1, <1>3, <2>1, <2>2, <2>3, SMTT(30)
<1>5. RegionsInv'
  BY <1>1, <1>2, <1>3, Zenon DEF TypeOK, RegionsInv, HasRoom
<1>6. ClaimInv'
  BY <1>2, <1>3, Zenon DEF TypeOK, ClaimInv
<1>7. ListInv'
  BY <1>1, ListInvSame, Zenon
<1>8. PushInv'
  <2> SUFFICES ASSUME NEW q \in Pushes
               PROVE  /\ push'[q].pc \in {"claimed", "building"} =>
                           current_push'[push'[q].chunk] = q
                      /\ push'[q].pc = "building" =>
                           push'[q].begin = chunk_get_offset(push'[q].chunk)
                                              + next_push_start'[push'[q].chunk]
    BY Zenon DEF PushInv
  <2>1. CASE q = p
    BY <1>3, <2>1, ZenonT(60) DEF TypeOK, PushState, ClaimChunk, ClaimChunkAndFail
  <2>2. CASE q # p
    <3>1. push'[q] = push[q]
      BY <2>2, Zenon DEF TypeOK, PushState, ClaimChunk, ClaimChunkAndFail
    <3>2. q # NULL /\ push[q].chunk \in Chunks
      BY PushbufferAssumption, Zenon DEF TypeOK, PushState
    <3>3. push[q].pc \in {"claimed", "building"} => push[q].chunk # c
      BY <1>2, <3>2, Zenon DEF PushInv
    <3>4. QED
      BY <1>3, <3>1, <3>2, <3>3, Zenon DEF TypeOK, PushState, PushInv
  <2>3. QED
    BY <2>1, <2>2, Zenon
<1>9. QED
  BY <1>4, <1>5, <1>6, <1>7, <1>8, Zenon

(* uvm_pushbuffer_begin_push() takes the start of the push from its chunk, *)
(* without the lock.                                                       *)
LEMMA SetBeginStep ==
  ASSUME IInv, NEW p \in Pushes, SetBegin(p)
  PROVE  IInv'
<1> USE DEF IInv
<1>1. UNCHANGED <<chunkVars, pending_gpfifos, gpfifo, inflight>>
  BY Zenon DEF SetBegin
<1>2. TypeOK'
  <2>1. push[p].chunk \in Chunks /\ next_push_start[push[p].chunk] \in Nat
    BY Zenon DEF TypeOK, PushState
  <2>2. chunk_get_offset(push[p].chunk) + next_push_start[push[p].chunk] \in Nat
    BY <2>1, ChunkOffset
  <2>3. QED
    BY <1>1, <2>2, ZenonT(60) DEF TypeOK, PushState, PushPC, Holding, SetBegin, chunkVars
<1>3. RegionsInv'
  BY <1>1, Zenon DEF RegionsInv, HasRoom, chunkVars
<1>4. ClaimInv'
  BY <1>1, Zenon DEF ClaimInv, chunkVars
<1>5. ListInv'
  BY <1>1 DEF ListInv, gpfifo_to_chunk, chunkVars
<1>6. PushInv'
  BY <1>1 DEF TypeOK, PushState, PushInv, SetBegin, chunkVars
<1>7. QED
  BY <1>2, <1>3, <1>4, <1>5, <1>6, Zenon

(* The chunk of a push under construction: uvm_pushbuffer_end_push() finds *)
(* it from the offset of the push, and it has the room claimed.            *)
LEMMA BuildingChunk ==
  ASSUME IInv, NEW p \in Pushes, push[p].pc = "building"
  PROVE  LET c == push[p].chunk IN
         /\ c \in Chunks
         /\ current_push[c] = p /\ current_push[c] # NULL
         /\ next_push_start[c] \in Nat
         /\ push[p].begin = chunk_get_offset(c) + next_push_start[c]
         /\ next_push_start[c] + UVM_MAX_PUSH_SIZE <= UVM_PUSHBUFFER_CHUNK_SIZE
         /\ offset_to_chunk(push[p].begin) = c
         /\ Room(c, pending_gpfifos[c], gpfifo, next_push_start[c])
<1> DEFINE c == push[p].chunk
           x == next_push_start[c]
           list == pending_gpfifos[c]
<1>1. c \in Chunks /\ x \in Nat /\ list \in Seq(Gpfifos)
  BY Zenon DEF IInv, TypeOK, PushState
<1>2. gpfifo \in [Gpfifos -> Entry]
  BY Zenon DEF IInv, TypeOK, Entry
<1>3. current_push[c] = p /\ p # NULL /\ push[p].begin = chunk_get_offset(c) + x
  BY PushbufferAssumption, Zenon DEF IInv, PushInv
<1>4. Room(c, list, gpfifo, x)
  BY <1>1, <1>3, Zenon DEF IInv, RegionsInv, HasRoom
<1>5. x + UVM_MAX_PUSH_SIZE <= UVM_PUSHBUFFER_CHUNK_SIZE
  <2> DEFINE n == Len(list)
             hi == High(c, list, gpfifo, x)
  <2> HIDE DEF c, x, list
  <2>1. n \in Nat /\ n + 1 \in 1 .. n + 1 /\ ~(n + 1 <= n)
    BY <1>1, LenProperties
  <2>2. hi[n + 1] = x + UVM_MAX_PUSH_SIZE
    BY <2>1, Zenon DEF High
  <2>3. hi[n + 1] <= UVM_PUSHBUFFER_CHUNK_SIZE
    BY <1>4, <2>1, Zenon DEF Room, RingOrder
  <2>4. QED
    BY <2>2, <2>3, Zenon
<1>6. x < UVM_PUSHBUFFER_CHUNK_SIZE
  BY <1>1, <1>5, PushbufferAssumption
<1>7. offset_to_chunk(chunk_get_offset(c) + x) = c
  BY <1>1, <1>6, OffsetToChunk, Zenon
<1>8. QED
  BY <1>1, <1>3, <1>4, <1>5, <1>7, Zenon

(* An entry that is not in flight is in no list, so that changing it moves *)
(* no pending region.                                                      *)
LEMMA OtherRegions ==
  ASSUME IInv, NEW g \in Gpfifos, g \notin inflight, NEW r \in Entry,
         NEW other, other = [gpfifo EXCEPT ![g] = r],
         NEW d \in Chunks
  PROVE  /\ other \in [Gpfifos -> Entry]
         /\ \A i \in 1 .. Len(pending_gpfifos[d]) :
              /\ pending_gpfifos[d][i] # g
              /\ other[pending_gpfifos[d][i]] = gpfifo[pending_gpfifos[d][i]]
         /\ Packed(d, pending_gpfifos[d], other, next_push_start[d])
         /\ HasRoom(d) => Room(d, pending_gpfifos[d], other, next_push_start[d])
<1>1. gpfifo \in [Gpfifos -> Entry] /\ other \in [Gpfifos -> Entry]
  BY Zenon DEF IInv, TypeOK, Entry
<1>2. pending_gpfifos[d] \in Seq(Gpfifos) /\ next_push_start[d] \in Nat
  BY Zenon DEF IInv, TypeOK
<1>3. ASSUME NEW i \in 1 .. Len(pending_gpfifos[d])
      PROVE  /\ pending_gpfifos[d][i] # g
             /\ other[pending_gpfifos[d][i]] = gpfifo[pending_gpfifos[d][i]]
  <2>1. pending_gpfifos[d][i] \in inflight /\ pending_gpfifos[d][i] \in Gpfifos
    BY <1>2, ElementOfSeq, Zenon DEF IInv, ListInv
  <2>2. QED
    BY <1>1, <2>1, Zenon
<1>4. QED
  BY <1>1, <1>2, <1>3, RegionsSame, Zenon DEF IInv, RegionsInv

(* uvm_pushbuffer_end_push().                                              *)
LEMMA EndPushStep ==
  ASSUME IInv, NEW p \in Pushes, NEW g \in Gpfifos,
         NEW size \in 1 .. UVM_MAX_PUSH_SIZE, EndPush(p, g, size)
  PROVE  IInv'
<1> DEFINE c == push[p].chunk
           x == next_push_start[c]
           r == [pushbuffer_offset |-> push[p].begin, pushbuffer_size |-> size]
           entry == [gpfifo EXCEPT ![g] = r]
           list == Append(pending_gpfifos[c], g)
<1>1. /\ c \in Chunks /\ x \in Nat
      /\ current_push[c] = p /\ current_push[c] # NULL
      /\ push[p].begin = chunk_get_offset(c) + x
      /\ offset_to_chunk(push[p].begin) = c
      /\ Room(c, pending_gpfifos[c], gpfifo, x)
  BY BuildingChunk, Zenon DEF EndPush
<1>2. /\ push[p].pc = "building" /\ g \notin inflight
      /\ gpfifo' = entry
      /\ inflight' = inflight \cup {g}
      /\ pending_gpfifos' = [pending_gpfifos EXCEPT ![c] = list]
      /\ update_chunk(c, list, entry)
      /\ current_push' = [current_push EXCEPT ![c] = NULL]
      /\ push' = [push EXCEPT ![p].pc = "none"]
      /\ concurrent_pushes_sema' = concurrent_pushes_sema + 1
      /\ channel_error' = channel_error
  BY <1>1, Zenon DEF EndPush
<1>3. r \in Entry
  BY PushbufferAssumption DEF IInv, TypeOK, PushState, Entry
<1>4. /\ pending_gpfifos[c] \in Seq(Gpfifos) /\ list \in Seq(Gpfifos)
      /\ Len(list) = Len(pending_gpfifos[c]) + 1
      /\ Len(pending_gpfifos[c]) \in Nat
      /\ list[Len(list)] = g
      /\ \A i \in 1 .. Len(pending_gpfifos[c]) : list[i] = pending_gpfifos[c][i]
  BY <1>1 DEF IInv, TypeOK
<1>5. entry \in [Gpfifos -> Entry]
  BY <1>1, <1>2, <1>3, OtherRegions, Zenon
<1>6. Packed(c, list, entry, x)
  <2>1. gpfifo \in [Gpfifos -> Entry]
    BY Zenon DEF IInv, TypeOK, Entry
  <2>2. \A i \in 1 .. Len(pending_gpfifos[c]) : pending_gpfifos[c][i] # g
    BY <1>1, <1>2, <1>3, OtherRegions, SMTT(30)
  <2>3. entry = [gpfifo EXCEPT ![g] =
                   [pushbuffer_offset |-> chunk_get_offset(c) + x,
                    pushbuffer_size |-> size]]
    BY <1>1, Zenon
  <2> HIDE DEF entry, c, x
  <2>4. QED
    BY <1>1, <1>4, <1>5, <2>1, <2>2, <2>3, RegionsAppend, Zenon
<1> HIDE DEF entry, list, c, x, r
<1>7. /\ next_push_start' \in [Chunks -> Nat]
      /\ \A d \in Chunks : d # c => next_push_start'[d] = next_push_start[d]
      /\ available_chunks' \in {available_chunks, available_chunks \cup {c}}
      /\ \/ idle_chunks' = idle_chunks
         \/ /\ idle_chunks' = idle_chunks \cup {c}
            /\ available_chunks' = available_chunks \cup {c}
      /\ Packed(c, list, entry, next_push_start'[c])
      /\ \/ Room(c, list, entry, next_push_start'[c])
         \/ /\ next_push_start' = next_push_start
            /\ available_chunks' = available_chunks
  <2>1. next_push_start \in [Chunks -> Nat] /\ x = next_push_start[c]
    BY Zenon DEF IInv, TypeOK, x
  <2>2. QED
    BY <1>1, <1>2, <1>4, <1>5, <1>6, <2>1, UpdateChunk, Zenon
<1>8. TypeOK'
  <2> USE DEF IInv, TypeOK
  <2>1. push' \in [Pushes -> PushState]
    BY <1>2, ZenonT(60) DEF PushState, PushPC
  <2>2. pending_gpfifos' \in [Chunks -> Seq(Gpfifos)]
    BY <1>1, <1>2, <1>4, Zenon
  <2>3. current_push' \in [Chunks -> Pushes \cup {NULL}]
    BY <1>1, <1>2, Zenon
  <2>4. available_chunks' \in SUBSET Chunks /\ idle_chunks' \in SUBSET Chunks
    BY <1>1, <1>7, Zenon
  <2>5. concurrent_pushes_sema' \in Nat
    BY <1>2
  <2>6. gpfifo' \in [Gpfifos -> [pushbuffer_offset : Nat, pushbuffer_size : Nat]]
    BY <1>2, <1>5, Zenon DEF Entry
  <2>7. QED
    BY <1>2, <1>7, <2>1, <2>2, <2>3, <2>4, <2>5, <2>6, Zenon
<1>9. RegionsInv'
  <2> SUFFICES ASSUME NEW d \in Chunks
               PROVE  /\ Packed(d, pending_gpfifos'[d], entry, next_push_start'[d])
                      /\ HasRoom(d)' =>
                           Room(d, pending_gpfifos'[d], entry, next_push_start'[d])
    BY <1>2, Zenon DEF RegionsInv
  <2>1. CASE d = c
    <3>1. pending_gpfifos'[c] = list /\ current_push'[c] = NULL
      BY <1>1, <1>2, Zenon DEF IInv, TypeOK
    <3>2. c \notin available_chunks
      BY <1>1, Zenon DEF IInv, ClaimInv
    <3>3. QED
      BY <1>7, <2>1, <3>1, <3>2, Zenon DEF HasRoom
  <2>2. CASE d # c
    <3>1. /\ pending_gpfifos'[d] = pending_gpfifos[d]
          /\ current_push'[d] = current_push[d]
          /\ next_push_start'[d] = next_push_start[d]
      BY <1>1, <1>2, <1>7, <2>2, Zenon DEF IInv, TypeOK
    <3>2. d \in available_chunks' => d \in available_chunks
      BY <1>7, <2>2, Zenon
    <3>3. /\ Packed(d, pending_gpfifos[d], entry, next_push_start[d])
          /\ HasRoom(d) => Room(d, pending_gpfifos[d], entry, next_push_start[d])
      BY <1>2, <1>3, OtherRegions, Zenon DEF entry
    <3>4. QED
      BY <3>1, <3>2, <3>3, Zenon DEF HasRoom
  <2>3. QED
    BY <2>1, <2>2, Zenon
<1>10. ClaimInv'
  BY <1>1, <1>2, <1>7, Zenon DEF IInv, TypeOK, ClaimInv
<1>11. ListInv'
  <2>1. /\ pending_gpfifos'[c] = list
        /\ \A d \in Chunks : d # c => pending_gpfifos'[d] = pending_gpfifos[d]
    BY <1>1, <1>2, Zenon DEF IInv, TypeOK
  <2>2. ASSUME NEW d \in Chunks, NEW i \in 1 .. Len(pending_gpfifos'[d])
        PROVE  \/ /\ i \in 1 .. Len(pending_gpfifos[d])
                  /\ pending_gpfifos'[d][i] = pending_gpfifos[d][i]
                  /\ pending_gpfifos[d][i] \in inflight
               \/ /\ d = c /\ i = Len(pending_gpfifos[c]) + 1
                  /\ pending_gpfifos'[d][i] = g
    BY <1>4, <2>1, SMTT(30) DEF IInv, ListInv
  <2>3. ASSUME NEW d \in Chunks, NEW i \in 1 .. Len(pending_gpfifos'[d])
        PROVE  pending_gpfifos'[d][i] \in inflight'
    BY <1>2, <2>2
  <2>4. ASSUME NEW d \in Chunks, NEW i \in 1 .. Len(pending_gpfifos'[d]),
               NEW e \in Chunks, NEW j \in 1 .. Len(pending_gpfifos'[e]),
               pending_gpfifos'[d][i] = pending_gpfifos'[e][j]
        PROVE  d = e /\ i = j
    <3>1. g \notin inflight
      BY <1>2, Zenon
    <3>2. CASE pending_gpfifos'[d][i] = g
      <4>1. d = c /\ i = Len(pending_gpfifos[c]) + 1
        BY <2>2, <3>1, <3>2, Zenon
      <4>2. e = c /\ j = Len(pending_gpfifos[c]) + 1
        BY <2>2, <2>4, <3>1, <3>2, Zenon
      <4>3. QED
        BY <4>1, <4>2, Zenon
    <3>3. CASE pending_gpfifos'[d][i] # g
      <4>1. /\ i \in 1 .. Len(pending_gpfifos[d])
            /\ pending_gpfifos'[d][i] = pending_gpfifos[d][i]
        BY <2>2, <3>3, Zenon
      <4>2. /\ j \in 1 .. Len(pending_gpfifos[e])
            /\ pending_gpfifos'[e][j] = pending_gpfifos[e][j]
        BY <2>2, <2>4, <3>3, Zenon
      <4>3. pending_gpfifos[d][i] = pending_gpfifos[e][j]
        BY <2>4, <4>1, <4>2, Zenon
      <4>4. QED
        BY <4>1, <4>2, <4>3 DEF IInv, ListInv
    <3>4. QED
      BY <3>2, <3>3, Zenon
  <2>5. ASSUME NEW h \in inflight'
        PROVE  gpfifo_to_chunk(h)' \in Chunks
    <3>1. CASE h = g
      <4>1. gpfifo'[g].pushbuffer_offset = push[p].begin
        BY <1>2, Zenon DEF IInv, TypeOK, entry, r
      <4>2. QED
        BY <1>1, <3>1, <4>1, Zenon DEF gpfifo_to_chunk
    <3>2. CASE h # g
      <4>1. h \in inflight /\ gpfifo'[h] = gpfifo[h]
        BY <1>2, <3>2, Zenon DEF IInv, TypeOK, entry
      <4>2. QED
        BY <4>1, Zenon DEF IInv, ListInv, gpfifo_to_chunk
    <3>3. QED
      BY <3>1, <3>2, Zenon
  <2>6. QED
    BY <2>3, <2>4, <2>5, Zenon DEF ListInv
<1>12. PushInv'
  <2> SUFFICES ASSUME NEW q \in Pushes,
                      push'[q].pc \in {"claimed", "building"}
               PROVE  /\ current_push'[push'[q].chunk] = q
                      /\ push'[q].pc = "building" =>
                           push'[q].begin = chunk_get_offset(push'[q].chunk)
                                              + next_push_start'[push'[q].chunk]
    BY Zenon DEF PushInv
  <2>1. q # p /\ push'[q] = push[q]
    BY <1>2, Zenon DEF IInv, TypeOK, PushState
  <2>2. push[q].chunk \in Chunks /\ current_push[push[q].chunk] = q
    BY <2>1, Zenon DEF IInv, TypeOK, PushState, PushInv
  <2>3. push[q].chunk # c
    BY <1>1, <2>1, <2>2, Zenon
  <2>4. QED
    BY <1>2, <1>7, <2>1, <2>2, <2>3, Zenon DEF IInv, TypeOK, PushInv
<1>13. QED
  BY <1>8, <1>9, <1>10, <1>11, <1>12, Zenon DEF IInv

(* uvm_pushbuffer_end_push() of a WLC push touches no chunk.               *)
LEMMA EndPushWlcStep ==
  ASSUME IInv, NEW p \in Pushes, NEW g \in Gpfifos,
         NEW size \in 1 .. UVM_MAX_PUSH_SIZE, EndPushWlc(p, g, size)
  PROVE  IInv'
<1> DEFINE r == [pushbuffer_offset |-> 0, pushbuffer_size |-> size]
           entry == [gpfifo EXCEPT ![g] = r]
<1>1. r \in Entry
  BY PushbufferAssumption DEF Entry
<1>2. /\ push[p].pc = "wlc" /\ g \notin inflight
      /\ gpfifo' = entry
      /\ inflight' = inflight \cup {g}
      /\ push' = [push EXCEPT ![p].pc = "none"]
      /\ UNCHANGED <<chunkVars, pending_gpfifos, concurrent_pushes_sema,
                     channel_error>>
  BY Zenon DEF EndPushWlc
<1>3. 0 \in Chunks
  BY PushbufferAssumption DEF Chunks
<1>4. TypeOK'
  <2> USE DEF IInv, TypeOK
  <2>1. push' \in [Pushes -> PushState]
    BY <1>2, ZenonT(60) DEF PushState, PushPC
  <2>2. gpfifo' \in [Gpfifos -> Entry]
    BY <1>1, <1>2, <1>3, OtherRegions, Zenon
  <2>3. QED
    BY <1>2, <2>1, <2>2, Zenon DEF chunkVars, Entry
<1>5. RegionsInv'
  <2> HIDE DEF entry, r
  <2>1. ASSUME NEW d \in Chunks
        PROVE  /\ Packed(d, pending_gpfifos[d], entry, next_push_start[d])
               /\ HasRoom(d) => Room(d, pending_gpfifos[d], entry, next_push_start[d])
    BY <1>1, <1>2, OtherRegions, Zenon DEF entry
  <2>2. QED
    BY <1>2, <2>1, Zenon DEF RegionsInv, HasRoom, chunkVars
<1>6. ClaimInv'
  BY <1>2, Zenon DEF IInv, ClaimInv, chunkVars
<1>7. ListInv'
  <2>1. ASSUME NEW h \in inflight'
        PROVE  gpfifo_to_chunk(h)' \in Chunks
    <3>1. CASE h = g
      <4>1. gpfifo'[g].pushbuffer_offset = 0
        BY <1>2, Zenon DEF IInv, TypeOK
      <4>2. chunk_get_offset(0) + 0 = 0
        BY PushbufferAssumption DEF chunk_get_offset
      <4>3. offset_to_chunk(chunk_get_offset(0) + 0) = 0
        BY <1>3, OffsetToChunk, PushbufferAssumption
      <4>4. offset_to_chunk(0) = 0
        BY <4>2, <4>3, Zenon
      <4>5. QED
        BY <1>3, <3>1, <4>1, <4>4, Zenon DEF gpfifo_to_chunk
    <3>2. CASE h # g
      <4>1. h \in inflight /\ gpfifo'[h] = gpfifo[h]
        BY <1>2, <3>2, Zenon DEF IInv, TypeOK
      <4>2. QED
        BY <4>1, Zenon DEF IInv, ListInv, gpfifo_to_chunk
    <3>3. QED
      BY <3>1, <3>2, Zenon
  <2>2. QED
    BY <1>2, <2>1 DEF IInv, ListInv
<1>8. PushInv'
  <2>1. ASSUME NEW q \in Pushes
        PROVE  push'[q] = push[q] \/ push'[q].pc = "none"
    BY <1>2, Zenon DEF IInv, TypeOK, PushState
  <2>2. QED
    BY <1>2, <2>1, Zenon DEF IInv, PushInv, chunkVars
<1>9. QED
  BY <1>4, <1>5, <1>6, <1>7, <1>8, Zenon DEF IInv

(* uvm_pushbuffer_mark_completed(), in whatever order the GPU completes.   *)
LEMMA MarkCompletedStep ==
  ASSUME IInv, NEW g \in inflight,
         NEW i \in 1 .. Len(pending_gpfifos[gpfifo_to_chunk(g)]),
         MarkCompleted(g, i)
  PROVE  IInv'
<1> DEFINE c == gpfifo_to_chunk(g)
           old == pending_gpfifos[c]
           list == list_del(old, i)
           x == next_push_start[c]
<1>1. c \in Chunks /\ x \in Nat /\ old \in Seq(Gpfifos) /\ g \in Gpfifos
  BY Zenon DEF IInv, TypeOK, ListInv
<1>2. /\ old[i] = g
      /\ inflight' = inflight \ {g}
      /\ pending_gpfifos' = [pending_gpfifos EXCEPT ![c] = list]
      /\ \/ current_push[c] = NULL /\ update_chunk(c, list, gpfifo)
         \/ UNCHANGED <<next_push_start, available_chunks, idle_chunks>>
      /\ UNCHANGED <<current_push, concurrent_pushes_sema, gpfifo, push,
                     channel_error>>
  BY Zenon DEF MarkCompleted
<1>3. /\ list \in Seq(Gpfifos) /\ Len(list) = Len(old) - 1
      /\ \A j \in 1 .. Len(old) - 1 :
           list[j] = IF j < i THEN old[j] ELSE old[j + 1]
      /\ Len(old) \in Nat /\ i \in 1 .. Len(old)
  BY <1>1, ListDel, LenProperties, Zenon
<1>4. gpfifo \in [Gpfifos -> Entry]
  BY Zenon DEF IInv, TypeOK, Entry
<1>5. /\ Packed(c, list, gpfifo, x)
      /\ HasRoom(c) => Room(c, list, gpfifo, x)
  BY <1>1, <1>4, RegionsDel, Zenon DEF IInv, RegionsInv
<1> HIDE DEF c, old, list, x
<1>6. /\ next_push_start' \in [Chunks -> Nat]
      /\ \A d \in Chunks : d # c => next_push_start'[d] = next_push_start[d]
      /\ current_push[c] # NULL => next_push_start'[c] = next_push_start[c]
      /\ \/ available_chunks' = available_chunks
         \/ /\ available_chunks' = available_chunks \cup {c}
            /\ current_push[c] = NULL
      /\ \/ idle_chunks' = idle_chunks
         \/ /\ idle_chunks' = idle_chunks \cup {c}
            /\ available_chunks' = available_chunks \cup {c}
      /\ Packed(c, list, gpfifo, next_push_start'[c])
      /\ \/ Room(c, list, gpfifo, next_push_start'[c])
         \/ /\ next_push_start' = next_push_start
            /\ available_chunks' = available_chunks
  <2>1. next_push_start \in [Chunks -> Nat] /\ x = next_push_start[c]
    BY Zenon DEF IInv, TypeOK, x
  <2>2. CASE current_push[c] = NULL /\ update_chunk(c, list, gpfifo)
    <3>1. Packed(c, list, gpfifo, next_push_start[c])
      BY <1>5, <2>1, Zenon
    <3>2. QED
      BY <1>1, <1>3, <1>4, <2>1, <2>2, <3>1, UpdateChunk, Zenon
  <2>3. CASE UNCHANGED <<next_push_start, available_chunks, idle_chunks>>
    BY <1>5, <2>1, <2>3, Zenon
  <2>4. QED
    BY <1>2, <2>2, <2>3, Zenon
<1>7. TypeOK'
  <2> USE DEF IInv, TypeOK
  <2>1. pending_gpfifos' \in [Chunks -> Seq(Gpfifos)]
    BY <1>1, <1>2, <1>3, Zenon
  <2>2. available_chunks' \in SUBSET Chunks /\ idle_chunks' \in SUBSET Chunks
    BY <1>1, <1>6, SMTT(30)
  <2>3. QED
    BY <1>2, <1>6, <2>1, <2>2, Zenon
<1>8. /\ pending_gpfifos'[c] = list
      /\ \A d \in Chunks : d # c => pending_gpfifos'[d] = pending_gpfifos[d]
  BY <1>1, <1>2, Zenon DEF IInv, TypeOK
<1>9. RegionsInv'
  <2> SUFFICES ASSUME NEW d \in Chunks
               PROVE  /\ Packed(d, pending_gpfifos'[d], gpfifo, next_push_start'[d])
                      /\ HasRoom(d)' =>
                           Room(d, pending_gpfifos'[d], gpfifo, next_push_start'[d])
    BY <1>2, Zenon DEF RegionsInv
  <2>1. CASE d = c
    <3>1. CASE Room(d, list, gpfifo, next_push_start'[d])
      BY <1>6, <1>8, <2>1, <3>1, Zenon
    <3>2. CASE /\ next_push_start' = next_push_start
               /\ available_chunks' = available_chunks
      <4>1. HasRoom(d)' => HasRoom(d)
        BY <1>2, <3>2, Zenon DEF HasRoom
      <4>2. HasRoom(d) => Room(d, list, gpfifo, next_push_start'[d])
        BY <1>5, <2>1, <3>2, Zenon DEF x
      <4>3. QED
        BY <1>6, <1>8, <2>1, <4>1, <4>2, Zenon
    <3>3. QED
      BY <1>6, <2>1, <3>1, <3>2, Zenon
  <2>2. CASE d # c
    <3>1. HasRoom(d)' => HasRoom(d)
      BY <1>2, <1>6, <2>2, Zenon DEF HasRoom
    <3>2. QED
      BY <1>6, <1>8, <2>2, <3>1, Zenon DEF IInv, RegionsInv
  <2>3. QED
    BY <2>1, <2>2, Zenon
<1>10. ClaimInv'
  BY <1>1, <1>2, <1>6, Zenon DEF IInv, ClaimInv
<1>11. ListInv'
  <2> DEFINE at(d, j) == IF d = c /\ j >= i THEN j + 1 ELSE j
  <2>1. ASSUME NEW d \in Chunks, NEW j \in 1 .. Len(pending_gpfifos'[d])
        PROVE  /\ at(d, j) \in 1 .. Len(pending_gpfifos[d])
               /\ pending_gpfifos'[d][j] = pending_gpfifos[d][at(d, j)]
               /\ d = c => at(d, j) # i
    <3>1. CASE d = c
      BY <1>3, <1>8, <3>1, SMTT(30) DEF old
    <3>2. CASE d # c
      BY <1>8, <3>2, Zenon
    <3>3. QED
      BY <3>1, <3>2, Zenon
  <2>2. ASSUME NEW d \in Chunks, NEW j \in 1 .. Len(pending_gpfifos'[d]),
               NEW k \in 1 .. Len(pending_gpfifos'[d]), at(d, j) = at(d, k)
        PROVE  j = k
    BY <1>3, <2>2
  <2> HIDE DEF at
  <2>3. ASSUME NEW d \in Chunks, NEW j \in 1 .. Len(pending_gpfifos'[d])
        PROVE  pending_gpfifos'[d][j] \in inflight'
    <3>1. pending_gpfifos[d][at(d, j)] \in inflight
      BY <2>1, Zenon DEF IInv, ListInv
    <3>2. pending_gpfifos[d][at(d, j)] # g
      <4>1. SUFFICES ASSUME pending_gpfifos[d][at(d, j)] = pending_gpfifos[c][i]
                     PROVE  FALSE
        BY <1>2, Zenon DEF old
      <4>2. d = c /\ at(d, j) = i
        BY <1>1, <1>3, <2>1, <4>1 DEF IInv, ListInv, old
      <4>3. QED
        BY <2>1, <4>2, Zenon
    <3>3. QED
      BY <1>2, <2>1, <3>1, <3>2
  <2>4. ASSUME NEW d \in Chunks, NEW j \in 1 .. Len(pending_gpfifos'[d]),
               NEW e \in Chunks, NEW k \in 1 .. Len(pending_gpfifos'[e]),
               pending_gpfifos'[d][j] = pending_gpfifos'[e][k]
        PROVE  d = e /\ j = k
    <3>1. /\ at(d, j) \in 1 .. Len(pending_gpfifos[d])
          /\ at(e, k) \in 1 .. Len(pending_gpfifos[e])
          /\ pending_gpfifos[d][at(d, j)] = pending_gpfifos[e][at(e, k)]
      BY <2>1, <2>4, Zenon
    <3>2. d = e /\ at(d, j) = at(e, k)
      BY <3>1, Zenon DEF IInv, ListInv
    <3>3. QED
      BY <2>2, <3>2, Zenon
  <2>5. ASSUME NEW h \in inflight'
        PROVE  gpfifo_to_chunk(h)' \in Chunks
    BY <1>2, <2>5, Zenon DEF IInv, ListInv, gpfifo_to_chunk
  <2>6. QED
    BY <2>3, <2>4, <2>5, Zenon DEF ListInv
<1>12. PushInv'
  <2>1. ASSUME NEW q \in Pushes, push[q].pc \in {"claimed", "building"}
        PROVE  next_push_start'[push[q].chunk] = next_push_start[push[q].chunk]
    <3>1. push[q].chunk \in Chunks /\ current_push[push[q].chunk] # NULL
      BY <2>1, PushbufferAssumption, Zenon DEF IInv, TypeOK, PushState, PushInv
    <3>2. QED
      BY <1>6, <3>1, Zenon
  <2>2. QED
    BY <1>2, <2>1, Zenon DEF IInv, PushInv
<1>13. QED
  BY <1>7, <1>9, <1>10, <1>11, <1>12, Zenon DEF IInv

(* uvm_pushbuffer_mark_completed() of a WLC push touches no chunk.         *)
LEMMA MarkCompletedWlcStep ==
  ASSUME IInv, NEW g \in inflight, MarkCompletedWlc(g)
  PROVE  IInv'
<1> USE DEF IInv
<1>1. /\ inflight' = inflight \ {g}
      /\ UNCHANGED <<chunkVars, pending_gpfifos, concurrent_pushes_sema, gpfifo,
                     push, channel_error>>
  BY Zenon DEF MarkCompletedWlc
<1>2. TypeOK'
  BY <1>1, Zenon DEF TypeOK, chunkVars
<1>3. RegionsInv'
  BY <1>1, Zenon DEF RegionsInv, HasRoom, chunkVars
<1>4. ClaimInv'
  BY <1>1, Zenon DEF ClaimInv, chunkVars
<1>5. ListInv'
  <2>1. ASSUME NEW c \in Chunks, NEW i \in 1 .. Len(pending_gpfifos[c])
        PROVE  pending_gpfifos[c][i] # g
    <3>1. DOMAIN pending_gpfifos[c] = 1 .. Len(pending_gpfifos[c])
      BY LenProperties, Zenon DEF TypeOK
    <3>2. QED
      BY <3>1, Zenon DEF MarkCompletedWlc
  <2>2. QED
    BY <1>1, <2>1 DEF ListInv, gpfifo_to_chunk
<1>6. PushInv'
  BY <1>1, Zenon DEF PushInv, chunkVars
<1>7. QED
  BY <1>2, <1>3, <1>4, <1>5, <1>6, Zenon

(* Every step of the pushbuffer preserves the invariant.                   *)
LEMMA NextIInv == IInv /\ [Next]_vars => IInv'
<1> SUFFICES ASSUME IInv, [Next]_vars PROVE IInv'
  BY Zenon
<1>1. ASSUME NEW p \in Pushes,
             BeginPush(p) \/ BeginPushWlc(p) \/ NoChunk(p) \/ CheckErrors(p)
      PROVE  IInv'
  BY <1>1, NoChunkStep, Zenon
<1>2. ASSUME NEW p \in Pushes, SetBegin(p) PROVE IInv'
  BY <1>2, SetBeginStep, Zenon
<1>3. ASSUME NEW p \in Pushes, NEW c \in Chunks,
             ClaimChunk(p, c) \/ ClaimChunkAndFail(p, c)
      PROVE  IInv'
  BY <1>3, ClaimStep, Zenon
<1>4. ASSUME NEW p \in Pushes, NEW g \in Gpfifos,
             NEW size \in 1 .. UVM_MAX_PUSH_SIZE,
             EndPush(p, g, size) \/ EndPushWlc(p, g, size)
      PROVE  IInv'
  BY <1>4, EndPushStep, EndPushWlcStep, Zenon
<1>5. ASSUME NEW g \in inflight,
             NEW i \in 1 .. Len(pending_gpfifos[gpfifo_to_chunk(g)]),
             MarkCompleted(g, i)
      PROVE  IInv'
  BY <1>5, MarkCompletedStep, Zenon
<1>6. ASSUME NEW g \in inflight, MarkCompletedWlc(g) PROVE IInv'
  BY <1>6, MarkCompletedWlcStep, Zenon
<1>7. CASE ChannelError \/ UNCHANGED vars
  <2> USE DEF IInv
  <2>1. TypeOK' /\ ClaimInv'
    BY <1>7, Zenon DEF TypeOK, ClaimInv, ChannelError, vars, chunkVars
  <2>2. RegionsInv'
    BY <1>7, Zenon DEF RegionsInv, HasRoom, ChannelError, vars, chunkVars
  <2>3. ListInv'
    BY <1>7, ZenonT(60) DEF ListInv, gpfifo_to_chunk, ChannelError, vars, chunkVars
  <2>4. PushInv'
    BY <1>7, Zenon DEF PushInv, ChannelError, vars, chunkVars
  <2>5. QED
    BY <2>1, <2>2, <2>3, <2>4, Zenon
<1>8. QED
  BY <1>1, <1>2, <1>3, <1>4, <1>5, <1>6, <1>7, Zenon DEF Next

(* The inductive invariant of the pushbuffer: the regions of every chunk   *)
(* are in ring order, and a chunk that is available or claimed has room    *)
(* for a push at next_push_start.                                          *)
THEOREM Invariance == Spec => []IInv
BY InitIInv, NextIInv, PTL DEF Spec

-----------------------------------------------------------------------------
(* Every state of the pushbuffer has its type: the offsets stay natural    *)
(* numbers (update_chunk() never lets one underflow) and the bitmaps name  *)
(* chunks only.                                                            *)
THEOREM TypeCorrect == Spec => []TypeOK
BY Invariance, PTL DEF IInv

(* Regions of the list in terms of Start and End.                          *)
LEMMA ListRegions ==
  ASSUME IInv, NEW c \in Chunks
  PROVE  LET list == pending_gpfifos[c]
             n == Len(list)
             lo == Low(c, list, gpfifo, next_push_start[c])
             hi == High(c, list, gpfifo, next_push_start[c])
         IN  /\ n \in Nat
             /\ RingOrder(n, lo, hi)
             /\ HasRoom(c) => RingOrder(n + 1, lo, hi)
             /\ \A i \in 1 .. n : /\ Start(list[i]) \in Nat /\ End(list[i]) \in Nat
                                  /\ lo[i] = Start(list[i]) - chunk_get_offset(c)
                                  /\ hi[i] = End(list[i]) - chunk_get_offset(c)
             /\ lo[n + 1] = next_push_start[c]
             /\ hi[n + 1] = next_push_start[c] + UVM_MAX_PUSH_SIZE
             /\ \A g \in PendingIn(c) : \E i \in 1 .. n : g = list[i]
<1> DEFINE list == pending_gpfifos[c]
           n == Len(list)
           lo == Low(c, list, gpfifo, next_push_start[c])
           hi == High(c, list, gpfifo, next_push_start[c])
<1>1. /\ list \in Seq(Gpfifos) /\ next_push_start[c] \in Nat
      /\ gpfifo \in [Gpfifos -> Entry]
  BY Zenon DEF IInv, TypeOK, Entry
<1>2. /\ n \in Nat /\ DOMAIN list = 1 .. n
      /\ \A i \in 1 .. n : list[i] \in Gpfifos
  BY <1>1, LenProperties, ElementOfSeq, Zenon
<1>3. /\ chunk_get_offset(c) \in Nat /\ n + 1 \in 1 .. n + 1 /\ ~(n + 1 <= n)
      /\ \A i \in 1 .. n : i \in 1 .. n + 1 /\ i <= n
  BY <1>2, ChunkOffset
<1>4. RingOrder(n, lo, hi) /\ (HasRoom(c) => RingOrder(n + 1, lo, hi))
  BY Zenon DEF IInv, RegionsInv, Packed, Room
<1>5. \A g \in PendingIn(c) : \E i \in 1 .. n : g = list[i]
  BY <1>2, Zenon DEF PendingIn
<1> HIDE DEF list
<1>6. lo[n + 1] = next_push_start[c] /\ hi[n + 1] = next_push_start[c] + UVM_MAX_PUSH_SIZE
  BY <1>3, Zenon DEF Low, High
<1>7. ASSUME NEW i \in 1 .. n
      PROVE  /\ Start(list[i]) \in Nat /\ End(list[i]) \in Nat
             /\ lo[i] = Start(list[i]) - chunk_get_offset(c)
             /\ hi[i] = End(list[i]) - chunk_get_offset(c)
  <2>1. /\ gpfifo[list[i]].pushbuffer_offset \in Nat
        /\ gpfifo[list[i]].pushbuffer_size \in Nat
    BY <1>1, <1>2, Zenon DEF Entry
  <2>2. Start(list[i]) \in Nat /\ End(list[i]) \in Nat
    BY <2>1 DEF Start, End
  <2>3. lo[i] = Start(list[i]) - chunk_get_offset(c)
    BY <1>3, Zenon DEF Low, Start
  <2>4. hi[i] = End(list[i]) - chunk_get_offset(c)
    <3>1. hi[i] = gpfifo[list[i]].pushbuffer_offset
                    + gpfifo[list[i]].pushbuffer_size - chunk_get_offset(c)
      BY <1>3, Zenon DEF High
    <3>2. End(list[i]) = gpfifo[list[i]].pushbuffer_offset
                           + gpfifo[list[i]].pushbuffer_size
      BY Zenon DEF End, Start
    <3> HIDE DEF hi
    <3>3. QED
      BY <1>3, <2>1, <3>1, <3>2
  <2>5. QED
    BY <2>2, <2>3, <2>4, Zenon
<1>8. QED
  BY <1>2, <1>4, <1>5, <1>6, <1>7, Zenon DEF list

(* Regions in ring order are disjoint.                                     *)
LEMMA IInvPendingDisjoint == IInv => PendingDisjoint
<1> SUFFICES ASSUME IInv, NEW c \in Chunks
             PROVE  /\ \A g \in PendingIn(c) :
                         /\ chunk_get_offset(c) <= Start(g)
                         /\ End(g) <= chunk_get_offset(c + 1)
                    /\ \A g, h \in PendingIn(c) :
                         g # h => End(g) <= Start(h) \/ End(h) <= Start(g)
  BY Zenon DEF PendingDisjoint
<1> DEFINE list == pending_gpfifos[c]
           n == Len(list)
           lo == Low(c, list, gpfifo, next_push_start[c])
           hi == High(c, list, gpfifo, next_push_start[c])
<1>1. /\ n \in Nat
      /\ RingOrder(n, lo, hi)
      /\ \A g \in PendingIn(c) : \E i \in 1 .. n : g = list[i]
  BY ListRegions, Zenon
<1>2. ASSUME NEW i \in 1 .. n
      PROVE  /\ Start(list[i]) \in Nat /\ End(list[i]) \in Nat
             /\ lo[i] = Start(list[i]) - chunk_get_offset(c)
             /\ hi[i] = End(list[i]) - chunk_get_offset(c)
  BY ListRegions, Zenon
<1>3. /\ chunk_get_offset(c) \in Nat /\ UVM_PUSHBUFFER_CHUNK_SIZE \in Nat
      /\ chunk_get_offset(c + 1) = chunk_get_offset(c) + UVM_PUSHBUFFER_CHUNK_SIZE
  BY ChunkOffset, PushbufferAssumption, Zenon
<1> HIDE DEF list, n, lo, hi
<1>4. ASSUME NEW g \in PendingIn(c)
      PROVE  chunk_get_offset(c) <= Start(g) /\ End(g) <= chunk_get_offset(c + 1)
  <2>1. PICK i \in 1 .. n : g = list[i]
    BY <1>1, Zenon
  <2>2. 0 <= lo[i] /\ hi[i] <= UVM_PUSHBUFFER_CHUNK_SIZE
    BY <1>1, Zenon DEF RingOrder
  <2>3. QED
    BY <1>2, <1>3, <2>1, <2>2
<1>5. ASSUME NEW g \in PendingIn(c), NEW h \in PendingIn(c), g # h
      PROVE  End(g) <= Start(h) \/ End(h) <= Start(g)
  <2>1. PICK i \in 1 .. n : g = list[i]
    BY <1>1, Zenon
  <2>2. PICK j \in 1 .. n : h = list[j]
    BY <1>1, Zenon
  <2>3. i < j \/ j < i
    BY <1>1, <1>5, <2>1, <2>2
  <2>4. hi[i] <= lo[j] \/ hi[j] <= lo[i]
    BY <1>1, <2>3, Zenon DEF RingOrder
  <2>5. QED
    BY <1>2, <1>3, <2>1, <2>2, <2>4
<1>6. QED
  BY <1>4, <1>5, Zenon

(* Two disjoint regions of a chunk are disjoint in the pushbuffer.          *)
LEMMA Apart ==
  ASSUME NEW o \in Int, NEW x \in Int, NEW m \in Int,
         NEW start \in Int, NEW end \in Int,
         end - o <= x \/ x + m <= start - o
  PROVE  end <= o + x \/ (o + x) + m <= start
OBVIOUS

(* The room claimed for a push meets no pending region.                    *)
LEMMA IInvNoOverwrite == IInv => NoOverwrite
<1> SUFFICES ASSUME IInv, NEW c \in Chunks, NEW p \in BuildingIn(c)
             PROVE  /\ push[p].begin + UVM_MAX_PUSH_SIZE <= chunk_get_offset(c + 1)
                    /\ \A g \in PendingIn(c) :
                         \/ End(g) <= push[p].begin
                         \/ push[p].begin + UVM_MAX_PUSH_SIZE <= Start(g)
  BY Zenon DEF NoOverwrite
<1> DEFINE list == pending_gpfifos[c]
           n == Len(list)
           x == next_push_start[c]
           lo == Low(c, list, gpfifo, next_push_start[c])
           hi == High(c, list, gpfifo, next_push_start[c])
<1>1. /\ p \in Pushes /\ push[p].chunk = c /\ current_push[c] # NULL
      /\ x \in Nat /\ push[p].begin = chunk_get_offset(c) + x
      /\ x + UVM_MAX_PUSH_SIZE <= UVM_PUSHBUFFER_CHUNK_SIZE
  BY BuildingChunk DEF BuildingIn
<1>2. HasRoom(c)
  BY <1>1, Zenon DEF HasRoom
<1>3. /\ n \in Nat
      /\ RingOrder(n + 1, lo, hi)
      /\ \A g \in PendingIn(c) : \E i \in 1 .. n : g = list[i]
      /\ lo[n + 1] = x /\ hi[n + 1] = x + UVM_MAX_PUSH_SIZE
  BY <1>2, ListRegions, Zenon
<1>4. ASSUME NEW i \in 1 .. n
      PROVE  /\ Start(list[i]) \in Nat /\ End(list[i]) \in Nat
             /\ lo[i] = Start(list[i]) - chunk_get_offset(c)
             /\ hi[i] = End(list[i]) - chunk_get_offset(c)
  BY ListRegions, Zenon
<1>5. /\ chunk_get_offset(c) \in Nat /\ UVM_MAX_PUSH_SIZE \in Nat
      /\ UVM_PUSHBUFFER_CHUNK_SIZE \in Nat
      /\ chunk_get_offset(c + 1) = chunk_get_offset(c) + UVM_PUSHBUFFER_CHUNK_SIZE
  BY ChunkOffset, PushbufferAssumption, Zenon
<1> HIDE DEF list, n, lo, hi, x
<1>6. ASSUME NEW g \in PendingIn(c)
      PROVE  \/ End(g) <= push[p].begin
             \/ push[p].begin + UVM_MAX_PUSH_SIZE <= Start(g)
  <2>1. PICK i \in 1 .. n : g = list[i]
    BY <1>3, Zenon
  <2>2. i \in 1 .. n + 1 /\ n + 1 \in 1 .. n + 1 /\ i < n + 1
    BY <1>3
  <2>3. hi[i] <= lo[n + 1] \/ hi[n + 1] <= lo[i]
    BY <1>3, <2>2, Zenon DEF RingOrder
  <2>4. /\ Start(g) \in Nat /\ End(g) \in Nat
        /\ lo[i] = Start(g) - chunk_get_offset(c)
        /\ hi[i] = End(g) - chunk_get_offset(c)
    BY <1>4, <2>1, Zenon
  <2>5. \/ End(g) - chunk_get_offset(c) <= x
        \/ x + UVM_MAX_PUSH_SIZE <= Start(g) - chunk_get_offset(c)
    BY <1>3, <2>3, <2>4, Zenon
  <2>6. \/ End(g) <= chunk_get_offset(c) + x
        \/ (chunk_get_offset(c) + x) + UVM_MAX_PUSH_SIZE <= Start(g)
    BY <1>1, <1>5, <2>4, <2>5, Apart
  <2>7. QED
    BY <1>1, <2>6, Zenon
<1>7. QED
  BY <1>1, <1>5, <1>6, SMTT(30)

(* Two pending pushes never share memory, for any number and size of       *)
(* chunks, and each stays inside its chunk, whatever order the GPU         *)
(* completes them in.                                                      *)
THEOREM PendingDisjointCorrect == Spec => []PendingDisjoint
BY Invariance, IInvPendingDisjoint, PTL

(* The region uvm_pushbuffer_begin_push() hands out never overlaps methods *)
(* the GPU has yet to read, until the push ends.                           *)
THEOREM NoOverwriteCorrect == Spec => []NoOverwrite
BY Invariance, IInvNoOverwrite, PTL

-----------------------------------------------------------------------------
(* The bitmaps.                                                            *)

(* update_chunk() finds room from the first and the last pending region.   *)
HasSpace(get, put) ==
  FitsBetween(get, put) \/ FitsAtEnd(get, put) \/ FitsAtStart(get, put)
FitsIn(c, list, entry) ==
  HasSpace(chunk_get_gpu_get(c, list, entry), chunk_get_cpu_put(c, list, entry))

(* Completing a push never takes away the room that update_chunk() found:  *)
(* the pending regions are in ring order, so that without the first or the *)
(* last of them the free part between the last and the first only grows.   *)
LEMMA SpaceKept ==
  ASSUME NEW n \in Nat, n > 1, NEW k \in 1 .. n,
         NEW lo \in [1 .. n + 1 -> Int], NEW hi \in [1 .. n + 1 -> Int],
         RingOrder(n, lo, hi), HasSpace(lo[1], hi[n])
  PROVE  HasSpace(IF k = 1 THEN lo[2] ELSE lo[1],
                  IF k = n THEN hi[n - 1] ELSE hi[n])
<1> DEFINE C == UVM_PUSHBUFFER_CHUNK_SIZE
           M == UVM_MAX_PUSH_SIZE
           m == n - 1
<1>0. C \in Nat /\ M \in Nat /\ M > 0
  BY PushbufferAssumption
<1>1. /\ 1 \in 1 .. n /\ 2 \in 1 .. n /\ m \in 1 .. n /\ n \in 1 .. n
      /\ 1 < 2 /\ 1 < n /\ m < n
      /\ 2 = n \/ 2 < n
      /\ 1 = m \/ 1 < m
  OBVIOUS
<1>a. 2 = n => m = 1
  OBVIOUS
<1> HIDE DEF m
<1>2. /\ lo[1] \in Int /\ lo[2] \in Int /\ lo[m] \in Int /\ lo[n] \in Int
      /\ hi[1] \in Int /\ hi[2] \in Int /\ hi[m] \in Int /\ hi[n] \in Int
  BY <1>1
<1>3. /\ 0 <= lo[1] /\ lo[1] < hi[1] /\ hi[1] <= C
      /\ 0 <= lo[2] /\ lo[2] < hi[2] /\ hi[2] <= C
      /\ 0 <= lo[m] /\ lo[m] < hi[m] /\ hi[m] <= C
      /\ 0 <= lo[n] /\ lo[n] < hi[n] /\ hi[n] <= C
  BY <1>1, Zenon DEF RingOrder
<1>4. CASE k = 1
  <2>1. hi[1] <= lo[2] \/ hi[2] <= lo[1]
    BY <1>1, Zenon DEF RingOrder
  <2>2. \/ 2 = n
        \/ /\ hi[2] <= lo[1] => hi[n] <= lo[1] /\ hi[2] <= lo[n]
           /\ hi[n] <= lo[2] => hi[n] <= lo[1] /\ hi[1] <= lo[2]
    BY <1>1, Zenon DEF RingOrder
  <2>3. HasSpace(lo[2], hi[n])
    BY <1>0, <1>2, <1>3, <2>1, <2>2, SMTT(30)
      DEF HasSpace, FitsBetween, FitsAtEnd, FitsAtStart
  <2>4. k # n
    BY <1>1, <1>4
  <2>5. QED
    BY <1>4, <2>3, <2>4, Zenon
<1>5. CASE k = n
  <2>1. hi[m] <= lo[n] \/ hi[n] <= lo[m]
    BY <1>1, Zenon DEF RingOrder
  <2>2. \/ 1 = m
        \/ /\ hi[m] <= lo[1] => hi[n] <= lo[1] /\ hi[m] <= lo[n]
           /\ hi[n] <= lo[m] => hi[n] <= lo[1] /\ hi[1] <= lo[m]
    BY <1>1, Zenon DEF RingOrder
  <2>3. HasSpace(lo[1], hi[m])
    BY <1>0, <1>2, <1>3, <2>1, <2>2, SMTT(30)
      DEF HasSpace, FitsBetween, FitsAtEnd, FitsAtStart
  <2>4. k # 1
    BY <1>1, <1>5
  <2>5. QED
    BY <1>5, <2>3, <2>4, Zenon DEF m
<1>6. CASE k # 1 /\ k # n
  BY <1>6, Zenon
<1>7. QED
  BY <1>4, <1>5, <1>6, Zenon

(* The ends of a list, from which update_chunk() decides, are those of its *)
(* first and its last region.                                              *)
LEMMA ListEnds ==
  ASSUME NEW c \in Chunks, NEW list \in Seq(Gpfifos), list # << >>,
         NEW entry \in [Gpfifos -> Entry], NEW x \in Nat
  PROVE  /\ Len(list) \in Nat /\ Len(list) > 0
         /\ chunk_get_gpu_get(c, list, entry) = Low(c, list, entry, x)[1]
         /\ chunk_get_cpu_put(c, list, entry) = High(c, list, entry, x)[Len(list)]
<1> DEFINE n == Len(list)
<1>1. n \in Nat /\ n > 0
  BY EmptySeq, LenProperties
<1>2. 1 \in 1 .. n + 1 /\ n \in 1 .. n + 1 /\ 1 <= n /\ n <= n
  BY <1>1
<1>3. Low(c, list, entry, x)[1] = entry[list[1]].pushbuffer_offset - chunk_get_offset(c)
  BY <1>2, Zenon DEF Low
<1>4. High(c, list, entry, x)[n] = entry[list[n]].pushbuffer_offset
        + entry[list[n]].pushbuffer_size - chunk_get_offset(c)
  BY <1>2, Zenon DEF High
<1>5. QED
  BY <1>1, <1>3, <1>4, Zenon DEF chunk_get_gpu_get, chunk_get_cpu_put

(* What the completion of one pending push does to the room of a chunk.    *)
LEMMA FitsDel ==
  ASSUME NEW c \in Chunks, NEW list \in Seq(Gpfifos),
         NEW entry \in [Gpfifos -> Entry], NEW x \in Nat,
         NEW i \in 1 .. Len(list), Packed(c, list, entry, x),
         list_del(list, i) # << >>
  PROVE  /\ list # << >>
         /\ FitsIn(c, list, entry) => FitsIn(c, list_del(list, i), entry)
         /\ (i # 1 /\ i # Len(list)) =>
              (FitsIn(c, list_del(list, i), entry) => FitsIn(c, list, entry))
<1> DEFINE n == Len(list)
           d == list_del(list, i)
           lo == Low(c, list, entry, x)
           hi == High(c, list, entry, x)
<1>1. /\ n \in Nat /\ list # << >>
      /\ lo \in [1 .. n + 1 -> Int] /\ hi \in [1 .. n + 1 -> Int]
  BY RegionType, EmptySeq
<1>2. /\ d \in Seq(Gpfifos) /\ Len(d) = n - 1
      /\ \A j \in 1 .. n - 1 : d[j] = IF j < i THEN list[j] ELSE list[j + 1]
  BY ListDel, Zenon
<1>3. Len(d) \in Nat /\ Len(d) > 0
  BY <1>2, ListEnds, Zenon
<1>4. n > 1
  BY <1>1, <1>2, <1>3
<1>5. /\ chunk_get_gpu_get(c, list, entry) = lo[1]
      /\ chunk_get_cpu_put(c, list, entry) = hi[n]
  BY <1>1, ListEnds, Zenon
<1>6. chunk_get_gpu_get(c, d, entry) = IF i = 1 THEN lo[2] ELSE lo[1]
  <2>1. /\ 1 \in 1 .. n - 1 /\ 1 + 1 = 2 /\ (i # 1 => 1 < i) /\ (i = 1 => ~(1 < i))
        /\ 1 \in 1 .. n + 1 /\ 2 \in 1 .. n + 1 /\ 1 <= n /\ 2 <= n
    BY <1>1, <1>4
  <2>2. d[1] = IF i = 1 THEN list[2] ELSE list[1]
    BY <1>2, <2>1, Zenon
  <2>3. /\ lo[1] = entry[list[1]].pushbuffer_offset - chunk_get_offset(c)
        /\ lo[2] = entry[list[2]].pushbuffer_offset - chunk_get_offset(c)
    BY <2>1, Zenon DEF Low
  <2>4. chunk_get_gpu_get(c, d, entry) = entry[d[1]].pushbuffer_offset - chunk_get_offset(c)
    BY Zenon DEF chunk_get_gpu_get
  <2> HIDE DEF d, lo
  <2>5. QED
    BY <2>2, <2>3, <2>4, Zenon
<1>7. chunk_get_cpu_put(c, d, entry) = IF i = n THEN hi[n - 1] ELSE hi[n]
  <2>1. /\ n - 1 \in 1 .. n - 1 /\ (n - 1) + 1 = n
        /\ (i = n => n - 1 < i) /\ (i # n => ~(n - 1 < i))
        /\ n - 1 \in 1 .. n + 1 /\ n \in 1 .. n + 1 /\ n - 1 <= n /\ n <= n
    BY <1>1, <1>4
  <2>2. d[n - 1] = IF i = n THEN list[n - 1] ELSE list[n]
    BY <1>2, <2>1, Zenon
  <2>3. /\ hi[n] = entry[list[n]].pushbuffer_offset
                     + entry[list[n]].pushbuffer_size - chunk_get_offset(c)
        /\ hi[n - 1] = entry[list[n - 1]].pushbuffer_offset
                     + entry[list[n - 1]].pushbuffer_size - chunk_get_offset(c)
    BY <2>1, Zenon DEF High
  <2>4. chunk_get_cpu_put(c, d, entry) = entry[d[Len(d)]].pushbuffer_offset
          + entry[d[Len(d)]].pushbuffer_size - chunk_get_offset(c)
    BY Zenon DEF chunk_get_cpu_put
  <2> HIDE DEF d, hi
  <2>5. QED
    BY <1>2, <2>2, <2>3, <2>4, Zenon
<1>8. RingOrder(n, lo, hi) /\ i \in 1 .. n
  BY Zenon DEF Packed
<1> HIDE DEF n, d, lo, hi
<1>9. HasSpace(lo[1], hi[n]) =>
        HasSpace(IF i = 1 THEN lo[2] ELSE lo[1], IF i = n THEN hi[n - 1] ELSE hi[n])
  BY <1>1, <1>4, <1>8, SpaceKept, Zenon
<1>10. QED
  BY <1>1, <1>5, <1>6, <1>7, <1>9, Zenon DEF FitsIn, d, n

(* The room of a chunk depends on its own list and entries only.           *)
LEMMA FitsSame ==
  ASSUME NEW c, NEW list \in Seq(Gpfifos), list # << >>,
         NEW entry, NEW other,
         \A i \in 1 .. Len(list) : other[list[i]] = entry[list[i]]
  PROVE  FitsIn(c, list, other) <=> FitsIn(c, list, entry)
<1>1. 1 \in 1 .. Len(list) /\ Len(list) \in 1 .. Len(list)
  BY EmptySeq, LenProperties
<1>2. other[list[1]] = entry[list[1]] /\ other[list[Len(list)]] = entry[list[Len(list)]]
  BY <1>1, Zenon
<1>3. QED
  BY <1>2, Zenon DEF FitsIn, chunk_get_gpu_get, chunk_get_cpu_put

(* update_chunk() only ever adds the chunk to the bitmaps.                 *)
LEMMA UpdateBits ==
  ASSUME NEW c \in Chunks, NEW list, NEW entry, update_chunk(c, list, entry)
  PROVE  /\ idle_chunks' = IF list = << >> THEN idle_chunks \cup {c} ELSE idle_chunks
         /\ available_chunks' = IF list = << >> \/ FitsIn(c, list, entry)
                                THEN available_chunks \cup {c} ELSE available_chunks
<1>1. list = << >> => chunk_get_gpu_get(c, list, entry) = chunk_get_cpu_put(c, list, entry)
  BY Zenon DEF chunk_get_gpu_get, chunk_get_cpu_put
<1>2. QED
  BY <1>1, Zenon DEF update_chunk, FitsIn, HasSpace

(* The bitmaps of a chunk without on-going push are exact.                 *)
BitsInv ==
  \A c \in Chunks : current_push[c] = NULL =>
    /\ c \in idle_chunks <=> pending_gpfifos[c] = << >>
    /\ c \in available_chunks <=>
         pending_gpfifos[c] = << >> \/ FitsIn(c, pending_gpfifos[c], gpfifo)

(* uvm_pushbuffer_create() marks every chunk idle and available.           *)
LEMMA InitBits == Init => BitsInv
BY Zenon DEF Init, BitsInv

(* A step that touches neither chunks nor entries.                         *)
LEMMA BitsSame ==
  ASSUME BitsInv, UNCHANGED <<chunkVars, pending_gpfifos, gpfifo>>
  PROVE  BitsInv'
<1>1. /\ current_push' = current_push /\ idle_chunks' = idle_chunks
      /\ available_chunks' = available_chunks
      /\ pending_gpfifos' = pending_gpfifos /\ gpfifo' = gpfifo
  BY Zenon DEF chunkVars
<1>2. \A c \in Chunks : FitsIn(c, pending_gpfifos[c], gpfifo)'
                          <=> FitsIn(c, pending_gpfifos[c], gpfifo)
  BY <1>1, Zenon DEF FitsIn, chunk_get_gpu_get, chunk_get_cpu_put, chunk_get_offset
<1>3. QED
  BY <1>1, <1>2, Zenon DEF BitsInv

(* try_claim_chunk() clears the bits of the chunk it takes.                *)
LEMMA ClaimBits ==
  ASSUME IInv, BitsInv, NEW p \in Pushes, NEW c \in Chunks,
         try_claim_chunk(p, c), UNCHANGED <<pending_gpfifos, gpfifo>>
  PROVE  BitsInv'
<1>1. /\ current_push' = [current_push EXCEPT ![c] = p]
      /\ idle_chunks' = idle_chunks \ {c}
      /\ available_chunks' = available_chunks \ {c}
  BY Zenon DEF try_claim_chunk
<1>2. current_push \in [Chunks -> Pushes \cup {NULL}] /\ p # NULL
  BY PushbufferAssumption, Zenon DEF IInv, TypeOK
<1>3. QED
  BY <1>1, <1>2, Zenon DEF BitsInv

(* Entries that are not in flight are in no list.                          *)
LEMMA OtherBits ==
  ASSUME IInv, NEW g \in Gpfifos, g \notin inflight, NEW r \in Entry,
         NEW other, other = [gpfifo EXCEPT ![g] = r],
         NEW d \in Chunks, pending_gpfifos[d] # << >>
  PROVE  FitsIn(d, pending_gpfifos[d], other) <=> FitsIn(d, pending_gpfifos[d], gpfifo)
<1>1. pending_gpfifos[d] \in Seq(Gpfifos)
  BY Zenon DEF IInv, TypeOK
<1>2. ASSUME NEW i \in 1 .. Len(pending_gpfifos[d])
      PROVE  other[pending_gpfifos[d][i]] = gpfifo[pending_gpfifos[d][i]]
  <2>1. pending_gpfifos[d][i] \in inflight /\ pending_gpfifos[d][i] \in Gpfifos
    BY <1>1, ElementOfSeq, Zenon DEF IInv, ListInv
  <2>2. QED
    BY <2>1, Zenon DEF IInv, TypeOK
<1>3. QED
  BY <1>1, <1>2, FitsSame, Zenon

(* uvm_pushbuffer_end_push() finds the bits of its chunk clear, and sets   *)
(* them by the state in which it leaves the chunk.                         *)
LEMMA EndPushBits ==
  ASSUME IInv, BitsInv, NEW p \in Pushes, NEW g \in Gpfifos,
         NEW size \in 1 .. UVM_MAX_PUSH_SIZE, EndPush(p, g, size)
  PROVE  BitsInv'
<1> DEFINE c == push[p].chunk
           r == [pushbuffer_offset |-> push[p].begin, pushbuffer_size |-> size]
           entry == [gpfifo EXCEPT ![g] = r]
           list == Append(pending_gpfifos[c], g)
<1>1. /\ c \in Chunks /\ current_push[c] # NULL
      /\ offset_to_chunk(push[p].begin) = c
  BY BuildingChunk, Zenon DEF EndPush
<1>2. /\ g \notin inflight
      /\ gpfifo' = entry
      /\ pending_gpfifos' = [pending_gpfifos EXCEPT ![c] = list]
      /\ update_chunk(c, list, entry)
      /\ current_push' = [current_push EXCEPT ![c] = NULL]
  BY <1>1, Zenon DEF EndPush
<1>3. r \in Entry
  BY PushbufferAssumption DEF IInv, TypeOK, PushState, Entry
<1>4. list # << >>
  <2>1. pending_gpfifos[c] \in Seq(Gpfifos)
    BY <1>1, Zenon DEF IInv, TypeOK
  <2>2. Len(list) = Len(pending_gpfifos[c]) + 1 /\ Len(pending_gpfifos[c]) \in Nat
    BY <2>1
  <2> HIDE DEF list
  <2>3. Len(list) # 0
    BY <2>2
  <2>4. Len(<< >>) = 0
    BY Zenon
  <2>5. QED
    BY <2>3, <2>4, Zenon
<1>5. c \notin available_chunks /\ c \notin idle_chunks
  BY <1>1, Zenon DEF IInv, ClaimInv
<1> HIDE DEF entry, list, c, r
<1>6. /\ idle_chunks' = idle_chunks
      /\ available_chunks' = IF FitsIn(c, list, entry)
                             THEN available_chunks \cup {c} ELSE available_chunks
  BY <1>1, <1>2, <1>4, UpdateBits, Zenon
<1>7. /\ pending_gpfifos'[c] = list
      /\ \A d \in Chunks : d # c => /\ pending_gpfifos'[d] = pending_gpfifos[d]
                                    /\ current_push'[d] = current_push[d]
  BY <1>1, <1>2, Zenon DEF IInv, TypeOK
<1>8. ASSUME NEW d \in Chunks, current_push'[d] = NULL
      PROVE  /\ d \in idle_chunks' <=> pending_gpfifos'[d] = << >>
             /\ d \in available_chunks' <=>
                  pending_gpfifos'[d] = << >> \/ FitsIn(d, pending_gpfifos'[d], gpfifo')
  <2>1. CASE d = c
    BY <1>2, <1>4, <1>5, <1>6, <1>7, <2>1, Zenon
  <2>2. CASE d # c
    <3>1. /\ d \in idle_chunks' <=> d \in idle_chunks
          /\ d \in available_chunks' <=> d \in available_chunks
      BY <1>6, <2>2, Zenon
    <3>2. /\ pending_gpfifos'[d] = pending_gpfifos[d]
          /\ current_push[d] = NULL
      BY <1>7, <1>8, <2>2, Zenon
    <3>3. pending_gpfifos[d] # << >> =>
            (FitsIn(d, pending_gpfifos[d], entry) <=> FitsIn(d, pending_gpfifos[d], gpfifo))
      BY <1>2, <1>3, OtherBits, Zenon DEF entry
    <3>4. QED
      BY <1>2, <3>1, <3>2, <3>3, Zenon DEF BitsInv
  <2>3. QED
    BY <2>1, <2>2, Zenon
<1>9. QED
  BY <1>8, Zenon DEF BitsInv, FitsIn, chunk_get_gpu_get, chunk_get_cpu_put, chunk_get_offset

(* A WLC push writes an entry that is in no list.                          *)
LEMMA EndPushWlcBits ==
  ASSUME IInv, BitsInv, NEW p \in Pushes, NEW g \in Gpfifos,
         NEW size \in 1 .. UVM_MAX_PUSH_SIZE, EndPushWlc(p, g, size)
  PROVE  BitsInv'
<1> DEFINE r == [pushbuffer_offset |-> 0, pushbuffer_size |-> size]
           entry == [gpfifo EXCEPT ![g] = r]
<1>1. r \in Entry
  BY PushbufferAssumption DEF Entry
<1>2. /\ g \notin inflight /\ gpfifo' = entry
      /\ current_push' = current_push /\ idle_chunks' = idle_chunks
      /\ available_chunks' = available_chunks
      /\ pending_gpfifos' = pending_gpfifos
  BY Zenon DEF EndPushWlc, chunkVars
<1> HIDE DEF r
<1>3. ASSUME NEW d \in Chunks, pending_gpfifos[d] # << >>
      PROVE  FitsIn(d, pending_gpfifos[d], gpfifo') <=> FitsIn(d, pending_gpfifos[d], gpfifo)
  BY <1>1, <1>2, <1>3, OtherBits, Zenon
<1>4. QED
  BY <1>2, <1>3, Zenon DEF BitsInv

(* uvm_pushbuffer_mark_completed() calls update_chunk() whenever the room  *)
(* of a chunk without on-going push can have changed.                      *)
LEMMA MarkCompletedBits ==
  ASSUME IInv, BitsInv, NEW g \in inflight,
         NEW i \in 1 .. Len(pending_gpfifos[gpfifo_to_chunk(g)]),
         MarkCompleted(g, i)
  PROVE  BitsInv'
<1> DEFINE c == gpfifo_to_chunk(g)
           old == pending_gpfifos[c]
           list == list_del(old, i)
<1>1. /\ c \in Chunks /\ old \in Seq(Gpfifos) /\ gpfifo \in [Gpfifos -> Entry]
      /\ next_push_start[c] \in Nat
      /\ Packed(c, old, gpfifo, next_push_start[c])
  BY Zenon DEF IInv, TypeOK, ListInv, RegionsInv, Entry
<1>2. /\ pending_gpfifos' = [pending_gpfifos EXCEPT ![c] = list]
      /\ \/ /\ current_push[c] = NULL /\ update_chunk(c, list, gpfifo)
         \/ /\ UNCHANGED <<available_chunks, idle_chunks>>
            /\ current_push[c] = NULL => i # 1 /\ i # Len(old)
      /\ current_push' = current_push /\ gpfifo' = gpfifo
  BY Zenon DEF MarkCompleted
<1>3. i \in 1 .. Len(old)
  OBVIOUS
<1>4. old # << >>
  BY EmptySeq, LenProperties
<1>5. i # 1 /\ i # Len(old) => list # << >>
  <2>1. Len(list) = Len(old) - 1 /\ list \in Seq(Gpfifos) /\ Len(old) \in Nat
    BY <1>1, <1>3, ListDel, LenProperties, Zenon
  <2> HIDE DEF list, old
  <2>2. i # 1 /\ i # Len(old) => Len(list) # 0
    BY <1>3, <2>1
  <2>3. QED
    BY <2>2, EmptySeq, Zenon
<1>6. list # << >> =>
        /\ FitsIn(c, old, gpfifo) => FitsIn(c, list, gpfifo)
        /\ (i # 1 /\ i # Len(old)) =>
             (FitsIn(c, list, gpfifo) => FitsIn(c, old, gpfifo))
  BY <1>1, <1>3, FitsDel, Zenon
<1> HIDE DEF c, old, list
<1>7. /\ pending_gpfifos'[c] = list
      /\ \A d \in Chunks : d # c => pending_gpfifos'[d] = pending_gpfifos[d]
  BY <1>1, <1>2, Zenon DEF IInv, TypeOK
<1>8. ASSUME NEW d \in Chunks, current_push[d] = NULL
      PROVE  /\ d \in idle_chunks' <=> pending_gpfifos'[d] = << >>
             /\ d \in available_chunks' <=>
                  pending_gpfifos'[d] = << >> \/ FitsIn(d, pending_gpfifos'[d], gpfifo)
  <2>1. CASE update_chunk(c, list, gpfifo)
    <3>1. /\ idle_chunks' = IF list = << >> THEN idle_chunks \cup {c} ELSE idle_chunks
          /\ available_chunks' = IF list = << >> \/ FitsIn(c, list, gpfifo)
                                 THEN available_chunks \cup {c} ELSE available_chunks
      BY <1>1, <2>1, UpdateBits, Zenon
    <3>2. CASE d = c
      <4>1. /\ c \notin idle_chunks
            /\ c \in available_chunks => FitsIn(c, old, gpfifo)
        BY <1>1, <1>4, <1>8, <3>2, Zenon DEF BitsInv, old
      <4>2. QED
        BY <1>6, <1>7, <3>1, <3>2, <4>1, Zenon
    <3>3. CASE d # c
      BY <1>7, <1>8, <3>1, <3>3, Zenon DEF BitsInv
    <3>4. QED
      BY <3>2, <3>3, Zenon
  <2>2. CASE /\ UNCHANGED <<available_chunks, idle_chunks>>
             /\ current_push[c] = NULL => i # 1 /\ i # Len(old)
    <3>1. CASE d = c
      <4>1. /\ c \notin idle_chunks
            /\ c \in available_chunks <=> FitsIn(c, old, gpfifo)
        BY <1>1, <1>4, <1>8, <3>1, Zenon DEF BitsInv, old
      <4>2. QED
        BY <1>5, <1>6, <1>7, <1>8, <2>2, <3>1, <4>1, Zenon
    <3>2. CASE d # c
      BY <1>7, <1>8, <2>2, <3>2, Zenon DEF BitsInv
    <3>3. QED
      BY <3>1, <3>2, Zenon
  <2>3. QED
    BY <1>2, <2>1, <2>2, Zenon
<1>9. QED
  BY <1>2, <1>8, Zenon DEF BitsInv

(* Every step keeps the bitmaps exact.                                     *)
LEMMA NextBits == IInv /\ BitsInv /\ [Next]_vars => BitsInv'
<1> SUFFICES ASSUME IInv, BitsInv, [Next]_vars PROVE BitsInv'
  BY Zenon
<1>1. ASSUME NEW p \in Pushes,
             BeginPush(p) \/ BeginPushWlc(p) \/ NoChunk(p) \/ CheckErrors(p)
             \/ SetBegin(p)
      PROVE  BitsInv'
  <2>1. UNCHANGED <<chunkVars, pending_gpfifos, gpfifo>>
    BY <1>1, Zenon DEF BeginPush, BeginPushWlc, NoChunk, CheckErrors, SetBegin
  <2>2. QED
    BY <2>1, BitsSame, Zenon
<1>2. ASSUME NEW p \in Pushes, NEW c \in Chunks,
             ClaimChunk(p, c) \/ ClaimChunkAndFail(p, c)
      PROVE  BitsInv'
  <2>1. try_claim_chunk(p, c) /\ UNCHANGED <<pending_gpfifos, gpfifo>>
    BY <1>2, Zenon DEF ClaimChunk, ClaimChunkAndFail
  <2>2. QED
    BY <2>1, ClaimBits, Zenon
<1>3. ASSUME NEW p \in Pushes, NEW g \in Gpfifos,
             NEW size \in 1 .. UVM_MAX_PUSH_SIZE,
             EndPush(p, g, size) \/ EndPushWlc(p, g, size)
      PROVE  BitsInv'
  BY <1>3, EndPushBits, EndPushWlcBits, Zenon
<1>4. ASSUME NEW g \in inflight,
             NEW i \in 1 .. Len(pending_gpfifos[gpfifo_to_chunk(g)]),
             MarkCompleted(g, i)
      PROVE  BitsInv'
  BY <1>4, MarkCompletedBits, Zenon
<1>5. CASE ChannelError \/ UNCHANGED vars \/ \E g \in inflight : MarkCompletedWlc(g)
  <2>1. UNCHANGED <<chunkVars, pending_gpfifos, gpfifo>>
    BY <1>5, Zenon DEF ChannelError, vars, chunkVars, MarkCompletedWlc
  <2>2. QED
    BY <2>1, BitsSame, Zenon
<1>6. QED
  BY <1>1, <1>2, <1>3, <1>4, <1>5, Zenon DEF Next

(* The room update_chunk() looks for, in terms of the pending pushes.      *)
LEMMA BitsExact == IInv /\ BitsInv => BitmapsExact
<1> SUFFICES ASSUME IInv, BitsInv, NEW c \in Chunks, current_push[c] = NULL,
                    NEW list, list = pending_gpfifos[c], list # << >>
             PROVE  LET get == Start(list[1])
                        put == End(list[Len(list)])
                    IN  FitsIn(c, list, gpfifo) <=>
                          IF get >= put
                          THEN put + UVM_MAX_PUSH_SIZE <= get
                          ELSE \/ put + UVM_MAX_PUSH_SIZE <= chunk_get_offset(c + 1)
                               \/ chunk_get_offset(c) + UVM_MAX_PUSH_SIZE <= get
  BY Zenon DEF BitmapsExact, BitsInv
<1> DEFINE n == Len(list)
           o == chunk_get_offset(c)
           get == Start(list[1])
           put == End(list[n])
<1>1. list \in Seq(Gpfifos)
  BY Zenon DEF IInv, TypeOK
<1>2. n \in Nat /\ 1 \in 1 .. n /\ n \in 1 .. n
  BY <1>1, EmptySeq, LenProperties
<1>3. get \in Nat /\ put \in Nat
  BY <1>2, ListRegions, Zenon
<1>4. /\ o \in Nat /\ UVM_PUSHBUFFER_CHUNK_SIZE \in Nat
      /\ UVM_MAX_PUSH_SIZE \in Nat /\ UVM_MAX_PUSH_SIZE > 0
      /\ chunk_get_offset(c + 1) = o + UVM_PUSHBUFFER_CHUNK_SIZE
  BY ChunkOffset, PushbufferAssumption
<1>5. chunk_get_gpu_get(c, list, gpfifo) = get - o
  BY Zenon DEF chunk_get_gpu_get, Start
<1>6. chunk_get_cpu_put(c, list, gpfifo) = put - o
  <2>1. chunk_get_cpu_put(c, list, gpfifo) = gpfifo[list[n]].pushbuffer_offset
          + gpfifo[list[n]].pushbuffer_size - o
    BY Zenon DEF chunk_get_cpu_put
  <2>2. put = gpfifo[list[n]].pushbuffer_offset + gpfifo[list[n]].pushbuffer_size
    BY Zenon DEF End, Start
  <2>3. /\ gpfifo[list[n]].pushbuffer_offset \in Nat
        /\ gpfifo[list[n]].pushbuffer_size \in Nat
    BY <1>1, <1>2, ElementOfSeq, Zenon DEF IInv, TypeOK
  <2> HIDE DEF n, o, put
  <2>4. QED
    BY <1>4, <2>1, <2>2, <2>3
<1> HIDE DEF n, o, get, put
<1>7. HasSpace(get - o, put - o) <=>
        IF get >= put
        THEN put + UVM_MAX_PUSH_SIZE <= get
        ELSE \/ put + UVM_MAX_PUSH_SIZE <= o + UVM_PUSHBUFFER_CHUNK_SIZE
             \/ o + UVM_MAX_PUSH_SIZE <= get
  BY <1>3, <1>4, SMTT(30) DEF HasSpace, FitsBetween, FitsAtEnd, FitsAtStart
<1>8. QED
  BY <1>4, <1>5, <1>6, <1>7, Zenon DEF FitsIn, n, o, get, put

(* A chunk without on-going push is in the bitmaps exactly when it has the *)
(* room, for every number and size of chunks: uvm_pushbuffer_mark_completed() *)
(* may skip update_chunk() for a push in the middle of the list, and no    *)
(* chunk is ever lost.                                                     *)
THEOREM BitmapsExactCorrect == Spec => []BitmapsExact
<1>1. Init => BitsInv
  BY InitBits
<1>2. IInv /\ BitsInv /\ [Next]_vars => BitsInv'
  BY NextBits
<1>3. IInv /\ BitsInv => BitmapsExact
  BY BitsExact
<1>4. QED
  BY <1>1, <1>2, <1>3, Invariance, PTL DEF Spec

-----------------------------------------------------------------------------
(* The semaphore.                                                          *)

(* The pushes past concurrent_pushes_sema.                                 *)
Holders == {p \in Pushes : push[p].pc \in Holding}

(* The semaphore counts them.                                              *)
SemaInv ==
  /\ IsFiniteSet(Holders)
  /\ Cardinality(Holders) + concurrent_pushes_sema = UVM_PUSHBUFFER_CHUNKS

(* Until a channel fails no push has seen an error, and a claimed chunk is *)
(* the chunk of a push that will end.                                      *)
Owned(c) ==
  /\ push[current_push[c]].pc \in {"claimed", "building"}
  /\ push[current_push[c]].chunk = c
OwnerInv ==
  ~channel_error =>
    /\ \A p \in Pushes : push[p].status
    /\ \A c \in Chunks : current_push[c] # NULL => Owned(c)

(* Nobody is past the semaphore of a new pushbuffer.                       *)
LEMMA InitSema == Init => SemaInv /\ OwnerInv
<1> SUFFICES ASSUME Init PROVE SemaInv /\ OwnerInv
  BY Zenon
<1>1. Holders = {}
  BY Zenon DEF Init, Holders, Holding
<1>2. IsFiniteSet(Holders) /\ Cardinality(Holders) = 0
  BY <1>1, FS_EmptySet, Zenon
<1>3. concurrent_pushes_sema = UVM_PUSHBUFFER_CHUNKS
  BY Zenon DEF Init
<1>4. SemaInv
  BY <1>2, <1>3, PushbufferAssumption DEF SemaInv
<1>5. OwnerInv
  BY Zenon DEF Init, OwnerInv
<1>6. QED
  BY <1>4, <1>5, Zenon

(* A push that passes the semaphore takes one unit, one that ends or fails *)
(* gives one back.                                                         *)
Passes(p) ==
  /\ Holders' = Holders \cup {p} /\ p \notin Holders
  /\ concurrent_pushes_sema' = concurrent_pushes_sema - 1
GivesBack(p) ==
  /\ Holders' = Holders \ {p} /\ p \in Holders
  /\ concurrent_pushes_sema' = concurrent_pushes_sema + 1
Stays ==
  Holders' = Holders /\ concurrent_pushes_sema' = concurrent_pushes_sema

LEMMA SemaStep ==
  ASSUME TypeOK, SemaInv, NEW p, Passes(p) \/ GivesBack(p) \/ Stays
  PROVE  SemaInv'
<1>1. /\ IsFiniteSet(Holders) /\ Cardinality(Holders) \in Nat
      /\ concurrent_pushes_sema \in Nat /\ UVM_PUSHBUFFER_CHUNKS \in Nat
      /\ Cardinality(Holders) + concurrent_pushes_sema = UVM_PUSHBUFFER_CHUNKS
  BY FS_CardinalityType, PushbufferAssumption DEF SemaInv, TypeOK
<1>2. CASE Passes(p)
  <2>1. Holders' = Holders \cup {p} /\ p \notin Holders
    BY <1>2, Zenon DEF Passes
  <2>2. IsFiniteSet(Holders') /\ Cardinality(Holders') = Cardinality(Holders) + 1
    BY <1>1, <2>1, FS_AddElement, Zenon
  <2>3. concurrent_pushes_sema' = concurrent_pushes_sema - 1
    BY <1>2, Zenon DEF Passes
  <2>4. Cardinality(Holders') + concurrent_pushes_sema' = UVM_PUSHBUFFER_CHUNKS
    BY <1>1, <2>2, <2>3
  <2>5. QED
    BY <2>2, <2>4, Zenon DEF SemaInv
<1>3. CASE GivesBack(p)
  <2>1. Holders' = Holders \ {p} /\ p \in Holders
    BY <1>3, Zenon DEF GivesBack
  <2>2. IsFiniteSet(Holders') /\ Cardinality(Holders') = Cardinality(Holders) - 1
    BY <1>1, <2>1, FS_RemoveElement, Zenon
  <2>3. concurrent_pushes_sema' = concurrent_pushes_sema + 1
    BY <1>3, Zenon DEF GivesBack
  <2>4. Cardinality(Holders') + concurrent_pushes_sema' = UVM_PUSHBUFFER_CHUNKS
    BY <1>1, <2>2, <2>3
  <2>5. QED
    BY <2>2, <2>4, Zenon DEF SemaInv
<1>4. CASE Stays
  BY <1>4, Zenon DEF SemaInv, Stays
<1>5. QED
  BY <1>2, <1>3, <1>4, Zenon

(* Which pushes are past the semaphore, when one push moves.               *)
LEMMA HoldersStep ==
  ASSUME push \in [Pushes -> PushState], NEW p \in Pushes, NEW s,
         push' = [push EXCEPT ![p] = s]
  PROVE  Holders' = IF s.pc \in Holding THEN Holders \cup {p} ELSE Holders \ {p}
<1>1. /\ push'[p] = s
      /\ \A q \in Pushes : q # p => push'[q] = push[q]
  BY Zenon
<1>2. QED
  BY <1>1, Zenon DEF Holders

(* The semaphore through every step of a push.                             *)
LEMMA NextSema == TypeOK /\ SemaInv /\ [Next]_vars => SemaInv'
<1> SUFFICES ASSUME TypeOK, SemaInv, [Next]_vars PROVE SemaInv'
  BY Zenon
<1>0. push \in [Pushes -> PushState]
  BY Zenon DEF TypeOK
<1>1. ASSUME NEW p \in Pushes, BeginPush(p) PROVE SemaInv'
  <2> DEFINE s == [push[p] EXCEPT !.pc = "first", !.status = TRUE]
  <2>1. /\ push' = [push EXCEPT ![p] = s] /\ push[p].pc = "none"
        /\ concurrent_pushes_sema' = concurrent_pushes_sema - 1
    BY <1>1, Zenon DEF BeginPush
  <2>2. s.pc = "first"
    BY <1>0, Zenon DEF PushState
  <2> HIDE DEF s
  <2>3. Holders' = Holders \cup {p} /\ p \notin Holders
    BY <1>0, <2>1, <2>2, HoldersStep, Zenon DEF Holding, Holders
  <2>4. QED
    BY <2>1, <2>3, SemaStep, Zenon DEF Passes
<1>2. ASSUME NEW p \in Pushes, NEW pc, pc \notin Holding,
             push' = [push EXCEPT ![p].pc = pc], push[p].pc \in Holding,
             concurrent_pushes_sema' = concurrent_pushes_sema + 1
      PROVE  SemaInv'
  <2> DEFINE s == [push[p] EXCEPT !.pc = pc]
  <2>1. push' = [push EXCEPT ![p] = s]
    BY <1>2, Zenon
  <2>2. s.pc = pc
    BY <1>0, Zenon DEF PushState
  <2> HIDE DEF s
  <2>3. Holders' = Holders \ {p} /\ p \in Holders
    BY <1>0, <1>2, <2>1, <2>2, HoldersStep, Zenon DEF Holders
  <2>4. QED
    BY <1>2, <2>3, SemaStep, Zenon DEF GivesBack
<1>3. ASSUME NEW p \in Pushes, NEW s, push' = [push EXCEPT ![p] = s],
             s.pc \in Holding <=> push[p].pc \in Holding,
             concurrent_pushes_sema' = concurrent_pushes_sema
      PROVE  SemaInv'
  <2>1. Holders' = Holders
    BY <1>0, <1>3, HoldersStep, Zenon DEF Holders
  <2>2. QED
    BY <1>3, <2>1, SemaStep, Zenon DEF Stays
<1>4. ASSUME NEW p \in Pushes, BeginPushWlc(p) PROVE SemaInv'
  <2> DEFINE s == [push[p] EXCEPT !.pc = "wlc"]
  <2>1. /\ push' = [push EXCEPT ![p] = s] /\ push[p].pc = "none"
        /\ concurrent_pushes_sema' = concurrent_pushes_sema
    BY <1>4, Zenon DEF BeginPushWlc
  <2>2. s.pc = "wlc"
    BY <1>0, Zenon DEF PushState
  <2> HIDE DEF s
  <2>3. QED
    BY <1>3, <2>1, <2>2, Zenon DEF Holding
<1>5. ASSUME NEW p \in Pushes, NoChunk(p) PROVE SemaInv'
  <2>1. push[p].pc \in {"first", "spin"} /\ push[p].pc \in Holding
    BY <1>5, Zenon DEF NoChunk, Holding
  <2>2. CASE ~push[p].status
    BY <1>2, <1>5, <2>1, <2>2, Zenon DEF NoChunk, Holding
  <2>3. CASE push[p].status
    <3> DEFINE s == [push[p] EXCEPT !.pc = IF @ = "first" THEN "spin" ELSE "check"]
    <3>1. /\ push' = [push EXCEPT ![p] = s]
          /\ concurrent_pushes_sema' = concurrent_pushes_sema
      BY <1>5, <2>3, Zenon DEF NoChunk
    <3>2. s.pc \in {"spin", "check"}
      BY <1>0, Zenon DEF PushState
    <3> HIDE DEF s
    <3>3. s.pc \in Holding
      BY <3>2, Zenon DEF Holding
    <3>4. QED
      BY <1>3, <2>1, <3>1, <3>3, Zenon
  <2>4. QED
    BY <2>2, <2>3, Zenon
<1>6. ASSUME NEW p \in Pushes, CheckErrors(p) PROVE SemaInv'
  <2> DEFINE s == [push[p] EXCEPT !.pc = "spin", !.status = ~channel_error]
  <2>1. /\ push' = [push EXCEPT ![p] = s] /\ push[p].pc = "check"
        /\ concurrent_pushes_sema' = concurrent_pushes_sema
    BY <1>6, Zenon DEF CheckErrors
  <2>2. s.pc = "spin"
    BY <1>0, Zenon DEF PushState
  <2> HIDE DEF s
  <2>3. QED
    BY <1>3, <2>1, <2>2, Zenon DEF Holding
<1>7. ASSUME NEW p \in Pushes, SetBegin(p) PROVE SemaInv'
  <2> DEFINE b == chunk_get_offset(push[p].chunk) + next_push_start[push[p].chunk]
             s == [push[p] EXCEPT !.pc = "building", !.begin = b]
  <2>1. /\ push' = [push EXCEPT ![p] = s] /\ push[p].pc = "claimed"
        /\ concurrent_pushes_sema' = concurrent_pushes_sema
    BY <1>7, Zenon DEF SetBegin
  <2>2. s.pc = "building"
    BY <1>0, Zenon DEF PushState
  <2> HIDE DEF s
  <2>3. QED
    BY <1>3, <2>1, <2>2, Zenon DEF Holding
<1>8. ASSUME NEW p \in Pushes, NEW c \in Chunks, ClaimChunk(p, c) PROVE SemaInv'
  <2> DEFINE s == [push[p] EXCEPT !.pc = "claimed", !.chunk = c]
  <2>1. /\ push' = [push EXCEPT ![p] = s] /\ push[p].pc \in {"first", "spin"}
        /\ concurrent_pushes_sema' = concurrent_pushes_sema
    BY <1>8, Zenon DEF ClaimChunk
  <2>2. s.pc = "claimed"
    BY <1>0, Zenon DEF PushState
  <2> HIDE DEF s
  <2>3. QED
    BY <1>3, <2>1, <2>2, Zenon DEF Holding
<1>9. ASSUME NEW p \in Pushes, NEW c \in Chunks, ClaimChunkAndFail(p, c)
      PROVE  SemaInv'
  BY <1>2, <1>9, Zenon DEF ClaimChunkAndFail, Holding
<1>10. ASSUME NEW p \in Pushes, NEW g \in Gpfifos,
              NEW size \in 1 .. UVM_MAX_PUSH_SIZE, EndPush(p, g, size)
       PROVE  SemaInv'
  BY <1>2, <1>10, Zenon DEF EndPush, Holding
<1>11. ASSUME NEW p \in Pushes, NEW g \in Gpfifos,
              NEW size \in 1 .. UVM_MAX_PUSH_SIZE, EndPushWlc(p, g, size)
       PROVE  SemaInv'
  <2> DEFINE s == [push[p] EXCEPT !.pc = "none"]
  <2>1. /\ push' = [push EXCEPT ![p] = s] /\ push[p].pc = "wlc"
        /\ concurrent_pushes_sema' = concurrent_pushes_sema
    BY <1>11, Zenon DEF EndPushWlc
  <2>2. s.pc = "none"
    BY <1>0, Zenon DEF PushState
  <2> HIDE DEF s
  <2>3. QED
    BY <1>3, <2>1, <2>2, Zenon DEF Holding
<1>12. CASE \/ ChannelError \/ UNCHANGED vars
            \/ \E g \in inflight : MarkCompletedWlc(g)
            \/ \E g \in inflight :
                 \E i \in 1 .. Len(pending_gpfifos[gpfifo_to_chunk(g)]) :
                   MarkCompleted(g, i)
  <2>1. push' = push /\ concurrent_pushes_sema' = concurrent_pushes_sema
    BY <1>12, Zenon DEF ChannelError, vars, MarkCompletedWlc, MarkCompleted
  <2>2. QED
    BY <2>1, Zenon DEF SemaInv, Holders
<1>13. QED
  BY <1>1, <1>4, <1>5, <1>6, <1>7, <1>8, <1>9, <1>10, <1>11, <1>12, Zenon DEF Next

(* A push that has no chunk moves: the owners of the chunks stay.          *)
LEMMA OwnerStay ==
  ASSUME TypeOK, OwnerInv, NEW p \in Pushes, NEW s,
         push' = [push EXCEPT ![p] = s],
         push[p].pc \notin {"claimed", "building"},
         ~channel_error => s.status,
         current_push' = current_push, channel_error' = channel_error
  PROVE  OwnerInv'
<1>1. /\ push'[p] = s
      /\ \A q \in Pushes : q # p => push'[q] = push[q]
  BY Zenon DEF TypeOK
<1>2. ASSUME ~channel_error, NEW c \in Chunks, current_push[c] # NULL
      PROVE  Owned(c)'
  <2>1. Owned(c) /\ current_push[c] \in Pushes
    BY <1>2, Zenon DEF OwnerInv, TypeOK
  <2>2. current_push[c] # p
    BY <2>1, Zenon DEF Owned
  <2>3. QED
    BY <1>1, <2>1, <2>2, Zenon DEF Owned
<1>3. ASSUME ~channel_error, NEW q \in Pushes PROVE push'[q].status
  BY <1>1, <1>3, Zenon DEF OwnerInv
<1>4. QED
  BY <1>2, <1>3, Zenon DEF OwnerInv

(* A chunk is claimed for a push that ends, unless a channel failed.       *)
LEMMA NextOwner == IInv /\ OwnerInv /\ [Next]_vars => OwnerInv'
<1> SUFFICES ASSUME IInv, OwnerInv, [Next]_vars PROVE OwnerInv'
  BY Zenon
<1>0. TypeOK /\ push \in [Pushes -> PushState]
  BY Zenon DEF IInv, TypeOK
<1>1. ASSUME NEW p \in Pushes, BeginPush(p) PROVE OwnerInv'
  <2> DEFINE s == [push[p] EXCEPT !.pc = "first", !.status = TRUE]
  <2>1. /\ push' = [push EXCEPT ![p] = s] /\ push[p].pc = "none"
        /\ current_push' = current_push /\ channel_error' = channel_error
    BY <1>1, Zenon DEF BeginPush, chunkVars
  <2>2. s.status
    BY <1>0, Zenon DEF PushState
  <2> HIDE DEF s
  <2>3. QED
    BY <1>0, <2>1, <2>2, OwnerStay, Zenon
<1>2. ASSUME NEW p \in Pushes, NEW pc, push' = [push EXCEPT ![p].pc = pc],
             push[p].pc \notin {"claimed", "building"},
             current_push' = current_push, channel_error' = channel_error
      PROVE  OwnerInv'
  <2> DEFINE s == [push[p] EXCEPT !.pc = pc]
  <2>1. push' = [push EXCEPT ![p] = s]
    BY <1>2, Zenon
  <2>2. s.status = push[p].status
    BY <1>0, Zenon DEF PushState
  <2>3. ~channel_error => s.status
    BY <2>2, Zenon DEF OwnerInv
  <2> HIDE DEF s
  <2>4. QED
    BY <1>0, <1>2, <2>1, <2>3, OwnerStay, Zenon
<1>3. ASSUME NEW p \in Pushes, BeginPushWlc(p) PROVE OwnerInv'
  BY <1>2, <1>3, Zenon DEF BeginPushWlc, chunkVars
<1>4. ASSUME NEW p \in Pushes, NoChunk(p) PROVE OwnerInv'
  <2>1. /\ push[p].pc \notin {"claimed", "building"}
        /\ current_push' = current_push /\ channel_error' = channel_error
    BY <1>4, Zenon DEF NoChunk, chunkVars
  <2>2. \E pc : push' = [push EXCEPT ![p].pc = pc]
    BY <1>4, Zenon DEF NoChunk
  <2>3. QED
    BY <1>2, <2>1, <2>2, Zenon
<1>5. ASSUME NEW p \in Pushes, CheckErrors(p) PROVE OwnerInv'
  <2> DEFINE s == [push[p] EXCEPT !.pc = "spin", !.status = ~channel_error]
  <2>1. /\ push' = [push EXCEPT ![p] = s] /\ push[p].pc = "check"
        /\ current_push' = current_push /\ channel_error' = channel_error
    BY <1>5, Zenon DEF CheckErrors, chunkVars
  <2>2. ~channel_error => s.status
    BY <1>0, Zenon DEF PushState
  <2> HIDE DEF s
  <2>3. QED
    BY <1>0, <2>1, <2>2, OwnerStay, Zenon
<1>6. ASSUME NEW p \in Pushes, SetBegin(p) PROVE OwnerInv'
  <2> DEFINE b == chunk_get_offset(push[p].chunk) + next_push_start[push[p].chunk]
             s == [push[p] EXCEPT !.pc = "building", !.begin = b]
  <2>1. /\ push' = [push EXCEPT ![p] = s]
        /\ current_push' = current_push /\ channel_error' = channel_error
    BY <1>6, Zenon DEF SetBegin, chunkVars
  <2>2. s.status = push[p].status /\ s.pc = "building" /\ s.chunk = push[p].chunk
    BY <1>0, Zenon DEF PushState
  <2> HIDE DEF s
  <2>3. /\ push'[p] = s
        /\ \A q \in Pushes : q # p => push'[q] = push[q]
    BY <1>0, <2>1, Zenon
  <2>4. ASSUME NEW c \in Chunks, Owned(c), current_push[c] \in Pushes
        PROVE  Owned(c)'
    BY <2>1, <2>2, <2>3, <2>4, Zenon DEF Owned
  <2>5. \A c \in Chunks : current_push[c] # NULL => current_push[c] \in Pushes
    BY <1>0, Zenon DEF TypeOK
  <2>6. ASSUME ~channel_error, NEW q \in Pushes PROVE push'[q].status
    BY <2>2, <2>3, <2>6, Zenon DEF OwnerInv
  <2>7. QED
    BY <2>1, <2>4, <2>5, <2>6, Zenon DEF OwnerInv
<1>7. ASSUME NEW p \in Pushes, NEW c \in Chunks, ClaimChunk(p, c) PROVE OwnerInv'
  <2> DEFINE s == [push[p] EXCEPT !.pc = "claimed", !.chunk = c]
  <2>1. /\ push' = [push EXCEPT ![p] = s] /\ push[p].pc \in {"first", "spin"}
        /\ current_push' = [current_push EXCEPT ![c] = p]
        /\ channel_error' = channel_error
    BY <1>7, Zenon DEF ClaimChunk, try_claim_chunk
  <2>2. s.status = push[p].status /\ s.pc = "claimed" /\ s.chunk = c
    BY <1>0, Zenon DEF PushState
  <2> HIDE DEF s
  <2>3. /\ push'[p] = s /\ current_push'[c] = p
        /\ \A q \in Pushes : q # p => push'[q] = push[q]
        /\ \A d \in Chunks : d # c => current_push'[d] = current_push[d]
    BY <1>0, <2>1, Zenon DEF TypeOK
  <2>4. ASSUME ~channel_error, NEW d \in Chunks, current_push'[d] # NULL
        PROVE  Owned(d)'
    <3>1. CASE d = c
      BY <2>2, <2>3, <3>1, Zenon DEF Owned
    <3>2. CASE d # c
      <4>1. Owned(d) /\ current_push[d] \in Pushes
        BY <1>0, <2>3, <2>4, <3>2, Zenon DEF OwnerInv, TypeOK
      <4>2. current_push[d] # p
        BY <2>1, <4>1, Zenon DEF Owned
      <4>3. QED
        BY <2>3, <3>2, <4>1, <4>2, Zenon DEF Owned
    <3>3. QED
      BY <3>1, <3>2, Zenon
  <2>5. ASSUME ~channel_error, NEW q \in Pushes PROVE push'[q].status
    BY <2>2, <2>3, <2>5, Zenon DEF OwnerInv
  <2>6. QED
    BY <2>1, <2>4, <2>5, Zenon DEF OwnerInv
<1>8. ASSUME NEW p \in Pushes, NEW c \in Chunks, ClaimChunkAndFail(p, c)
      PROVE  OwnerInv'
  BY <1>8, Zenon DEF ClaimChunkAndFail, OwnerInv
<1>9. ASSUME NEW p \in Pushes, NEW g \in Gpfifos,
             NEW size \in 1 .. UVM_MAX_PUSH_SIZE, EndPush(p, g, size)
      PROVE  OwnerInv'
  <2> DEFINE c == push[p].chunk
             s == [push[p] EXCEPT !.pc = "none"]
  <2>1. c \in Chunks /\ offset_to_chunk(push[p].begin) = c
    BY <1>9, BuildingChunk, Zenon DEF EndPush
  <2>2. /\ push' = [push EXCEPT ![p] = s]
        /\ current_push' = [current_push EXCEPT ![c] = NULL]
        /\ channel_error' = channel_error
    BY <1>9, <2>1, Zenon DEF EndPush
  <2>3. s.status = push[p].status
    BY <1>0, Zenon DEF PushState
  <2> HIDE DEF s
  <2>4. /\ push'[p] = s /\ current_push'[c] = NULL
        /\ \A q \in Pushes : q # p => push'[q] = push[q]
        /\ \A d \in Chunks : d # c => current_push'[d] = current_push[d]
    BY <1>0, <2>1, <2>2, Zenon DEF TypeOK
  <2>5. ASSUME ~channel_error, NEW d \in Chunks, current_push'[d] # NULL
        PROVE  Owned(d)'
    <3>1. d # c
      BY <2>4, <2>5, Zenon
    <3>2. Owned(d) /\ current_push[d] \in Pushes
      BY <1>0, <2>4, <2>5, <3>1, Zenon DEF OwnerInv, TypeOK
    <3>3. current_push[d] # p
      BY <3>1, <3>2, Zenon DEF Owned
    <3>4. QED
      BY <2>4, <3>1, <3>2, <3>3, Zenon DEF Owned
  <2>6. ASSUME ~channel_error, NEW q \in Pushes PROVE push'[q].status
    BY <2>3, <2>4, <2>6, Zenon DEF OwnerInv
  <2>7. QED
    BY <2>2, <2>5, <2>6, Zenon DEF OwnerInv
<1>10. ASSUME NEW p \in Pushes, NEW g \in Gpfifos,
              NEW size \in 1 .. UVM_MAX_PUSH_SIZE, EndPushWlc(p, g, size)
       PROVE  OwnerInv'
  BY <1>2, <1>10, Zenon DEF EndPushWlc, chunkVars
<1>11. CASE \/ UNCHANGED vars
            \/ \E g \in inflight : MarkCompletedWlc(g)
            \/ \E g \in inflight :
                 \E i \in 1 .. Len(pending_gpfifos[gpfifo_to_chunk(g)]) :
                   MarkCompleted(g, i)
  <2>1. push' = push /\ current_push' = current_push /\ channel_error' = channel_error
    BY <1>11, Zenon DEF vars, MarkCompletedWlc, MarkCompleted, chunkVars
  <2>2. QED
    BY <2>1, Zenon DEF OwnerInv, Owned
<1>12. CASE ChannelError
  BY <1>12, Zenon DEF ChannelError, OwnerInv
<1>13. QED
  BY <1>1, <1>3, <1>4, <1>5, <1>6, <1>7, <1>8, <1>9, <1>10, <1>11, <1>12, Zenon DEF Next

(* More arguments than values: two have the same value.                    *)
Crowded(f, S, T) ==
  /\ IsFiniteSet(S) /\ IsFiniteSet(T) /\ Cardinality(T) < Cardinality(S)
  /\ f \in [S -> T]
Collides(f, S) == \E x \in S : \E y \in S : x # y /\ f[x] = f[y]

LEMMA PigeonHole ==
  ASSUME NEW S, NEW T, NEW f, Crowded(f, S, T)
  PROVE  Collides(f, S)
BY FS_PigeonHole DEF Crowded, Collides

(* A push past the semaphore without a chunk leaves one chunk unclaimed.   *)
LEMMA UnclaimedChunk ==
  ASSUME IInv, SemaInv, OwnerInv, ~channel_error,
         NEW p \in Pushes, push[p].pc \in {"first", "spin", "check"}
  PROVE  \E c \in Chunks : current_push[c] = NULL
<1> SUFFICES ASSUME \A c \in Chunks : current_push[c] # NULL PROVE FALSE
  BY Zenon
<1> DEFINE H == Holders \ {p}
<1>1. IsFiniteSet(Chunks) /\ Cardinality(Chunks) = UVM_PUSHBUFFER_CHUNKS
  <2>1. /\ 0 \in Int /\ UVM_PUSHBUFFER_CHUNKS - 1 \in Int
        /\ ~(0 > UVM_PUSHBUFFER_CHUNKS - 1)
        /\ (UVM_PUSHBUFFER_CHUNKS - 1) - 0 + 1 = UVM_PUSHBUFFER_CHUNKS
    BY PushbufferAssumption
  <2>2. QED
    BY <2>1, FS_Interval, Zenon DEF Chunks
<1>2. /\ IsFiniteSet(Holders) /\ Cardinality(Holders) \in Nat
      /\ concurrent_pushes_sema \in Nat
      /\ Cardinality(Holders) + concurrent_pushes_sema = UVM_PUSHBUFFER_CHUNKS
  BY FS_CardinalityType, Zenon DEF SemaInv, IInv, TypeOK
<1>3. p \in Holders
  BY Zenon DEF Holders, Holding
<1>4. IsFiniteSet(H) /\ Cardinality(H) = Cardinality(Holders) - 1
  BY <1>2, <1>3, FS_RemoveElement, Zenon
<1>5. Cardinality(H) < Cardinality(Chunks)
  BY <1>1, <1>2, <1>4
<1>6. ASSUME NEW c \in Chunks PROVE Owned(c) /\ current_push[c] \in H
  <2>1. Owned(c) /\ current_push[c] \in Pushes
    BY Zenon DEF OwnerInv, IInv, TypeOK
  <2>2. QED
    BY <2>1, Zenon DEF Owned, Holders, Holding
<1>7. current_push \in [Chunks -> H]
  <2>1. current_push \in [Chunks -> Pushes \cup {NULL}]
    BY Zenon DEF IInv, TypeOK
  <2> HIDE DEF H
  <2>2. QED
    BY <1>6, <2>1, Zenon
<1> HIDE DEF H
<1>8. Crowded(current_push, Chunks, H)
  BY <1>1, <1>4, <1>5, <1>7, Zenon DEF Crowded
<1>9. Collides(current_push, Chunks)
  BY <1>8, PigeonHole, Zenon
<1>10. PICK c \in Chunks, d \in Chunks : c # d /\ current_push[c] = current_push[d]
  BY <1>9, Zenon DEF Collides
<1>11. Owned(c) /\ Owned(d)
  BY <1>6, Zenon
<1>12. push[current_push[c]].chunk = c /\ push[current_push[c]].chunk = d
  BY <1>10, <1>11, Zenon DEF Owned
<1>13. QED
  BY <1>10, <1>12, Zenon

(* A push past the semaphore never waits in vain: for every number of      *)
(* chunks and pushes, and whatever is pending, claim_chunk() finds a chunk *)
(* or some completion will free one, as long as no channel has failed.     *)
THEOREM ClaimCanSucceedCorrect == Spec => []ClaimCanSucceed
<1>1. Init => BitsInv /\ SemaInv /\ OwnerInv
  BY InitBits, InitSema, Zenon
<1>2. IInv /\ BitsInv /\ SemaInv /\ OwnerInv /\ [Next]_vars
        => BitsInv' /\ SemaInv' /\ OwnerInv'
  BY NextBits, NextSema, NextOwner, Zenon DEF IInv
<1>3. IInv /\ BitsInv /\ SemaInv /\ OwnerInv => ClaimCanSucceed
  BY UnclaimedChunk, Zenon DEF BitsInv, ClaimCanSucceed
<1>4. QED
  BY <1>1, <1>2, <1>3, Invariance, PTL DEF Spec
=============================================================================

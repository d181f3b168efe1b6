----------------------------- MODULE FaultBatch -----------------------------
(***************************************************************************)
(* A batch of replayable faults (uvm_gpu_replayable_faults.c): fetching    *)
(* coalesces duplicates, the faults of one instance pointer and page, into *)
(* one representative, looking only at the last fault of the uTLB and the  *)
(* last fault of the batch; preprocessing orders the representatives so    *)
(* that the servicing loop, which compares neighbours only, grants every   *)
(* page the most intrusive of the accesses it permits.                     *)
(***************************************************************************)
EXTENDS Integers, FiniteSets, Sequences, TLC

CONSTANTS Utlbs, Addresses, Instances,
          VaSpace,          \* the VA space of an instance pointer
          BlockEnd,         \* the end of the VA block, by VA space and address
          AccessTypes,      \* in the order of their intrusiveness
          max_batch_size

VARIABLES fault_cache,      \* the entries, as fetched
          utlbs,            \* num_pending_faults and last_fault of each uTLB
          last_fault,       \* the last fault of the batch
          num_coalesced_faults,
          is_single_instance_ptr,
          ordered           \* ordered_fault_cache

vars == <<fault_cache, utlbs, last_fault, num_coalesced_faults, is_single_instance_ptr, ordered>>

ASSUME FaultBatchAssumption ==
  /\ AccessTypes \subseteq 0 .. 4 /\ max_batch_size \in Nat \ {0}
  /\ DOMAIN VaSpace = Instances /\ \A i \in Instances : VaSpace[i] \in Nat
  /\ Addresses \subseteq Nat
  /\ \A i \in Instances : \A a, b \in Addresses :
       LET end == BlockEnd[VaSpace[i]] IN
       end[a] >= a /\ (a <= b /\ b <= end[a] => end[b] = end[a])

(* uvm_fault_access_type_t, and the protections of a mapping.              *)
PREFETCH == 0
READ == 1
COUNT == 5

NO_ACCESS == 0
READ_ONLY == 1
READ_WRITE == 2
READ_WRITE_ATOMIC == 3

uvm_fault_access_type_to_prot(type) ==
  CASE type = 4 -> READ_WRITE_ATOMIC
    [] type \in {2, 3} -> READ_WRITE
    [] OTHER -> READ_ONLY

(* What the GPU reports.                                                   *)
Faults == [utlb : Utlbs, addr : Addresses, inst : Instances, type : AccessTypes,
           is_fatal : BOOLEAN]

Indices == DOMAIN fault_cache

(* The merged_instances_list of a fault and those merged with it is named  *)
(* after its first member.                                                 *)
TypeOK ==
  /\ Len(fault_cache) <= max_batch_size
  /\ \A i \in Indices :
       fault_cache[i] \in [fault : Faults, filtered : BOOLEAN, num_instances : 0 .. max_batch_size,
                           mask : SUBSET AccessTypes, list : Indices]
  /\ utlbs \in [Utlbs -> [num_pending_faults : 0 .. max_batch_size, last_fault : Indices \cup {0}]]
  /\ last_fault \in Indices \cup {0}
  /\ num_coalesced_faults \in 0 .. Len(fault_cache) /\ is_single_instance_ptr \in BOOLEAN
  /\ Len(ordered) <= Len(fault_cache) /\ \A k \in DOMAIN ordered : ordered[k] \in Indices

Init ==
  /\ fault_cache = <<>>
  /\ utlbs = [u \in Utlbs |-> [num_pending_faults |-> 0, last_fault |-> 0]]
  /\ last_fault = 0
  /\ num_coalesced_faults = 0 /\ is_single_instance_ptr = TRUE
  /\ ordered = <<>>

Entry(i) == fault_cache[i].fault

SamePlace(f, g) == f.inst = g.inst /\ f.addr = g.addr

-----------------------------------------------------------------------------
is_last_tlb_fault(f) ==
  LET tlb == utlbs[f.utlb] IN
  tlb.num_pending_faults > 0 /\ SamePlace(f, Entry(tlb.last_fault))


is_last_fault(f) ==
  last_fault # 0 /\ SamePlace(f, Entry(last_fault)) /\ f.type <= Entry(last_fault).type

(* Mistake: the representative stays the first fault.                      *)
MergedIntoFirst(f, i) ==
  Append([fault_cache EXCEPT ![i].num_instances = @ + 1, ![i].mask = @ \cup {f.type}],
         [fault |-> f, filtered |-> TRUE, list |-> fault_cache[i].list,
          num_instances |-> 0, mask |-> {}])

(* fetch_fault_buffer_merge_entry(): the cache after the fault is merged   *)
(* into an entry; a more intrusive one becomes the representative.         *)
Merged(f, i) ==
  LET last == fault_cache[i]
      count == last.num_instances + 1
      mask == last.mask \cup {f.type}
      higher == f.type > last.fault.type
  IN Append([fault_cache EXCEPT ![i].num_instances = count, ![i].mask = mask,
                                ![i].filtered = @ \/ higher],
            [fault |-> f, filtered |-> ~higher, list |-> last.list,
             num_instances |-> IF higher THEN count ELSE 0,
             mask |-> IF higher THEN mask ELSE {}])

(* fetch_fault_buffer_try_merge_entry()                                    *)
MergeIntoTlbFault(f) ==
  LET i == utlbs[f.utlb].last_fault IN
  /\ ~f.is_fatal /\ is_last_tlb_fault(f)
  /\ fault_cache' = Merged(f, i)
  /\ utlbs' = IF f.type > Entry(i).type
              THEN [utlbs EXCEPT ![f.utlb].last_fault = Len(fault_cache) + 1]
              ELSE utlbs
  /\ UNCHANGED <<last_fault, num_coalesced_faults, is_single_instance_ptr>>

MergeIntoLastFault(f) ==
  /\ ~f.is_fatal /\ ~is_last_tlb_fault(f) /\ is_last_fault(f)
  /\ fault_cache' = Merged(f, last_fault)
  /\ UNCHANGED <<utlbs, last_fault, num_coalesced_faults, is_single_instance_ptr>>

(* The rest of the loop of fetch_fault_buffer_entries().                   *)
NewFault(f) ==
  LET n == Len(fault_cache) + 1 IN
  /\ f.is_fatal \/ ~(is_last_tlb_fault(f) \/ is_last_fault(f))
  /\ fault_cache' = Append(fault_cache, [fault |-> f, filtered |-> FALSE, num_instances |-> 1,
                                         mask |-> {f.type}, list |-> n])
  /\ utlbs' = [utlbs EXCEPT ![f.utlb] = [num_pending_faults |-> @.num_pending_faults + 1,
                                         last_fault |-> n]]
  /\ last_fault' = n
  /\ num_coalesced_faults' = num_coalesced_faults + 1
  /\ is_single_instance_ptr' =
       (is_single_instance_ptr /\ (last_fault # 0 => f.inst = Entry(last_fault).inst))

Fetch ==
  /\ Len(fault_cache) < max_batch_size /\ ordered = <<>>
  /\ \E f \in Faults : MergeIntoTlbFault(f) \/ MergeIntoLastFault(f) \/ NewFault(f)
  /\ UNCHANGED ordered

(* cmp_sort_fault_entry_by_va_space_address_access_type(), as an order.    *)
Before(i, j) ==
  LET f == Entry(i)  g == Entry(j) IN
  \/ VaSpace[f.inst] < VaSpace[g.inst]
  \/ /\ VaSpace[f.inst] = VaSpace[g.inst]
     /\ \/ f.addr < g.addr
        \/ f.addr = g.addr /\ f.type > g.type

Representatives == SelectSeq([i \in 1 .. Len(fault_cache) |-> i], LAMBDA i : ~fault_cache[i].filtered)

(* preprocess_fault_batch(); the first sort, by instance pointer, only     *)
(* saves translations.                                                     *)
Preprocess ==
  /\ fault_cache # <<>> /\ ordered = <<>>
  /\ ordered' = SortSeq(Representatives, Before)
  /\ UNCHANGED <<fault_cache, utlbs, last_fault, num_coalesced_faults, is_single_instance_ptr>>

Next == Fetch \/ Preprocess

Spec == Init /\ [][Next]_vars

-----------------------------------------------------------------------------
(* Servicing, as a function of what the pages permit and of what the GPU   *)
(* may do with them already.  What becomes of the faults of a page depends *)
(* on no other page, so that one protection stands for all of them.        *)

Fault(k) == fault_cache[ordered[k]]

check_fault_entry_duplicate(k, j) ==
  /\ VaSpace[Fault(k).fault.inst] = VaSpace[Fault(j).fault.inst]
  /\ Fault(k).fault.addr = Fault(j).fault.addr

(* Fault k lies in the VA block of fault j, or below it.                   *)
InBlockOf(k, j) ==
  LET f == Fault(k).fault  g == Fault(j).fault  va_space == VaSpace[g.inst]
  IN  VaSpace[f.inst] = va_space /\ f.addr <= BlockEnd[va_space][g.addr]

(* service_fault_batch(): the first fault of the block that fault k is     *)
(* serviced with, or 0 when it is skipped because it is fatal already.     *)
FirstFaultIndex ==
  LET first[k \in 0 .. Len(ordered)] ==
        IF k = 0 THEN 0
        ELSE IF first[k - 1] # 0 /\ InBlockOf(k, first[k - 1]) THEN first[k - 1]
        ELSE IF Fault(k).fault.is_fatal THEN 0 ELSE k
  IN  first

(* What check_fault_access_permissions() returns and whether the fault is  *)
(* fatal then.                                                             *)
check_fault_access_permissions(k, logical) ==
  LET type == Fault(k).fault.type
      permitted(t) == uvm_fault_access_type_to_prot(t) <= logical
  IN  IF permitted(type) \/ type = PREFETCH
      THEN [type |-> IF permitted(type) THEN type ELSE COUNT,
            is_fatal |-> Fault(k).fault.is_fatal]
      ELSE [type |-> IF type > READ /\ READ \in Fault(k).mask /\ permitted(READ)
                     THEN READ ELSE COUNT,
            is_fatal |-> TRUE]

(* Mistake: any fault is waived whose page had one before.                 *)
WaivedAfterFatal(k, first, previous) ==
  k > first /\ check_fault_entry_duplicate(k, k - 1)

(* The previous fault was non-fatal, so the page was serviced already.     *)
Waived(k, first, previous) ==
  /\ k > first /\ check_fault_entry_duplicate(k, k - 1)
  /\ ~previous.is_fatal

(* service_fault_batch_block_locked() on each block: the access type the   *)
(* page of a fault is serviced with, COUNT if it is not, and whether the   *)
(* fault is to be cancelled.                                               *)
service_fault_batch(logical, authorized) ==
  LET first == FirstFaultIndex
      outcome[k \in 1 .. Len(ordered)] ==
        IF first[k] = 0 \/ Waived(k, first[k], outcome[k - 1])
        THEN [type |-> COUNT, is_fatal |-> Fault(k).fault.is_fatal]
        ELSE LET o == check_fault_access_permissions(k, logical)
             IN  IF uvm_fault_access_type_to_prot(o.type) <= authorized
                 THEN [o EXCEPT !.type = COUNT] ELSE o
  IN  outcome

(* The protection of the mapping of the page of fault k after that:        *)
(* access_type[] of the page is that of the last fault serviced.           *)
Granted(k, outcome, authorized) ==
  LET serviced == {j \in DOMAIN ordered : /\ check_fault_entry_duplicate(j, k)
                                          /\ outcome[j].type # COUNT}
  IN  IF serviced = {} THEN authorized
      ELSE uvm_fault_access_type_to_prot(
             outcome[CHOOSE j \in serviced : \A i \in serviced : i <= j].type)

SameBlock(j, k) ==
  LET f == Fault(j).fault  g == Fault(k).fault  va_space == VaSpace[g.inst]
  IN  VaSpace[f.inst] = va_space /\ BlockEnd[va_space][f.addr] = BlockEnd[va_space][g.addr]

Members(l) == {i \in Indices : fault_cache[i].list = l}

(* The faults merged together are of one instance pointer and page, and    *)
(* exactly one is left unfiltered: the first of the most intrusive, whose  *)
(* type is the highest of its mask, as service_fault_batch_block_locked()  *)
(* asserts; the unfiltered ones are num_coalesced_faults, as               *)
(* preprocess_fault_batch() asserts.                                       *)
OneRepresentative ==
  /\ \A l \in {fault_cache[i].list : i \in Indices} :
       \E r \in Members(l) :
         /\ Members(l) \cap {i \in Indices : ~fault_cache[i].filtered} = {r}
         /\ \A i \in Members(l) :
              /\ SamePlace(Entry(i), Entry(r))
              /\ Entry(i).type <= Entry(r).type
              /\ Entry(i).type = Entry(r).type => r <= i
         /\ Entry(r).type \in fault_cache[r].mask
         /\ fault_cache[r].mask \subseteq {Entry(i).type : i \in Members(l)}
  /\ Cardinality({i \in Indices : ~fault_cache[i].filtered}) = num_coalesced_faults

(* Servicing one fault per page is enough, and cancelling is exact.  After *)
(* service_fault_batch(), which waives a fault when its neighbour on the   *)
(* same page was not fatal, every page has the protection that each access *)
(* it permits needs, of the representatives and of the reads merged into   *)
(* them, and no more than it permits; and the faults left to be cancelled  *)
(* are the reads, writes and atomics that are not permitted.  This is for  *)
(* blocks without faults that were fatal when they were fetched, all that  *)
(* service_fault_batch_block_locked() allows for ("There are no            *)
(* unserviceable fault types that could be in the same VA block as a       *)
(* serviceable fault").                                                    *)
PagesServed ==
  ordered # <<>> =>
    \A logical \in {NO_ACCESS, READ_ONLY, READ_WRITE_ATOMIC} :
    \A authorized \in NO_ACCESS .. logical :
      LET outcome == service_fault_batch(logical, authorized) IN
      \A k \in DOMAIN ordered :
        (\A j \in DOMAIN ordered : SameBlock(j, k) => ~Fault(j).fault.is_fatal) =>
        LET type == Fault(k).fault.type
            granted == Granted(k, outcome, authorized)
            permitted(t) == uvm_fault_access_type_to_prot(t) <= logical
        IN  /\ \A t \in {type} \cup (Fault(k).mask \cap {READ}) :
                 permitted(t) => uvm_fault_access_type_to_prot(t) <= granted
            /\ granted <= logical
            /\ outcome[k].is_fatal <=> type # PREFETCH /\ ~permitted(type)

(* The comment on fetch_fault_buffer_entries(): the representative has a   *)
(* mask with all the access types that produced a fault on the page.       *)
(* TLC refutes this: README, section 4.                                    *)
MaskComplete ==
  \A r \in Indices :
    ~fault_cache[r].filtered =>
      fault_cache[r].mask = {Entry(i).type : i \in Members(fault_cache[r].list)}
=============================================================================

-------------------------- MODULE SecureSemaphore ---------------------------
(***************************************************************************)
(* The tracking semaphore of a channel under Confidential Computing        *)
(* (uvm_gpu_semaphore.c, uvm_channel.c).  The GPU cannot write the payload *)
(* where the CPU reads it, so each push ends with methods that encrypt it  *)
(* into unprotected memory, between two writes of a notifier: odd while    *)
(* the material changes, even when it is complete.  The CPU reads it as    *)
(* under a sequence lock, decrypts it with the IV it logged when the push  *)
(* was written, and extends the payload to the 64-bit completed value.     *)
(*                                                                         *)
(* Pushes are numbered; the encrypted payload, the tag and the IV are      *)
(* represented by the number of the push that they belong to.              *)
(***************************************************************************)
EXTENDS Integers

CONSTANTS num_gpfifo_entries,
          NOTIFIER_MOD,   \* 2^32, the width of the notifier
          PAYLOAD_MOD,    \* 2^32, the width of the payload
          MAX_PUSHES      \* bound on the pushes

VARIABLES
  pushed,                 \* pushes submitted
  last_pushed_notifier,
  ivs,                    \* the IVs logged, by index
  executed,               \* pushes the GPU has executed
  gpu,                    \* what the GPU has written of the next one
  notifier, auth_tag, encrypted_payload,   \* the unprotected memory
  completed_value, last_observed_notifier, cached_payload,
  reader,                 \* the thread that holds the semaphore's lock
  fatal_error

gpuVars == <<executed, gpu, notifier, auth_tag, encrypted_payload>>
pushVars == <<pushed, last_pushed_notifier, ivs>>
semVars == <<completed_value, last_observed_notifier, cached_payload, fatal_error>>
vars == <<pushVars, gpuVars, semVars, reader>>

ASSUME SecureSemaphoreAssumption ==
  /\ num_gpfifo_entries \in Nat /\ num_gpfifo_entries > 1
  /\ NOTIFIER_MOD \in Nat /\ NOTIFIER_MOD % (2 * num_gpfifo_entries) = 0
  /\ NOTIFIER_MOD > 0
  /\ PAYLOAD_MOD \in Nat /\ PAYLOAD_MOD > num_gpfifo_entries
  /\ MAX_PUSHES \in Nat

Pushes == 0 .. MAX_PUSHES
Notifiers == 0 .. NOTIFIER_MOD - 1

Idle == [pc |-> "idle", gpu_notifier |-> 0, tag |-> 0, payload |-> 0, iv |-> 0,
         tries_left |-> 0]

TypeOK ==
  /\ pushed \in Pushes /\ executed \in 0 .. pushed
  /\ last_pushed_notifier \in Notifiers /\ notifier \in Notifiers
  /\ last_observed_notifier \in Notifiers
  /\ ivs \in [0 .. num_gpfifo_entries - 1 -> Pushes]
  /\ gpu \subseteq {"entry", "tag", "payload"}
  /\ auth_tag \in Pushes /\ encrypted_payload \in Pushes
  /\ completed_value \in Nat /\ cached_payload \in 0 .. PAYLOAD_MOD - 1
  /\ reader \in [pc : {"idle", "notifier", "tag", "payload", "iv", "again", "decrypt",
                       "update"},
                 gpu_notifier : Notifiers, tag : Pushes, payload : Pushes, iv : Pushes,
                 tries_left : 0 .. num_gpfifo_entries]
  /\ fatal_error \in BOOLEAN

Init ==
  /\ pushed = 0 /\ last_pushed_notifier = 0
  /\ ivs = [i \in 0 .. num_gpfifo_entries - 1 |-> 0]
  /\ executed = 0 /\ gpu = {} /\ notifier = 0 /\ auth_tag = 0 /\ encrypted_payload = 0
  /\ completed_value = 0 /\ last_observed_notifier = 0 /\ cached_payload = 0
  /\ reader = Idle /\ fatal_error = FALSE

-----------------------------------------------------------------------------
(* The notifier after the next push.                                       *)
NextNotifier(n) == (n + 2) % NOTIFIER_MOD

(* The IV that belongs to an even value of the notifier.                   *)
IvIndex(n) == (n \div 2) % num_gpfifo_entries

(* A push takes a GPFIFO entry, of which one always stays free and the     *)
(* others are released by completed_value; channel_semaphore_gpu_encrypt_  *)
(* payload() logs the IV and adds the methods.                             *)
Push ==
  /\ pushed < MAX_PUSHES
  /\ pushed - completed_value < num_gpfifo_entries - 1
  /\ pushed' = pushed + 1
  /\ last_pushed_notifier' = NextNotifier(last_pushed_notifier)
  /\ ivs' = [ivs EXCEPT ![IvIndex(last_pushed_notifier')] = pushed']
  /\ UNCHANGED <<gpuVars, semVars, reader>>

(* The GPU: the notifier becomes odd, ...                                  *)
GpuEntry ==
  /\ executed < pushed /\ gpu = {}
  /\ gpu' = {"entry"}
  /\ notifier' = (2 * executed + 1) % NOTIFIER_MOD
  /\ UNCHANGED <<pushVars, semVars, executed, auth_tag, encrypted_payload, reader>>

(* ... the payload is encrypted, in any order, ...                         *)
GpuEncrypt ==
  /\ "entry" \in gpu
  /\ \/ /\ "tag" \notin gpu
        /\ gpu' = gpu \cup {"tag"} /\ auth_tag' = executed + 1
        /\ UNCHANGED encrypted_payload
     \/ /\ "payload" \notin gpu
        /\ gpu' = gpu \cup {"payload"} /\ encrypted_payload' = executed + 1
        /\ UNCHANGED auth_tag
  /\ UNCHANGED <<pushVars, semVars, executed, notifier, reader>>

(* ... and the notifier becomes even.                                      *)
GpuExit ==
  /\ gpu = {"entry", "tag", "payload"}
  /\ gpu' = {} /\ executed' = executed + 1
  /\ notifier' = (2 * executed + 2) % NOTIFIER_MOD
  /\ UNCHANGED <<pushVars, semVars, auth_tag, encrypted_payload, reader>>

-----------------------------------------------------------------------------
(* uvm_gpu_semaphore_encrypted_payload_update(), under the lock.           *)

(* Mistake: relies on the notifier only growing.                           *)
SkipUnlessGreater == last_observed_notifier >= notifier \/ notifier % 2 = 1

should_skip_secure_semaphore_update ==
  last_observed_notifier = notifier \/ notifier % 2 = 1

(* Mistake: one try per entry that can be pending.                         *)
TriesForPending == num_gpfifo_entries - 1

TriesAllowed == num_gpfifo_entries

Update ==
  /\ reader.pc = "idle"
  /\ reader' = IF should_skip_secure_semaphore_update
               THEN [Idle EXCEPT !.pc = "update"]
               ELSE [Idle EXCEPT !.pc = "notifier", !.tries_left = TriesAllowed]
  /\ UNCHANGED <<pushVars, gpuVars, semVars>>

(* An odd notifier costs no try.                                           *)
ReadNotifier ==
  /\ reader.pc = "notifier" /\ notifier % 2 = 0
  /\ reader' = [reader EXCEPT !.pc = "tag", !.gpu_notifier = notifier]
  /\ UNCHANGED <<pushVars, gpuVars, semVars>>

ReadTag ==
  /\ reader.pc = "tag"
  /\ reader' = [reader EXCEPT !.pc = "payload", !.tag = auth_tag]
  /\ UNCHANGED <<pushVars, gpuVars, semVars>>

ReadPayload ==
  /\ reader.pc = "payload"
  /\ reader' = [reader EXCEPT !.pc = "iv", !.payload = encrypted_payload]
  /\ UNCHANGED <<pushVars, gpuVars, semVars>>

ReadIv ==
  /\ reader.pc = "iv"
  /\ reader' = [reader EXCEPT !.pc = "again",
                  !.iv = ivs[IvIndex(reader.gpu_notifier)]]
  /\ UNCHANGED <<pushVars, gpuVars, semVars>>

(* The second read of the notifier ends the try.  The last one is an error,*)
(* even if it succeeded.                                                   *)
EndTry ==
  /\ reader.pc = "again"
  /\ fatal_error' = (fatal_error \/ reader.tries_left = 1)
  /\ reader' = IF reader.tries_left = 1
               THEN [Idle EXCEPT !.pc = "update"]
               ELSE [reader EXCEPT !.tries_left = @ - 1,
                       !.pc = IF notifier = reader.gpu_notifier THEN "decrypt" ELSE "notifier"]
  /\ UNCHANGED <<pushVars, gpuVars, completed_value, last_observed_notifier, cached_payload>>

(* Decryption checks the tag.                                              *)
Decrypt ==
  LET authentic == reader.tag = reader.payload /\ reader.iv = reader.payload IN
  /\ reader.pc = "decrypt"
  /\ fatal_error' = (fatal_error \/ ~authentic)
  /\ cached_payload' = IF authentic THEN reader.payload % PAYLOAD_MOD ELSE cached_payload
  /\ last_observed_notifier' = IF authentic THEN reader.gpu_notifier
                                            ELSE last_observed_notifier
  /\ reader' = [Idle EXCEPT !.pc = "update"]
  /\ UNCHANGED <<pushVars, gpuVars, completed_value>>

(* Mistake: a payload that did not move counts as wrapped.                 *)
ExtendedAlways(old, new) == (old - (old % PAYLOAD_MOD)) + new
                            + (IF new <= old % PAYLOAD_MOD THEN PAYLOAD_MOD ELSE 0)

(* update_completed_value_locked(): the new low bits, and one more in the  *)
(* high bits if they wrapped.                                              *)
Extended(old, new) == (old - (old % PAYLOAD_MOD)) + new
                      + (IF new < old % PAYLOAD_MOD THEN PAYLOAD_MOD ELSE 0)

UpdateCompletedValue ==
  /\ reader.pc = "update"
  /\ completed_value' = Extended(completed_value, cached_payload)
  /\ reader' = Idle
  /\ UNCHANGED <<pushVars, gpuVars, last_observed_notifier, cached_payload, fatal_error>>

-----------------------------------------------------------------------------
Gpu == GpuEntry \/ GpuEncrypt \/ GpuExit

Reader ==
  \/ Update \/ ReadNotifier \/ ReadTag \/ ReadPayload \/ ReadIv \/ EndTry \/ Decrypt
  \/ UpdateCompletedValue

Next == Push \/ Gpu \/ Reader

Spec == Init /\ [][Next]_vars

(* The GPU executes what is pushed; somebody keeps polling.                *)
FairSpec == Spec /\ WF_vars(Gpu) /\ WF_vars(Reader)

-----------------------------------------------------------------------------
(* Reading while the GPU writes is never taken for tampering: no torn or   *)
(* mismatched material is decrypted, and the tries are enough for every    *)
(* update that the pending pushes can race with.                           *)
NoFalseAlarm == ~fatal_error

(* The 64-bit completed value is that of a push the GPU has executed,      *)
(* across the wraps of the payload and of the notifier, ...                *)
CompletedExecuted ==
  /\ completed_value <= executed
  /\ reader.pc = "idle" => completed_value % PAYLOAD_MOD = cached_payload

(* ... and every push is seen completed.                                   *)
EveryPushCompletes == \A p \in 1 .. MAX_PUSHES : pushed >= p ~> completed_value >= p

(* The assertion at the beginning of the update.                           *)
(* TLC refutes this: README, section 4.                                    *)
NotifierOrdered == reader.pc = "idle" => last_observed_notifier <= notifier
=============================================================================

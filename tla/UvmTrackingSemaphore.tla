------------------------ MODULE UvmTrackingSemaphore ------------------------
(***************************************************************************)
(* The tracking semaphore of one channel (nvidia-uvm/uvm_gpu_semaphore.c): *)
(* a 32-bit payload that the GPU releases for each push and that the CPU   *)
(* extends to a 64-bit completed value.  For a CE channel of Confidential  *)
(* Computing the CPU cannot read the payload: the GPU publishes encrypted  *)
(* copies of it, bracketed by a notifier that is odd during an update, and *)
(* the CPU takes a consistent copy, decrypts it with the IV that was       *)
(* logged for that push and retries when an update interferes.             *)
(*                                                                         *)
(* Pushes end under the pool lock, the GPU runs at its own pace, and       *)
(* threads update the completed value under the lock of the semaphore.     *)
(***************************************************************************)
EXTENDS Integers, Sequences

CONSTANTS
    Threads,          \* threads that look for completed work
    NumGpfifoEntries, \* channel->num_gpfifo_entries
    Modulus,          \* 2^32 in the code: range of the payload and of the notifier
    SecureModes,      \* the kinds of semaphore considered, see secure
    MaxToComplete,    \* entries one uvm_channel_update_progress() call may retire
    GpuMayFail,       \* whether the GPU may stop with a channel error
    MaxPushes,        \* bound: pushes of the channel
    None              \* no thread

\* The number of GPFIFO entries is a power of two that divides 2^31.
ASSUME SizeAssumption == /\ NumGpfifoEntries \in Nat /\ NumGpfifoEntries >= 3
                         /\ Modulus \in Nat \ {0} /\ Modulus % (2 * NumGpfifoEntries) = 0
ASSUME ProgressAssumption == MaxToComplete \in Nat \ {0}
ASSUME ThreadAssumption == None \notin Threads
ASSUME FlagAssumption == SecureModes \subseteq BOOLEAN /\ GpuMayFail \in BOOLEAN
ASSUME BoundAssumption == MaxPushes \in Nat

VARIABLES
    secure,                 \* gpu_semaphore_is_secure(), fixed when it is created
    queued_value,           \* tracking_sem.queued_value, 64 bits
    last_pushed_notifier,   \* conf_computing.last_pushed_notifier
    ivs,                    \* conf_computing.ivs: the IV logged in each slot
    pushes,                 \* pushes the GPU has not finished, oldest first
    phase,                  \* what the GPU does next for the oldest push
    written,                \* the parts of the encrypted copy it has written
    gpu_error,              \* the GPU has stopped
    executed,               \* pushes the GPU has made visible to the CPU
    payload,                \* the semaphore itself
    notifier,               \* notifier_memory, shared with the GPU
    encrypted_payload,      \* encrypted_payload_memory, shared with the GPU
    auth_tag,               \* auth_tag_memory, shared with the GPU
    cached_payload,         \* conf_computing.cached_payload
    last_observed_notifier, \* conf_computing.last_observed_notifier
    completed_value,        \* tracking_sem.completed_value, 64 bits
    retired,                \* value of the last push whose entry was given back
    fatal_error,            \* uvm_global_set_fatal_error() was called
    m_lock,                 \* holder of the lock of the semaphore
    pc, frame               \* control state and locals of each thread

pushVars == <<secure, queued_value, last_pushed_notifier, ivs>>
gpuVars == <<pushes, phase, written, gpu_error, executed, payload, notifier,
             encrypted_payload, auth_tag>>
cpuVars == <<cached_payload, last_observed_notifier, completed_value, retired,
             fatal_error, m_lock>>
vars == <<pushVars, gpuVars, cpuVars, pc, frame>>

Word == 0 .. Modulus - 1
Slots == 0 .. NumGpfifoEntries - 1
Parts == {"auth_tag", "payload"}

\* A ciphertext, or the tag of one: its plaintext and the IV it was made with.
Encrypted == [payload : Word, iv : Nat]
NoCopy == [payload |-> 0, iv |-> 0]

\* The methods that a push ends with: its payload and its two notifier values.
Push == [payload : Word, entry : Word, exit : Word]

PcStates == {"idle", "lock", "notifier", "auth_tag", "payload", "notifier_again",
             "decrypt", "value", "retire"}

\* floor: pushes visible when the lock was taken; completed: the value returned.
Frames == [tries_left : Nat, gpu_notifier : Word, local_auth_tag : Encrypted,
           local_payload : Encrypted, floor : Nat, completed : Nat]
NoFrame == [tries_left |-> 0, gpu_notifier |-> 0, local_auth_tag |-> NoCopy,
            local_payload |-> NoCopy, floor |-> 0, completed |-> 0]

Init ==
    /\ secure \in SecureModes
    /\ queued_value = 0 /\ last_pushed_notifier = 0
    /\ ivs = [i \in Slots |-> 0]
    /\ pushes = <<>> /\ phase = "release" /\ written = {} /\ gpu_error = FALSE
    /\ executed = 0 /\ payload = 0 /\ notifier = 0
    /\ encrypted_payload = NoCopy /\ auth_tag = NoCopy
    /\ cached_payload = 0 /\ last_observed_notifier = 0
    /\ completed_value = 0 /\ retired = 0
    /\ fatal_error = FALSE
    /\ m_lock = None
    /\ pc = [t \in Threads |-> "idle"]
    /\ frame = [t \in Threads |-> NoFrame]

Goto(t, state) == pc' = [pc EXCEPT ![t] = state]

-----------------------------------------------------------------------------
(* The end of a push.                                                      *)

\* The slot of ivs for the push that ends with notifier n.
IvIndex(n) == (n \div 2) % NumGpfifoEntries

\* The channel has an entry for another push.
EntryFree == queued_value - retired < NumGpfifoEntries - 1

NextNotifier(n) == (n + 1) % Modulus

\* uvm_channel_end_push(), one critical section of the pool lock: queue the next
\* value and, for a secure semaphore, log the IV of its encryption.
EndPush ==
    LET value == queued_value + 1
        entry == NextNotifier(last_pushed_notifier)
        exit == NextNotifier(entry)
    IN
    /\ EntryFree
    /\ queued_value < MaxPushes
    /\ queued_value' = value
    /\ pushes' = Append(pushes, [payload |-> value % Modulus, entry |-> entry, exit |-> exit])
    /\ IF secure
         THEN /\ ivs' = [ivs EXCEPT ![IvIndex(exit)] = value]
              /\ last_pushed_notifier' = exit
         ELSE UNCHANGED <<ivs, last_pushed_notifier>>
    /\ UNCHANGED <<secure, phase, written, gpu_error, executed, payload, notifier,
                   encrypted_payload, auth_tag, cpuVars, pc, frame>>

-----------------------------------------------------------------------------
(* The GPU executes the methods at the end of a push, in order.            *)

GpuReady(p) == pushes # <<>> /\ phase = p /\ ~gpu_error

\* Release the semaphore.
GpuRelease ==
    /\ GpuReady("release")
    /\ payload' = Head(pushes).payload
    /\ IF secure
         THEN phase' = "entry" /\ UNCHANGED <<pushes, executed>>
         ELSE pushes' = Tail(pushes) /\ executed' = executed + 1 /\ UNCHANGED phase
    /\ UNCHANGED <<written, gpu_error, notifier, encrypted_payload, auth_tag, pushVars,
                   cpuVars, pc, frame>>

\* The notifier becomes odd.
GpuEntryNotifier ==
    /\ GpuReady("entry")
    /\ notifier' = Head(pushes).entry
    /\ phase' = "encrypt"
    /\ UNCHANGED <<pushes, written, gpu_error, executed, payload, encrypted_payload,
                   auth_tag, pushVars, cpuVars, pc, frame>>

\* The encryption writes the tag and the payload, in either order, with the next
\* IV of the GPU.
GpuEncrypt(part) ==
    LET copy == [payload |-> payload, iv |-> executed + 1] IN
    /\ GpuReady("encrypt")
    /\ part \in Parts \ written
    /\ written' = written \cup {part}
    /\ \/ part = "auth_tag" /\ auth_tag' = copy /\ UNCHANGED encrypted_payload
       \/ part = "payload" /\ encrypted_payload' = copy /\ UNCHANGED auth_tag
    /\ UNCHANGED <<pushes, phase, gpu_error, executed, payload, notifier, pushVars,
                   cpuVars, pc, frame>>

\* The notifier becomes even again.
GpuExitNotifier ==
    /\ GpuReady("encrypt")
    /\ written = Parts
    /\ notifier' = Head(pushes).exit
    /\ executed' = executed + 1
    /\ pushes' = Tail(pushes) /\ phase' = "release" /\ written' = {}
    /\ UNCHANGED <<gpu_error, payload, encrypted_payload, auth_tag, pushVars, cpuVars,
                   pc, frame>>

\* A channel error stops the GPU wherever it is in a push.
GpuFault ==
    /\ GpuMayFail
    /\ pushes # <<>> /\ ~gpu_error
    /\ gpu_error' = TRUE
    /\ UNCHANGED <<pushes, phase, written, executed, payload, notifier,
                   encrypted_payload, auth_tag, pushVars, cpuVars, pc, frame>>

Gpu ==
    \/ GpuRelease \/ GpuEntryNotifier \/ GpuExitNotifier
    \/ \E part \in Parts : GpuEncrypt(part)

-----------------------------------------------------------------------------
(* uvm_gpu_tracking_semaphore_update_completed_value().                    *)

Start(t) ==
    /\ pc[t] = "idle"
    /\ Goto(t, "lock")
    /\ UNCHANGED <<pushVars, gpuVars, cpuVars, frame>>

\* Mutant: one try fewer.
LockFewerTries(t) ==
    /\ pc[t] = "lock"
    /\ m_lock = None
    /\ m_lock' = t
    /\ frame' = [frame EXCEPT ![t] = [NoFrame EXCEPT !.tries_left = NumGpfifoEntries - 1,
                                                     !.floor = executed]]
    /\ Goto(t, IF secure THEN "notifier" ELSE "value")
    /\ UNCHANGED <<pushVars, gpuVars, cached_payload, last_observed_notifier,
                   completed_value, retired, fatal_error>>

Lock(t) ==
    /\ pc[t] = "lock"
    /\ m_lock = None
    /\ m_lock' = t
    /\ frame' = [frame EXCEPT ![t] = [NoFrame EXCEPT !.tries_left = NumGpfifoEntries,
                                                     !.floor = executed]]
    /\ Goto(t, IF secure THEN "notifier" ELSE "value")
    /\ UNCHANGED <<pushVars, gpuVars, cached_payload, last_observed_notifier,
                   completed_value, retired, fatal_error>>

\* Mutant: an update in progress counts as no change.
ReadNotifierOddReturns(t) ==
    /\ pc[t] = "notifier"
    /\ frame' = [frame EXCEPT ![t].gpu_notifier = notifier]
    /\ Goto(t, IF notifier % 2 = 1 \/ notifier = last_observed_notifier
                 THEN "value" ELSE "auth_tag")
    /\ UNCHANGED <<pushVars, gpuVars, cpuVars>>

\* Mutant: the read starts over until the notifier changes.
ReadNotifierAwaitsChange(t) ==
    /\ pc[t] = "notifier"
    /\ notifier % 2 = 0
    /\ frame' = [frame EXCEPT ![t].gpu_notifier = notifier]
    /\ IF notifier = last_observed_notifier
         THEN Goto(t, "lock") /\ m_lock' = None
         ELSE Goto(t, "auth_tag") /\ UNCHANGED m_lock
    /\ UNCHANGED <<pushVars, gpuVars, cached_payload, last_observed_notifier,
                   completed_value, retired, fatal_error>>

\* Read the notifier: spin while it is odd, return if it is the one last seen.
ReadNotifier(t) ==
    /\ pc[t] = "notifier"
    /\ notifier % 2 = 0
    /\ frame' = [frame EXCEPT ![t].gpu_notifier = notifier]
    /\ Goto(t, IF notifier = last_observed_notifier THEN "value" ELSE "auth_tag")
    /\ UNCHANGED <<pushVars, gpuVars, cpuVars>>

ReadAuthTag(t) ==
    /\ pc[t] = "auth_tag"
    /\ frame' = [frame EXCEPT ![t].local_auth_tag = auth_tag]
    /\ Goto(t, "payload")
    /\ UNCHANGED <<pushVars, gpuVars, cpuVars>>

ReadPayload(t) ==
    /\ pc[t] = "payload"
    /\ frame' = [frame EXCEPT ![t].local_payload = encrypted_payload]
    /\ Goto(t, "notifier_again")
    /\ UNCHANGED <<pushVars, gpuVars, cpuVars>>

\* Read the notifier again: retry if it has changed, unless no try is left.
RereadNotifier(t) ==
    LET left == frame[t].tries_left - 1
        same == notifier = frame[t].gpu_notifier
    IN
    /\ pc[t] = "notifier_again"
    /\ frame' = [frame EXCEPT ![t].tries_left = left]
    /\ \/ left > 0 /\ ~same /\ Goto(t, "notifier") /\ UNCHANGED fatal_error
       \/ left > 0 /\ same /\ Goto(t, "decrypt") /\ UNCHANGED fatal_error
       \/ left = 0 /\ Goto(t, "value") /\ fatal_error' = TRUE
    /\ UNCHANGED <<pushVars, gpuVars, cached_payload, last_observed_notifier,
                   completed_value, retired, m_lock>>

\* The copy decrypts if its tag is its own and the slot holds its IV.
Authentic(f) ==
    /\ f.local_auth_tag = f.local_payload
    /\ ivs[IvIndex(f.gpu_notifier)] = f.local_payload.iv

Decrypt(t) ==
    /\ pc[t] = "decrypt"
    /\ Goto(t, "value")
    /\ \/ /\ Authentic(frame[t])
          /\ cached_payload' = frame[t].local_payload.payload
          /\ last_observed_notifier' = frame[t].gpu_notifier
          /\ UNCHANGED fatal_error
       \/ /\ ~Authentic(frame[t])
          /\ fatal_error' = TRUE
          /\ UNCHANGED <<cached_payload, last_observed_notifier>>
    /\ UNCHANGED <<pushVars, gpuVars, completed_value, retired, m_lock, frame>>

\* Mutant: the wrap of the payload goes unnoticed.
ExtendNoWrap(old, new) == (old \div Modulus) * Modulus + new

\* Mutant: an unchanged payload counts as a wrap.
ExtendOnEqual(old, new) ==
    (old \div Modulus) * Modulus + new + (IF new <= old % Modulus THEN Modulus ELSE 0)

\* The payload as the low half of a value not below old.
Extend(old, new) ==
    (old \div Modulus) * Modulus + new + (IF new < old % Modulus THEN Modulus ELSE 0)

\* The rest of update_completed_value_locked(), and the unlock.  The caller goes
\* on to give entries back or only compares the value.
UpdateCompletedValue(t) ==
    LET new == IF secure THEN cached_payload ELSE payload
        value == Extend(completed_value, new)
    IN
    /\ pc[t] = "value"
    /\ completed_value' = value
    /\ m_lock' = None
    /\ frame' = [frame EXCEPT ![t] = [NoFrame EXCEPT !.floor = frame[t].floor,
                                                     !.completed = value]]
    /\ Goto(t, "retire")
    /\ UNCHANGED <<pushVars, gpuVars, cached_payload, last_observed_notifier, retired,
                   fatal_error>>

\* uvm_channel_update_progress_with_max(), under the pool lock: give back entries
\* up to the value observed, which may be old by now.
Retire(t) ==
    LET last == IF frame[t].completed < retired + MaxToComplete
                  THEN frame[t].completed ELSE retired + MaxToComplete
    IN
    /\ pc[t] = "retire"
    /\ retired' = IF last > retired THEN last ELSE retired
    /\ Goto(t, "idle")
    /\ frame' = [frame EXCEPT ![t] = NoFrame]
    /\ UNCHANGED <<pushVars, gpuVars, cached_payload, last_observed_notifier,
                   completed_value, fatal_error, m_lock>>

\* A caller that only compares the value with the one it waits for.
Compare(t) ==
    /\ pc[t] = "retire"
    /\ Goto(t, "idle")
    /\ frame' = [frame EXCEPT ![t] = NoFrame]
    /\ UNCHANGED <<pushVars, gpuVars, cpuVars>>

-----------------------------------------------------------------------------
Step(t) ==
    \/ Lock(t) \/ ReadNotifier(t) \/ ReadAuthTag(t) \/ ReadPayload(t)
    \/ RereadNotifier(t) \/ Decrypt(t) \/ UpdateCompletedValue(t)
    \/ Retire(t) \/ Compare(t)

Next ==
    \/ EndPush
    \/ Gpu \/ GpuFault
    \/ \E t \in Threads : Start(t) \/ Step(t)

Spec == Init /\ [][Next]_vars

\* The lock is a FIFO mutex, a thread in the kernel keeps running, and the GPU
\* executes what it is given until it fails.
Fairness == WF_vars(Gpu) /\ \A t \in Threads : SF_vars(Step(t))

FairSpec == Spec /\ Fairness

-----------------------------------------------------------------------------
(* Properties.                                                             *)

\* Types of the variables: payloads and notifiers wrap at 2^32 (Modulus).
TypeOK ==
    /\ secure \in BOOLEAN
    /\ queued_value \in Nat /\ last_pushed_notifier \in Word
    /\ ivs \in [Slots -> Nat]
    /\ pushes \in Seq(Push) /\ phase \in {"release", "entry", "encrypt"}
    /\ written \subseteq Parts /\ gpu_error \in BOOLEAN
    /\ executed \in Nat /\ payload \in Word /\ notifier \in Word
    /\ encrypted_payload \in Encrypted /\ auth_tag \in Encrypted
    /\ cached_payload \in Word /\ last_observed_notifier \in Word
    /\ completed_value \in Nat /\ retired \in Nat
    /\ fatal_error \in BOOLEAN
    /\ m_lock \in Threads \cup {None}
    /\ pc \in [Threads -> PcStates] /\ frame \in [Threads -> Frames]

\* gpu_semaphore_encrypted_payload_update(): "Decryption failure is a fatal error
\* as well as running out of try left".  Neither happens on its own: a copy that
\* passes the notifier check decrypts with the IV of its slot, which no later
\* push has overwritten, and the tries outlast the pushes that can interfere.
NoFalseTampering == ~fatal_error

\* update_completed_value_locked(): the 64-bit completed value is never ahead of
\* what the GPU has executed, although payload and notifier wrap; entries are
\* given back only for executed pushes, also by threads with an old value.  It is
\* behind by less than the ring is long, so that no update makes an "unexpected
\* large jump" and no two wraps are taken for one.
CompletedIsExecuted ==
    /\ TypeOK
    /\ retired <= completed_value
    /\ completed_value <= executed /\ executed <= queued_value
    /\ executed - completed_value < NumGpfifoEntries

\* A call that starts after a push has become visible returns a value that covers
\* the push: no early return or retry loses it.
UpdateIsFresh == \A t \in Threads : pc[t] = "retire" => frame[t].completed >= frame[t].floor

\* The semaphore implements the counter that the rest of the driver relies on.
Counter == INSTANCE CompletionCounter
               WITH queued <- queued_value, completed <- completed_value
CounterSpec == Counter!Spec

\* The GPU has stopped in the middle of publishing an encrypted copy.
StoppedPublishing == gpu_error /\ notifier % 2 = 1

\* Every update of the completed value returns, after a channel error too, unless
\* the GPU stopped with an odd notifier.
UpdateReturnsOrStopped ==
    \A t \in Threads : pc[t] # "idle" ~> (pc[t] = "idle" \/ StoppedPublishing)
=============================================================================

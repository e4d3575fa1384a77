----------------------------- MODULE UvmChannel -----------------------------
(***************************************************************************)
(* One CE channel pool of the UVM channel manager with Confidential        *)
(* Computing enabled (nvidia-uvm/uvm_channel.c): GPFIFO rings, push locks, *)
(* the push semaphore, progress tracking, control GPFIFO entries, IV       *)
(* rotation of a channel and key rotation of the pool.                     *)
(*                                                                         *)
(* Threads of the driver run uvm_push_begin()/uvm_push_end(),              *)
(* uvm_channel_write_ctrl_gpfifo(), uvm_channel_pool_rotate_key() or poll  *)
(* progress.  A step is what one thread does under one acquisition of the  *)
(* pool lock, of a tracking semaphore lock, or one semaphore/mutex call.   *)
(* The GPU consumes what the driver has submitted, at its own pace.        *)
(***************************************************************************)
EXTENDS Integers, FiniteSets

CONSTANTS
    Threads,          \* driver threads that use the pool
    NumChannels,      \* pool->num_channels
    NumGpfifoEntries, \* channel->num_gpfifo_entries, also the number of push infos
    MaxToComplete,    \* entries one uvm_channel_update_progress() call may retire
    WlcReady,         \* uvm_channel_manager_is_wlc_ready(): launch under the pool lock
    IvLimit,          \* uvm_conf_computing_channel_iv_rotation_limit
    IvMin,            \* UVM_CONF_COMPUTING_IV_REMAINING_LIMIT_MIN
    IvSpace,          \* IVs a channel has after a rotation
    GpuMayFail,       \* whether the GPU may raise a channel error
    BeginMayFail,     \* whether a begin may fail with a status that is not fatal
    Calls,            \* the entry points the threads use, a subset of Kinds
    MaxCalls,         \* bound: reservations that threads start
    MaxKeyVersion,    \* bound: key rotations of the pool
    None              \* no thread

\* uvm_channel_num_gpfifo_entries is at least 1 sentinel and 2 usable entries.
ASSUME RingAssumption == NumGpfifoEntries \in Nat /\ NumGpfifoEntries >= 3
ASSUME PoolAssumption == NumChannels \in Nat \ {0}
ASSUME ThreadAssumption == IsFiniteSet(Threads) /\ None \notin Threads
ASSUME ProgressAssumption == MaxToComplete \in Nat \ {0}
ASSUME IvAssumption == /\ IvLimit \in Nat /\ IvMin \in Nat \ {0} /\ IvSpace \in Nat
                       /\ IvMin <= IvLimit /\ IvLimit < IvSpace
ASSUME FlagAssumption == /\ WlcReady \in BOOLEAN /\ GpuMayFail \in BOOLEAN
                         /\ BeginMayFail \in BOOLEAN
ASSUME BoundAssumption == MaxCalls \in Nat /\ MaxKeyVersion \in Nat

VARIABLES
    cpu_put, gpu_get,     \* ring indexes of each channel
    gpfifo_entries,       \* the ring: type and tracking value of each entry
    current_gpfifo_count, \* entries claimed by ongoing pushes
    queued_value,         \* tracking_sem.queued_value
    completed_value,      \* tracking_sem.completed_value, the value last observed
    push_infos,           \* length of available_push_infos of each channel
    gpu_put,              \* conf_computing.gpu_put, the last put given to the GPU
    push_locks, push_sem, \* the pool's push locks and the semaphore counting them
    rotation_mutex,       \* holder of key_rotation.mutex
    rotation_slots,       \* push_sem units taken by the thread reserving all channels
    key_version,          \* key_rotation.version
    rotation_pending,     \* key rotation notifier of the pool
    iv_left,              \* IVs left in the CSL context of each channel
    fatal_error,          \* uvm_global_get_status() # NV_OK
    gpu,                  \* what the GPU did: ring index, semaphore, its key, error
    pc, call,             \* control state and call frame of each thread
    started               \* reservations started, for the bound on them

poolVars == <<push_locks, push_sem>>
ringVars == <<cpu_put, gpu_get, gpfifo_entries, current_gpfifo_count, push_infos, gpu_put>>
semVars == <<queued_value, completed_value>>
rotationVars == <<rotation_mutex, rotation_slots, key_version, rotation_pending>>
envVars == <<iv_left, fatal_error, gpu, started>>
vars == <<ringVars, semVars, poolVars, rotationVars, envVars, pc, call>>

Channels == 0 .. NumChannels - 1
Slots == 0 .. NumGpfifoEntries - 1
EntryTypes == {"NORMAL", "CONTROL"}
Entries == [type : EntryTypes, value : Nat]

\* The first channel of a pool, where the loops over its channels start.
FirstChannel == 0
NextChannel(c) == (c + 1) % NumChannels
NextSlot(i) == (i + 1) % NumGpfifoEntries

Holders == {"claim", "spin_update", "spin_pop", "spin_claim", "spin_check"}
Owners == {"claimed", "iv_update", "iv_pop", "iv_check", "iv_rotate", "write_ctrl",
           "submit_ctrl", "begin", "begun", "release"}
Rotators == {"rotate_decide", "reserve_all", "rotate_update", "rotate_pop",
             "rotate_check", "rotate_key", "release_all"}
PollStates == {"poll_pop"}
PcStates == {"idle", "rotate_lock", "down", "submit"}
              \cup Holders \cup Owners \cup Rotators \cup PollStates

\* The entry points of a thread: reserve any channel, reserve a given one, write
\* a control entry, force a key rotation, update progress.
Kinds == {"pool", "channel", "ctrl", "rotate", "poll"}

\* kind: the entry point the thread is in.  channel: the channel it reserves,
\* holds or polls; index: the channel a loop has reached; entries: GPFIFO
\* entries still claimed; written: a control entry has been written;
\* completed: the completed value read before the pool lock was taken;
\* old_cpu_put: the put index an indirect submission is about; ok: no error
\* status so far; looping: uvm_channel_wait() has got to its loop.
Frames == [kind : Kinds, channel : Channels, index : Channels, entries : 0 .. 2,
           written : BOOLEAN, completed : Nat, old_cpu_put : Slots, ok : BOOLEAN,
           looping : BOOLEAN]

NoCall == [kind |-> "poll", channel |-> FirstChannel, index |-> FirstChannel,
           entries |-> 0, written |-> FALSE, completed |-> 0, old_cpu_put |-> 0,
           ok |-> TRUE, looping |-> FALSE]

ASSUME CallsAssumption == Calls \subseteq Kinds

Init ==
    /\ cpu_put = [c \in Channels |-> 0]
    /\ gpu_get = [c \in Channels |-> 0]
    /\ gpfifo_entries = [c \in Channels |->
                            [i \in Slots |-> [type |-> "NORMAL", value |-> 0]]]
    /\ current_gpfifo_count = [c \in Channels |-> 0]
    /\ queued_value = [c \in Channels |-> 0]
    /\ completed_value = [c \in Channels |-> 0]
    /\ push_infos = [c \in Channels |-> NumGpfifoEntries]
    /\ gpu_put = [c \in Channels |-> 0]
    /\ push_locks = {}
    /\ push_sem = NumChannels
    /\ rotation_mutex = None
    /\ rotation_slots = 0
    /\ key_version = 0
    /\ rotation_pending = FALSE
    /\ iv_left = [c \in Channels |-> IvSpace]
    /\ fatal_error = FALSE
    /\ gpu = [c \in Channels |-> [get |-> 0, semaphore |-> 0, key |-> 0, error |-> FALSE]]
    /\ pc = [t \in Threads |-> "idle"]
    /\ call = [t \in Threads |-> NoCall]
    /\ started = 0

-----------------------------------------------------------------------------
(* Helpers of the ring and of the pool.                                    *)

\* Distance from one ring index to a later one.
Distance(from, to) == IF to >= from THEN to - from ELSE to + NumGpfifoEntries - from

Pending(c) == Distance(gpu_get[c], cpu_put[c])

\* Mutant: no sentinel.
AvailableWithoutSentinel(c) == NumGpfifoEntries - current_gpfifo_count[c] - Pending(c)

AvailableGpfifoEntries(c) ==
    NumGpfifoEntries - 1 - current_gpfifo_count[c] - Pending(c)

TryClaim(c, n) == AvailableGpfifoEntries(c) >= n

Goto(t, state) == pc' = [pc EXCEPT ![t] = state]

\* a call starts, with a fresh frame, or returns
NewCall(t, kind, c, n) ==
    call' = [call EXCEPT ![t] = [NoCall EXCEPT !.kind = kind, !.channel = c, !.entries = n]]

Return(t) == Goto(t, "idle") /\ call' = [call EXCEPT ![t] = NoCall]

\* claim n entries of c, lock c for push and go on with the reserved channel
ClaimAndLock(t, c, n) ==
    /\ current_gpfifo_count' = [current_gpfifo_count EXCEPT ![c] = @ + n]
    /\ push_locks' = push_locks \cup {c}
    /\ call' = [call EXCEPT ![t].channel = c]
    /\ Goto(t, "claimed")

\* Mutant: the lock bit stays set.
UnlockSemaphoreOnly(c) == push_sem' = push_sem + 1 /\ UNCHANGED push_locks

\* clear the push lock of c and give its unit of the push semaphore back
UnlockForPush(c) ==
    /\ push_locks' = push_locks \ {c}
    /\ push_sem' = push_sem + 1

\* First half of update_progress: read the tracking semaphore of c (decrypting
\* its encrypted shadow copy) before the pool lock is taken.
UpdateCompletedValue(t, c, next) ==
    /\ completed_value' = [completed_value EXCEPT ![c] = gpu[c].semaphore]
    /\ call' = [call EXCEPT ![t].completed = gpu[c].semaphore]
    /\ Goto(t, next)

\* k is the number of pending entries of c that update_progress retires: in ring
\* order, at most max, stopping at the first that is not completed.
Retires(c, k, completed, max) ==
    /\ k <= Pending(c) /\ k <= max
    /\ \A j \in 0 .. k - 1 :
          gpfifo_entries[c][(gpu_get[c] + j) % NumGpfifoEntries].value <= completed
    /\ \/ k = Pending(c)
       \/ k = max
       \/ gpfifo_entries[c][(gpu_get[c] + k) % NumGpfifoEntries].value > completed

\* The pushes among the first k pending entries of c.
Pushes(c, k) ==
    {i \in Slots : Distance(gpu_get[c], i) < k /\ gpfifo_entries[c][i].type = "NORMAL"}

\* Mutant: retired push infos are not made available.
UpdateProgressKeepsInfos(c, k, completed, max) ==
    /\ Retires(c, k, completed, max)
    /\ gpu_get' = [gpu_get EXCEPT ![c] = (@ + k) % NumGpfifoEntries]
    /\ UNCHANGED push_infos

\* Second half of update_progress, under the pool lock: retire k entries of c.
UpdateProgress(c, k, completed, max) ==
    /\ Retires(c, k, completed, max)
    /\ gpu_get' = [gpu_get EXCEPT ![c] = (@ + k) % NumGpfifoEntries]
    /\ push_infos' = [push_infos EXCEPT ![c] = @ + Cardinality(Pushes(c, k))]

\* check_errors found the error notifier of c set: retire what has completed,
\* for the report of the entry at fault, and set the global fatal error.
ReportChannelError(c) ==
    /\ gpu[c].error
    /\ \E k \in Slots : UpdateProgress(c, k, gpu[c].semaphore, NumGpfifoEntries)
    /\ completed_value' = [completed_value EXCEPT ![c] = gpu[c].semaphore]
    /\ fatal_error' = TRUE

\* uvm_channel_wait() on c has updated progress, which left entries pending unless
\* idle.  It returns at once when c is idle and has no error; otherwise it enters
\* its loop, which updates and checks until c is idle or the status an error.
WaitDone(t, c, idle) == idle /\ call[t].ok /\ (call[t].looping \/ ~gpu[c].error)

WaitGoesOn(t, c, idle, update, check, failed) ==
    \/ /\ ~call[t].looping /\ ~(idle /\ call[t].ok)
       /\ call' = [call EXCEPT ![t].looping = TRUE]
       /\ Goto(t, update) /\ UNCHANGED fatal_error
    \/ /\ ~call[t].looping /\ idle /\ call[t].ok /\ gpu[c].error
       /\ call' = [call EXCEPT ![t].ok = FALSE]
       /\ Goto(t, failed) /\ fatal_error' = TRUE
    \/ /\ call[t].looping /\ ~idle /\ call[t].ok
       /\ Goto(t, check) /\ UNCHANGED <<call, fatal_error>>
    \/ /\ call[t].looping /\ ~call[t].ok
       /\ Goto(t, failed) /\ UNCHANGED <<call, fatal_error>>

\* Put an entry at cpu_put of c and advance it, consuming one claimed entry.
AppendEntry(c, entry) ==
    /\ gpfifo_entries' = [gpfifo_entries EXCEPT ![c][cpu_put[c]] = entry]
    /\ cpu_put' = [cpu_put EXCEPT ![c] = NextSlot(@)]
    /\ current_gpfifo_count' = [current_gpfifo_count EXCEPT ![c] = @ - 1]

-----------------------------------------------------------------------------
(* Entry points.                                                           *)

\* uvm_push_begin(), uvm_push_begin_on_channel(), uvm_channel_write_ctrl_gpfifo():
\* reserve entries, of any channel of the pool or of channel c.
StartReserve(t, kind, c) ==
    /\ pc[t] = "idle" /\ kind \in Calls
    /\ started < MaxCalls
    /\ started' = started + 1
    /\ NewCall(t, kind, c, IF kind = "ctrl" THEN 2 ELSE 1)
    /\ Goto(t, "rotate_lock")
    /\ UNCHANGED <<ringVars, semVars, poolVars, rotationVars, iv_left, fatal_error, gpu>>

\* uvm_channel_pool_rotate_key(): a rotation forced by UVM.
StartRotate(t) ==
    /\ pc[t] = "idle" /\ "rotate" \in Calls
    /\ key_version < MaxKeyVersion
    /\ NewCall(t, "rotate", FirstChannel, 0)
    /\ Goto(t, "rotate_lock")
    /\ UNCHANGED <<ringVars, semVars, poolVars, rotationVars, envVars>>

\* Any other caller of uvm_channel_update_progress(): tracker waits, the
\* manager's update, a push waiting for pushbuffer space.
StartPoll(t, c) ==
    /\ pc[t] = "idle" /\ "poll" \in Calls
    /\ completed_value' = [completed_value EXCEPT ![c] = gpu[c].semaphore]
    /\ call' = [call EXCEPT ![t] = [NoCall EXCEPT !.channel = c,
                                                 !.completed = gpu[c].semaphore]]
    /\ Goto(t, "poll_pop")
    /\ UNCHANGED <<ringVars, queued_value, poolVars, rotationVars, envVars>>

Poll(t) ==
    LET c == call[t].channel IN
    /\ pc[t] = "poll_pop"
    /\ \E k \in Slots : UpdateProgress(c, k, call[t].completed, MaxToComplete)
    /\ Return(t)
    /\ UNCHANGED <<cpu_put, gpfifo_entries, current_gpfifo_count, gpu_put, semVars,
                   poolVars, rotationVars, envVars>>

-----------------------------------------------------------------------------
(* Key rotation: channel_pool_rotate_key().                                *)

RotateLock(t) ==
    /\ pc[t] = "rotate_lock"
    /\ rotation_mutex = None
    /\ rotation_mutex' = t
    /\ Goto(t, "rotate_decide")
    /\ UNCHANGED <<ringVars, semVars, poolVars, rotation_slots, key_version,
                   rotation_pending, envVars, call>>

RotateDecide(t) ==
    /\ pc[t] = "rotate_decide"
    /\ IF call[t].kind = "rotate" \/ rotation_pending
         THEN Goto(t, "reserve_all") /\ UNCHANGED rotation_mutex
         ELSE Goto(t, "down") /\ rotation_mutex' = None
    /\ UNCHANGED <<ringVars, semVars, poolVars, rotation_slots, key_version,
                   rotation_pending, envVars, call>>

\* Mutant: off by one, a channel is left unreserved.
ReserveAllButOne(t) ==
    /\ pc[t] = "reserve_all"
    /\ push_sem > 0
    /\ push_sem' = push_sem - 1
    /\ rotation_slots' = rotation_slots + 1
    /\ IF rotation_slots + 1 = NumChannels - 1
         THEN /\ Goto(t, "rotate_update")
              /\ call' = [call EXCEPT ![t].index = FirstChannel, ![t].ok = ~fatal_error,
                                      ![t].looping = FALSE]
         ELSE UNCHANGED <<pc, call>>
    /\ UNCHANGED <<ringVars, semVars, push_locks, rotation_mutex, key_version,
                   rotation_pending, envVars>>

\* One uvm_down() of channel_pool_reserve_all_channels().
ReserveAll(t) ==
    /\ pc[t] = "reserve_all"
    /\ push_sem > 0
    /\ push_sem' = push_sem - 1
    /\ rotation_slots' = rotation_slots + 1
    /\ IF rotation_slots + 1 = NumChannels
         THEN /\ Goto(t, "rotate_update")
              /\ call' = [call EXCEPT ![t].index = FirstChannel, ![t].ok = ~fatal_error,
                                      ![t].looping = FALSE]
         ELSE UNCHANGED <<pc, call>>
    /\ UNCHANGED <<ringVars, semVars, push_locks, rotation_mutex, key_version,
                   rotation_pending, envVars>>

\* uvm_channel_wait() on each channel in turn.
RotateUpdate(t) ==
    /\ pc[t] = "rotate_update"
    /\ UpdateCompletedValue(t, call[t].index, "rotate_pop")
    /\ UNCHANGED <<ringVars, queued_value, poolVars, rotationVars, envVars>>

\* Mutant: the wait returns with entries pending.
RotatePopNoWait(t) ==
    LET c == call[t].index IN
    /\ pc[t] = "rotate_pop"
    /\ \E k \in Slots :
          /\ UpdateProgress(c, k, call[t].completed, MaxToComplete)
          /\ \/ WaitGoesOn(t, c, TRUE, "rotate_update", "rotate_check", "release_all")
             \/ /\ WaitDone(t, c, TRUE) /\ c # NumChannels - 1
                /\ call' = [call EXCEPT ![t].index = c + 1, ![t].ok = ~fatal_error,
                                        ![t].looping = FALSE]
                /\ Goto(t, "rotate_update") /\ UNCHANGED fatal_error
             \/ /\ WaitDone(t, c, TRUE) /\ c = NumChannels - 1
                /\ Goto(t, "rotate_key") /\ UNCHANGED <<call, fatal_error>>
    /\ UNCHANGED <<cpu_put, gpfifo_entries, current_gpfifo_count, gpu_put, semVars,
                   poolVars, rotationVars, iv_left, gpu, started>>

RotatePop(t) ==
    LET c == call[t].index IN
    /\ pc[t] = "rotate_pop"
    /\ \E k \in Slots :
          /\ UpdateProgress(c, k, call[t].completed, MaxToComplete)
          /\ \/ WaitGoesOn(t, c, k = Pending(c), "rotate_update", "rotate_check", "release_all")
             \/ /\ WaitDone(t, c, k = Pending(c)) /\ c # NumChannels - 1
                /\ call' = [call EXCEPT ![t].index = c + 1, ![t].ok = ~fatal_error,
                                        ![t].looping = FALSE]
                /\ Goto(t, "rotate_update") /\ UNCHANGED fatal_error
             \/ /\ WaitDone(t, c, k = Pending(c)) /\ c = NumChannels - 1
                /\ Goto(t, "rotate_key") /\ UNCHANGED <<call, fatal_error>>
    /\ UNCHANGED <<cpu_put, gpfifo_entries, current_gpfifo_count, gpu_put, semVars,
                   poolVars, rotationVars, iv_left, gpu, started>>

RotateCheck(t) ==
    LET c == call[t].index IN
    /\ pc[t] = "rotate_check"
    /\ Goto(t, "rotate_update")
    /\ \/ /\ ~fatal_error
          /\ ReportChannelError(c)
          /\ call' = [call EXCEPT ![t].ok = FALSE]
       \/ /\ fatal_error \/ ~gpu[c].error
          /\ call' = [call EXCEPT ![t].ok = ~fatal_error]
          /\ UNCHANGED <<gpu_get, push_infos, completed_value, fatal_error>>
    /\ UNCHANGED <<cpu_put, gpfifo_entries, current_gpfifo_count, gpu_put, queued_value,
                   poolVars, rotationVars, iv_left, gpu, started>>

\* uvm_conf_computing_rotate_pool_key(): RM rotates the keys of the pool, is
\* not able to (NV_ERR_STATE_IN_USE, not an error when rotation was pending),
\* or fails.
RotateKey(t) ==
    /\ pc[t] = "rotate_key"
    /\ Goto(t, "release_all")
    /\ \/ /\ key_version < MaxKeyVersion
          /\ key_version' = key_version + 1
          /\ rotation_pending' = FALSE
          /\ UNCHANGED call
       \/ UNCHANGED <<key_version, rotation_pending, call>>
       \/ /\ call' = [call EXCEPT ![t].ok = FALSE]
          /\ UNCHANGED <<key_version, rotation_pending>>
    /\ UNCHANGED <<ringVars, semVars, poolVars, rotation_mutex, rotation_slots, envVars>>

\* One uvm_up() of channel_pool_release_all_channels(); after the last, the
\* mutex is released and the reservation goes on unless rotation failed.
ReleaseAll(t) ==
    /\ pc[t] = "release_all"
    /\ IF rotation_slots > 0
         THEN /\ push_sem' = push_sem + 1
              /\ rotation_slots' = rotation_slots - 1
              /\ UNCHANGED <<pc, call, rotation_mutex>>
         ELSE /\ rotation_mutex' = None
              /\ IF call[t].kind # "rotate" /\ call[t].ok
                   THEN Goto(t, "down") /\ UNCHANGED call
                   ELSE Return(t)
              /\ UNCHANGED <<push_sem, rotation_slots>>
    /\ UNCHANGED <<ringVars, semVars, push_locks, key_version, rotation_pending,
                   envVars>>

-----------------------------------------------------------------------------
(* Reservation: channel_reserve_and_lock_in_pool(), channel_reserve_and_lock(). *)

Down(t) ==
    /\ pc[t] = "down"
    /\ push_sem > 0
    /\ push_sem' = push_sem - 1
    /\ Goto(t, "claim")
    /\ UNCHANGED <<ringVars, semVars, push_locks, rotationVars, envVars, call>>

\* The channels a thread may claim at once.
Claimable(t) ==
    {c \in Channels \ push_locks :
        /\ call[t].kind = "pool" \/ c = call[t].channel
        /\ TryClaim(c, call[t].entries)}

\* First attempt: the first unlocked channel of the pool with a free entry, or
\* the given channel.
Claim(t) ==
    /\ pc[t] = "claim"
    /\ \/ \E c \in Claimable(t) :
             /\ \A d \in Claimable(t) : c <= d
             /\ ClaimAndLock(t, c, call[t].entries)
       \/ /\ Claimable(t) = {}
          /\ call' = [call EXCEPT ![t].index = IF call[t].kind = "pool"
                                                 THEN FirstChannel ELSE call[t].channel]
          /\ Goto(t, "spin_update")
          /\ UNCHANGED <<current_gpfifo_count, push_locks>>
    /\ UNCHANGED <<cpu_put, gpu_get, gpfifo_entries, push_infos, gpu_put, semVars,
                   push_sem, rotationVars, envVars>>

SpinUpdate(t) ==
    /\ pc[t] = "spin_update"
    /\ UpdateCompletedValue(t, call[t].index, "spin_pop")
    /\ UNCHANGED <<ringVars, queued_value, poolVars, rotationVars, envVars>>

SpinPop(t) ==
    /\ pc[t] = "spin_pop"
    /\ \E k \in Slots : UpdateProgress(call[t].index, k, call[t].completed, MaxToComplete)
    /\ Goto(t, "spin_claim")
    /\ UNCHANGED <<cpu_put, gpfifo_entries, current_gpfifo_count, gpu_put, semVars,
                   poolVars, rotationVars, envVars, call>>

SpinClaim(t) ==
    LET c == call[t].index IN
    /\ pc[t] = "spin_claim"
    /\ IF c \notin push_locks /\ TryClaim(c, call[t].entries)
         THEN ClaimAndLock(t, c, call[t].entries)
         ELSE Goto(t, "spin_check") /\ UNCHANGED <<current_gpfifo_count, push_locks, call>>
    /\ UNCHANGED <<cpu_put, gpu_get, gpfifo_entries, push_infos, gpu_put, semVars,
                   push_sem, rotationVars, envVars>>

\* Mutant: the error path keeps the push_sem unit.
SpinCheckNoUp(t) ==
    LET c == call[t].index IN
    /\ pc[t] = "spin_check"
    /\ \/ /\ ReportChannelError(c)
          /\ UNCHANGED push_sem
          /\ Return(t)
       \/ /\ ~gpu[c].error
          /\ call' = [call EXCEPT ![t].index = IF call[t].kind = "pool"
                                                 THEN NextChannel(c) ELSE c]
          /\ Goto(t, "spin_update")
          /\ UNCHANGED <<gpu_get, push_infos, completed_value, fatal_error, push_sem>>
    /\ UNCHANGED <<cpu_put, gpfifo_entries, current_gpfifo_count, gpu_put, queued_value,
                   push_locks, rotationVars, iv_left, gpu, started>>

SpinCheck(t) ==
    LET c == call[t].index IN
    /\ pc[t] = "spin_check"
    /\ \/ /\ ReportChannelError(c)
          /\ push_sem' = push_sem + 1
          /\ Return(t)
       \/ /\ ~gpu[c].error
          /\ call' = [call EXCEPT ![t].index = IF call[t].kind = "pool"
                                                 THEN NextChannel(c) ELSE c]
          /\ Goto(t, "spin_update")
          /\ UNCHANGED <<gpu_get, push_infos, completed_value, fatal_error, push_sem>>
    /\ UNCHANGED <<cpu_put, gpfifo_entries, current_gpfifo_count, gpu_put, queued_value,
                   push_locks, rotationVars, iv_left, gpu, started>>

-----------------------------------------------------------------------------
(* IV rotation of the locked channel, before a control entry is written and *)
(* before a push begins.                                                    *)

BeforeCtrl(t) == call[t].kind = "ctrl" /\ ~call[t].written

\* What follows an IV check that succeeds.
AfterIvs(t) == IF BeforeCtrl(t) THEN "write_ctrl" ELSE "begin"

CheckIvs(t) ==
    LET c == call[t].channel IN
    /\ pc[t] = "claimed"
    /\ IF iv_left[c] <= IvLimit
         THEN /\ call' = [call EXCEPT ![t].ok = ~fatal_error, ![t].looping = FALSE]
              /\ Goto(t, "iv_update")
         ELSE Goto(t, AfterIvs(t)) /\ UNCHANGED call
    /\ UNCHANGED <<ringVars, semVars, poolVars, rotationVars, envVars>>

\* uvm_channel_wait() on the locked channel.
IvUpdate(t) ==
    /\ pc[t] = "iv_update"
    /\ UpdateCompletedValue(t, call[t].channel, "iv_pop")
    /\ UNCHANGED <<ringVars, queued_value, poolVars, rotationVars, envVars>>

IvPop(t) ==
    LET c == call[t].channel IN
    /\ pc[t] = "iv_pop"
    /\ \E k \in Slots :
          /\ UpdateProgress(c, k, call[t].completed, MaxToComplete)
          /\ \/ WaitGoesOn(t, c, k = Pending(c), "iv_update", "iv_check", "release")
             \/ /\ WaitDone(t, c, k = Pending(c))
                /\ Goto(t, "iv_rotate") /\ UNCHANGED <<call, fatal_error>>
    /\ UNCHANGED <<cpu_put, gpfifo_entries, current_gpfifo_count, gpu_put, semVars,
                   poolVars, rotationVars, iv_left, gpu, started>>

IvCheck(t) ==
    LET c == call[t].channel IN
    /\ pc[t] = "iv_check"
    /\ Goto(t, "iv_update")
    /\ \/ /\ ~fatal_error
          /\ ReportChannelError(c)
          /\ call' = [call EXCEPT ![t].ok = FALSE]
       \/ /\ fatal_error \/ ~gpu[c].error
          /\ call' = [call EXCEPT ![t].ok = ~fatal_error]
          /\ UNCHANGED <<gpu_get, push_infos, completed_value, fatal_error>>
    /\ UNCHANGED <<cpu_put, gpfifo_entries, current_gpfifo_count, gpu_put, queued_value,
                   poolVars, rotationVars, iv_left, gpu, started>>

\* RM rotates the IVs of the channel.
IvRotate(t) ==
    LET c == call[t].channel IN
    /\ pc[t] = "iv_rotate"
    /\ iv_left' = [iv_left EXCEPT ![c] = IvSpace]
    /\ Goto(t, AfterIvs(t))
    /\ UNCHANGED <<ringVars, semVars, poolVars, rotationVars, fatal_error, gpu, started,
                   call>>

\* Mutant: busy is hidden whatever is left.
IvRefuseNoMin(t) ==
    LET left == iv_left[call[t].channel] IN
    /\ pc[t] = "iv_rotate"
    /\ \/ FALSE /\ Goto(t, "release")
       \/ Goto(t, IF BeforeCtrl(t) THEN "claimed" ELSE "begin")
       \/ BeginMayFail /\ Goto(t, "release")
    /\ UNCHANGED <<ringVars, semVars, poolVars, rotationVars, envVars, call>>

\* RM is busy: an error when too few IVs are left, retried before a control
\* entry, hidden before a push.  Any other status of RM is an error.
IvRefuse(t) ==
    LET left == iv_left[call[t].channel] IN
    /\ pc[t] = "iv_rotate"
    /\ \/ left < IvMin /\ Goto(t, "release")
       \/ left >= IvMin /\ Goto(t, IF BeforeCtrl(t) THEN "claimed" ELSE "begin")
       \/ BeginMayFail /\ Goto(t, "release")
    /\ UNCHANGED <<ringVars, semVars, poolVars, rotationVars, envVars, call>>

-----------------------------------------------------------------------------
(* Pushes and control entries on the locked channel.                       *)

\* Mutant: the entry counts as completed with the previous push.
WriteCtrlLastValue(t) ==
    LET c == call[t].channel IN
    /\ pc[t] = "write_ctrl"
    /\ AppendEntry(c, [type |-> "CONTROL", value |-> queued_value[c]])
    /\ call' = [call EXCEPT ![t].entries = @ - 1, ![t].old_cpu_put = cpu_put[c]]
    /\ Goto(t, "submit_ctrl")
    /\ UNCHANGED <<gpu_get, push_infos, gpu_put, semVars, poolVars, rotationVars, envVars>>

\* Mutant: the entry takes a value of its own.
WriteCtrlOwnValue(t) ==
    LET c == call[t].channel IN
    /\ pc[t] = "write_ctrl"
    /\ AppendEntry(c, [type |-> "CONTROL", value |-> queued_value[c] + 1])
    /\ queued_value' = [queued_value EXCEPT ![c] = @ + 1]
    /\ call' = [call EXCEPT ![t].entries = @ - 1, ![t].old_cpu_put = cpu_put[c]]
    /\ Goto(t, "submit_ctrl")
    /\ UNCHANGED <<gpu_get, push_infos, gpu_put, completed_value, poolVars, rotationVars,
                   envVars>>

\* write_ctrl_gpfifo(): the entry counts as completed with the next push.
WriteCtrl(t) ==
    LET c == call[t].channel IN
    /\ pc[t] = "write_ctrl"
    /\ AppendEntry(c, [type |-> "CONTROL", value |-> queued_value[c] + 1])
    /\ call' = [call EXCEPT ![t].entries = @ - 1, ![t].old_cpu_put = cpu_put[c]]
    /\ Goto(t, "submit_ctrl")
    /\ UNCHANGED <<gpu_get, push_infos, gpu_put, semVars, poolVars, rotationVars, envVars>>

\* submit_ctrl_gpfifo_indirect(), after the pool lock is released.
SubmitCtrl(t) ==
    LET c == call[t].channel IN
    /\ pc[t] = "submit_ctrl"
    /\ gpu_put[c] = call[t].old_cpu_put
    /\ gpu_put' = [gpu_put EXCEPT ![c] = NextSlot(call[t].old_cpu_put)]
    /\ call' = [call EXCEPT ![t].written = TRUE]
    /\ Goto(t, "claimed")
    /\ UNCHANGED <<cpu_put, gpu_get, gpfifo_entries, current_gpfifo_count, push_infos,
                   semVars, poolVars, rotationVars, envVars>>

\* The rest of uvm_channel_begin_push(): launch channel, pushbuffer space and
\* push info.  It fails when a channel error is found while waiting, or with a
\* status of the launch channel's own rotations.
BeginPush(t) ==
    LET c == call[t].channel IN
    /\ pc[t] = "begin"
    /\ \/ /\ push_infos' = [push_infos EXCEPT ![c] = @ - 1]
          /\ Goto(t, "begun")
       \/ /\ BeginMayFail \/ fatal_error
          /\ Goto(t, "release")
          /\ UNCHANGED push_infos
    /\ UNCHANGED <<cpu_put, gpu_get, gpfifo_entries, current_gpfifo_count, gpu_put,
                   semVars, poolVars, rotationVars, envVars, call>>

\* uvm_channel_end_push(): one critical section of the pool lock.  The launch
\* through a ready WLC channel is part of it; one through SEC2 comes after it.
EndPush(t) ==
    LET c == call[t].channel
        value == queued_value[c] + 1
    IN
    /\ pc[t] = "begun"
    /\ queued_value' = [queued_value EXCEPT ![c] = value]
    /\ iv_left' = [iv_left EXCEPT ![c] = @ - 1]
    /\ AppendEntry(c, [type |-> "NORMAL", value |-> value])
    /\ IF WlcReady
         THEN /\ gpu_put' = [gpu_put EXCEPT ![c] = NextSlot(cpu_put[c])]
              /\ Return(t)
         ELSE /\ call' = [call EXCEPT ![t].entries = 0, ![t].old_cpu_put = cpu_put[c]]
              /\ Goto(t, "submit")
              /\ UNCHANGED gpu_put
    /\ UnlockForPush(c)
    /\ UNCHANGED <<gpu_get, push_infos, completed_value, rotationVars, fatal_error, gpu,
                   started>>

\* Mutant: submit without waiting for earlier pushes.
SubmitAtOnce(t) ==
    LET c == call[t].channel IN
    /\ pc[t] = "submit"
    /\ gpu_put' = [gpu_put EXCEPT ![c] = NextSlot(call[t].old_cpu_put)]
    /\ Return(t)
    /\ UNCHANGED <<cpu_put, gpu_get, gpfifo_entries, current_gpfifo_count, push_infos,
                   semVars, poolVars, rotationVars, envVars>>

\* internal_channel_submit_work_indirect_sec2(): wait for the turn of this push.
Submit(t) ==
    LET c == call[t].channel IN
    /\ pc[t] = "submit"
    /\ gpu_put[c] = call[t].old_cpu_put
    /\ gpu_put' = [gpu_put EXCEPT ![c] = NextSlot(call[t].old_cpu_put)]
    /\ Return(t)
    /\ UNCHANGED <<cpu_put, gpu_get, gpfifo_entries, current_gpfifo_count, push_infos,
                   semVars, poolVars, rotationVars, envVars>>

\* Mutant: one entry is released whatever was reserved.
ReleaseOne(t) ==
    LET c == call[t].channel IN
    /\ pc[t] = "release"
    /\ UnlockForPush(c)
    /\ current_gpfifo_count' = [current_gpfifo_count EXCEPT ![c] = @ - 1]
    /\ Return(t)
    /\ UNCHANGED <<cpu_put, gpu_get, gpfifo_entries, push_infos, gpu_put, semVars,
                   rotationVars, envVars>>

\* uvm_channel_release() on a failed begin.
Release(t) ==
    LET c == call[t].channel IN
    /\ pc[t] = "release"
    /\ UnlockForPush(c)
    /\ current_gpfifo_count' = [current_gpfifo_count EXCEPT ![c] = @ - call[t].entries]
    /\ Return(t)
    /\ UNCHANGED <<cpu_put, gpu_get, gpfifo_entries, push_infos, gpu_put, semVars,
                   rotationVars, envVars>>

-----------------------------------------------------------------------------
(* The GPU and RM.                                                         *)

\* The GPU processes the next submitted entry.  A push releases the tracking
\* semaphore and encrypts its new value with the current key of the pool.
GpuExecute(c) ==
    LET entry == gpfifo_entries[c][gpu[c].get] IN
    /\ ~gpu[c].error
    /\ gpu[c].get # gpu_put[c]
    /\ gpu' = IF entry.type = "NORMAL"
                THEN [gpu EXCEPT ![c].get = NextSlot(@), ![c].semaphore = entry.value,
                                 ![c].key = key_version]
                ELSE [gpu EXCEPT ![c].get = NextSlot(@)]
    /\ UNCHANGED <<ringVars, semVars, poolVars, rotationVars, iv_left, fatal_error, started,
                   pc, call>>

\* The error notifier of a channel is set, with or without work in the channel,
\* and the GPU stops processing it.
GpuFault(c) ==
    /\ GpuMayFail
    /\ ~gpu[c].error
    /\ gpu' = [gpu EXCEPT ![c].error = TRUE]
    /\ UNCHANGED <<ringVars, semVars, poolVars, rotationVars, iv_left, fatal_error, started,
                   pc, call>>

\* RM asks for a key rotation of the pool's engine.
RequestRotation ==
    /\ key_version < MaxKeyVersion
    /\ ~rotation_pending
    /\ rotation_pending' = TRUE
    /\ UNCHANGED <<ringVars, semVars, poolVars, rotation_mutex, rotation_slots,
                   key_version, envVars, pc, call>>

-----------------------------------------------------------------------------
Reserve(t) ==
    \/ StartReserve(t, "pool", FirstChannel)
    \/ \E c \in Channels : StartReserve(t, "channel", c) \/ StartReserve(t, "ctrl", c)

\* A thread goes on with the call it is in.
Step(t) ==
    \/ Poll(t)
    \/ RotateLock(t) \/ RotateDecide(t) \/ ReserveAll(t) \/ RotateUpdate(t)
    \/ RotatePop(t) \/ RotateCheck(t) \/ RotateKey(t) \/ ReleaseAll(t)
    \/ Down(t) \/ Claim(t) \/ SpinUpdate(t) \/ SpinPop(t) \/ SpinClaim(t) \/ SpinCheck(t)
    \/ CheckIvs(t) \/ IvUpdate(t) \/ IvPop(t) \/ IvCheck(t) \/ IvRotate(t)
    \/ IvRefuse(t)
    \/ WriteCtrl(t) \/ SubmitCtrl(t) \/ BeginPush(t) \/ EndPush(t) \/ Submit(t)
    \/ Release(t)

Next ==
    \/ \E t \in Threads : Reserve(t) \/ Step(t) \/ StartRotate(t)
    \/ \E t \in Threads, c \in Channels : StartPoll(t, c)
    \/ \E c \in Channels : GpuExecute(c) \/ GpuFault(c)
    \/ RequestRotation

Spec == Init /\ [][Next]_vars

\* A thread keeps running: strong fairness, for the push semaphore and the
\* rotation mutex, which serve their waiters in FIFO order.  RM is not busy for
\* ever with the IVs of one channel, and the GPU processes what it is given.
Fairness ==
    /\ \A t \in Threads :
          SF_vars(Step(t)) /\ SF_vars(IvRotate(t))
    /\ \A c \in Channels : WF_vars(GpuExecute(c))

FairSpec == Spec /\ Fairness

-----------------------------------------------------------------------------
(* Properties.                                                             *)

\* Types of the variables.
RingType ==
    /\ cpu_put \in [Channels -> Slots] /\ gpu_get \in [Channels -> Slots]
    /\ gpu_put \in [Channels -> Slots]
    /\ gpfifo_entries \in [Channels -> [Slots -> Entries]]
    /\ current_gpfifo_count \in [Channels -> Int]
    /\ push_infos \in [Channels -> Int]

PoolType ==
    /\ queued_value \in [Channels -> Nat] /\ completed_value \in [Channels -> Nat]
    /\ push_locks \subseteq Channels /\ push_sem \in Nat
    /\ rotation_mutex \in Threads \cup {None} /\ rotation_slots \in Nat
    /\ key_version \in Nat /\ rotation_pending \in BOOLEAN

EnvType ==
    /\ iv_left \in [Channels -> Int] /\ fatal_error \in BOOLEAN
    /\ gpu \in [Channels -> [get : Slots, semaphore : Nat, key : Nat, error : BOOLEAN]]

ThreadType ==
    /\ pc \in [Threads -> PcStates] /\ call \in [Threads -> Frames]
    /\ started \in Nat

TypeOK == RingType /\ PoolType /\ EnvType /\ ThreadType

Owns(t, c) == pc[t] \in Owners /\ call[t].channel = c

\* uvm_channel_reserve()..end_push(): a channel is locked for push exactly while
\* one thread owns it, and its current_gpfifo_count is what that thread still has
\* claimed; no claim is lost or leaked by a failed begin, a control entry or a
\* concurrent reservation.
ClaimsAccounted ==
    /\ TypeOK
    /\ \A c \in Channels :
        \/ /\ c \notin push_locks /\ current_gpfifo_count[c] = 0
           /\ \A t \in Threads : ~Owns(t, c)
        \/ /\ c \in push_locks
           /\ \E t \in Threads :
                 /\ Owns(t, c) /\ current_gpfifo_count[c] = call[t].entries
                 /\ \A u \in Threads \ {t} : ~Owns(u, c)

\* channel_get_available_gpfifo_entries(): pending and claimed entries leave the
\* sentinel free, so cpu_put never catches up with gpu_get and no entry that is
\* still pending is overwritten.
RingSafe ==
    \A c \in Channels : /\ current_gpfifo_count[c] >= 0
                        /\ Pending(c) + current_gpfifo_count[c] <= NumGpfifoEntries - 1

\* uvm_channel_update_progress_with_max(): only entries the GPU has processed are
\* retired, control entries included, although they release no semaphore.
RetiredAfterExecution ==
    \A c \in Channels : Distance(gpu_get[c], gpu[c].get) <= Pending(c)

\* Indirect submissions reach the GPU in the order of the ring, and a launch
\* through WLC finds gpu_put at the entry it adds (the assertion of
\* internal_channel_submit_work_indirect_wlc()).
LaunchInOrder ==
    /\ \A c \in Channels :
          Distance(gpu[c].get, gpu_put[c]) <= Distance(gpu[c].get, cpu_put[c])
    /\ \A t \in Threads : pc[t] = "begun" /\ WlcReady =>
                             gpu_put[call[t].channel] = cpu_put[call[t].channel]

\* channel_get_available_push_info_index(): a push that begins on a reserved
\* channel always finds a push info, and none is lost: each one is available, in
\* a push being built or in a pending push.
PushInfosAccounted ==
    \A c \in Channels :
        /\ push_infos[c] >= 0
        /\ push_infos[c] + Cardinality(Pushes(c, Pending(c)))
             + Cardinality({t \in Threads : pc[t] = "begun" /\ call[t].channel = c})
           = NumGpfifoEntries

\* channel_reserve_and_lock_in_pool(), "At least one channel is unlocked": a
\* thread that has taken a unit of push_sem and holds no channel can find one.
UnlockedChannelLeft ==
    (\E t \in Threads : pc[t] \in Holders) => push_locks # Channels

\* channel_pool_rotate_key_locked(): the key changes only while no channel of the
\* pool is locked for push and no entry is pending.
RotationQuiescent ==
    [][key_version' # key_version =>
          /\ push_locks = {}
          /\ \A c \in Channels : Pending(c) = 0 /\ gpu[c].get = cpu_put[c]]_vars

\* gpu_semaphore_encrypted_payload_update(), "CPU decryption is guaranteed to use
\* the same key version as the associated GPU encryption": a semaphore value not
\* yet observed by the CPU was encrypted with the key the CPU will decrypt with.
KeyVersionMatches ==
    \A c \in Channels : completed_value[c] # gpu[c].semaphore => gpu[c].key = key_version

\* uvm_conf_computing_log_gpu_encryption(), "IV rotation is done preemptively":
\* the IVs of a channel never run out.
IvNeverExhausted == \A c \in Channels : iv_left[c] >= 0

\* The last entry of c is a control entry, and no thread is about to push after
\* it: the push that should release its tracking value did not begin.
Stranded(c) ==
    /\ Pending(c) > 0
    /\ \E i \in Slots : NextSlot(i) = cpu_put[c] /\ gpfifo_entries[c][i].type = "CONTROL"
    /\ ~\E t \in Threads : Owns(t, c) /\ call[t].kind = "ctrl" /\ call[t].entries = 1

\* Every call returns: a reservation, a push, a control entry and a key rotation
\* all end, whether the GPU progresses or a channel error is raised, and although
\* begins fail.  The exception is a control entry that stays without the push to
\* complete it (uvm_channel_write_ctrl_gpfifo(), "Failed to begin push") and without
\* a later push of somebody else: see StrandedWaitStays.
CallsReturn ==
    (\A c \in Channels : []<>(fatal_error \/ ~Stranded(c)))
      => \A t \in Threads : pc[t] # "idle" ~> pc[t] = "idle"

\* t is in uvm_channel_wait() on c, for a rotation of the key or of the IVs.
WaitsFor(t, c) ==
    \/ pc[t] \in {"rotate_update", "rotate_pop", "rotate_check"} /\ call[t].index = c
    \/ pc[t] \in {"iv_update", "iv_pop", "iv_check"} /\ call[t].channel = c

\* channel_pool_rotate_key_locked() and the rotation of IVs: a wait that meets a
\* stranded control entry cannot end by itself.  The units of push_sem, or the lock
\* of the channel, that the waiting thread holds keep everybody else from the push
\* that would complete the entry; only a channel error ends the wait, never with NV_OK.
StrandedWaitStays ==
    [][\A t \in Threads, c \in Channels :
          Stranded(c) /\ WaitsFor(t, c) => (Stranded(c) /\ WaitsFor(t, c))' \/ fatal_error']_vars

\* Each channel's tracking semaphore is the counter of CompletionCounter: pushes
\* complete in the order they were queued, whatever entries are between them, and
\* the completed value never runs ahead of the GPU.
Counter(c) == INSTANCE CompletionCounter
                  WITH queued <- queued_value[c], executed <- gpu[c].semaphore,
                       completed <- completed_value[c]
CountersImplemented ==
    /\ \A c \in Channels : Counter(c)!Init
    /\ [][\A c \in Channels : [Counter(c)!Next]_(Counter(c)!vars)]_vars
=============================================================================

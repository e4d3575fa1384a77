------------------------------ MODULE UvmLaunch ------------------------------
(***************************************************************************)
(* Indirect work launch of Confidential Computing through pairs of WLC and *)
(* LCIC channels (nvidia-uvm/uvm_channel.c).  The end of a push on a CE    *)
(* channel is itself a push on a WLC channel that it has reserved.  A WLC  *)
(* channel repeats a fixed schedule (decrypt the run push from static      *)
(* memory, execute it) and its LCIC channel re-primes it and reports, with *)
(* a semaphore of its own, that the pair may be used again.  WLC and LCIC  *)
(* share a key, which is rotated when RM asks for it.                      *)
(*                                                                         *)
(* A step of a thread is what it does between two lock, semaphore or spin  *)
(* points; reading and decrypting a tracking semaphore is one step, as     *)
(* UvmTrackingSemaphore justifies.  Reserving all WLC channels is one step *)
(* and IV rotation is left out but for its failure: UvmChannel has both in *)
(* detail.                                                                 *)
(***************************************************************************)
EXTENDS Integers, FiniteSets

CONSTANTS
    Threads,       \* driver threads that launch work
    Pairs,         \* WLC channels, each with its LCIC channel
    MaxJobs,       \* bound: launches
    MaxKeyVersion, \* bound: key rotations
    None           \* no thread, no pair

ASSUME ThreadAssumption == None \notin Threads
ASSUME PairAssumption == IsFiniteSet(Pairs) /\ Pairs # {} /\ None \notin Pairs
ASSUME BoundAssumption == MaxJobs \in Nat /\ MaxKeyVersion \in Nat

VARIABLES
    owner,         \* the thread that has reserved the WLC channel of a pair
    pending,       \* the one usable GPFIFO entry of the WLC channel is pending
    push_sem,      \* push semaphore of the WLC pool
    pool_lock,     \* holder of the lock of the WLC pool
    rotation_mutex,   \* holder of key_rotation.mutex of the WLC pool
    key_version,      \* key_rotation.version
    rotation_pending, \* key rotation notifier
    wlc, lcic,     \* tracking semaphores of each pair's channels
    launch_tag,    \* static sysmem: tag of the launched push
    static_pb,     \* static sysmem: the encrypted run push and its tag
    doorbell,      \* the CPU has rung the doorbell of the WLC channel
    gpu,           \* per pair: phase of the schedule, entries up to PUT, run push
    launched,      \* how often each job has been started on its own channel
    fatal_error,   \* uvm_global_set_fatal_error() was called
    jobs,          \* launches begun
    pc, call       \* control state and locals of each thread

poolVars == <<owner, pending, push_sem, pool_lock>>
rotationVars == <<rotation_mutex, key_version, rotation_pending>>
staticVars == <<launch_tag, static_pb, doorbell>>
gpuVars == <<gpu, launched>>
vars == <<poolVars, rotationVars, wlc, lcic, staticVars, gpuVars, fatal_error, jobs,
          pc, call>>

Jobs == 1 .. MaxJobs

\* queued: queued_value; completed: completed_value; published: the value in the
\* encrypted copy, and key: the key version it was encrypted with.
Semaphores == [queued : Nat, completed : Nat, published : Nat, key : Nat]
NewSemaphore == [queued |-> 0, completed |-> 0, published |-> 0, key |-> 0]

\* What the CPU encrypts for a job, with a version of the key; value: the tracking
\* value that the run push releases.
Encrypted == [job : 0 .. MaxJobs, value : Nat, key : Nat]
NoPush == [job |-> 0, value |-> 0, key |-> 0]

Phases == {"idle", "run", "release", "prime", "publish"}

\* force: a rotation at UVM's will; value: the tracking value to wait for.
Calls == [pair : Pairs \cup {None}, job : 0 .. MaxJobs, force : BOOLEAN, value : Nat]
NoCall == [pair |-> None, job |-> 0, force |-> FALSE, value |-> 0]

PcStates == {"idle", "rotate_lock", "rotate_reserve", "rotate_wait", "rotate_key",
             "reserve", "claim", "launch", "end_push", "wait_lcic", "submit", "wait"}

Init ==
    /\ owner = [p \in Pairs |-> None]
    /\ pending = [p \in Pairs |-> FALSE]
    /\ pool_lock = None
    /\ push_sem = Cardinality(Pairs)
    /\ rotation_mutex = None /\ key_version = 0 /\ rotation_pending = FALSE
    /\ wlc = [p \in Pairs |-> NewSemaphore]
    /\ lcic = [p \in Pairs |-> NewSemaphore]
    /\ launch_tag = [p \in Pairs |-> NoPush]
    /\ static_pb = [p \in Pairs |-> NoPush]
    /\ doorbell = [p \in Pairs |-> FALSE]
    /\ gpu = [p \in Pairs |-> [phase |-> "idle", primed |-> 2, run_pb |-> NoPush]]
    /\ launched = [j \in Jobs |-> 0]
    /\ fatal_error = FALSE
    /\ jobs = 0
    /\ pc = [t \in Threads |-> "idle"]
    /\ call = [t \in Threads |-> NoCall]

Goto(t, state) == pc' = [pc EXCEPT ![t] = state]

Return(t) == Goto(t, "idle") /\ call' = [call EXCEPT ![t] = NoCall]

\* The copy of a semaphore can be decrypted: there is nothing new in it, or it was
\* encrypted with the key version the CPU now uses.
Decrypts(s) == s.published = s.completed \/ s.key = key_version

Observed(s) == [s EXCEPT !.completed = s.published]

-----------------------------------------------------------------------------
(* Key rotation of the WLC pool.                                           *)

\* uvm_channel_pool_rotate_key().
StartRotate(t) ==
    /\ pc[t] = "idle"
    /\ key_version < MaxKeyVersion
    /\ call' = [call EXCEPT ![t].force = TRUE]
    /\ Goto(t, "rotate_lock")
    /\ UNCHANGED <<poolVars, rotationVars, wlc, lcic, staticVars, gpuVars, fatal_error, jobs>>

\* The reservation for the launch of a job: channel_pool_rotate_key_if_pending()
\* comes first.
StartLaunch(t) ==
    /\ pc[t] = "idle"
    /\ jobs < MaxJobs
    /\ jobs' = jobs + 1
    /\ call' = [call EXCEPT ![t].job = jobs + 1]
    /\ Goto(t, "rotate_lock")
    /\ UNCHANGED <<poolVars, rotationVars, wlc, lcic, staticVars, gpuVars, fatal_error>>

\* Where a thread goes on if the rotation has not failed.
AfterRotation(t) ==
    IF call[t].force THEN Return(t) ELSE Goto(t, "reserve") /\ UNCHANGED call

RotateLock(t) ==
    /\ pc[t] = "rotate_lock"
    /\ rotation_mutex = None
    /\ IF call[t].force \/ rotation_pending
         THEN rotation_mutex' = t /\ Goto(t, "rotate_reserve") /\ UNCHANGED call
         ELSE AfterRotation(t) /\ UNCHANGED rotation_mutex
    /\ UNCHANGED <<poolVars, key_version, rotation_pending, wlc, lcic, staticVars, gpuVars,
                   fatal_error, jobs>>

\* channel_pool_reserve_all_channels().
RotateReserve(t) ==
    /\ pc[t] = "rotate_reserve"
    /\ push_sem = Cardinality(Pairs)
    /\ push_sem' = 0
    /\ Goto(t, "rotate_wait")
    /\ UNCHANGED <<owner, pending, pool_lock, rotationVars, wlc, lcic, staticVars, gpuVars,
                   fatal_error, jobs, call>>

\* channel_pool_release_all_channels() and the unlock of the mutex.
ReleaseAll ==
    /\ push_sem' = Cardinality(Pairs)
    /\ rotation_mutex' = None

\* Mutant: wait for the WLC channels.
RotateWaitWlc(t) ==
    /\ pc[t] = "rotate_wait"
    /\ ~fatal_error
    /\ \A p \in Pairs : Decrypts(wlc[p]) /\ wlc[p].published = wlc[p].queued
    /\ wlc' = [p \in Pairs |-> Observed(wlc[p])]
    /\ Goto(t, "rotate_key")
    /\ UNCHANGED <<poolVars, rotationVars, lcic, staticVars, gpuVars, fatal_error, jobs, call>>

\* channel_pool_rotate_key_locked() waits for the LCIC channel of each pair.
RotateWait(t) ==
    /\ pc[t] = "rotate_wait"
    /\ ~fatal_error
    /\ \A p \in Pairs : Decrypts(lcic[p]) /\ lcic[p].published = lcic[p].queued
    /\ lcic' = [p \in Pairs |-> Observed(lcic[p])]
    /\ Goto(t, "rotate_key")
    /\ UNCHANGED <<poolVars, rotationVars, wlc, staticVars, gpuVars, fatal_error, jobs, call>>

\* The wait ends with an error, and so does the call.
RotateWaitFails(t) ==
    /\ pc[t] = "rotate_wait"
    /\ fatal_error \/ \E p \in Pairs : ~Decrypts(lcic[p])
    /\ fatal_error' = TRUE
    /\ ReleaseAll
    /\ Return(t)
    /\ UNCHANGED <<owner, pending, pool_lock, key_version, rotation_pending, wlc, lcic,
                   staticVars, gpuVars, jobs>>

\* uvm_conf_computing_rotate_pool_key(): RM rotates the key, or is busy, which is
\* not an error, or fails.
RotateKey(t) ==
    /\ pc[t] = "rotate_key"
    /\ \/ /\ key_version < MaxKeyVersion
          /\ key_version' = key_version + 1
          /\ rotation_pending' = FALSE
          /\ AfterRotation(t)
       \/ /\ AfterRotation(t) \/ Return(t)
          /\ UNCHANGED <<key_version, rotation_pending>>
    /\ ReleaseAll
    /\ UNCHANGED <<owner, pending, pool_lock, wlc, lcic, staticVars, gpuVars, fatal_error,
                   jobs>>

\* RM asks for a key rotation.
RequestRotation ==
    /\ key_version < MaxKeyVersion
    /\ ~rotation_pending
    /\ rotation_pending' = TRUE
    /\ UNCHANGED <<poolVars, rotation_mutex, key_version, wlc, lcic, staticVars, gpuVars,
                   fatal_error, jobs, pc, call>>

-----------------------------------------------------------------------------
(* Reservation of the launch channel.                                      *)

\* channel_reserve_and_lock_in_pool(): a unit of the push semaphore.
Down(t) ==
    /\ pc[t] = "reserve"
    /\ push_sem > 0
    /\ push_sem' = push_sem - 1
    /\ Goto(t, "claim")
    /\ UNCHANGED <<owner, pending, pool_lock, rotationVars, wlc, lcic, staticVars, gpuVars,
                   fatal_error, jobs, call>>

\* A WLC channel nobody has locked and whose one entry is free.
Claim(t, p) ==
    /\ pc[t] = "claim"
    /\ pool_lock = None
    /\ owner[p] = None /\ ~pending[p]
    /\ owner' = [owner EXCEPT ![p] = t]
    /\ call' = [call EXCEPT ![t].pair = p]
    /\ Goto(t, "launch")
    /\ UNCHANGED <<pending, push_sem, pool_lock, rotationVars, wlc, lcic, staticVars, gpuVars,
                   fatal_error, jobs>>

\* No channel is free: update the progress of channel p.  Its entry is given back
\* once the push is seen to be completed.
SpinUpdate(t, p) ==
    /\ pc[t] = "claim"
    /\ pool_lock = None
    /\ \A q \in Pairs : owner[q] # None \/ pending[q]
    /\ \/ /\ Decrypts(wlc[p])
          /\ wlc' = [wlc EXCEPT ![p] = Observed(@)]
          /\ pending' = [pending EXCEPT ![p] = @ /\ wlc[p].published < wlc[p].queued]
          /\ UNCHANGED fatal_error
       \/ /\ ~Decrypts(wlc[p])
          /\ fatal_error' = TRUE
          /\ UNCHANGED <<wlc, pending>>
    /\ UNCHANGED <<owner, push_sem, pool_lock, rotationVars, lcic, staticVars, gpuVars, jobs,
                   pc, call>>

\* channel_rotate_and_reserve_launch_channel(): the IVs of the pair cannot be
\* rotated, and the launch channel is released.
ReleaseLaunchChannel(t) ==
    LET p == call[t].pair IN
    /\ pc[t] = "launch"
    /\ owner' = [owner EXCEPT ![p] = None]
    /\ push_sem' = push_sem + 1
    /\ Return(t)
    /\ UNCHANGED <<pending, pool_lock, rotationVars, wlc, lcic, staticVars, gpuVars,
                   fatal_error, jobs>>

-----------------------------------------------------------------------------
(* The launch.                                                             *)

\* internal_channel_submit_work_indirect_wlc(): encrypt the push of the job and put
\* its tag in the static memory of the WLC channel.
Launch(t) ==
    LET p == call[t].pair IN
    /\ pc[t] = "launch"
    /\ launch_tag' = [launch_tag EXCEPT ![p] = [job |-> call[t].job, key |-> key_version,
                                                value |-> wlc[p].queued + 1]]
    /\ Goto(t, "end_push")
    /\ UNCHANGED <<poolVars, rotationVars, wlc, lcic, static_pb, doorbell, gpuVars,
                   fatal_error, jobs, call>>

\* uvm_channel_end_push() of the WLC push takes the pool lock and queues a value.
EndPush(t) ==
    LET p == call[t].pair IN
    /\ pc[t] = "end_push"
    /\ pool_lock = None
    /\ pool_lock' = t
    /\ wlc' = [wlc EXCEPT ![p].queued = @ + 1]
    /\ call' = [call EXCEPT ![t].value = wlc[p].queued + 1]
    /\ Goto(t, "wait_lcic")
    /\ UNCHANGED <<owner, pending, push_sem, rotationVars, lcic, staticVars, gpuVars,
                   fatal_error, jobs>>

\* The end of uvm_channel_end_push(): the entry is pending, the channel unlocked
\* and the pool lock released.
Unlock(t, p) ==
    /\ pending' = [pending EXCEPT ![p] = TRUE]
    /\ owner' = [owner EXCEPT ![p] = None]
    /\ push_sem' = push_sem + 1
    /\ pool_lock' = None
    /\ Goto(t, "wait")

\* Mutant: the pair is not waited for.
WaitLcicNot(t) ==
    /\ pc[t] = "wait_lcic"
    /\ Goto(t, "submit")
    /\ UNCHANGED <<poolVars, rotationVars, wlc, lcic, staticVars, gpuVars, fatal_error, jobs,
                   call>>

\* internal_channel_submit_work_wlc(), under the pool lock, waits for the LCIC
\* channel.
WaitLcic(t) ==
    LET p == call[t].pair IN
    /\ pc[t] = "wait_lcic"
    /\ ~fatal_error
    /\ Decrypts(lcic[p]) /\ lcic[p].published = lcic[p].queued
    /\ lcic' = [lcic EXCEPT ![p] = Observed(@)]
    /\ Goto(t, "submit")
    /\ UNCHANGED <<poolVars, rotationVars, wlc, staticVars, gpuVars, fatal_error, jobs, call>>

\* On an error nothing is launched, but the push ends like any other.
WaitLcicFails(t) ==
    LET p == call[t].pair IN
    /\ pc[t] = "wait_lcic"
    /\ fatal_error \/ ~Decrypts(lcic[p])
    /\ fatal_error' = TRUE
    /\ Unlock(t, p)
    /\ UNCHANGED <<rotationVars, wlc, lcic, staticVars, gpuVars, jobs, call>>

\* The rest of internal_channel_submit_work_wlc() and of the end of the push: one
\* more LCIC job, the run push in static memory, and the doorbell.
Submit(t) ==
    LET p == call[t].pair IN
    /\ pc[t] = "submit"
    /\ lcic' = [lcic EXCEPT ![p].queued = @ + 1]
    /\ static_pb' = [static_pb EXCEPT ![p] = [job |-> call[t].job, key |-> key_version,
                                              value |-> call[t].value]]
    /\ doorbell' = [doorbell EXCEPT ![p] = TRUE]
    /\ Unlock(t, p)
    /\ UNCHANGED <<rotationVars, wlc, launch_tag, gpuVars, fatal_error, jobs, call>>

\* Mutant: the wait is for the push before this one.
AwaitedValueBefore(t) == call[t].value - 1

AwaitedValue(t) == call[t].value

\* uvm_push_wait() of the WLC push: somebody else has seen it completed, or this
\* thread does, or there is an error.
Wait(t) ==
    LET p == call[t].pair IN
    /\ pc[t] = "wait"
    /\ \/ wlc[p].completed >= AwaitedValue(t) /\ UNCHANGED wlc
       \/ /\ wlc[p].completed < AwaitedValue(t)
          /\ Decrypts(wlc[p])
          /\ wlc[p].published >= AwaitedValue(t) \/ fatal_error
          /\ wlc' = [wlc EXCEPT ![p] = Observed(@)]
    /\ Return(t)
    /\ UNCHANGED <<poolVars, rotationVars, lcic, staticVars, gpuVars, fatal_error, jobs>>

\* The copy of the semaphore does not decrypt.
WaitFails(t) ==
    /\ pc[t] = "wait"
    /\ wlc[call[t].pair].completed < AwaitedValue(t)
    /\ ~Decrypts(wlc[call[t].pair])
    /\ fatal_error' = TRUE
    /\ Return(t)
    /\ UNCHANGED <<poolVars, rotationVars, wlc, lcic, staticVars, gpuVars, jobs>>

-----------------------------------------------------------------------------
(* The GPU: the fixed schedules of setup_wlc_schedule() and                *)
(* setup_lcic_schedule().                                                  *)

\* WLC, first entry: decrypt the run push.
GpuDecrypt(p) ==
    /\ gpu[p].phase = "idle"
    /\ doorbell[p] /\ gpu[p].primed > 0
    /\ doorbell' = [doorbell EXCEPT ![p] = FALSE]
    /\ gpu' = [gpu EXCEPT ![p] = [phase |-> "run", primed |-> @.primed - 1,
                                  run_pb |-> static_pb[p]]]
    /\ UNCHANGED <<poolVars, rotationVars, wlc, lcic, launch_tag, static_pb, launched,
                   fatal_error, jobs, pc, call>>

\* WLC, second entry: execute the run push, which decrypts the push of the job and
\* submits it to its channel.
GpuRun(p) ==
    /\ gpu[p].phase = "run" /\ gpu[p].primed > 0
    /\ launched' = [launched EXCEPT ![gpu[p].run_pb.job] = @ + 1]
    /\ gpu' = [gpu EXCEPT ![p].phase = "release", ![p].primed = @ - 1]
    /\ UNCHANGED <<poolVars, rotationVars, wlc, lcic, staticVars, fatal_error, jobs, pc,
                   call>>

\* The run push goes on: it releases and publishes the WLC tracking semaphore and
\* rings the LCIC channel.
GpuRelease(p) ==
    /\ gpu[p].phase = "release"
    /\ wlc' = [wlc EXCEPT ![p].published = gpu[p].run_pb.value, ![p].key = key_version]
    /\ gpu' = [gpu EXCEPT ![p].phase = "prime"]
    /\ UNCHANGED <<poolVars, rotationVars, lcic, staticVars, launched, fatal_error, jobs, pc,
                   call>>

\* Mutant: PUT advances by one entry.
LcicPrimeOne(p) ==
    /\ gpu[p].phase = "prime"
    /\ gpu' = [gpu EXCEPT ![p].phase = "publish", ![p].primed = @ + 1]
    /\ UNCHANGED <<poolVars, rotationVars, wlc, lcic, staticVars, launched, fatal_error, jobs,
                   pc, call>>

\* LCIC, once the engine is idle: advance PUT of the WLC channel by two.
LcicPrime(p) ==
    /\ gpu[p].phase = "prime"
    /\ gpu' = [gpu EXCEPT ![p].phase = "publish", ![p].primed = @ + 2]
    /\ UNCHANGED <<poolVars, rotationVars, wlc, lcic, staticVars, launched, fatal_error, jobs,
                   pc, call>>

\* LCIC: increment and publish its own tracking semaphore.
LcicPublish(p) ==
    /\ gpu[p].phase = "publish"
    /\ lcic' = [lcic EXCEPT ![p].published = @ + 1, ![p].key = key_version]
    /\ gpu' = [gpu EXCEPT ![p].phase = "idle"]
    /\ UNCHANGED <<poolVars, rotationVars, wlc, staticVars, launched, fatal_error, jobs, pc,
                   call>>

Gpu(p) == GpuDecrypt(p) \/ GpuRun(p) \/ GpuRelease(p) \/ LcicPrime(p) \/ LcicPublish(p)

-----------------------------------------------------------------------------
Step(t) ==
    \/ RotateLock(t) \/ RotateReserve(t) \/ RotateWait(t) \/ RotateWaitFails(t)
    \/ RotateKey(t)
    \/ Down(t) \/ \E p \in Pairs : Claim(t, p) \/ SpinUpdate(t, p)
    \/ ReleaseLaunchChannel(t) \/ Launch(t) \/ EndPush(t) \/ WaitLcic(t) \/ WaitLcicFails(t) \/ Submit(t)
    \/ Wait(t) \/ WaitFails(t)

Next ==
    \/ \E t \in Threads : StartLaunch(t) \/ StartRotate(t) \/ Step(t)
    \/ \E p \in Pairs : Gpu(p)
    \/ RequestRotation

Spec == Init /\ [][Next]_vars

\* Threads keep running, mutexes and semaphores are FIFO, a thread that spins over
\* the channels comes back to each of them (a look that changes nothing is no step),
\* and the GPU makes progress.
Fairness ==
    /\ \A t \in Threads : SF_vars(Step(t))
    /\ \A p \in Pairs : WF_vars(Gpu(p))

FairSpec == Spec /\ Fairness

-----------------------------------------------------------------------------
(* Properties.                                                             *)

\* Types of the variables: PUT of a WLC channel is at most two entries ahead.
TypeOK ==
    /\ owner \in [Pairs -> Threads \cup {None}]
    /\ pending \in [Pairs -> BOOLEAN]
    /\ push_sem \in 0 .. Cardinality(Pairs)
    /\ pool_lock \in Threads \cup {None} /\ rotation_mutex \in Threads \cup {None}
    /\ key_version \in Nat /\ rotation_pending \in BOOLEAN
    /\ wlc \in [Pairs -> Semaphores] /\ lcic \in [Pairs -> Semaphores]
    /\ launch_tag \in [Pairs -> Encrypted] /\ static_pb \in [Pairs -> Encrypted]
    /\ doorbell \in [Pairs -> BOOLEAN]
    /\ gpu \in [Pairs -> [phase : Phases, primed : 0 .. 2, run_pb : Encrypted]]
    /\ launched \in [Jobs -> Nat]
    /\ fatal_error \in BOOLEAN /\ jobs \in 0 .. MaxJobs
    /\ pc \in [Threads -> PcStates] /\ call \in [Threads -> Calls]

\* internal_channel_submit_work_wlc(), "PUT == GET + 2 and a WLC doorbell ring is
\* enough to start work": the doorbell only rings for a pair that is idle and
\* primed.
PrimedAtDoorbell ==
    /\ TypeOK
    /\ \A p \in Pairs : doorbell[p] => gpu[p].phase = "idle" /\ gpu[p].primed = 2

\* What the GPU decrypts for a launch is intact: the run push was encrypted with
\* the current key, and the tag in static memory is still that of the job the run
\* push launches, although both are reused by the next launch and the key rotates.
LaunchIntact ==
    \A p \in Pairs :
        /\ doorbell[p] => static_pb[p].key = key_version
        /\ gpu[p].phase = "run" => /\ launch_tag[p] = gpu[p].run_pb
                                   /\ launch_tag[p].key = key_version

\* internal_channel_submit_work_indirect_wlc() advances gpu_put after the wait: by
\* then the GPU has submitted the push of the job, exactly once.
LaunchedWhenAwaited ==
    [][\A t \in Threads : pc[t] = "wait" /\ pc'[t] = "idle" =>
          launched[call[t].job] = 1 \/ fatal_error']_vars

\* gpu_semaphore_encrypted_payload_update() for an LCIC channel: a value the CPU
\* has not observed was encrypted with the key the CPU decrypts with.
LcicKeyMatches ==
    \A p \in Pairs : lcic[p].published # lcic[p].completed => lcic[p].key = key_version

\* The key of the WLC pool changes only when nothing is encrypted with the old one
\* that the GPU or the wait for an LCIC channel has yet to decrypt.
KeysMatch == LaunchIntact /\ LcicKeyMatches

\* LcicKeyMatches for a WLC channel: "CPU decryption is guaranteed to use the same key
\* version as the associated GPU encryption".
WlcKeyMatches ==
    \A p \in Pairs : wlc[p].published # wlc[p].completed => wlc[p].key = key_version

\* Every launch and every rotation ends, unless a fatal error is raised.
LaunchesEnd == \A t \in Threads : pc[t] # "idle" ~> pc[t] = "idle" \/ fatal_error
=============================================================================

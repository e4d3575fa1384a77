# Verification of the LAEGIS artifact: the UVM driver under Confidential Computing

TLA+ specifications of the code this repository instruments and measures: the
submission path, the staged copies and the fault service of the NVIDIA UVM
driver with Confidential Computing (CC) enabled, model-checked with TLC and,
where marked, proved with TLAPS.
All paths below are relative to the repository root.

## 1. The system

The artifact has three parts:

| part | what it is |
|---|---|
| `nvidia-550.163.01/` | the open NVIDIA kernel driver 550.163.01 with the authors' instrumentation. `nvidia-uvm/` is the Unified Virtual Memory driver; `nvidia`, `nvidia-modeset`, `nvidia-drm` and `nvidia-peermem` are stock |
| `gpgpu-sim-uvm/` | GPGPU-Sim with a UVM runtime, a GMMU with eviction, prefetch and access counters, and Ramulator |
| `benchmark/` | CUDA applications and scripts that are run on both |

The mechanisms of the paper itself are withheld from the artifact (top-level
README), so the logic worth verifying is the driver's CC submission path and
the simulator's UVM engine.

### 1.1 Components of the driver (`nvidia-550.163.01/nvidia-uvm/`)

| component | source | state it keeps | operations |
|---|---|---|---|
| channel pool | `uvm_channel.c` | per channel: GPFIFO ring (`cpu_put`, `gpu_get`, entries), claimed entries, push infos, tracking semaphore, last put given to the GPU; per pool: push locks, push semaphore, key version, rotation mutex | reserve, begin push, end push, control GPFIFO entries, update progress, wait, check errors, rotate key |
| secure tracking semaphore | `uvm_gpu_semaphore.c` | encrypted payload, auth tag and notifier shared with the GPU; cached 64-bit completed value; last notifier observed; ring of IVs | GPU-side encrypted release; CPU-side decrypt and 32 to 64 bit extension |
| indirect launch | `uvm_channel.c` | a WLC channel with a static pushbuffer and a paired LCIC channel that re-arms it | launch of CE work through WLC, completion through LCIC, key rotation of the WLC pool |
| pushes | `uvm_push.c` | one push on the stack of its thread | begin (on any channel of a type, a given channel, a reserved channel), end, wait |
| pushbuffer | `uvm_pushbuffer.c` | chunks with the pushes in flight in each | begin, end and completion of a push |
| trackers | `uvm_tracker.c` | sets of (channel, value) | add, wait, query |
| CC support | `uvm_conf_computing.c` | CSL contexts (IVs), DMA staging buffers | rotate IVs and keys, log an encryption, allocate and free staging buffers |
| interrupt service | `uvm_gpu_isr.c`, `uvm_global.c`, `nv-kthread-q.c` | service lock, count of those who disabled the interrupt, references on the GPU, queue of bottom halves | top half, bottom halves, retrigger, flush, suspend, resume, removal |
| fault batches | `uvm_gpu_replayable_faults.c` | fault buffer, batch context: entries, uTLB counters, order, representatives | fetch and coalesce, sort, service, replay, cancel |
| staged copies | `uvm_va_block.c`, `uvm_conf_computing.c` | tracker of a VA block, tracker of a staging buffer | copy CPU to GPU, GPU to CPU, GPU to GPU through the CPU |
| PMM, VA blocks, migration, prefetch | `uvm_pmm_gpu.c`, `uvm_va_block.c`, `uvm_migrate.c`, ... | page state, memory chunks | migrate, map, evict |

Threads of the kernel (fault bottom halves, ioctls, workers) call these
operations concurrently. They meet in the pool lock of a channel pool, in its
push semaphore, in the lock of a tracking semaphore and in the rotation mutex.
The GPU is another actor: it consumes what was submitted, releases semaphores,
encrypts their values, and may raise a channel error at any time. RM asks for
key rotations and may be busy when asked to rotate.


### 1.2 What is hard in it

* A reservation passes through a mutex, a counting semaphore, a spin lock and a
  spin loop, and each of a dozen exits has to give back exactly what it took.
* Completion is known only through a semaphore that the GPU encrypts. The CPU
  copies it without a lock and decrypts it with an IV and a key version that
  other threads may be replacing.
* The submission of a push is itself a push, on another channel, whose
  pushbuffer, tags and schedule are static memory that the next launch reuses.
* IVs and keys run out and are rotated while other threads push. RM may refuse.
* Ring indexes, 32-bit payloads and 32-bit notifiers wrap.
* A channel error may come between any two steps.
* Pushes of several channels share a chunk of the pushbuffer and complete out
  of order, also while another thread writes the next push to the chunk.
* Staging buffers are given back while the GPU still uses them; what keeps the
  next user off is a tracker, which may run out of memory.
* The service lock of replayable faults is taken in an interrupt and released
  by a worker thread, and with CC no interrupt announces what arrived
  meanwhile. Flush, suspend and removal cut in between.
* Faults are merged into representatives as they are fetched, and a fatal one
  must be cancelled without ending accesses that are legal.

`PROJECT.json` lists these under `hazards`, each at its line, with the
properties that would catch it.

### 1.3 Components that are not modelled

The physical memory manager, the residency and mapping state of VA blocks,
migration, prefetch, policies, access counters, ATS and HMM; the simulator's
GMMU (a sequential, cycle-driven program). The stock kernel modules, the hardware
abstraction layers (they encode methods; the models say what the GPU does with
them), the vendored simulators and the benchmarks are left out. Section 7 says why.

## 2. Modules

| module | models | role |
|---|---|---|
| `UvmChannel` | a pool of CE channels: `uvm_channel.c`, IV and key rotation of `uvm_conf_computing.c`, begin and end of `uvm_push.c` | core |
| `UvmTrackingSemaphore` | the semaphore of one channel: `uvm_gpu_semaphore.c` and the methods a push ends with | what `UvmChannel` and `UvmLaunch` take for one step, in detail |
| `CompletionCounter` | what a tracking semaphore promises its users | abstract specification |
| `UvmLaunch` | WLC/LCIC pairs: the submission path that `UvmChannel` takes for one step when `WlcReady` | detail of the launch |
| `UvmPushbuffer` | `uvm_pushbuffer.c` inside begin and end of a push, with the launch channel | where a push is written; composed with reservation and completion |
| `UvmDmaBuffers` | `uvm_tracker.c`, the staging pool of `uvm_conf_computing.c`, the copies of `uvm_va_block.c`, registration and removal of GPUs | users of pushes |
| `UvmIsr` | `uvm_gpu_isr.c`, `nv-kthread-q.c`, suspend and resume, the loop of `uvm_gpu_service_replayable_faults()` | who services faults, and when |
| `UvmFaultBatch` | a batch of `uvm_gpu_replayable_faults.c` | what `UvmIsr` takes for one step, in detail |
| `MCUvm*` | | symmetry sets, workloads and plans for TLC |
| `UvmChannelProofs`, `UvmChannelProgressProofs` | | theorems about `UvmChannel`: types, claims and ring; then units, order, values, infos, keys and its refinement |
| `UvmTrackingSemaphoreProofs`, `UvmLaunchProofs`, `UvmPushbufferProofs`, `UvmDmaBuffersProofs`, `UvmIsrProofs`, `UvmFaultBatchProofs` | | theorems about the module of that name |

Definitions whose comment starts with *Mutant* are variants of the definition
that follows them, with a plausible mistake. They are not part of any
specification; they show that each property can fail (`mutants` in
`PROJECT.json`).

### 2.1 `UvmChannel`

One step is what a thread does under one acquisition of the pool lock or of a
semaphore's lock, or one call on a mutex or semaphore; between two steps
anything else may run. In particular `uvm_channel_update_progress()` is two
steps, the read of the completed value (`*Update`) and the retirement of
entries under the pool lock (`*Pop`, `Poll`), and `channel_pool_reserve_all_channels()` is
one step per channel.

| actions | code |
|---|---|
| `StartReserve`, `StartRotate`, `StartPoll`, `Poll` | `uvm_push_begin*()`, `uvm_channel_pool_rotate_key()`, `uvm_channel_manager_update_progress()` |
| `RotateLock` .. `ReleaseAll` | `channel_pool_rotate_key()`: mutex, all units of the push semaphore, `uvm_channel_wait()` for each channel, the rotation by RM (done, busy or failed), release |
| `Down`, `Claim`, `SpinUpdate`, `SpinPop`, `SpinClaim`, `SpinCheck` | `channel_reserve_and_lock_in_pool()` and `channel_reserve_and_lock()` |
| `CheckIvs`, `IvUpdate`, `IvPop`, `IvCheck`, `IvRotate`, `IvRefuse` | `uvm_conf_computing_maybe_rotate_channel_ivs()`, with and without retry |
| `WriteCtrl`, `SubmitCtrl` | `write_ctrl_gpfifo()`, `submit_ctrl_gpfifo_indirect()` |
| `BeginPush`, `EndPush`, `Submit`, `Release` | `uvm_channel_begin_push()`, `uvm_channel_end_push()`, the submission through SEC2 after the unlock, `uvm_channel_release()` |
| `GpuExecute`, `GpuFault`, `RequestRotation` | the GPU and RM |

Abstractions: an entry is its type and its tracking value; the encryption and
decryption counters of a CSL context are one number, and a push uses one IV;
the pushbuffer and the launch channel appear in `BeginPush` only through the
statuses they return; `call[t]` is the frame of the calls a thread is in.

`uvm_channel_wait()` is `*Update` and `*Pop` with `WaitDone` and `WaitGoesOn`: an idle
channel is checked for errors before the early return, otherwise the loop
(`looping`) updates and checks until the channel is idle or the status an
error. `GpuFault` may hit a channel with or without work.

### 2.2 `UvmTrackingSemaphore`

`EndPush` queues a value and logs the IV; the GPU then releases, writes the odd
notifier, the two parts of the encrypted copy in either order, and the even
notifier. A thread locks the semaphore and goes through
`gpu_semaphore_encrypted_payload_update()` one shared read at a time
(`ReadNotifier`, `ReadAuthTag`, `ReadPayload`, `RereadNotifier`, `Decrypt`),
extends the payload to 64 bits (`UpdateCompletedValue`) and either retires
entries with the value it got (`Retire`) or compares it (`Compare`). `continue`
on an odd notifier is a disabled `ReadNotifier`: the loop neither counts the try
nor changes anything. A ciphertext is its plaintext and IV; the tag and the
payload are read as units.

### 2.3 `UvmLaunch`

A job is the push of a CE channel to be launched. Its thread reserves a WLC
channel (`Down`, `Claim`, `SpinUpdate`) after a possible key rotation, puts the
tag of the job in static memory (`Launch`), ends the WLC push (`EndPush`), waits
for the LCIC channel under the pool lock (`WaitLcic`), writes the run push and rings
the doorbell (`Submit`), and waits for the WLC push (`Wait`). The GPU follows
the schedules that `setup_wlc_schedule()` and `setup_lcic_schedule()` upload:
`GpuDecrypt`, `GpuRun`, `GpuRelease`, `LcicPrime`, `LcicPublish`. `Init` is the
state after `channel_manager_setup_wlc_lcic()`: PUT is two entries ahead, and
one entry of the ring is usable. Reading a semaphore is one step here.

### 2.4 `CompletionCounter`

Values are queued, executed in order, and observed by the CPU in jumps that
never pass what was executed. `UvmTrackingSemaphore` implements it
(`CounterSpec`), wraps and retries included, and so does each channel of
`UvmChannel` (`CountersImplemented`): this is what justifies that `UvmChannel`
reads a semaphore in one step.

### 2.5 `UvmPushbuffer`

`BeginCall` starts a push; `Reserve`, `ReserveSpin`, `ReserveCheck` take a
channel of the pool (one pass over the pool per iteration; `UvmChannel` has the
detail) and `ReserveLaunch` a launch channel. `DownAndTry` and `SpinTry` are
`claim_chunk()`, the order of its loop included: the try that ends it may claim
a chunk after the status has become an error. `SetBegin` and `EndPush` are the two ends
of the writing, `ReleaseAfterError` what `uvm_push.c` does when the begin
fails. `UpdateProgress` retires entries of a channel and `MarkCompleted` takes each out
of its chunk. `UpdateChunk` follows `update_chunk()`: gap before
GET, gap at the end, wrap to 0, both bitmaps. Memory is counted in units of which a
push takes at most `MaxPushSize`. `GpuExecute` and `GpuFail` are the GPU.

### 2.6 `UvmDmaBuffers`

A thread makes a copy, a sequence of legs (GPU, direction), under the lock of
its VA block. A leg goes through `block_copy_begin_push()` (`Overwrite`,
`PoolTake`, `AllocReady`, `LocalWait`, `Push`), `conf_computing_copy_pages_finish()` (`Finish`) and
`block_copy_end_push()` (`AddPush`), and ends in the trackers of the copy, the
buffer and the block. A tracker is a function from channels to values and the size of its
array, `uvm_tracker_reserve()` may fail, and the `_safe` variants then wait
(`OverwriteWait`, `AddPushWait`, `AddToBlockWait`). `RegisterGpu`, `RegisterEnd`,
`UnregisterGpu` and `RemoveGpu` create and destroy the pools; a registration keeps a
staging buffer for the VA space. The utilities of `uvm_conf_computing.c` that copy and wait are
the calls of kind `util` (`UtilFinish`). `lost` holds the buffers that an error path
drops.

### 2.7 `UvmIsr`

One step is what happens under one hold of `interrupts_lock`, or one semaphore
operation, or one stage of the bottom half. `TopEnter`, `TopSchedule` and
`TopExit` are the top half; `KtTake` to `KtPut` the worker thread with the
replayable and the non-replayable bottom half; `FlushCall` to `FlushRetrigger`
`uvm_gpu_fault_buffer_flush()`; `Suspend` to `Resume` the power management
path; `RemoveGpu` to `Deinit` the end of a GPU. `QFlush`, `QStop`, `Join` are
`nv-kthread-q.c`, with the flush item queued twice. An access is its page; it
faults, stalls, and goes on with a replay once its page is serviced. The three
modes differ in who raises interrupts and in what a bottom half does when its
GPU is gone.

### 2.8 `UvmFaultBatch`

`FetchEntry` takes one entry and merges it (`Merged`, `IsLastFault`,
`IsLastTlbFault`); `Preprocess` sorts with any order the comparison functions
allow; `ServiceEntry` and `BlockServiced` are the scan and the service of the block,
`BlockRetry` its restart after `NV_ERR_MORE_PROCESSING_REQUIRED`; `CheckAccess`
is `check_fault_access_permissions()`. `ReplayBatch` and `ReplayWait` follow the
policy BATCH_FLUSH; `CancelLock` to `CancelEnd` are
`service_fault_batch_for_cancel()`. `SetPermission` changes the permissions of a
page whenever the VA space lock is free. Lists of merged faults are the field
`ring`: entries with the same number are on one list.

## 3. Runs

| run | instance | checks |
|---|---|---|
| `channel_ring` | 2 threads, 1 channel, 3 entries, all five entry points, failing begins and channel errors, launch through SEC2 | claims, ring, push infos, IVs, order of submission, control entries, `CountersImplemented` |
| `channel_rotation` | 3 threads, 2 channels, launch through WLC | the push semaphore, the key of the pool |
| `channel_live` | 2 threads, 1 channel, 3 calls, failing begins and channel errors, fairness | every call returns, unless behind a stranded control entry; a rotation that waits there is stuck |
| `semaphore` | 2 threads, 4 entries, 9 pushes, words modulo 8, plain and encrypted, GPU may stop, fairness | the notifier protocol, IV slots, wraps, refinement of `CompletionCounter`, return of every update |
| `launch` | 2 threads, 2 pairs, 3 jobs, 2 rotations, fairness | priming, static memory and keys, launched exactly once, launches end |
| `pushbuffer` | 2 threads, 2 channels of 3 entries, 2 launch channels, 2 chunks of 4 units, pushes of 1 or 2 units, 5 pushes, 1 channel error, fairness | memory reuse, bitmaps, ownership, pushes end |
| `faults` | all three modes, 1 page, buffer of 2, 1 batch of 1 per service, 2 replays, 2 events, fairness | lock, mask, references, quiescence, no fault forgotten, threads return |
| `coalesce` | 3 accesses of any type, 2 uTLBs, 2 instances, 1 page, batches of 2, 1 disturbance, fairness | coalescing, precise and complete cancel, accesses end |
| `dma` | 2 threads, 2 blocks, 2 GPUs, pools of 3 and 1 buffers, 2 copies, 2 registrations, trackers may fail, 1 failure, fairness | staging buffers, order of copies, dangling channels, calls return |
| `launch_key` | 2 threads, 1 pair, 1 job | finding 1 |
| `pushbuffer_hang` | 1 chunk, 1 launch channel, 1 channel error, fairness | finding 2 |
| `coalesce_mask` | the workloads of `coalesce`, no disturbance | finding 3 |

### 3.1 Bounds

Three entries are the smallest ring the code allows (a sentinel and two usable
ones, so that a control entry and its push fit); it is full and it wraps within
four calls. In `channel_live` three calls fill it, and a control entry whose push
failed is followed by a push or by nothing. `MaxToComplete = 1` makes a thread retire less than has completed,
as 8 does with a larger ring. With `IvSpace = 3` and `IvLimit = IvMin = 1` a
channel asks for a rotation after two pushes and may be refused. Two threads
are enough for a claim to race a retirement; the rotation run has three, so that one rotates
while two hold or wait for channels. One key rotation separates old from new; in
`launch` a second one meets the error that the first one left behind.

In `UvmTrackingSemaphore` the modulus 8 with 4 entries is the smallest one for
which slots stay aligned through a wrap; the notifier wraps every 4 pushes and
the payload every 8, so all wraps occur several times. It is also harsher
than 2^32: a notifier value comes back after as many pushes as there are
entries. `SizeAssumption` says what is needed. The code's choice of a power of
two satisfies it. `CHECK_DEADLOCK FALSE` appears where the bound on calls, jobs
or key versions lets the system come to rest.

A chunk of four units holds two maximal pushes, so it becomes full, wraps, leaves
gaps before and behind the pending pushes and drains from either end; three
entries per channel let pushes of two channels interleave in a chunk. In `faults` a buffer of two with
batches of one leaves entries behind when a service ends, and the buffer can
overflow; one page suffices as accesses interact only through buffer and
replays (the safety properties were also run with two pages). In `coalesce` three
accesses are the fewest for a representative to be replaced and then merged into
again; `MCWorkloads` takes one of each pair that differs by a renaming. In `dma` the
second pool has to grow for every copy, and a plan with two legs moves pages between GPUs.

### 3.2 Fairness

Threads run in the kernel and are scheduled (`Step`). Strong fairness stands
for FIFO mutexes and semaphores, and for spin loops that come back to a
channel again and again while its lock is taken and released in between. RM is
not busy for ever (`IvRotate`); the retry loop before a control entry has no
other way out. The GPU is weakly fair until it stops with an error; nothing is
assumed of errors or of requests for a rotation. In `UvmPushbuffer` and
`UvmDmaBuffers` weak fairness of the threads is enough. In `UvmIsr` the service
lock is granted to a thread that waits (strong fairness of `IsrDown`), since the
kernel's semaphore queues its waiters; RM calls the top half while the
interrupt is pending and enabled, and the worker thread and the GPU keep
running; no fairness is given to flushes, suspends, removal or non-replayable faults. Reservations are finitely many
(`MaxCalls`, `MaxJobs`): with an endless stream of pushes a control submission may
starve, as the comment in `uvm_channel_write_ctrl_gpfifo()` says.

## 4. Properties

Each property has a comment with the code it is about. The ones a
reviewer would look at first:

* `ClaimsAccounted`, `RingSafe`: nobody leaks a claim or a lock and no pending
  entry is overwritten, on every path, failed begins included.
* `RetiredAfterExecution`: entries are given back only after the GPU has
  processed them, although the value is read before the lock is taken and
  control entries release nothing.
* `RotationQuiescent`, `KeyVersionMatches`: the key of a CE pool changes only
  when nothing is in flight and nothing encrypted with the old key is left.
* `CallsReturn` of `UvmChannel`: reservations, pushes, control entries and rotations
  end, with failing begins and channel errors. It excepts the runs in which a
  control entry stays for ever the last entry of its channel, without a push
  to complete it and without a fatal error (`Stranded`). `StrandedWaitStays` says what
  happens then: a rotation that waits for such a channel waits until a channel error
  (section 5).
* `NoFalseTampering`: no copy that passes the notifier check fails to decrypt and
  the tries never run out. The margin is one: with one try fewer a reader can
  lose against the pushes in flight.
* `UpdateIsFresh`: a push visible before an update started is covered by the
  value the update returns.
* `PrimedAtDoorbell`, `KeysMatch`, `LaunchedWhenAwaited`: a doorbell finds a
  primed pair, static memory is not overwritten under the GPU, keys change only
  between launches, and work that was waited for has been submitted exactly once.
* `WritesAreFree`: a push is never written over a pending one, in whatever order
  the pushes of a chunk complete.
* `StagingIdle`, `CopiesOrdered`: the CPU never touches a staging buffer in use,
  and copies of a block are ordered although their trackers are snapshots.
* `NoDanglingChannel`: after the removal of a GPU no tracker names its channels.
* `FaultsServiced`: no access stays stalled, with CC thanks to the manual
  retrigger; without it (the mutant) a fault that arrives late is lost.
* `CancelPrecise`, `CancelComplete`, `CancelFresh`: exactly the accesses that the page
  refuses at the time of the cancel are ended.

Named parts (each module's `TypeOK`, `LaunchIntact`, `LockHandedOver`, `Represented`, ...) are conjuncts of the
checked invariants.

## 5. Findings

1. `launch_key`: rotating the key of the WLC pool waits for the LCIC channels
   only. A thread that launched and has not yet read the WLC semaphore decrypts
   the copy, encrypted with the old key, with the new key version. The comment
   in `gpu_semaphore_encrypted_payload_update()` says this cannot happen.
2. `pushbuffer_hang`: `uvm_channel_begin_push()` does not release the launch
   channel when `uvm_pushbuffer_begin_push()` fails after a channel error. With
   all launch channels lost, later begins spin for ever.
3. `coalesce_mask`: a read fault may be merged into an entry that is filtered
   already, so the representative's mask does not contain it, and it is not
   serviced before the writes of its page are cancelled. The access is not lost:
   it faults again after the cancel (`AccessesEnd`). The page must refuse writes
   only. The driver consults the vma for HMM blocks or with
   `uvm_enable_builtin_tests` (`uvm_va_block.c:12584`), so a managed block shows this
   with the built-in tests enabled.

Other observations made while modelling; they are in the models or noted as
hazards, and no run is about them alone:

* A hang. When the push behind a control entry fails to begin (`uvm_channel.c:1740`) with a
  status that is not fatal (`uvm_channel.c:865`), the entry stays in the ring with a
  tracking value that only a later push of the channel releases. A key rotation
  holds all units of the push semaphore while it waits for the channel to be
  idle (`uvm_channel.c:411`), and the next owner's IV rotation waits before its push
  (`uvm_conf_computing.c:694`): both keep that push from coming, no error is raised, and
  `uvm_channel_wait()` spins for ever, although a caller "can wait for this control
  entry to complete" (`uvm_channel.h:712`). `channel_live` reaches these states:
  `CallsReturn` excepts them, and `StrandedWaitStays` shows that such a wait does not end.
  In this commit only the driver's tests call `uvm_channel_write_ctrl_gpfifo()`.
* A GPU that stops while the notifier is odd leaves the reader spinning with the
  semaphore's lock held (`uvm_gpu_semaphore.c:651`); `UpdateReturnsOrStopped`
  excludes exactly this.
* The assertion `gpu_notifier >= last_observed_notifier` does not expect the
  wrap of the notifier (`uvm_gpu_semaphore.c:648`); the update itself is right.
* "Caller is responsible for freeing the DMA buffer on error"
  (`uvm_va_block.c:3646`), and the caller breaks out without doing so
  (`uvm_va_block.c:4416`): the buffer is lost to the pool (`lost` in
  `BuffersAccounted`). A registration that fails after it got its buffer keeps it too
  (`uvm_va_space.c:768`).
* `uvm_push_wait()` checks the errors of its own channel only; a push that
  acquires a semaphore of another, failed channel is waited for until somebody
  looks at that channel (the first disjunct of `CallsReturn` in `UvmDmaBuffers`).
* `uvm_push_end()` is "guaranteed not to block waiting on any other GPU work"
  (`uvm_push.h:293`), but with CC the launch is waited for (`uvm_channel.c:1182`).
* The scan of a block asserts that no entry is fatal (`uvm_gpu_replayable_faults.c:1625`);
  a scan repeated after `NV_ERR_MORE_PROCESSING_REQUIRED` may find one from the first pass.
* With SMC, a replayable bottom half that finds no GPU leaves without releasing
  the service lock (`uvm_gpu_isr.c:526`); `LockHandedOver` excepts it.
* If the staging pool's initialisation fails half way, its teardown asserts a
  count that was never corrected (`uvm_conf_computing.c:200`, `:238`).

## 6. Proofs

Every theorem holds for all values of the constants that satisfy the named
assumptions (`ASSUME`) of its module: any number of threads, channels, pairs,
chunks, pages and entries, any ring size the code allows, any bound on calls.
TLC evaluates the assumptions on every run. All of them follow one scheme: an
inductive invariant, first checked with TLC on the instance of the run, one
lemma per action (or per kind of action), and a last step that combines them.

| module | theorem | states |
|---|---|---|
| `UvmChannelProofs` | `TypeCorrect` | `TypeOK` |
| | `ClaimsCorrect` | `ClaimsAccounted` |
| | `RingCorrect` | `RingSafe` |
| `UvmChannelProgressProofs` | `UnlockedCorrect` | `UnlockedChannelLeft` |
| | `IvCorrect` | `IvNeverExhausted` |
| | `RetiredCorrect` | `RetiredAfterExecution` |
| | `LaunchCorrect` | `LaunchInOrder` |
| | `InfosCorrect` | `PushInfosAccounted` |
| | `KeyCorrect` | `KeyVersionMatches` |
| | `RotationCorrect` | `RotationQuiescent` (action property) |
| | `CountersRefined` | `CountersImplemented` (refinement of `CompletionCounter` by each channel) |
| `UvmTrackingSemaphoreProofs` | `CompletedCorrect` | `CompletedIsExecuted` |
| | `TamperingCorrect` | `NoFalseTampering` |
| | `FreshnessCorrect` | `UpdateIsFresh` |
| | `CounterRefined` | `CounterSpec` (refinement of `CompletionCounter`) |
| `UvmLaunchProofs` | `DoorbellCorrect` | `PrimedAtDoorbell` |
| | `KeysCorrect` | `KeysMatch` |
| | `LaunchCorrect` | `LaunchedWhenAwaited` |
| `UvmPushbufferProofs` | `WritesCorrect` | `WritesAreFree` |
| | `BitmapsCorrect` | `BitmapsExact` |
| | `ResourcesCorrect` | `ResourcesOwned` |
| `UvmDmaBuffersProofs` | `StagingCorrect` | `StagingIdle` |
| | `BuffersCorrect` | `BuffersAccounted` |
| | `OrderedCorrect` | `CopiesOrdered` |
| | `DanglingCorrect` | `NoDanglingChannel` |
| `UvmIsrProofs` | `ChargeCorrect` | `InCharge` |
| | `KrefCorrect` | `KrefExact` |
| | `QuiescedCorrect` | `Quiesced` |
| `UvmFaultBatchProofs` | `BatchCorrect` | `BatchExact` |
| | `CompleteCorrect` | `CancelComplete` |
| | `FreshCorrect` | `CancelFresh` |
| | `PreciseCorrect` | `CancelPrecise` (action property) |

### 6.1 `UvmChannelProofs`

`TypeOK` is not inductive: `WriteCtrl` takes an entry from the frame of its
thread, which must have two. `FrameOK` adds what a frame holds at each control
state (how many entries are reserved, whether the control entry is still to be
written) and `TypeInv == TypeOK /\ FrameOK` is inductive. On top of it the
accounting of claims is shown inductive: an action either leaves locks and
claims alone, or locks a channel that nobody owned, or is taken by the owner of
the channel, so that no other thread's ownership changes. The ring follows from
both: a claim is made only if the free entries, computed around the end of the
ring, suffice; appending an entry turns a claimed entry into a pending one;
retiring makes entries free. The lemmas on `%` (`ModSmall`, `ModWrap`) are the
arithmetic of the ring.

### 6.2 `UvmChannelProgressProofs`

`Inv` adds `ProgressInv` to the above, one conjunct per question:

* `UnitsInv`: the units of the push semaphore, the slots that a rotation has
  taken and the threads that hold a unit add up to the number of channels. A
  thread with a unit and no channel therefore leaves at least one channel that
  nobody owns, and a rotation that has all slots leaves no owner. `RotationInv`
  says how many slots the holder of the mutex has at each step.
* `OrderInv`: `gpu_get`, the GPU's get, the last put given to the GPU and
  `cpu_put` are in ring order, as distances from `gpu_get`; `SubmitInv` and
  `WlcInv` place the submissions that are still to be made.
* `ValuesInv`: the tracking values of adjacent entries follow each other (a
  control entry has the value of the next push), and the value at the GPU's get
  is one more than the semaphore. So an entry whose value is not above the
  completed one has been processed; no induction along the ring is needed
  because the fact is kept at both ends and between neighbours.
  `ReadInv` bounds the values that threads read before they took the pool lock.
* `DrainInv`: the channels that a rotation has waited for stay idle, since
  all channels are reserved. `InfosInv` and `IvInv` count push infos and IVs.

### 6.3 `UvmTrackingSemaphoreProofs`

`GpuInv` relates each word of 32 bits to the 64-bit count it stands for: the
notifier is twice the number of published pushes (plus one while one is being
published), each half of the encrypted copy belongs to the last push or to the one
being published, and the ring has the IVs of every push that may still be
observed. `CpuInv` says what a thread has read so far: each part of the copy is
that of the push whose notifier it read, or of a later one, and every failed try has
seen the GPU make progress. The pushes between the completed value and the last
one queued fit into the ring, so equal notifiers mean the same push, and the
tries suffice, through every wrap.

### 6.4 `UvmLaunchProofs`

Units of the push semaphore are counted as in 6.2 (`UnitsInv`). `PairsInv` ties the schedule of
a pair to its two semaphores (the LCIC channel has exactly one push in
flight from the doorbell to `LcicPublish`) and to the static memory the GPU is about
to read; `ThreadsInv` says what an owner has put there. `JobsInv` and `WaitsInv`
follow a job from the launch to the wait: it is pending at one pair
only, and started once.

### 6.5 `UvmPushbufferProofs`

The pending entries of a chunk are apart from each other and listed in cyclic
order of their offsets, with holes where pushes have completed out of order
(`Placed`). `FreeAt` says that a push of maximal size at `next_push_start` fits
before the first and after the last of them; completions only remove entries, so it
stays true while a push is being written. `CountInv` counts the units of both
semaphores, and a thread that spins for a chunk finds, by a pigeonhole argument,
that the chunks it cannot have are held by pending pushes.

### 6.6 `UvmIsrProofs`

`Lockers` and `Maskers` count the parties that may be in charge, wherever the
bottom half is (in the queue, or running); `LockInv` and `MaskInv` equate them
with the service lock and the count of disables, except on a GPU that SMC
no longer finds. `References` sums up all holders of a reference. Removal and suspend
rest on the order of the queue (`QueueInv`): a flush comes after interrupts are off
or the user channels preempted, no bottom half gets behind its item, and so none is left
once that item has run (`DrainInv`).

### 6.7 `UvmFaultBatchProofs`

Every list of merged faults has one unfiltered entry, which is at least as
intrusive as all the others (`CacheInv`); the counters of uTLBs that no batch has
used are zero, so that a fetch starts from zero although it clears only those up to
`max_utlb_id` (`UtlbInv`). The scan goes from the most intrusive fault of a page
to the least, so a duplicate that it waives is not refused (`OrderInv`,
`FatalInv`). The flush and the replay before a cancel make all that it fetches fresh
(`FreshInv`), and it keeps the VA space lock to its end, so permissions are those that were
checked. The proof found that two arms of the `CASE` in `Replayed` overlapped;
they are now exclusive, with the same meaning.

### 6.8 `UvmDmaBuffersProofs`

Assumed: finitely many threads, at most 256 GPUs (`UVM_ID_MAX_GPUS`, which bounds the
array of a tracker), and of the legs of a copy `PlansAssumption`: to the CPU from any
GPUs, or to a GPU from any nodes of the CPU, then staged from any other GPUs. The proof
uses only that a plan is a nonempty sequence of channels. `Inv` has these parts:

* `ChannelInv`: the pushes in flight of a channel have the values after the completed
  one, without gaps; `FramesInv` and `BlockInv`: what a call holds at each control
  state, that its GPUs stay registered while it runs (a registration runs alone),
  and that a block is locked by one call.
* `PlaceInv`: a buffer is on one free list once, or with one thread, or kept by a
  registered GPU, or lost. `CountInv`: `num_dma_buffers` is the number of buffers in
  any of these places (`Used`); each action moves a buffer, adds fresh ones or
  empties the pool of a removed GPU.
* `TrackerInv`, `StagedInv`: the tracker of a buffer names channels of its GPU and is
  empty once the wait of the allocation is over; a push in flight is covered by the
  tracker of its buffer, or belongs to the call that has the buffer. A buffer whose
  tracker is empty is therefore used by no other push, which is `StagingIdle`.
* `CoverInv`: a push in flight is covered by the tracker of its block; if the block is
  locked, by what the call has copied from it as well (`loc`), or, if it is the call's own, by
  the tracker of the copy. The next push of the block acquires all of `loc` or waits for it,
  which keeps `CopiesOrdered`.

`NoDanglingChannel` follows because trackers name registered GPUs only (`RegisteredIn`).
A fatal error ends the claims about pushes, as it does in the properties. The proof asked
for the real growth of a tracker (`NewMaxSize`), which the model had fixed at 8
entries, and for a choice of new buffers that does not count names (`NewBuffers`).

### 6.9 Only model-checked

* `StrandedWaitStays` of `UvmChannel`.
* Liveness, and everything else under fairness (`CallsReturn`, `UpdateReturnsOrStopped`,
  `LaunchesEnd`, `PushesEnd`, `FaultsServiced`, `ThreadsReturn`, `AccessesEnd`): out of the
  prover's reach.
* The findings of section 5: a counterexample on a small instance is all there is to show.

## 7. Limits of the models

* Memory is sequentially consistent: the barriers of `uvm_gpu_semaphore.c` are
  taken to do what their comments say.
* `UvmLaunch` has no channel errors; its waits fail only after a fatal error.
  What a pool reservation does after a fatal error is not claimed: the spin
  loop does not look at the global status.
* Pools without Confidential Computing, vGPU proxy channels, creation and
  teardown of channels are not modelled.
* `UvmPushbuffer` has no IVs and no key rotation, `UvmDmaBuffers` no rings: these
  are in `UvmChannel`, and the modules meet in the order of completion.
* `UvmFaultBatch` has one VA space and one VA block; faults of other blocks are
  independent batches of the same loop. Cancel is by virtual address (Volta and
  later).
* The pages of `UvmFaultBatch` may be read-only in every build; the driver refuses a write
  for that reason only with HMM or with the built-in tests (`uvm_va_block.c:12584`). The
  model refuses more, and permits nothing the driver refuses.

### Not modelled

* Physical memory manager, residency, mappings, migration, prefetch: sets of
  pages over processors with eviction and retries; the fault and copy models take them
  through their results (serviced, retry, failed).
* Access counters, ATS and HMM faults, throttling, the Pascal cancel by uTLB,
  the replay policies other than BATCH_FLUSH, the contents of non-replayable faults.
* Creation and failure of initialisation of pools and channels.
* The simulator (`gpgpu-sim-uvm/`): sequential, and its queues depend on the timing
  of all of GPGPU-Sim. The stock modules, HALs, Ramulator, AccelWattch,
  benchmarks and scripts: third-party or pure data and I/O. They are most of the
  repository's lines, so the map covers a small share of the total.

## 8. Plan

Done, in this order: `UvmChannel`; `UvmTrackingSemaphore` with
`CompletionCounter`; `UvmLaunch`; `UvmPushbuffer`; `UvmIsr`;
`UvmFaultBatch`; `UvmDmaBuffers` with the trackers; the proofs of section 6.

Next:

1. Channel errors in `UvmLaunch`.
2. Access counters in `UvmIsr` (they share queue, references and suspend).
3. `Gmmu` (`gpgpu-sim-uvm/src/gpgpu-sim/gmmu.cc`): its queues and the access
   counter word.

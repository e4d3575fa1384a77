------------------------------- MODULE UvmIsr -------------------------------
(***************************************************************************)
(* Interrupt service of one GPU: the top half that RM calls, the kernel    *)
(* thread that runs the bottom halves, the threads that lock replayable    *)
(* fault service out to flush the fault buffer, suspend and resume, and    *)
(* the removal of the GPU (nvidia-uvm/uvm_gpu_isr.c, uvm_global.c,         *)
(* uvm_gpu.c, uvm_gpu_replayable_faults.c, nv-kthread-q.c).                *)
(*                                                                         *)
(* What it is all for: an access of the GPU to a page that is not mapped   *)
(* stalls until the page has been serviced and the access replayed.  An    *)
(* access is represented by its page.  Faults that are flushed, or that    *)
(* the full buffer dropped, come back only with a replay.                  *)
(*                                                                         *)
(* With Confidential Computing (mode "cc") the buffer is a shadow buffer   *)
(* that GSP-RM fills: an interrupt is raised by a new entry only, and      *)
(* writing GET has no effect.  Otherwise ("plain", and "smc" with a        *)
(* partitioned GPU) a write of GET re-evaluates GET # PUT.                 *)
(*                                                                         *)
(* Whatever is done under one hold of interrupts_lock is one step.         *)
(* No VA space has access counters enabled (handling_ref_count is 0).      *)
(***************************************************************************)
EXTENDS Integers, Sequences, FiniteSets, SequencesExt

CONSTANTS
    Modes,           \* subset of {"cc", "plain", "smc"}
    Pages,
    BufferSize,      \* replayable_faults.max_faults - 1
    MaxBatchSize,    \* fault_buffer_info.max_batch_size
    MaxBatches,      \* uvm_perf_fault_max_batches_per_service
    MaxReplays,      \* bound: replays in flight (entries of the MEMOPS channel)
    MaxEvents        \* bound: flushes, suspends, non-replayable faults and failed batches

ASSUME ModeAssumption == Modes \subseteq {"cc", "plain", "smc"}
ASSUME BoundAssumption ==
    /\ {BufferSize, MaxBatchSize, MaxBatches, MaxReplays} \subseteq Nat \ {0}
    /\ MaxEvents \in Nat

VARIABLES
    mode,
    access,         \* per page: "run", "fault", "stalled" or "preempted"
    resident,       \* pages that accesses succeed on
    buffer,         \* the entries from GET to PUT, oldest first
    cached,         \* cached_put - cached_get: how many of them the driver knows of
    replays,        \* replays pushed and not executed
    intr_pending, intr_enabled,  \* bits of the replayable fault interrupt
    nr_queue,       \* non-replayable faults in RM's queue
    nr_due,         \* RM has queued one and is about to call the top half
    in_table,       \* the parent GPU is in the global table
    kref,
    handling, was_handling, disable_intr_ref_count, is_suspended,
    service_lock,   \* count of the semaphore replayable_faults.service_lock
    queue,          \* list of bottom_half_q
    should_exit,    \* main_loop_should_exit
    top,            \* control state of the top half
    kt, batch, num_batches, replayed,  \* control state and locals of the kernel thread
    pc,             \* control state of the threads
    events          \* bounded events so far

gpuVars == <<access, resident, replays>>
bufferVars == <<buffer, cached>>
intrVars == <<intr_pending, intr_enabled>>
nrVars == <<nr_queue, nr_due>>
isrVars == <<handling, was_handling, disable_intr_ref_count, is_suspended>>
qVars == <<queue, should_exit>>
ktVars == <<kt, batch, num_batches, replayed>>
vars == <<mode, gpuVars, bufferVars, intrVars, nrVars, in_table, kref, isrVars, service_lock,
          qVars, top, ktVars, pc, events>>

\* "user": flushes the fault buffer for VA spaces that go away, and removes the GPU with
\* the last of them; "pm": power management.
Threads == {"user", "pm"}
Items == {"replayable", "non_replayable"} \cup Threads  \* a thread: its flush item
BottomHalves == {"replayable", "non_replayable"}
Entries == [page : Pages, valid : BOOLEAN]

\* uvm_parent_gpu_init_isr()
Init ==
    /\ mode \in Modes
    /\ access = [p \in Pages |-> "run"] /\ resident = {} /\ replays = 0
    /\ buffer = <<>> /\ cached = 0
    /\ intr_pending = FALSE /\ intr_enabled = TRUE
    /\ nr_queue = 0 /\ nr_due = FALSE
    /\ in_table = TRUE /\ kref = 1
    /\ handling = TRUE /\ was_handling = FALSE
    /\ disable_intr_ref_count = 0 /\ is_suspended = FALSE
    /\ service_lock = 1
    /\ queue = <<>> /\ should_exit = FALSE
    /\ top = "idle"
    /\ kt = "wait" /\ batch = {} /\ num_batches = 0 /\ replayed = FALSE
    /\ pc = [t \in Threads |-> "idle"]
    /\ events = 0

-----------------------------------------------------------------------------
(* The GPU and RM. *)

\* RM preempts the user channels before it calls uvm_suspend() and until it has called
\* uvm_resume(); their memory is gone before the GPU is removed.
ChannelsRun == in_table /\ pc["pm"] = "idle"

GpuAccess(p) ==
    /\ ChannelsRun /\ access[p] = "run" /\ p \notin resident
    /\ access' = [access EXCEPT ![p] = "fault"]
    /\ UNCHANGED <<mode, resident, replays, bufferVars, intrVars, nrVars, in_table, kref,
                   isrVars, service_lock, qVars, top, ktVars, pc, events>>

\* The fault gets an entry, which becomes valid later; a full buffer drops the fault.
GpuFault(p) ==
    /\ access[p] = "fault"
    /\ access' = [access EXCEPT ![p] = "stalled"]
    /\ IF Len(buffer) < BufferSize
       THEN /\ buffer' = Append(buffer, [page |-> p, valid |-> FALSE])
            /\ intr_pending' = TRUE
       ELSE UNCHANGED <<buffer, intr_pending>>
    /\ UNCHANGED <<mode, resident, replays, cached, intr_enabled, nrVars, in_table, kref,
                   isrVars, service_lock, qVars, top, ktVars, pc, events>>

GpuWriteEntry(i) ==
    /\ i \in DOMAIN buffer /\ ~buffer[i].valid
    /\ buffer' = [buffer EXCEPT ![i].valid = TRUE]
    /\ UNCHANGED <<mode, gpuVars, cached, intrVars, nrVars, in_table, kref,
                   isrVars, service_lock, qVars, top, ktVars, pc, events>>

\* Stalled accesses are tried again: the ones that still miss fault again.
GpuReplay ==
    /\ replays > 0 /\ pc["pm"] # "asleep"
    /\ replays' = replays - 1
    /\ access' = [p \in Pages |->
                    CASE access[p] = "stalled" /\ p \in resident -> "run"
                      [] access[p] = "stalled" /\ p \notin resident -> "fault"
                      [] OTHER -> access[p]]
    /\ UNCHANGED <<mode, resident, bufferVars, intrVars, nrVars, in_table, kref,
                   isrVars, service_lock, qVars, top, ktVars, pc, events>>

\* RM's ISR has copied a non-replayable fault to the queue and calls UVM next.
NonReplayableFault ==
    /\ ChannelsRun /\ events < MaxEvents
    /\ events' = events + 1
    /\ nr_queue' = nr_queue + 1 /\ nr_due' = TRUE
    /\ UNCHANGED <<mode, gpuVars, bufferVars, intrVars, in_table, kref,
                   isrVars, service_lock, qVars, top, ktVars, pc>>

-----------------------------------------------------------------------------
(* The fault buffer. *)

\* GET is written after n entries have been taken: without Confidential Computing that
\* re-evaluates the interrupt condition.
WriteGet(n) ==
    /\ buffer' = SubSeq(buffer, n + 1, Len(buffer))
    /\ intr_pending' = (intr_pending \/ (mode # "cc" /\ n > 0 /\ buffer' # <<>>))

\* uvm_parent_gpu_replayable_faults_pending(), and what it leaves in cached_put.
FaultsPending == buffer # <<>>
PendingCached == IF cached = 0 /\ (buffer = <<>> \/ ~buffer[1].valid) THEN Len(buffer) ELSE cached

\* fault_buffer_flush_locked() before its loop, with update_put: RM discards the faults
\* that are still in the hardware buffer (Confidential Computing), then PUT is read.
UpdatePut ==
    /\ cached' = Len(buffer)
    /\ \E discarded \in SUBSET {p \in Pages : mode = "cc" /\ access[p] = "fault"} :
         access' = [p \in Pages |-> IF p \in discarded THEN "stalled" ELSE access[p]]

\* Its loop, which waits for the valid bit of each entry up to cached_put, and the replay.
DropCachedAndReplay ==
    /\ \A i \in 1 .. cached : buffer[i].valid
    /\ WriteGet(cached) /\ cached' = 0
    /\ replays < MaxReplays /\ replays' = replays + 1

-----------------------------------------------------------------------------
(* Interrupts, service lock, bottom half queue: parts of steps. *)

\* uvm_parent_gpu_replayable_faults_intr_disable(): the hardware also clears the bit.
IntrDisable ==
    /\ disable_intr_ref_count' = disable_intr_ref_count + 1
    /\ IF handling /\ disable_intr_ref_count = 0
       THEN intr_enabled' = FALSE /\ intr_pending' = FALSE
       ELSE UNCHANGED intrVars

\* uvm_parent_gpu_replayable_faults_intr_enable(), called while handling only.
IntrEnable ==
    /\ disable_intr_ref_count' = disable_intr_ref_count - 1
    /\ intr_enabled' = (intr_enabled \/ disable_intr_ref_count = 1)

\* Mutant: the lock is not tried.
HandlerReadyNoTry == ~is_suspended /\ handling

\* What schedule_replayable_faults_handler() tests before it looks for faults, the last
\* with down_trylock().
HandlerReady == ~is_suspended /\ handling /\ service_lock = 1

\* schedule_non_replayable_faults_handler(): the reference is dropped again when the item
\* is not queued.
SchedulesNonReplayable ==
    /\ ~is_suspended /\ handling /\ nr_queue > 0
    /\ ~should_exit /\ "non_replayable" \notin Range(queue)

\* Mutant: no reference is taken for the replayable faults bottom half.
ScheduleHandlersNoRef(nr) ==
    LET rp == HandlerReady /\ FaultsPending
        newly == (IF rp /\ ~should_exit THEN <<"replayable">> ELSE <<>>)
                 \o (IF nr THEN <<"non_replayable">> ELSE <<>>)
    IN  /\ cached' = IF HandlerReady THEN PendingCached ELSE cached
        /\ queue' = queue \o newly
        /\ kref' = kref + (IF nr THEN 1 ELSE 0)
        /\ service_lock' = IF rp THEN 0 ELSE service_lock
        /\ IF rp THEN IntrDisable ELSE UNCHANGED <<disable_intr_ref_count, intrVars>>

\* schedule_replayable_faults_handler(), which leaves its lock taken for the bottom half,
\* and, with nr, the non-replayable one.  The replayable item cannot be queued already:
\* its lock would be taken.
ScheduleHandlers(nr) ==
    LET rp == HandlerReady /\ FaultsPending
        newly == (IF rp /\ ~should_exit THEN <<"replayable">> ELSE <<>>)
                 \o (IF nr THEN <<"non_replayable">> ELSE <<>>)
    IN  /\ cached' = IF HandlerReady THEN PendingCached ELSE cached
        /\ queue' = queue \o newly
        /\ kref' = kref + (IF rp THEN 1 ELSE 0) + (IF nr THEN 1 ELSE 0)
        /\ service_lock' = IF rp THEN 0 ELSE service_lock
        /\ IF rp THEN IntrDisable ELSE UNCHANGED <<disable_intr_ref_count, intrVars>>

\* Mutant: the lock is not released.
IsrUnlockNoUp ==
    /\ IF handling THEN IntrEnable /\ intr_pending' = (mode # "cc" /\ buffer # <<>>)
       ELSE UNCHANGED <<disable_intr_ref_count, intrVars>>
    /\ UNCHANGED service_lock

\* uvm_parent_gpu_replayable_faults_isr_unlock() up to its retrigger: enable, rearm (the
\* bit is cleared and GET written), unlock.
IsrUnlock ==
    /\ IF handling THEN IntrEnable /\ intr_pending' = (mode # "cc" /\ buffer # <<>>)
       ELSE UNCHANGED <<disable_intr_ref_count, intrVars>>
    /\ service_lock' = 1

\* Mutant: nothing is retriggered.
RetriggerNever ==
    UNCHANGED <<cached, service_lock, kref, disable_intr_ref_count, intrVars, queue>>

\* replayable_faults_retrigger_bottom_half()
Retrigger ==
    IF mode = "cc" THEN ScheduleHandlers(FALSE)
    ELSE UNCHANGED <<cached, service_lock, kref, disable_intr_ref_count, intrVars, queue>>

-----------------------------------------------------------------------------
(* uvm_isr_top_half() *)

\* The GPU is found in the table and referenced.  RM calls for its other interrupts too.
TopEnter ==
    /\ top = "idle" /\ in_table
    /\ kref' = kref + 1 /\ top' = "schedule" /\ nr_due' = FALSE
    /\ UNCHANGED <<mode, gpuVars, bufferVars, intrVars, nr_queue, in_table, isrVars,
                   service_lock, qVars, ktVars, pc, events>>

\* The handlers are scheduled under interrupts_lock.
TopSchedule ==
    /\ top = "schedule" /\ top' = "put"
    /\ ScheduleHandlers(SchedulesNonReplayable)
    /\ UNCHANGED <<mode, gpuVars, buffer, nrVars, in_table, handling, was_handling,
                   is_suspended, should_exit, ktVars, pc, events>>

TopExit ==
    /\ top = "put" /\ top' = "idle"
    /\ kref' = kref - 1
    /\ UNCHANGED <<mode, gpuVars, bufferVars, intrVars, nrVars, in_table, isrVars,
                   service_lock, qVars, ktVars, pc, events>>

-----------------------------------------------------------------------------
(* The kernel thread of bottom_half_q and the bottom halves it runs. *)

\* A thread whose flush item has run goes on.
AfterFlushItem(state) == IF state = "q_wait1" THEN "q_flush2" ELSE "q_flushed"

\* _main_loop() takes the first item off the list and runs it.  find_first_valid_gpu()
\* finds none when a partitioned GPU has left the table.
KtTake ==
    /\ kt = "wait" /\ queue # <<>> /\ ~should_exit
    /\ queue' = Tail(queue)
    /\ LET item == Head(queue)
           noGpu == mode = "smc" /\ ~in_table
       IN  /\ kt' = CASE item \in Threads -> "wait"
                      [] item \in BottomHalves /\ noGpu -> "put"
                      [] item = "replayable" /\ ~noGpu -> "fetch"
                      [] item = "non_replayable" /\ ~noGpu -> "non_replayable"
           /\ pc' = IF item \in Threads THEN [pc EXCEPT ![item] = AfterFlushItem(@)] ELSE pc
    /\ num_batches' = 0 /\ replayed' = FALSE
    /\ UNCHANGED <<mode, gpuVars, bufferVars, intrVars, nrVars, in_table, kref, isrVars,
                   service_lock, should_exit, top, batch, events>>

KtExit ==
    /\ kt = "wait" /\ should_exit
    /\ kt' = "exit"
    /\ UNCHANGED <<mode, gpuVars, bufferVars, intrVars, nrVars, in_table, kref, isrVars,
                   service_lock, qVars, top, batch, num_batches, replayed, pc, events>>

\* How many entries fetch_fault_buffer_entries() takes of the known ones: it waits for the
\* first to be valid and stops at the next that is not.
Fetched(known, n) ==
    /\ n \in 1 .. known /\ n <= MaxBatchSize
    /\ \A i \in 1 .. n : buffer[i].valid
    /\ n < known /\ n < MaxBatchSize => ~buffer[n + 1].valid

\* One round of uvm_gpu_service_replayable_faults() begins.
KtFetch ==
    LET known == IF cached = 0 THEN Len(buffer) ELSE cached
    IN  /\ kt = "fetch"
        /\ \/ /\ num_batches >= MaxBatches
              /\ kt' = "finish"
              /\ UNCHANGED <<bufferVars, intr_pending, batch>>
           \/ /\ num_batches < MaxBatches /\ known = 0
              /\ kt' = "finish"
              /\ UNCHANGED <<bufferVars, intr_pending, batch>>
           \/ /\ num_batches < MaxBatches
              /\ \E n \in 1 .. known :
                   /\ Fetched(known, n)
                   /\ batch' = {buffer[i].page : i \in 1 .. n}
                   /\ WriteGet(n) /\ cached' = known - n
              /\ kt' = "service"
        /\ UNCHANGED <<mode, gpuVars, intr_enabled, nrVars, in_table, kref, isrVars,
                       service_lock, qVars, top, num_batches, replayed, pc, events>>

\* service_fault_batch() makes the pages resident.  How many faults were duplicates
\* decides whether the flush that follows updates PUT.
KtService ==
    /\ kt = "service"
    /\ resident' = resident \cup batch /\ batch' = {}
    /\ UpdatePut \/ UNCHANGED <<cached, access>>
    /\ kt' = "flush"
    /\ UNCHANGED <<mode, replays, buffer, intrVars, nrVars, in_table, kref, isrVars,
                   service_lock, qVars, top, num_batches, replayed, pc, events>>

\* The service of a batch fails: its faults are cancelled, which kills their channels,
\* and the loop is left.
KtServiceFails ==
    /\ kt = "service" /\ events < MaxEvents
    /\ events' = events + 1
    /\ access' = [p \in Pages |-> IF p \in batch /\ access[p] = "stalled" THEN "run" ELSE access[p]]
    /\ batch' = {}
    /\ kt' = "finish"
    /\ UNCHANGED <<mode, resident, replays, bufferVars, intrVars, nrVars, in_table, kref, isrVars,
                   service_lock, qVars, top, num_batches, replayed, pc>>

KtFlush ==
    /\ kt = "flush"
    /\ DropCachedAndReplay
    /\ replayed' = TRUE /\ kt' = "replay_wait"
    /\ UNCHANGED <<mode, access, resident, intr_enabled, nrVars, in_table, kref, isrVars,
                   service_lock, qVars, top, batch, num_batches, pc, events>>

\* uvm_tracker_wait() on the replay tracker
KtReplayWait ==
    /\ kt = "replay_wait" /\ replays = 0
    /\ num_batches' = num_batches + 1 /\ kt' = "fetch"
    /\ UNCHANGED <<mode, gpuVars, bufferVars, intrVars, nrVars, in_table, kref, isrVars,
                   service_lock, qVars, top, batch, replayed, pc, events>>

\* "Make sure that we issue at least one replay".
KtFinish ==
    /\ kt = "finish" /\ kt' = "unlock"
    /\ IF replayed THEN UNCHANGED replays
       ELSE replays < MaxReplays /\ replays' = replays + 1
    /\ UNCHANGED <<mode, access, resident, bufferVars, intrVars, nrVars, in_table, kref,
                   isrVars, service_lock, qVars, top, batch, num_batches, replayed, pc, events>>

KtUnlock ==
    /\ kt = "unlock" /\ kt' = "retrigger"
    /\ IsrUnlock
    /\ UNCHANGED <<mode, gpuVars, bufferVars, nrVars, in_table, kref, handling, was_handling,
                   is_suspended, qVars, top, batch, num_batches, replayed, pc, events>>

KtRetrigger ==
    /\ kt = "retrigger" /\ kt' = "put"
    /\ Retrigger
    /\ UNCHANGED <<mode, gpuVars, buffer, nrVars, in_table, handling, was_handling,
                   is_suspended, should_exit, top, batch, num_batches, replayed, pc, events>>

\* uvm_gpu_service_non_replayable_fault_buffer() fetches until there are none.  Its service
\* lock is only taken by this thread.
KtNonReplayable ==
    /\ kt = "non_replayable"
    /\ nr_queue' = 0
    /\ kt' = IF nr_queue = 0 THEN "put" ELSE "non_replayable"
    /\ UNCHANGED <<mode, gpuVars, bufferVars, intrVars, nr_due, in_table, kref, isrVars,
                   service_lock, qVars, top, batch, num_batches, replayed, pc, events>>

KtPut ==
    /\ kt = "put" /\ kt' = "wait"
    /\ kref' = kref - 1
    /\ UNCHANGED <<mode, gpuVars, bufferVars, intrVars, nrVars, in_table, isrVars,
                   service_lock, qVars, top, batch, num_batches, replayed, pc, events>>

-----------------------------------------------------------------------------
(* Threads. *)

Goto(t, state) == pc' = [pc EXCEPT ![t] = state]

\* uvm_gpu_fault_buffer_flush() is called by a thread that has the GPU retained:
\* uvm_parent_gpu_replayable_faults_isr_lock() disables the interrupt first.
FlushCall ==
    /\ pc["user"] = "idle" /\ in_table /\ events < MaxEvents
    /\ events' = events + 1
    /\ IntrDisable
    /\ Goto("user", "isr_down")
    /\ UNCHANGED <<mode, gpuVars, bufferVars, nrVars, in_table, kref, handling, was_handling,
                   is_suspended, service_lock, qVars, top, ktVars>>

IsrDown(t) ==
    /\ pc[t] = "isr_down" /\ service_lock = 1
    /\ service_lock' = 0
    /\ Goto(t, "flush_wait")
    /\ UNCHANGED <<mode, gpuVars, bufferVars, intrVars, nrVars, in_table, kref, isrVars,
                   qVars, top, ktVars, events>>

FlushWait(t) ==
    /\ pc[t] = "flush_wait" /\ replays = 0
    /\ UpdatePut
    /\ Goto(t, "flush")
    /\ UNCHANGED <<mode, resident, replays, buffer, intrVars, nrVars, in_table, kref, isrVars,
                   service_lock, qVars, top, ktVars, events>>

Flush(t) ==
    /\ pc[t] = "flush"
    /\ DropCachedAndReplay
    /\ Goto(t, "isr_unlock")
    /\ UNCHANGED <<mode, access, resident, intr_enabled, nrVars, in_table, kref, isrVars,
                   service_lock, qVars, top, ktVars, events>>

FlushUnlock(t) ==
    /\ pc[t] = "isr_unlock"
    /\ IsrUnlock
    /\ Goto(t, "retrigger")
    /\ UNCHANGED <<mode, gpuVars, bufferVars, nrVars, in_table, kref, handling, was_handling,
                   is_suspended, qVars, top, ktVars, events>>

FlushRetrigger(t) ==
    /\ pc[t] = "retrigger"
    /\ Retrigger
    /\ Goto(t, IF t = "pm" THEN "suspend" ELSE "idle")
    /\ UNCHANGED <<mode, gpuVars, buffer, nrVars, in_table, handling, was_handling,
                   is_suspended, should_exit, top, ktVars, events>>

\* _raw_q_flush() queues an item of its own and waits until it has run.
QFlush(t) ==
    /\ pc[t] \in {"q_flush1", "q_flush2"}
    /\ queue' = Append(queue, t)
    /\ Goto(t, IF pc[t] = "q_flush1" THEN "q_wait1" ELSE "q_wait2")
    /\ UNCHANGED <<mode, gpuVars, bufferVars, intrVars, nrVars, in_table, kref, isrVars,
                   service_lock, should_exit, top, ktVars, events>>

\* uvm_suspend(): once RM has preempted the user channels, the fault buffer is flushed.
\* Its pm.lock excludes removals, which are done under an entry point.
Suspend ==
    /\ pc["pm"] = "idle" /\ in_table /\ events < MaxEvents
    /\ events' = events + 1
    /\ access' = [p \in Pages |-> IF access[p] = "run" THEN "run" ELSE "preempted"]
    /\ IntrDisable
    /\ Goto("pm", "isr_down")
    /\ UNCHANGED <<mode, resident, replays, bufferVars, nrVars, in_table, kref, handling,
                   was_handling, is_suspended, service_lock, qVars, top, ktVars>>

SetSuspended ==
    /\ pc["pm"] = "suspend"
    /\ is_suspended' = TRUE
    /\ Goto("pm", "q_flush1")
    /\ UNCHANGED <<mode, gpuVars, bufferVars, intrVars, nrVars, in_table, kref, handling,
                   was_handling, disable_intr_ref_count, service_lock, qVars, top, ktVars, events>>

Sleep ==
    /\ pc["pm"] = "q_flushed"
    /\ Goto("pm", "asleep")
    /\ UNCHANGED <<mode, gpuVars, bufferVars, intrVars, nrVars, in_table, kref, isrVars,
                   service_lock, qVars, top, ktVars, events>>

\* uvm_resume(): GET and PUT are read again; RM lets the channels go on.
Resume ==
    /\ pc["pm"] = "asleep"
    /\ cached' = Len(buffer)
    /\ is_suspended' = FALSE
    /\ access' = [p \in Pages |-> IF access[p] = "preempted" THEN "fault" ELSE access[p]]
    /\ Goto("pm", "idle")
    /\ UNCHANGED <<mode, resident, replays, buffer, intrVars, nrVars, in_table, kref, handling,
                   was_handling, disable_intr_ref_count, service_lock, qVars, top, ktVars, events>>

\* uvm_gpu_release_locked(), remove_gpu(): nobody has the GPU retained and its channels
\* are gone.  A reference is taken, and the parent GPU leaves the table.
RemoveGpu ==
    /\ pc = [t \in Threads |-> "idle"] /\ in_table
    /\ kref' = kref + 1 /\ in_table' = FALSE
    /\ access' = [p \in Pages |-> "run"]
    /\ Goto("user", "disable_isr")
    /\ UNCHANGED <<mode, resident, replays, bufferVars, intrVars, nrVars, isrVars, service_lock,
                   qVars, top, ktVars, events>>

\* Mutant: handling stays set.
DisableIsrKeeps ==
    /\ pc["user"] = "disable_isr"
    /\ IntrDisable
    /\ was_handling' = handling
    /\ Goto("user", "q_flush1")
    /\ UNCHANGED <<mode, gpuVars, bufferVars, nrVars, in_table, kref, handling, is_suspended,
                   service_lock, qVars, top, ktVars, events>>

\* uvm_parent_gpu_disable_isr(), then nv_kthread_q_stop()
DisableIsr ==
    /\ pc["user"] = "disable_isr"
    /\ IntrDisable
    /\ was_handling' = handling /\ handling' = FALSE
    /\ Goto("user", "q_flush1")
    /\ UNCHANGED <<mode, gpuVars, bufferVars, nrVars, in_table, kref, is_suspended,
                   service_lock, qVars, top, ktVars, events>>

QStop ==
    /\ pc["user"] = "q_flushed"
    /\ should_exit' = TRUE
    /\ Goto("user", "join")
    /\ UNCHANGED <<mode, gpuVars, bufferVars, intrVars, nrVars, in_table, kref, isrVars,
                   service_lock, queue, top, ktVars, events>>

\* kthread_stop() returns
Join ==
    /\ pc["user"] = "join" /\ kt = "exit"
    /\ Goto("user", "deinit")
    /\ UNCHANGED <<mode, gpuVars, bufferVars, intrVars, nrVars, in_table, kref, isrVars,
                   service_lock, qVars, top, ktVars, events>>

\* deinit_parent_gpu() drops the first reference, uvm_gpu_release_locked() its own.
Deinit ==
    /\ pc["user"] \in {"deinit", "release"}
    /\ kref' = kref - 1
    /\ Goto("user", IF pc["user"] = "deinit" THEN "release" ELSE "removed")
    /\ UNCHANGED <<mode, gpuVars, bufferVars, intrVars, nrVars, in_table, isrVars,
                   service_lock, qVars, top, ktVars, events>>

-----------------------------------------------------------------------------
Kthread ==
    \/ KtTake \/ KtExit \/ KtFetch \/ KtService \/ KtServiceFails \/ KtFlush \/ KtReplayWait
    \/ KtFinish \/ KtUnlock \/ KtRetrigger \/ KtNonReplayable \/ KtPut

Continue(t) ==
    \/ FlushWait(t) \/ Flush(t) \/ FlushUnlock(t) \/ FlushRetrigger(t) \/ QFlush(t)
    \/ t = "pm" /\ (SetSuspended \/ Sleep \/ Resume)
    \/ t = "user" /\ (DisableIsr \/ QStop \/ Join \/ Deinit)

Hardware ==
    \/ \E p \in Pages : GpuFault(p)
    \/ \E i \in 1 .. BufferSize : GpuWriteEntry(i)
    \/ GpuReplay

TopHalf == TopSchedule \/ TopExit
TopDue == TopEnter /\ ((intr_pending /\ intr_enabled) \/ nr_due)

Next ==
    \/ \E p \in Pages : GpuAccess(p)
    \/ NonReplayableFault \/ Hardware
    \/ TopEnter \/ TopHalf \/ Kthread
    \/ FlushCall \/ Suspend \/ RemoveGpu
    \/ \E t \in Threads : IsrDown(t) \/ Continue(t)

Spec == Init /\ [][Next]_vars

\* The kernel runs its threads, the GPU makes progress on what it has begun, RM calls the
\* top half for an interrupt that is pending and enabled, and a semaphore is handed to
\* the thread that waits for it, however often it is taken in between.
Fairness ==
    /\ \A p \in Pages : WF_vars(GpuFault(p))
    /\ \A i \in 1 .. BufferSize : WF_vars(GpuWriteEntry(i))
    /\ WF_vars(GpuReplay) /\ WF_vars(TopDue) /\ WF_vars(TopHalf) /\ WF_vars(Kthread)
    /\ \A t \in Threads : SF_vars(IsrDown(t)) /\ WF_vars(Continue(t))

FairSpec == Spec /\ Fairness

-----------------------------------------------------------------------------
(* Properties. *)

\* Type invariant.
TypeOK ==
    /\ mode \in Modes
    /\ access \in [Pages -> {"run", "fault", "stalled", "preempted"}]
    /\ resident \subseteq Pages /\ batch \subseteq Pages
    /\ replays \in 0 .. MaxReplays
    /\ buffer \in Seq(Entries) /\ cached \in 0 .. Len(buffer)
    /\ {intr_pending, intr_enabled, nr_due, in_table, handling, was_handling, is_suspended,
        should_exit, replayed} \subseteq BOOLEAN
    /\ {nr_queue, kref, disable_intr_ref_count, num_batches} \subseteq Nat /\ events \in 0 .. MaxEvents
    /\ service_lock \in {0, 1}
    /\ queue \in Seq(Items)
    /\ top \in {"idle", "schedule", "put"}
    /\ kt \in {"wait", "exit", "fetch", "service", "flush", "replay_wait", "finish", "unlock",
               "retrigger", "non_replayable", "put"}
    /\ pc \in [Threads -> {"idle", "isr_down", "flush_wait", "flush", "isr_unlock", "retrigger",
                           "q_flush1", "q_wait1", "q_flush2", "q_wait2", "q_flushed", "suspend",
                           "asleep", "disable_isr", "join", "deinit", "release", "removed"}]

One(b) == IF b THEN 1 ELSE 0

\* The bottom half that holds the service lock, queued or running, and threads that do.
BottomHalfLocks ==
    {"replayable"} \cap (Range(queue) \cup
        IF kt \in {"fetch", "service", "flush", "replay_wait", "finish", "unlock"}
        THEN {"replayable"} ELSE {})
ThreadLocks == {t \in Threads : pc[t] \in {"flush_wait", "flush", "isr_unlock"}}

\* The service lock passes from the half that takes it to the one that releases it: it is
\* taken exactly when one bottom half, queued or running, or one thread has it, and the
\* bottom half is queued at most once.  (A bottom half that found no GPU keeps it.)
LockHandedOver ==
    /\ Cardinality({i \in DOMAIN queue : queue[i] = "replayable"}) <= 1
    /\ "replayable" \in Range(queue) =>
         kt \notin {"fetch", "service", "flush", "replay_wait", "finish", "unlock"}
    /\ (mode # "smc" \/ in_table) =>
         Cardinality(BottomHalfLocks) + Cardinality(ThreadLocks) = 1 - service_lock

\* While the GPU handles faults, the disable count is the number of those who asked for
\* it, and the interrupt is enabled exactly when there is none; once it is being removed
\* the interrupt is never enabled again (uvm_parent_gpu_deinit_isr(): "we're guaranteed
\* that replayable faults interrupts are disabled and can't get re-enabled").
IntrMasked ==
    /\ handling =>
         /\ intr_enabled <=> disable_intr_ref_count = 0
         /\ (mode # "smc" \/ in_table) =>
              disable_intr_ref_count =
                Cardinality(BottomHalfLocks)
                + Cardinality(ThreadLocks \cup {t \in Threads : pc[t] = "isr_down"})
    /\ ~handling => ~intr_enabled /\ disable_intr_ref_count > 0

\* Lock and mask belong to the same party: whoever services faults or flushes has both
\* (schedule_replayable_faults_handler(), uvm_parent_gpu_replayable_faults_isr_unlock()).
InCharge == TypeOK /\ LockHandedOver /\ IntrMasked

\* The parent GPU is referenced by its creator until it is removed, by the one who
\* removes it, by the top half and by each bottom half that is queued or running, and by
\* nobody else: it is freed when all have ended, and not before.
KrefExact ==
    kref = One(pc["user"] \notin {"release", "removed"})
           + One(~in_table /\ pc["user"] # "removed")
           + One(top # "idle")
           + Cardinality(BottomHalves \cap Range(queue))
           + One(kt \notin {"wait", "exit"})

\* When uvm_suspend() returns, and once the thread of the queue has been told to exit, no
\* bottom half is queued or running: to flush twice is enough although the replayable
\* one queues itself again.  A suspended GPU has no fault left in its buffer.
Quiesced ==
    pc["pm"] = "asleep" \/ should_exit =>
        /\ BottomHalves \cap Range(queue) = {}
        /\ kt \in {"wait", "exit"}
        /\ pc["pm"] = "asleep" => buffer = <<>>

\* Every access that misses goes on, or is preempted for a suspend: no fault is lost
\* between the batches, the flushes and the interrupts that are masked, dropped or
\* cleared meanwhile ("a bottom half needs to be manually scheduled in order to ensure
\* that all faults are serviced", replayable_faults_retrigger_bottom_half()).
AccessesGoOn ==
    \A p \in Pages : access[p] \in {"fault", "stalled"} ~> access[p] \in {"run", "preempted"}

\* When RM calls for a non-replayable fault it has queued, the queue is emptied, unless
\* the GPU is suspended or removed meanwhile: "no further interrupts will be triggered"
\* for it (schedule_non_replayable_faults_handler()).
NonReplayableServiced ==
    nr_due ~> nr_queue = 0 \/ pc["pm"] # "idle" \/ ~in_table

\* Every fault, replayable or not, is dealt with in the end.
FaultsServiced == AccessesGoOn /\ NonReplayableServiced

\* Flushes, suspends and removals end, whoever holds the service lock and the queue.
ThreadsReturn ==
    \A t \in Threads : pc[t] \notin {"idle", "removed"} ~> pc[t] \in {"idle", "removed"}
=============================================================================

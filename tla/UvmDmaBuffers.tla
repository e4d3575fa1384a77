--------------------------- MODULE UvmDmaBuffers ---------------------------
(***************************************************************************)
(* Staged copies of Confidential Computing (uvm_va_block.c) through the    *)
(* pool of DMA staging buffers of each GPU (uvm_conf_computing.c), and the *)
(* trackers that order them (uvm_tracker.c).                               *)
(*                                                                         *)
(* A copy of a VA block has one leg per push: CPU to GPU, GPU to CPU, or   *)
(* GPU to CPU followed by CPU to another GPU.  A leg copies the tracker of *)
(* the block, takes a staging buffer and waits for its last user, begins a *)
(* push that acquires what the block still waits for, and gives the buffer *)
(* back with the push in the tracker of the buffer.  GPUs join the pool    *)
(* when a VA space registers them and leave when their last reference is   *)
(* dropped; a GPU may fail, and so may an allocation.                      *)
(*                                                                         *)
(* Abstracted: the content of the copies, the pages of a block, the rings  *)
(* of the channels (UvmChannel) and the mask of encrypted pages.  There is *)
(* one channel per GPU and direction.                                      *)
(***************************************************************************)
EXTENDS Integers, Sequences, FiniteSets, Functions

CONSTANTS
    Threads, Blocks, Gpus,
    Plans,           \* the copies that are made, each a sequence of legs
    None,            \* no buffer
    InitialBuffers,  \* buffers the pool of a GPU is created with, 32 in the code
    MaxBuffers,      \* bound on the buffers of a pool: memory
    TrackerMayFail,  \* memory for the entries of a tracker may run out
    MaxFailures,     \* bound on failed begins, registrations and channels
    MaxCalls, MaxRegisters  \* bounds on copies and registrations

Types == {"c2g", "g2c"}
Channels == Gpus \X Types
Gpu(c) == c[1]

(* The legs of a copy.  To the CPU: from some GPUs, one after the other.   *)
(* To GPU h: from the CPU, a leg per NUMA node that has pages, and staged  *)
(* through the CPU from other GPUs, again a leg per node for the second    *)
(* stage.                                                                  *)
ASSUME PlansAssumption ==
    \A p \in Plans :
        /\ p \in Seq(Channels) /\ p # <<>>
        /\ LET down(i) == p[i][2] = "g2c"
           IN  \/ \A i \in DOMAIN p : down(i)
               \/ \E h \in Gpus :
                     /\ p[Len(p)] = <<h, "c2g">>
                     /\ \A i \in DOMAIN p : IF down(i) THEN Gpu(p[i]) # h ELSE Gpu(p[i]) = h
                     /\ \A i, k \in DOMAIN p : down(i) /\ down(k) => \A j \in i .. k : down(j)

ASSUME ConstantsAssumption ==
    /\ IsFiniteSet(Threads)
    /\ IsFiniteSet(Gpus) /\ Cardinality(Gpus) <= 256  \* UVM_ID_MAX_GPUS
    /\ None \notin Gpus \X (1 .. MaxBuffers) /\ None \notin Blocks
    /\ InitialBuffers \in [Gpus -> Nat]
    /\ MaxBuffers \in Nat /\ MaxFailures \in Nat /\ MaxCalls \in Nat /\ MaxRegisters \in Nat
    /\ TrackerMayFail \in BOOLEAN

VARIABLES
    pool,       \* per GPU: on, the free list, num_dma_buffers
    tracker,    \* tracker of each buffer
    block,      \* tracker of each VA block
    th,         \* the call of each thread
    reg,        \* gpu_unregister_dma_buffer of the VA space, per GPU
    lost,       \* buffers that nothing refers to any more
    queued, completed, failed, pending,  \* per channel
    fatal,      \* the global fatal error
    calls, registers, failures  \* copies, registrations and failures so far

channelVars == <<queued, completed, failed, pending>>
bounds == <<calls, registers, failures>>
vars == <<pool, tracker, block, th, reg, lost, channelVars, fatal, bounds>>

Buffers == Gpus \X (1 .. MaxBuffers)

-----------------------------------------------------------------------------
(* Trackers.  A tracker maps channels to values; max_size is 1 until it    *)
(* grows, and 0 once it was deinitialized.                                 *)

NoEntries == [c \in {} |-> 0]
Empty == [e |-> NoEntries, max |-> 1]

Size(t) == Cardinality(DOMAIN t.e)

\* uvm_tracker_is_entry_completed, for all entries
Pending(t) == {c \in DOMAIN t.e : completed[c] < t.e[c]}

uvm_tracker_clear(t) == [t EXCEPT !.e = NoEntries]

uvm_tracker_remove_completed(t) == [t EXCEPT !.e = Restrict(t.e, Pending(t))]

Room(t, n) == Size(t) + n <= t.max

\* max(8, roundup_pow_of_two(n)): the first growth is to 8 entries, and no more than
\* 1024 are needed for the channels of UVM_ID_MAX_GPUS GPUs.
MaxSizes == {8, 16, 32, 64, 128, 256, 512, 1024}
NewMaxSize(n) == CHOOSE m \in MaxSizes : n <= m /\ \A k \in MaxSizes : n <= k => m <= k

\* uvm_tracker_reserve
Reserved(t, n) == IF Room(t, n) THEN t ELSE [t EXCEPT !.max = NewMaxSize(Size(t) + n)]

\* An allocation is needed and fails.
ReserveFails(t, n) == ~Room(t, n) /\ TrackerMayFail

Merge(e, f) ==
    [c \in DOMAIN e \cup DOMAIN f |->
        IF c \notin DOMAIN f \/ (c \in DOMAIN e /\ e[c] >= f[c]) THEN e[c] ELSE f[c]]

\* reserve_for_entries_from_tracker
NeededEntries(dst, src) == Cardinality(DOMAIN src.e \ DOMAIN dst.e)

\* What uvm_tracker_add_tracker may leave in dst when it succeeds
AddTracker(dst, src) ==
    LET d == uvm_tracker_remove_completed(dst)
        s == uvm_tracker_remove_completed(src)
    IN  IF Size(src) = 0 THEN {dst}
        ELSE {[Reserved(dst, Size(src)) EXCEPT !.e = Merge(dst.e, src.e)]}
             \cup {r \in {[Reserved(d, NeededEntries(d, s)) EXCEPT !.e = Merge(d.e, s.e)]} :
                       ReserveFails(dst, Size(src))}

\* uvm_tracker_add_tracker returns NV_ERR_NO_MEMORY
AddTrackerFails(dst, src) ==
    LET d == uvm_tracker_remove_completed(dst)
        s == uvm_tracker_remove_completed(src)
    IN  /\ Size(src) > 0
        /\ ReserveFails(dst, Size(src))
        /\ ReserveFails(d, NeededEntries(d, s))

\* uvm_tracker_wait succeeds, or finds an error while work is pending.
Done(t) == Pending(t) = {}
Broken(t) == Pending(t) # {} /\ (fatal \/ \E c \in Pending(t) : failed[c])

\* The wait returns.
Settled(t) == Done(t) \/ Broken(t)

\* Entries of other GPUs, uvm_tracker_wait_for_other_gpus
Others(t, g) == Restrict(t.e, {c \in DOMAIN t.e : Gpu(c) # g})

PushTracker(c, v) == [Empty EXCEPT !.e = [x \in {c} |-> v]]

-----------------------------------------------------------------------------
(* The pools.                                                              *)

Idle == [pc |-> "idle", kind |-> "copy", block |-> None, plan |-> <<>>, buf |-> None,
         loc |-> Empty, copy |-> Empty, v |-> 0, ok |-> TRUE, call |-> 0]

Held == {th[t].buf : t \in Threads} \cup {reg[g] : g \in Gpus}
FreeSet == UNION {Range(pool[g].free) : g \in Gpus}

\* Buffers of g that can be created, and n of them
Fresh(g) == {b \in Buffers : b[1] = g} \ (Held \cup FreeSet \cup lost)
NewBuffers(g, n) == CHOOSE s \in [1 .. n -> Fresh(g)] : IsInjective(s)

\* Mutant: an empty pool is not expanded, its users wait for a buffer.
ExpandNever(g) == {}

\* dma_buffer_pool_expand_locked: up to as many buffers again, as memory allows
ExpandLocked(g) ==
    {[pool[g] EXCEPT !.free = @ \o NewBuffers(g, k), !.num = @ + k] :
        k \in {n \in 0 .. pool[g].num : n <= Cardinality(Fresh(g))}}

\* dma_buffer_pool_add
PoolAdd(b) == [pool EXCEPT ![b[1]].free = Append(@, b)]

TypeOK ==
    /\ \A g \in Gpus : /\ pool[g].on \in BOOLEAN
                       /\ pool[g].free \in Seq(Buffers)
                       /\ pool[g].num \in 0 .. MaxBuffers
    /\ \A t \in {tracker[b] : b \in Buffers} \cup {block[b] : b \in Blocks} :
           t.max \in {0, 1} \cup MaxSizes /\ DOMAIN t.e \subseteq Channels /\ Size(t) <= t.max
    /\ lost \subseteq Buffers
    /\ \A c \in Channels : completed[c] \in 0 .. queued[c]

Init ==
    /\ pool = [g \in Gpus |-> [on |-> FALSE, free |-> <<>>, num |-> 0]]
    /\ tracker = [b \in Buffers |-> Empty]
    /\ block = [b \in Blocks |-> Empty]
    /\ th = [t \in Threads |-> Idle]
    /\ reg = [g \in Gpus |-> None]
    /\ lost = {}
    /\ queued = [c \in Channels |-> 0]
    /\ completed = [c \in Channels |-> 0]
    /\ failed = [c \in Channels |-> FALSE]
    /\ pending = [c \in Channels |-> <<>>]
    /\ fatal = FALSE
    /\ calls = 0
    /\ registers = 0
    /\ failures = 0

-----------------------------------------------------------------------------
(* Calls.                                                                  *)

AllIdle == \A t \in Threads : th[t].pc = "idle"

\* The va_space lock: a registration excludes the copies.
Registering == \E t \in Threads : th[t].kind = "reg" /\ th[t].pc # "idle"

\* Pages staged on the CPU go on to their GPU.
Staged(plan) == Len(plan) > 1 /\ plan[1][2] = "g2c" /\ plan[2][2] = "c2g"

Registered(plan) == \A i \in DOMAIN plan : reg[Gpu(plan[i])] # None

\* block_copy_resident_pages takes the block, or a tool writes and reads
\* through uvm_conf_computing_util_memcopy_*.
Start(t, b, plan, kind) ==
    /\ th[t].pc = "idle"
    /\ calls < MaxCalls
    /\ ~Registering
    /\ Registered(plan)
    /\ \A u \in Threads : th[u].block # b
    /\ kind = "util" => Len(plan) = 1
    /\ calls' = calls + 1
    /\ th' = [th EXCEPT ![t] = [Idle EXCEPT !.pc = IF kind = "util" THEN "take" ELSE "begin",
                                            !.kind = kind, !.block = b, !.plan = plan, !.call = calls']]
    /\ UNCHANGED <<pool, tracker, block, reg, lost, channelVars, fatal, registers, failures>>

\* uvm_va_space_register_gpu; the first reference to a GPU creates its pool.
RegisterGpu(t, g) ==
    /\ AllIdle
    /\ registers < MaxRegisters
    /\ reg[g] = None
    /\ \/ pool[g].on /\ UNCHANGED pool
       \/ LET n == InitialBuffers[g]
          IN  /\ ~pool[g].on
              /\ n <= Cardinality(Fresh(g))
              /\ pool' = [pool EXCEPT ![g] = [on |-> TRUE, free |-> NewBuffers(g, n), num |-> n]]
    /\ registers' = registers + 1
    /\ th' = [th EXCEPT ![t] = [Idle EXCEPT !.pc = "take", !.kind = "reg", !.plan = <<<<g, "c2g">>>>]]
    /\ UNCHANGED <<tracker, block, reg, lost, channelVars, fatal, calls, failures>>

-----------------------------------------------------------------------------
(* One leg.                                                                *)

Channel(t) == Head(th[t].plan)

\* uvm_tracker_overwrite_safe(&local_tracker, &block->tracker)
Overwrite(t) ==
    LET src == block[th[t].block]
    IN  /\ th[t].pc = "begin"
        /\ \/ th' = [th EXCEPT ![t].pc = "take", ![t].loc = [Reserved(Empty, Size(src)) EXCEPT !.e = src.e]]
           \/ /\ ReserveFails(Empty, Size(src))
              /\ th' = [th EXCEPT ![t].pc = "overwait"]
        /\ UNCHANGED <<pool, tracker, block, reg, lost, channelVars, fatal, bounds>>

\* ... and its wait for the block when the copy of the tracker does not fit
OverwriteWait(t) ==
    LET src == block[th[t].block]
    IN  /\ th[t].pc = "overwait"
        /\ Settled(src)
        /\ fatal' = (fatal \/ Broken(src))
        /\ block' = [block EXCEPT ![th[t].block] = uvm_tracker_clear(src)]
        /\ th' = [th EXCEPT ![t].pc = IF Broken(src) THEN "next" ELSE "take", ![t].ok = ~Broken(src)]
        /\ UNCHANGED <<pool, tracker, reg, lost, channelVars, bounds>>

\* The call fails before it has a buffer.
NoBuffer(t) == IF th[t].kind = "copy" THEN [th EXCEPT ![t].pc = "next", ![t].ok = FALSE]
                                      ELSE [th EXCEPT ![t] = Idle]

\* Mutant: the first buffer is not removed from the free list.
TakeKeepsNode(p) == p

\* list_del_init(&dma_buffer->node)
TakeFirst(p) == [p EXCEPT !.free = Tail(@)]

\* uvm_conf_computing_dma_buffer_alloc up to the unlock of the pool
PoolTake(t) ==
    LET g == Gpu(Channel(t))
    IN  /\ th[t].pc = "take"
        /\ \E p \in IF pool[g].free = <<>> THEN ExpandLocked(g) ELSE {pool[g]} :
              IF p.free = <<>>
              THEN th' = NoBuffer(t) /\ UNCHANGED pool
              ELSE /\ pool' = [pool EXCEPT ![g] = TakeFirst(p)]
                   /\ th' = [th EXCEPT ![t].pc = "alloc", ![t].buf = Head(p.free)]
        /\ UNCHANGED <<tracker, block, reg, lost, channelVars, fatal, bounds>>

\* What follows the allocation
AfterAlloc(t) ==
    CASE th[t].kind = "reg" -> "peers"
      [] th[t].kind = "copy" /\ Channel(t)[2] = "c2g" -> "local"
      [] OTHER -> "push"

\* The rest of the allocation.  The entries that are added to local_tracker
\* are the ones that are waited for right after.
AllocReady(t) ==
    /\ th[t].pc = "alloc"
    /\ Done(tracker[th[t].buf])
    /\ tracker' = [tracker EXCEPT ![th[t].buf] = uvm_tracker_clear(@)]
    /\ th' = [th EXCEPT ![t].pc = AfterAlloc(t)]
    /\ UNCHANGED <<pool, block, reg, lost, channelVars, fatal, bounds>>

\* The tracker is deinitialized and the buffer goes back to the pool.
AllocError(t) ==
    LET b == th[t].buf
    IN  /\ th[t].pc = "alloc"
        /\ Broken(tracker[b])
        /\ fatal' = TRUE
        /\ tracker' = [tracker EXCEPT ![b] = [e |-> NoEntries, max |-> 0]]
        /\ pool' = PoolAdd(b)
        /\ th' = [NoBuffer(t) EXCEPT ![t].buf = None]
        /\ UNCHANGED <<block, reg, lost, channelVars, bounds>>

\* The begin of the push of a copy fails: nobody frees the buffer.
LoseBuffer(t) ==
    /\ lost' = lost \cup {th[t].buf}
    /\ th' = [th EXCEPT ![t].pc = "next", ![t].ok = FALSE, ![t].buf = None, ![t].loc = Empty]

\* CPU to GPU: uvm_tracker_wait(&local_tracker), before the CPU encrypts
LocalWait(t) ==
    /\ th[t].pc = "local"
    /\ \/ /\ Done(th[t].loc)
          /\ th' = [th EXCEPT ![t].pc = "push", ![t].loc = uvm_tracker_clear(@)]
          /\ UNCHANGED <<lost, fatal>>
       \/ /\ Broken(th[t].loc)
          /\ fatal' = TRUE
          /\ LoseBuffer(t)
    /\ UNCHANGED <<pool, tracker, block, reg, channelVars, bounds>>

\* The tracker that uvm_push_begin_acquire is called with
Acquired(t) == IF th[t].kind = "util" THEN block[th[t].block] ELSE th[t].loc

\* wait_for_other_gpus_if_needed
OthersDone(tr, g) == \A c \in Pending(tr) : Gpu(c) = g

\* Mutant: the push acquires nothing.
AcquiresNothing(tr, c) == NoEntries

\* push_acquire_tracker_entry skips the channel of the push itself.
Acquires(tr, c) == Restrict(tr.e, Pending(tr) \ {c})

\* uvm_push_begin_acquire to uvm_push_end; the CPU encrypts in between.
Push(t) ==
    LET c == Channel(t)
        tr == Acquired(t)
        v == queued[c] + 1
    IN  /\ th[t].pc = "push"
        /\ OthersDone(tr, Gpu(c))
        /\ queued' = [queued EXCEPT ![c] = v]
        /\ pending' = [pending EXCEPT ![c] = Append(@,
               [v |-> v, call |-> th[t].call, block |-> th[t].block, buf |-> th[t].buf, deps |-> Acquires(tr, c)])]
        /\ block' = IF th[t].kind = "util"
                    THEN [block EXCEPT ![th[t].block] = uvm_tracker_remove_completed(@)] ELSE block
        /\ th' = [th EXCEPT ![t].v = v, ![t].loc = Empty,
                            ![t].pc = IF th[t].kind = "copy" /\ c[2] = "c2g" THEN "add" ELSE "finish"]
        /\ UNCHANGED <<pool, tracker, reg, lost, completed, failed, fatal, bounds>>

\* Mutant: the tracker of the caller is dropped.
FreeTrackerDropped(b, src) == {uvm_tracker_remove_completed(tracker[b])}

\* The tracker uvm_conf_computing_dma_buffer_free leaves in the buffer.  It
\* only needs memory after a deinit, when the wait fails at once.
FreeTracker(b, src) ==
    LET dst == uvm_tracker_remove_completed(tracker[b])
        s == uvm_tracker_remove_completed(src)
    IN  AddTracker(dst, s) \cup {d \in {dst} : AddTrackerFails(dst, s) /\ fatal}

\* uvm_conf_computing_dma_buffer_free
FreeBuffer(b, src) ==
    /\ \E r \in FreeTracker(b, src) : tracker' = [tracker EXCEPT ![b] = r]
    /\ pool' = PoolAdd(b)

\* The push does not begin: an entry of another GPU failed, or the channel
\* cannot rotate its IVs (NV_ERR_INSUFFICIENT_RESOURCES).
PushFails(t) ==
    LET c == Channel(t)
        tr == Acquired(t)
        others == [tr EXCEPT !.e = Others(tr, Gpu(c))]
    IN  /\ th[t].pc = "push"
        /\ \/ Broken(others) /\ UNCHANGED failures
           \/ Done(others) /\ failures < MaxFailures /\ failures' = failures + 1
        /\ fatal' = (fatal \/ Broken(others))
        /\ block' = IF th[t].kind = "util" /\ Broken(others)
                    THEN [block EXCEPT ![th[t].block] = uvm_tracker_clear(@)] ELSE block
        /\ IF th[t].kind = "util"
           THEN FreeBuffer(th[t].buf, Empty) /\ th' = [th EXCEPT ![t] = Idle] /\ UNCHANGED lost
           ELSE LoseBuffer(t) /\ UNCHANGED <<pool, tracker>>
        /\ UNCHANGED <<reg, channelVars, calls, registers>>

\* What uvm_push_wait waits for
PushOf(t) == PushTracker(Channel(t), th[t].v)

\* conf_computing_copy_pages_finish of a GPU to CPU copy: the CPU decrypts.
Finish(t) ==
    /\ th[t].pc = "finish" /\ th[t].kind = "copy"
    /\ Settled(PushOf(t))
    /\ fatal' = (fatal \/ Broken(PushOf(t)))
    /\ th' = [th EXCEPT ![t].ok = Done(PushOf(t)), ![t].pc = "add"]
    /\ UNCHANGED <<pool, tracker, block, reg, lost, channelVars, bounds>>

\* uvm_push_end_and_wait: the utilities wait, decrypt, and free the buffer without a tracker.
UtilFinish(t) ==
    /\ th[t].pc = "finish" /\ th[t].kind = "util"
    /\ Settled(PushOf(t))
    /\ fatal' = (fatal \/ Broken(PushOf(t)))
    /\ FreeBuffer(th[t].buf, Empty)
    /\ th' = [th EXCEPT ![t] = Idle]
    /\ UNCHANGED <<block, reg, lost, channelVars, bounds>>

\* block_copy_resident_pages_mask goes on with the next source, or the copy
\* tracker goes to the block.
AfterLeg(t, ok) ==
    IF ok /\ Len(th[t].plan) > 1 /\ ~Staged(th[t].plan)
    THEN [th[t] EXCEPT !.pc = "begin", !.plan = Tail(@), !.buf = None]
    ELSE [th[t] EXCEPT !.pc = "next", !.buf = None, !.ok = ok]

\* uvm_tracker_add_push_safe(copy_tracker, push); the buffer is freed.
AddPush(t) ==
    LET c == Channel(t)
        dst == th[t].copy
        n == IF c \in DOMAIN dst.e THEN 0 ELSE 1
    IN  /\ th[t].pc = "add"
        /\ \/ /\ FreeBuffer(th[t].buf, PushOf(t))
              /\ th' = [th EXCEPT ![t] = [AfterLeg(t, th[t].ok) EXCEPT
                           !.copy = [Reserved(dst, n) EXCEPT !.e = Merge(@, PushOf(t).e)]]]
           \/ /\ ReserveFails(dst, n)
              /\ th' = [th EXCEPT ![t].pc = "addwait"]
              /\ UNCHANGED <<pool, tracker>>
        /\ UNCHANGED <<block, reg, lost, channelVars, fatal, bounds>>

\* ... after a wait for the push when the tracker has no memory for it
AddPushWait(t) ==
    /\ th[t].pc = "addwait"
    /\ Settled(PushOf(t))
    /\ fatal' = (fatal \/ Broken(PushOf(t)))
    /\ FreeBuffer(th[t].buf, PushOf(t))
    /\ th' = [th EXCEPT ![t] = AfterLeg(t, th[t].ok /\ Done(PushOf(t)))]
    /\ UNCHANGED <<block, reg, lost, channelVars, bounds>>

\* After the copy tracker is in the tracker of the block: the second half of
\* a staged copy, or the end of the call
AfterAdd(t, ok) ==
    IF ok /\ Len(th[t].plan) > 1
    THEN [th EXCEPT ![t].pc = "begin", ![t].plan = Tail(@), ![t].copy = uvm_tracker_clear(@)]
    ELSE [th EXCEPT ![t] = Idle]

\* uvm_tracker_add_tracker_safe(&block->tracker, &local_tracker)
AddToBlock(t) ==
    LET dst == block[th[t].block]
        src == th[t].copy
    IN  /\ th[t].pc = "next"
        /\ \/ /\ \E r \in AddTracker(dst, src) : block' = [block EXCEPT ![th[t].block] = r]
              /\ th' = AfterAdd(t, th[t].ok)
           \/ /\ AddTrackerFails(dst, src)
              /\ block' = [block EXCEPT ![th[t].block] = uvm_tracker_remove_completed(@)]
              /\ th' = [th EXCEPT ![t].pc = "nextwait"]
        /\ UNCHANGED <<pool, tracker, reg, lost, channelVars, fatal, bounds>>

AddToBlockWait(t) ==
    /\ th[t].pc = "nextwait"
    /\ Settled(th[t].copy)
    /\ fatal' = (fatal \/ Broken(th[t].copy))
    /\ th' = AfterAdd(t, th[t].ok /\ Done(th[t].copy))
    /\ UNCHANGED <<pool, tracker, block, reg, lost, channelVars, bounds>>

\* uvm_va_space_register_gpu after the allocation: peers_to_release may fail.
RegisterEnd(t) ==
    /\ th[t].pc = "peers"
    /\ \/ /\ reg' = [reg EXCEPT ![Gpu(Channel(t))] = th[t].buf]
          /\ UNCHANGED <<lost, failures>>
       \/ /\ failures < MaxFailures
          /\ failures' = failures + 1
          /\ lost' = lost \cup {th[t].buf}
          /\ UNCHANGED reg
    /\ th' = [th EXCEPT ![t] = Idle]
    /\ UNCHANGED <<pool, tracker, block, channelVars, fatal, calls, registers>>

-----------------------------------------------------------------------------
(* GPUs leave.                                                             *)

\* Mutant: the trackers of the blocks are not waited for.
BlocksWaitedNot == block

\* uvm_va_block_unregister_gpu_locked waits for the whole tracker.
BlocksWaited == [b \in Blocks |-> uvm_tracker_clear(block[b])]

\* uvm_va_space_unregister_gpu, without the copies that evict the blocks
UnregisterGpu(g) ==
    /\ AllIdle
    /\ reg[g] # None
    /\ \A b \in Blocks : Settled(block[b])
    /\ fatal' = (fatal \/ \E b \in Blocks : Broken(block[b]))
    /\ block' = BlocksWaited
    /\ tracker' = [tracker EXCEPT ![reg[g]] = uvm_tracker_remove_completed(@)]
    /\ pool' = PoolAdd(reg[g])
    /\ reg' = [reg EXCEPT ![g] = None]
    /\ UNCHANGED <<th, lost, channelVars, bounds>>

\* uvm_conf_computing_dma_buffer_pool_sync and dma_buffer_destroy_locked
PoolSynced == \A b \in FreeSet : Settled(tracker[b])

\* remove_gpu: the buffers are destroyed, the pools of the other GPUs are
\* synchronized, and the channels are destroyed.
RemoveGpu(g) ==
    /\ AllIdle
    /\ pool[g].on
    /\ reg[g] = None
    /\ PoolSynced
    /\ fatal' = (fatal \/ \E b \in FreeSet : Broken(tracker[b]))
    /\ tracker' = [b \in Buffers |-> IF b[1] = g THEN Empty
                                     ELSE IF b \in FreeSet THEN uvm_tracker_clear(tracker[b]) ELSE tracker[b]]
    /\ pool' = [pool EXCEPT ![g] = [on |-> FALSE, free |-> <<>>, num |-> 0]]
    /\ queued' = [c \in Channels |-> IF Gpu(c) = g THEN 0 ELSE queued[c]]
    /\ completed' = [c \in Channels |-> IF Gpu(c) = g THEN 0 ELSE completed[c]]
    /\ failed' = [c \in Channels |-> Gpu(c) # g /\ failed[c]]
    /\ pending' = [c \in Channels |-> IF Gpu(c) = g THEN <<>> ELSE pending[c]]
    /\ lost' = {b \in lost : b[1] # g}
    /\ UNCHANGED <<block, th, reg, bounds>>

-----------------------------------------------------------------------------
(* The GPU.                                                                *)

\* A push runs once its semaphore acquires have passed.
Execute(c) ==
    /\ pending[c] # <<>>
    /\ ~failed[c]
    /\ \A d \in DOMAIN Head(pending[c]).deps : completed[d] >= Head(pending[c]).deps[d]
    /\ completed' = [completed EXCEPT ![c] = Head(pending[c]).v]
    /\ pending' = [pending EXCEPT ![c] = Tail(@)]
    /\ UNCHANGED <<pool, tracker, block, th, reg, lost, queued, failed, fatal, bounds>>

\* The error notifier of a channel is set.
FailChannel(c) ==
    /\ pending[c] # <<>>
    /\ ~failed[c]
    /\ failures < MaxFailures
    /\ failures' = failures + 1
    /\ failed' = [failed EXCEPT ![c] = TRUE]
    /\ UNCHANGED <<pool, tracker, block, th, reg, lost, queued, completed, pending, fatal, calls, registers>>

Step(t) ==
    \/ Overwrite(t) \/ OverwriteWait(t) \/ PoolTake(t) \/ AllocReady(t) \/ AllocError(t)
    \/ LocalWait(t) \/ Push(t) \/ PushFails(t) \/ Finish(t) \/ UtilFinish(t) \/ AddPush(t)
    \/ AddPushWait(t) \/ AddToBlock(t) \/ AddToBlockWait(t) \/ RegisterEnd(t)

Next ==
    \/ \E t \in Threads :
          \/ \E b \in Blocks, plan \in Plans, kind \in {"copy", "util"} : Start(t, b, plan, kind)
          \/ \E g \in Gpus : RegisterGpu(t, g)
          \/ Step(t)
    \/ \E g \in Gpus : UnregisterGpu(g) \/ RemoveGpu(g)
    \/ \E c \in Channels : Execute(c) \/ FailChannel(c)

Spec == Init /\ [][Next]_vars

\* A thread goes on spinning, the GPU goes on executing.
FairSpec == Spec /\ (\A t \in Threads : WF_vars(Step(t))) /\ (\A c \in Channels : WF_vars(Execute(c)))

-----------------------------------------------------------------------------
(* Properties.                                                             *)

InFlight(c) == Range(pending[c])

\* Calls that left uvm_conf_computing_dma_buffer_alloc with a buffer
Using(t) == th[t].pc \in {"local", "push", "finish", "add", "addwait", "peers"}

\* The push of the call itself may still use the buffer: it is waited for
\* in "finish", or its tracker is about to go to the buffer with it.
OwnPush(t, c, p) ==
    /\ c = Channel(t) /\ p.v = th[t].v
    /\ th[t].pc = "finish" \/ (th[t].kind = "copy" /\ c[2] = "c2g")

(* The CPU reads and writes a staging buffer only while no push of an      *)
(* earlier call uses it, and a result is read only after the push that     *)
(* wrote it (uvm_conf_computing_dma_buffer_alloc and _free,                *)
(* conf_computing_copy_pages_finish), up to a fatal error.                 *)
StagingIdle ==
    fatal \/ \A t \in Threads : Using(t) =>
        \A c \in Channels : \A p \in InFlight(c) : p.buf = th[t].buf => OwnPush(t, c, p)

(* A buffer is on the free list once, or with one call or VA space, or was *)
(* lost in an error path, and num_dma_buffers counts them all: neither an  *)
(* error of an allocation nor an expansion shares or miscounts a buffer.   *)
BuffersAccounted ==
    /\ TypeOK
    /\ \A g \in Gpus :
        LET free == Range(pool[g].free)
            threads == {t \in Threads : th[t].buf # None /\ th[t].buf[1] = g}
            held == {th[t].buf : t \in threads} \cup {b \in {reg[g]} : b # None}
            gone == {b \in lost : b[1] = g}
        IN  /\ Cardinality(free) = Len(pool[g].free)
            /\ Cardinality(held) = Cardinality(threads) + (IF reg[g] = None THEN 0 ELSE 1)
            /\ Cardinality(free \cup held \cup gone) = pool[g].num
            /\ pool[g].num = Cardinality(free) + Cardinality(held) + Cardinality(gone)

(* Pushes in flight of two copies of a VA block are ordered: they are in   *)
(* one channel, or one acquires the other with a semaphore of its own GPU. *)
(* Entries of other GPUs are waited for (the assertion of                  *)
(* push_acquire_tracker_entry), and so are entries that a tracker has no   *)
(* memory for.                                                             *)
CopiesOrdered ==
    fatal \/ \A c, d \in Channels : c # d =>
        \A p \in InFlight(c), q \in InFlight(d) : p.block = q.block /\ p.call # q.call =>
            /\ Gpu(c) = Gpu(d)
            /\ \/ d \in DOMAIN p.deps /\ p.deps[d] >= q.v
               \/ c \in DOMAIN q.deps /\ q.deps[c] >= p.v

(* Once a GPU is removed no tracker of a block, a buffer or a call refers  *)
(* to one of its channels, whose memory is gone                            *)
(* (uvm_va_block_unregister_gpu_locked, remove_gpus_from_gpu).             *)
NoDanglingChannel ==
    \A t \in {block[b] : b \in Blocks} \cup {tracker[b] : b \in Buffers}
             \cup {th[u].loc : u \in Threads} \cup {th[u].copy : u \in Threads} :
        \A c \in DOMAIN t.e : pool[Gpu(c)].on

(* Every copy and every registration returns: a call never waits for a     *)
(* buffer or a push of another call for good.  A call may hang only behind *)
(* a failed channel that no call looks at: uvm_push_wait checks the errors *)
(* of the channel of the push, not of the channels the push acquires.      *)
CallsReturn ==
    \/ <>[](~fatal /\ \E c \in Channels : failed[c])
    \/ \A t \in Threads : (th[t].pc # "idle") ~> (th[t].pc = "idle")
=============================================================================

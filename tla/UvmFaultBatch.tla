---------------------------- MODULE UvmFaultBatch ----------------------------
(***************************************************************************)
(* One batch of replayable GPU faults from the fault buffer to its replay: *)
(* fetch with coalescing, preprocessing, service of the VA block, and the  *)
(* precise cancel of the accesses whose permissions are refused            *)
(* (uvm_gpu_replayable_faults.c).  UvmIsr models who runs this code and    *)
(* when; here a batch is taken apart down to its entries.                  *)
(*                                                                         *)
(* The faults are of one VA space and one VA block.  The GPU supports the  *)
(* cancel by virtual address (Volta and later) and the replay policy is    *)
(* the default, UVM_PERF_FAULT_REPLAY_POLICY_BATCH_FLUSH.  Fault types     *)
(* that are fatal by themselves, ATS, HMM and global errors are left out.  *)
(***************************************************************************)
EXTENDS Naturals, Sequences, FiniteSets, SequencesExt, FiniteSetsExt

CONSTANTS
    Accesses,         \* the accesses the kernels on the GPU make
    Utlbs,            \* uTLB ids, a range 0 .. n
    Instances,        \* {instance pointer, subcontext} pairs of the VA space
    Pages,            \* the pages of the block
    Workloads,        \* what the accesses are: functions Accesses -> Access
    MaxBatchSize,     \* max_batch_size
    UpdatePutRatio,   \* replay_update_put_ratio, in percent
    MaxDisturbances   \* bound on throttle hints, retries and permission changes

(***************************************************************************)
(* uvm_fault_access_type_t, ordered by intrusiveness, and uvm_prot_t.      *)
(***************************************************************************)
PREFETCH == 0
READ == 1
WRITE == 2
ATOMIC == 3
AccessTypes == PREFETCH .. ATOMIC

Prots == 0 .. 3        \* NONE, READ_ONLY, READ_WRITE, READ_WRITE_ATOMIC
Perms == {0, 1, 3}     \* what compute_logical_prot() can return

Access == [utlb : Utlbs, inst : Instances, page : Pages, type : AccessTypes]

ASSUME BatchAssumption ==
    /\ MaxBatchSize \in Nat \ {0}
    /\ UpdatePutRatio \in Nat
    /\ MaxDisturbances \in Nat
    /\ Utlbs \subseteq Nat /\ IsFiniteSet(Utlbs) /\ 0 \in Utlbs
    /\ \A u \in Utlbs : 0 .. u \subseteq Utlbs
    /\ Pages \subseteq Nat
    /\ Workloads \subseteq [Accesses -> Access]

VARIABLES
    work,         \* what each access is
    acc,          \* where it stands: "new", "replayed", "faulted", "done", "killed"
    buffer,       \* fault buffer from get to the GPU's put: the faulting accesses
    cached_put,   \* number of entries of buffer before cached_put
    perm,         \* logical permission of a page, under the VA space lock
    prot,         \* what the GPU's page table grants
    pc,           \* where the bottom half is
    cancelling,   \* inside service_fault_batch_for_cancel()
    cache,        \* fault_cache[0 .. num_cached_faults - 1]
    last_fault,   \* batch_context->last_fault, an index of cache or 0
    utlbs,        \* num_pending_faults and last_fault of each uTLB
    max_utlb_id, num_coalesced, single_instance,
    order,        \* ordered_fault_cache, indexes of cache
    i,            \* position in order
    fatal,        \* fatal_va_space # NULL
    access_type,  \* pages to be serviced in this pass and for which access
    num_retries, num_duplicates,
    disturbances  \* throttle hints, retries and permission changes so far

gpuVars == <<work, acc, buffer, perm, prot>>
fetchVars == <<cache, last_fault, utlbs, max_utlb_id, num_coalesced, single_instance>>
serviceVars == <<order, i, fatal, access_type, num_retries, num_duplicates>>
vars == <<gpuVars, cached_put, pc, cancelling, fetchVars, serviceVars, disturbances>>

NotServiced == ATOMIC + 1     \* UVM_FAULT_ACCESS_TYPE_COUNT

\* uvm_fault_access_type_to_prot()
Prot(t) == CASE t <= READ -> 1 [] t = WRITE -> 2 [] t = ATOMIC -> 3

Entry(a) == work[cache[a].acc]

\* The accesses that replays still have to deliver: the trackers of the
\* replays are not complete before these have retried.
Replaying == {a \in Accesses : acc[a] = "replayed"}

(***************************************************************************)
(* The GPU.  A replay makes every faulted access retry; prefetches are     *)
(* dropped by it.                                                          *)
(***************************************************************************)
Replayed(f) ==
    [a \in Accesses |->
        CASE f[a] # "faulted" -> f[a]
          [] f[a] = "faulted" /\ work[a].type = PREFETCH -> "done"
          [] f[a] = "faulted" /\ work[a].type # PREFETCH -> "replayed"]

GpuAccess(a) ==
    /\ acc[a] \in {"new", "replayed"}
    /\ IF Prot(work[a].type) <= prot[work[a].page]
       THEN acc' = [acc EXCEPT ![a] = "done"] /\ UNCHANGED buffer
       ELSE acc' = [acc EXCEPT ![a] = "faulted"] /\ buffer' = Append(buffer, a)
    /\ UNCHANGED <<work, perm, prot, cached_put, pc, cancelling, fetchVars, serviceVars,
                   disturbances>>

(***************************************************************************)
(* The process changes the permissions of a page (mprotect, a policy).     *)
(* It needs the VA space lock, which the bottom half holds while it        *)
(* services or cancels; mappings that exceed the permission are revoked.   *)
(***************************************************************************)
Unlocked == pc \in {"idle", "fetch", "cancel_lock", "cancel_end", "replay", "wait"}
            /\ (cancelling => pc \in {"cancel_lock", "cancel_end"})

SetPermission(p, q) ==
    /\ Unlocked /\ disturbances < MaxDisturbances /\ q # perm[p]
    /\ perm' = [perm EXCEPT ![p] = q]
    /\ prot' = [prot EXCEPT ![p] = Min({@, q})]
    /\ disturbances' = disturbances + 1
    /\ UNCHANGED <<work, acc, buffer, cached_put, pc, cancelling, fetchVars, serviceVars>>

(***************************************************************************)
(* fetch_fault_buffer_entries(): its head, one iteration, its end.         *)
(***************************************************************************)

\* The counters up to the last batch's max_utlb_id are cleared.  The pointer to
\* the last fault is not, but is not read while num_pending_faults is 0.
ClearedUtlbs ==
    [u \in Utlbs |-> IF u <= max_utlb_id THEN [pending |-> 0, last |-> 0] ELSE utlbs[u]]

BeginFetch(next) ==
    /\ cached_put' = IF cached_put = 0 THEN Len(buffer) ELSE cached_put
    /\ utlbs' = ClearedUtlbs
    /\ max_utlb_id' = 0
    /\ cache' = <<>> /\ last_fault' = 0 /\ num_coalesced' = 0 /\ single_instance' = TRUE
    /\ fatal' = FALSE /\ num_duplicates' = 0
    /\ pc' = next

\* The head of an iteration of the service loop.
StartBatch ==
    /\ pc = "idle" /\ buffer # <<>>
    /\ BeginFetch("fetch")
    /\ UNCHANGED <<gpuVars, cancelling, order, i, access_type, num_retries, disturbances>>

SameSource(a, b) == work[a].inst = work[b].inst /\ work[a].page = work[b].page

NewEntry(a) ==
    [acc |-> a, filtered |-> FALSE, mask |-> {work[a].type}, instances |-> 1,
     ring |-> Len(cache) + 1, fatal |-> FALSE, mode |-> "all"]

\* Mutant: the entry that takes over forgets to filter the one it replaces.
MergedNoFilter(a, l) ==
    LET e == [cache[l] EXCEPT !.instances = @ + 1, !.mask = @ \cup {work[a].type}]
        new == [NewEntry(a) EXCEPT !.ring = e.ring, !.mask = e.mask, !.instances = e.instances]
    IN IF work[a].type > Entry(l).type
       THEN Append([cache EXCEPT ![l] = e], new)
       ELSE Append([cache EXCEPT ![l] = e],
                   [NewEntry(a) EXCEPT !.filtered = TRUE, !.ring = e.ring])
\* fetch_fault_buffer_merge_entry(): the new entry, index Len(cache) + 1, joins
\* the list of entry l; the more intrusive of both stays unfiltered and has
\* the mask and the count.
Merged(a, l) ==
    LET e == [cache[l] EXCEPT !.instances = @ + 1, !.mask = @ \cup {work[a].type}]
    IN IF work[a].type > Entry(l).type
       THEN Append([cache EXCEPT ![l] = [e EXCEPT !.filtered = TRUE]],
                   [NewEntry(a) EXCEPT !.ring = e.ring, !.mask = e.mask,
                                       !.instances = e.instances])
       ELSE Append([cache EXCEPT ![l] = e],
                   [NewEntry(a) EXCEPT !.filtered = TRUE, !.ring = e.ring])

IsLastFault(a) ==
    /\ last_fault # 0 /\ SameSource(a, cache[last_fault].acc)
    /\ work[a].type <= Entry(last_fault).type

IsLastTlbFault(a) ==
    LET u == utlbs[work[a].utlb] IN u.pending > 0 /\ SameSource(a, cache[u.last].acc)

\* A regular batch is bounded, the one that cancels takes all there is.
RoomInBatch == cancelling \/ Len(cache) < MaxBatchSize

FetchEntry ==
    LET a == Head(buffer)
        u == work[a].utlb
    IN /\ pc = "fetch" /\ cached_put > 0
       /\ RoomInBatch
       /\ max_utlb_id' = Max({max_utlb_id, u})
       /\ CASE cache # <<>> /\ IsLastTlbFault(a) ->
                 /\ cache' = Merged(a, utlbs[u].last)
                 /\ utlbs' = IF work[a].type > Entry(utlbs[u].last).type
                             THEN [utlbs EXCEPT ![u].last = Len(cache) + 1] ELSE utlbs
                 /\ UNCHANGED <<last_fault, num_coalesced, single_instance>>
            [] cache # <<>> /\ ~IsLastTlbFault(a) /\ IsLastFault(a) ->
                 /\ cache' = Merged(a, last_fault)
                 /\ UNCHANGED <<utlbs, last_fault, num_coalesced, single_instance>>
            [] OTHER ->
                 /\ cache' = Append(cache, NewEntry(a))
                 /\ utlbs' = [utlbs EXCEPT ![u] = [pending |-> @.pending + 1, last |-> Len(cache) + 1]]
                 /\ last_fault' = Len(cache) + 1
                 /\ num_coalesced' = num_coalesced + 1
                 /\ single_instance' = (single_instance /\
                        (last_fault # 0 => work[a].inst = Entry(last_fault).inst))
       /\ buffer' = Tail(buffer)
       /\ cached_put' = cached_put - 1
       /\ UNCHANGED <<work, acc, perm, prot, pc, cancelling, serviceVars, disturbances>>

(***************************************************************************)
(* preprocess_fault_batch(): the unfiltered entries by address and then    *)
(* from the most intrusive to the least.  sort() is not stable.            *)
(***************************************************************************)
Unfiltered == {k \in DOMAIN cache : ~cache[k].filtered}

Precedes(k, l) ==
    \/ Entry(k).page < Entry(l).page
    \/ Entry(k).page = Entry(l).page /\ Entry(k).type >= Entry(l).type

Orders == {s \in SetToSeqs(Unfiltered) : \A m \in 1 .. Len(s) - 1 : Precedes(s[m], s[m + 1])}

\* The end of the fetch, when the buffer is empty, the batch is full, or the
\* next entry is not valid yet (in a cancel the fetch waits for every entry),
\* and the preprocessing.
Preprocess ==
    /\ pc = "fetch"
    /\ IF cancelling THEN cached_put = 0 ELSE cache # <<>>
    /\ order' \in Orders
    /\ i' = 1
    /\ access_type' = [p \in Pages |-> NotServiced]
    /\ num_retries' = 0
    /\ pc' = IF cache = <<>> THEN "cancel_unlock" ELSE "service"
    /\ UNCHANGED <<gpuVars, cached_put, cancelling, fetchVars, fatal, num_duplicates, disturbances>>

(***************************************************************************)
(* service_fault_batch_block_locked(), one iteration of its scan.          *)
(***************************************************************************)
\* uvm_va_block_check_logical_permissions().  The code consults the vma, and so refuses
\* writes to a read-only page, only for an HMM block or with uvm_enable_builtin_tests;
\* without them a refused page is refused to every access.  The model lets perm take
\* every value, so it has more refusals than a build without either.
Permitted(p, t) == Prot(t) <= perm[p]

\* Mutant: a refused write cancels every access of the page.
CheckAccessAll(k) ==
    LET e == Entry(k)
    IN IF Permitted(e.page, e.type) THEN [type |-> e.type, fatal |-> FALSE, mode |-> "all"]
       ELSE IF e.type = PREFETCH THEN [type |-> NotServiced, fatal |-> FALSE, mode |-> "all"]
       ELSE [type |-> IF e.type > READ /\ READ \in cache[k].mask /\ Permitted(e.page, READ)
                      THEN READ ELSE NotServiced,
             fatal |-> TRUE, mode |-> "all"]
\* check_fault_access_permissions(): what is serviced for entry k, whether it
\* becomes fatal and with which cancel_va_mode.  A refused prefetch is ignored;
\* with a refused write the reads that were coalesced with it are still serviced.
CheckAccess(k) ==
    LET e == Entry(k)
        reads == READ \in cache[k].mask
    IN CASE Permitted(e.page, e.type) ->
              [type |-> e.type, fatal |-> FALSE, mode |-> "all"]
         [] ~Permitted(e.page, e.type) /\ e.type = PREFETCH ->
              [type |-> NotServiced, fatal |-> FALSE, mode |-> "all"]
         [] ~Permitted(e.page, e.type) /\ e.type = READ ->
              [type |-> NotServiced, fatal |-> TRUE, mode |-> "all"]
         [] OTHER ->
              [type |-> IF reads /\ Permitted(e.page, READ) THEN READ ELSE NotServiced,
               fatal |-> TRUE,
               mode |-> IF reads /\ ~Permitted(e.page, READ) THEN "all" ELSE "write_and_atomic"]

IsDuplicate == i > 1 /\ Entry(order[i]).page = Entry(order[i - 1]).page

\* Mutant: a duplicate is skipped whether or not the fault before it was fatal.
WaivedAlways == IsDuplicate
\* The most intrusive fault of the page was not fatal: it stands for this one.
Waived == IsDuplicate /\ ~cache[order[i - 1]].fatal

\* update_batch_and_notify_fault()
CountDuplicates ==
    num_duplicates' = IF num_retries > 0 THEN num_duplicates
                      ELSE num_duplicates + cache[order[i]].instances - (IF IsDuplicate THEN 0 ELSE 1)

ServiceEntry ==
    LET k == order[i]
        c == CheckAccess(k)
        p == Entry(k).page
        serviced == ~Waived /\ c.type # NotServiced /\ Prot(c.type) > prot[p]
    IN /\ pc = "service" /\ i <= Len(order)
       /\ CountDuplicates
       /\ IF ~Waived /\ c.fatal
          THEN cache' = [cache EXCEPT ![k].fatal = TRUE, ![k].mode = c.mode] /\ fatal' = TRUE
          ELSE UNCHANGED <<cache, fatal>>
       /\ \/ /\ serviced
             /\ access_type' = [access_type EXCEPT ![p] = c.type]
             /\ UNCHANGED disturbances
          \/ \* The thrashing detection asks to leave the page alone for now.
             /\ serviced /\ disturbances < MaxDisturbances
             /\ disturbances' = disturbances + 1
             /\ UNCHANGED access_type
          \/ ~serviced /\ UNCHANGED <<access_type, disturbances>>
       /\ i' = i + 1
       /\ UNCHANGED <<gpuVars, cached_put, pc, cancelling, last_fault, utlbs, max_utlb_id,
                      num_coalesced, single_instance, order, num_retries>>

ToService == {p \in Pages : access_type[p] # NotServiced}

\* The end of the scan: uvm_va_block_service_locked() maps the pages, then the
\* VA space is unlocked, or in a cancel the fatal faults are cancelled.
BlockServiced ==
    /\ pc = "service" /\ i > Len(order)
    /\ prot' = [p \in Pages |-> IF p \in ToService THEN Max({prot[p], Prot(access_type[p])})
                                ELSE prot[p]]
    /\ i' = 1
    /\ pc' = IF cancelling THEN "cancel" ELSE IF fatal THEN "cancel_lock" ELSE "replay"
    /\ UNCHANGED <<work, acc, buffer, perm, cached_put, cancelling, fetchVars, order, fatal,
                   access_type, num_retries, num_duplicates, disturbances>>

\* Memory had to be evicted with the block lock dropped: the scan starts over
\* (UVM_VA_BLOCK_RETRY_LOCKED), with the flags of the first scan.
BlockRetry ==
    /\ pc = "service" /\ i > Len(order) /\ ToService # {}
    /\ disturbances < MaxDisturbances /\ disturbances' = disturbances + 1
    /\ num_retries' = num_retries + 1
    /\ i' = 1
    /\ access_type' = [p \in Pages |-> NotServiced]
    /\ UNCHANGED <<gpuVars, cached_put, pc, cancelling, fetchVars, order, fatal, num_duplicates>>

\* What a batch leaves behind, except for the uTLB counters, is written again
\* before it is read: the model forgets it.
ForgetBatch ==
    /\ cache' = <<>> /\ last_fault' = 0 /\ num_coalesced' = 0 /\ single_instance' = TRUE
    /\ order' = <<>> /\ i' = 1 /\ fatal' = FALSE
    /\ access_type' = [p \in Pages |-> NotServiced]
    /\ num_retries' = 0 /\ num_duplicates' = 0
    /\ UNCHANGED <<utlbs, max_utlb_id>>

(***************************************************************************)
(* The end of a batch without fatal faults: flush and replay, then wait    *)
(* for the replay.                                                         *)
(***************************************************************************)
FlushAll ==
    /\ buffer' = <<>> /\ cached_put' = 0
    /\ acc' = Replayed(acc)

\* Mutant: the flush that discards faults is not followed by a replay.
ReplayBatchNoReplay ==
    /\ pc = "replay"
    /\ IF num_duplicates * 100 > Len(cache) * UpdatePutRatio
       THEN buffer' = <<>> ELSE buffer' = SubSeq(buffer, cached_put + 1, Len(buffer))
    /\ cached_put' = 0
    /\ ForgetBatch
    /\ pc' = "wait"
    /\ UNCHANGED <<work, acc, perm, prot, cancelling, disturbances>>
ReplayBatch ==
    /\ pc = "replay"
    /\ IF num_duplicates * 100 > Len(cache) * UpdatePutRatio
       THEN buffer' = <<>> ELSE buffer' = SubSeq(buffer, cached_put + 1, Len(buffer))
    /\ cached_put' = 0
    /\ acc' = Replayed(acc)
    /\ ForgetBatch
    /\ pc' = "wait"
    /\ UNCHANGED <<work, perm, prot, cancelling, disturbances>>

ReplayWait ==
    /\ pc = "wait" /\ Replaying = {}
    /\ pc' = "idle"
    /\ UNCHANGED <<gpuVars, cached_put, cancelling, fetchVars, serviceVars, disturbances>>

(***************************************************************************)
(* service_fault_batch_for_cancel()                                        *)
(***************************************************************************)

CancelLock ==
    /\ pc = "cancel_lock"
    /\ cancelling' = TRUE
    /\ pc' = "cancel_flush"
    /\ ForgetBatch
    /\ UNCHANGED <<gpuVars, cached_put, disturbances>>

\* Mutant: the faults that are in the buffer are kept.
CancelFlushNothing ==
    /\ pc = "cancel_flush" /\ Replaying = {}
    /\ acc' = Replayed(acc)
    /\ pc' = "cancel_wait"
    /\ UNCHANGED <<work, buffer, perm, prot, cached_put, cancelling, fetchVars, serviceVars,
                   disturbances>>
\* Flush and replay, after the replays before have ended.
CancelFlush ==
    /\ pc = "cancel_flush" /\ Replaying = {}
    /\ FlushAll
    /\ pc' = "cancel_wait"
    /\ UNCHANGED <<work, perm, prot, cancelling, fetchVars, serviceVars, disturbances>>

\* Wait for the replay, then fetch all the faults that came back.
CancelFetch ==
    /\ pc = "cancel_wait" /\ Replaying = {}
    /\ BeginFetch("fetch")
    /\ UNCHANGED <<gpuVars, cancelling, order, i, access_type, num_retries, disturbances>>

\* cancel_fault_precise_va(): the GPU ends the accesses of the instance to the
\* page, all of them or the writes and atomics, and replays the others.
Hit(k, a) ==
    /\ acc[a] = "faulted" /\ SameSource(a, cache[k].acc)
    /\ cache[k].mode = "all" \/ work[a].type > READ

Cancel ==
    /\ pc = "cancel" /\ i <= Len(order)
    /\ acc' = IF cache[order[i]].fatal
              THEN Replayed([a \in Accesses |-> IF Hit(order[i], a) THEN "killed" ELSE acc[a]])
              ELSE acc
    /\ i' = i + 1
    /\ UNCHANGED <<work, buffer, perm, prot, cached_put, pc, cancelling, fetchVars, order, fatal,
                   access_type, num_retries, num_duplicates, disturbances>>

CancelUnlock ==
    /\ pc = "cancel_unlock" \/ (pc = "cancel" /\ i > Len(order))
    /\ pc' = "cancel_end"
    /\ ForgetBatch
    /\ UNCHANGED <<gpuVars, cached_put, cancelling, disturbances>>

CancelEnd ==
    /\ pc = "cancel_end"
    /\ FlushAll
    /\ cancelling' = FALSE
    /\ pc' = "idle"
    /\ UNCHANGED <<work, perm, prot, fetchVars, serviceVars, disturbances>>

(***************************************************************************)
Init ==
    /\ work \in Workloads
    /\ acc = [a \in Accesses |-> "new"]
    /\ buffer = <<>> /\ cached_put = 0
    /\ perm \in [Pages -> Perms] /\ prot = [p \in Pages |-> 0]
    /\ pc = "idle" /\ cancelling = FALSE
    /\ cache = <<>> /\ last_fault = 0
    /\ utlbs = [u \in Utlbs |-> [pending |-> 0, last |-> 0]]
    /\ max_utlb_id = 0 /\ num_coalesced = 0 /\ single_instance = TRUE
    /\ order = <<>> /\ i = 1 /\ fatal = FALSE
    /\ access_type = [p \in Pages |-> NotServiced]
    /\ num_retries = 0 /\ num_duplicates = 0
    /\ disturbances = 0

BottomHalf ==
    \/ StartBatch \/ FetchEntry \/ Preprocess \/ ServiceEntry \/ BlockServiced
    \/ BlockRetry \/ ReplayBatch \/ ReplayWait
    \/ CancelLock \/ CancelFlush \/ CancelFetch \/ Cancel \/ CancelUnlock \/ CancelEnd

Next ==
    \/ \E a \in Accesses : GpuAccess(a)
    \/ \E p \in Pages, q \in Perms : SetPermission(p, q)
    \/ BottomHalf

Spec == Init /\ [][Next]_vars

\* The GPU retries its accesses, and the worker thread runs.
FairSpec ==
    Spec /\ WF_vars(BottomHalf) /\ \A a \in Accesses : WF_vars(GpuAccess(a))

-----------------------------------------------------------------------------
EntryType ==
    [acc : Accesses, filtered : BOOLEAN, mask : SUBSET AccessTypes, instances : Nat \ {0},
     ring : Nat \ {0}, fatal : BOOLEAN, mode : {"all", "write_and_atomic"}]

(***************************************************************************)
(* Types, and the sizes of the batch context's arrays: a regular batch has *)
(* at most max_batch_size entries.                                         *)
(***************************************************************************)
TypeOK ==
    /\ work \in Workloads
    /\ acc \in [Accesses -> {"new", "replayed", "faulted", "done", "killed"}]
    /\ buffer \in Seq(Accesses) /\ cached_put \in 0 .. Len(buffer)
    /\ perm \in [Pages -> Perms] /\ prot \in [Pages -> Prots]
    /\ pc \in {"idle", "fetch", "service", "replay", "wait", "cancel_lock",
              "cancel_flush", "cancel_wait", "cancel", "cancel_unlock", "cancel_end"}
    /\ cancelling \in BOOLEAN
    /\ cache \in Seq(EntryType) /\ (cancelling \/ Len(cache) <= MaxBatchSize)
    /\ last_fault \in 0 .. Len(cache)
    /\ utlbs \in [Utlbs -> [pending : Nat, last : Nat]]
    /\ max_utlb_id \in Utlbs /\ num_coalesced \in 0 .. Len(cache)
    /\ single_instance \in BOOLEAN
    /\ order \in Seq(Nat \ {0}) /\ i \in 1 .. Len(order) + 1
    /\ fatal \in BOOLEAN
    /\ access_type \in [Pages -> AccessTypes \cup {NotServiced}]
    /\ num_retries \in 0 .. MaxDisturbances /\ num_duplicates \in Nat
    /\ disturbances \in 0 .. MaxDisturbances

(***************************************************************************)
(* Coalescing loses no fault: every fetched entry is on the list of        *)
(* exactly one unfiltered entry, its representative, which is a fault of   *)
(* the same instance on the same page, at least as intrusive, and the most *)
(* intrusive of its own mask (the assertion at the head of the scan).      *)
(***************************************************************************)
Represented ==
    \A k \in DOMAIN cache :
        \E r \in Unfiltered :
            /\ \A s \in Unfiltered : cache[s].ring = cache[k].ring => s = r
            /\ cache[r].ring = cache[k].ring
            /\ SameSource(cache[r].acc, cache[k].acc)
            /\ Entry(r).type >= Entry(k).type
            /\ Entry(r).type = Max(cache[r].mask)

(***************************************************************************)
(* The counters of a fetch say what the cache holds: num_coalesced_faults  *)
(* is the number of unfiltered entries (asserted by the preprocessing,     *)
(* whose array has that length), num_pending_faults those of each uTLB,    *)
(* and is_single_instance_ptr, which lets the first sort be skipped, holds *)
(* only if they have one instance pointer.                                 *)
(***************************************************************************)
CountsExact ==
    pc \in {"fetch", "service", "cancel"} =>
        /\ num_coalesced = Cardinality(Unfiltered)
        /\ \A u \in Utlbs : utlbs[u].pending = Cardinality({k \in Unfiltered : Entry(k).utlb = u})
        /\ single_instance <=> Cardinality({Entry(k).inst : k \in Unfiltered}) <= 1

(***************************************************************************)
(* What fetch_fault_buffer_entries() leaves in the batch context is exact: *)
(* each fault is represented once, and the counters agree with the cache.  *)
(***************************************************************************)
BatchExact == TypeOK /\ Represented /\ CountsExact

(***************************************************************************)
(* Precise attribution, one half: a cancel ends only accesses that the     *)
(* permissions of the page refuse at that moment.  The reads of a          *)
(* read-only page survive the cancel of the writes to it.                  *)
(***************************************************************************)
CancelPrecise ==
    [][\A a \in Accesses : acc[a] # "killed" /\ acc'[a] = "killed" =>
            ~Permitted(work[a].page, work[a].type)]_vars

(***************************************************************************)
(* Precise attribution, the other half: a fatal fault that is cancelled    *)
(* and reported to the process is not stale.  Its access has not completed *)
(* in the meantime, whatever happened to the permissions between the batch *)
(* that found it and the cancel.                                           *)
(***************************************************************************)
CancelFresh ==
    pc = "cancel" =>
        \A k \in i .. Len(order) :
            cache[order[k]].fatal => acc[cache[order[k]].acc] # "done"

(***************************************************************************)
(* A cancel is complete: every fault it fetched that the page refuses, a   *)
(* prefetch excepted, has a representative that is cancelled, the          *)
(* duplicates of other instances and those of a retried scan included.     *)
(***************************************************************************)
CancelComplete ==
    pc = "cancel" =>
        \A k \in DOMAIN cache, r \in Unfiltered :
            /\ cache[r].ring = cache[k].ring
            /\ Entry(k).type # PREFETCH /\ ~Permitted(Entry(k).page, Entry(k).type)
            => cache[r].fatal

(***************************************************************************)
(* Every access completes or is cancelled in the end: one that faults is    *)
(* neither lost by the flushes nor forgotten by the coalescing.            *)
(***************************************************************************)
AccessesEnd == <>(\A a \in Accesses : acc[a] \in {"done", "killed"})

(***************************************************************************)
(* "If there are pending read accesses on the same page, we have to        *)
(* service them before we can cancel the write/atomic faults": when the    *)
(* writes of a page are cancelled, the reads fetched with them that the    *)
(* page permits have been mapped.                                          *)
(***************************************************************************)
ReadsServiced ==
    pc = "cancel" =>
        \A m \in i .. Len(order), k \in DOMAIN cache :
            LET e == cache[order[m]]
            IN /\ e.fatal /\ e.mode = "write_and_atomic"
               /\ SameSource(e.acc, cache[k].acc) /\ Entry(k).type = READ
               /\ Permitted(Entry(k).page, READ)
               => prot[Entry(k).page] >= Prot(READ)
=============================================================================

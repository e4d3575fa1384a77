---------------------------- MODULE UvmPushbuffer ----------------------------
(***************************************************************************)
(* The pushbuffer (nvidia-uvm/uvm_pushbuffer.c): the memory that the       *)
(* methods of a push are written to.  It is divided into chunks, each a    *)
(* rough ring of pending pushes that complete out of order, because a      *)
(* chunk serves several channels.  A push claims a chunk, gets             *)
(* UVM_MAX_PUSH_SIZE of it and gives back what it did not use at its end.  *)
(*                                                                         *)
(* Around it, what uvm_push.c and uvm_channel.c do with Confidential       *)
(* Computing once the WLC channels are ready: a push reserves and locks a  *)
(* channel, then a launch (WLC) channel, and only then enters the          *)
(* pushbuffer.  The rings, the IVs and the launch itself have modules of   *)
(* their own (UvmChannel, UvmLaunch): here a channel is the queue of its   *)
(* pending entries, and launching is part of the end of the push.          *)
(*                                                                         *)
(* A step is what is done under one hold of the pushbuffer's spin lock, or *)
(* one semaphore operation, or one read outside of any lock.               *)
(***************************************************************************)
EXTENDS Integers, Sequences, FiniteSets, FiniteSetsExt, SequencesExt

CONSTANTS
    Threads,      \* driver threads
    Channels,     \* CE channels of one pool, as numbers: the order they are visited in
    Entries,      \* num_gpfifo_entries of a channel
    Launchers,    \* number of launch (WLC) channels: initial value of their push_sem
    ChunkCount,   \* UVM_PUSHBUFFER_CHUNKS
    ChunkSize,    \* UVM_PUSHBUFFER_CHUNK_SIZE
    MaxPushSize,  \* UVM_MAX_PUSH_SIZE
    PushSizes,    \* aligned sizes a push may end with
    MaxFailures,  \* bound: channels that report an error
    MaxPushes,    \* bound: calls of uvm_push_begin()
    None          \* no thread

ASSUME ChannelAssumption == Channels \subseteq Nat /\ IsFiniteSet(Channels)
ASSUME SizeAssumption ==
    /\ ChunkCount \in Nat \ {0} /\ ChunkSize \in Nat /\ MaxPushSize \in Nat \ {0}
    /\ MaxPushSize <= ChunkSize /\ PushSizes \subseteq 1 .. MaxPushSize
ASSUME CountAssumption ==
    Entries \in Nat \ {0} /\ Launchers \in Nat /\ MaxPushes \in Nat /\ MaxFailures \in Nat
ASSUME ThreadAssumption == None \notin Threads

VARIABLES
    idle_chunks, available_chunks,  \* the two bitmaps
    next_push_start,  \* per chunk
    pending_gpfifos,  \* per chunk: list of pending entries
    current_push,     \* per chunk: the thread whose push holds it
    concurrent_pushes_sema,
    fifo,             \* per channel: pending entries, oldest first
    executed,         \* per channel: how many of them the GPU has completed
    push_lock,        \* per channel: the thread that has it locked for its push
    launch_sem,       \* push_sem of the WLC pool
    failed,           \* channels whose error notifier is set
    fatal_error,      \* uvm_global_set_fatal_error() was called
    pushes,           \* calls of uvm_push_begin() so far
    pc, push          \* control state and locals of each thread

chunkVars == <<idle_chunks, available_chunks, next_push_start, pending_gpfifos, current_push>>
channelVars == <<fifo, executed, push_lock>>
errorVars == <<failed, fatal_error>>
vars == <<chunkVars, concurrent_pushes_sema, channelVars, launch_sem, errorVars, pushes,
          pc, push>>

Chunks == 0 .. ChunkCount - 1

\* off: offset of the push from the start of the pushbuffer; size: aligned size.
GpfifoEntries == [chan : Channels, off : Nat, size : Nat]

\* channel, chunk: what the push holds; begin: where it writes; status: of claim_chunk();
\* todo: channels whose progress is still to be updated.
Pushes == [channel : Channels \cup {None}, chunk : Chunks \cup {None}, begin : Nat,
           ok : BOOLEAN, todo : SUBSET Channels]
NoPush == [channel |-> None, chunk |-> None, begin |-> 0, ok |-> TRUE, todo |-> {}]

PcStates == {"idle", "reserve", "reserve_update", "reserve_launch", "down",
             "spin", "begin", "write", "release"}

\* uvm_pushbuffer_create(): every chunk is idle and available.
Init ==
    /\ idle_chunks = Chunks
    /\ available_chunks = Chunks
    /\ next_push_start = [k \in Chunks |-> 0]
    /\ pending_gpfifos = [k \in Chunks |-> <<>>]
    /\ current_push = [k \in Chunks |-> None]
    /\ concurrent_pushes_sema = ChunkCount
    /\ fifo = [c \in Channels |-> <<>>]
    /\ executed = [c \in Channels |-> 0]
    /\ push_lock = [c \in Channels |-> None]
    /\ launch_sem = Launchers
    /\ failed = {}
    /\ fatal_error = FALSE
    /\ pushes = 0
    /\ pc = [t \in Threads |-> "idle"]
    /\ push = [t \in Threads |-> NoPush]

-----------------------------------------------------------------------------
(* Chunks. *)

ChunkOffset(k) == k * ChunkSize
OffsetToChunk(off) == off \div ChunkSize

\* Lowest idle chunk, else lowest available one; used only when PickableChunks # {}.
PickableChunks == idle_chunks \cup available_chunks
PickChunk == IF idle_chunks # {} THEN Min(idle_chunks) ELSE Min(available_chunks)

GpuGet(k, list) == IF list = <<>> THEN 0 ELSE list[1].off - ChunkOffset(k)
CpuPut(k, list) ==
    IF list = <<>> THEN 0
    ELSE list[Len(list)].off + list[Len(list)].size - ChunkOffset(k)

\* Mutant: the room between put and get is not compared with the maximal size.
NextStartAnyGap(k, list) ==
    LET get == GpuGet(k, list)
        put == CpuPut(k, list)
    IN  CASE list = <<>> -> 0
          [] list # <<>> /\ get = put -> -1
          [] get > put -> put
          [] get < put /\ ChunkSize >= put + MaxPushSize -> put
          [] get < put /\ ChunkSize < put + MaxPushSize ->
                 IF get >= MaxPushSize THEN 0 ELSE -1

\* Where the next push of a chunk with these pending entries may start: -1 when there
\* is no room for a push of the maximal size.
NextStart(k, list) ==
    LET get == GpuGet(k, list)
        put == CpuPut(k, list)
    IN  CASE list = <<>> -> 0
          [] list # <<>> /\ get = put -> -1
          [] get > put -> IF get - put >= MaxPushSize THEN put ELSE -1
          [] get < put /\ ChunkSize >= put + MaxPushSize -> put
          [] get < put /\ ChunkSize < put + MaxPushSize ->
                 IF get >= MaxPushSize THEN 0 ELSE -1

\* update_chunk() once the list of chunk k has become list.  Bits are only ever set.
UpdateChunk(k, list) ==
    LET start == NextStart(k, list)
    IN  /\ idle_chunks' = IF list = <<>> THEN idle_chunks \cup {k} ELSE idle_chunks
        /\ available_chunks' = IF start = -1 THEN available_chunks
                               ELSE available_chunks \cup {k}
        /\ next_push_start' = IF start = -1 THEN next_push_start
                              ELSE [next_push_start EXCEPT ![k] = start]

\* try_claim_chunk(): both bits are cleared.
ClaimChunk(t, k) ==
    /\ current_push' = [current_push EXCEPT ![k] = t]
    /\ idle_chunks' = idle_chunks \ {k}
    /\ available_chunks' = available_chunks \ {k}
    /\ UNCHANGED <<next_push_start, pending_gpfifos>>

\* Mutant: the update is not left to the end of a push that is on its way.
MarkCompletedUpdatesAlways(k, i) == i = 1 \/ i = Len(pending_gpfifos[k])

MarkCompletedUpdates(k, i) ==
    (i = 1 \/ i = Len(pending_gpfifos[k])) /\ current_push[k] = None

\* uvm_pushbuffer_mark_completed() of an entry: off the list of its chunk, which is
\* updated when the entry was first or last and no push is being written there.
MarkCompleted(e) ==
    LET k == OffsetToChunk(e.off)
    IN  \E i \in DOMAIN pending_gpfifos[k] :
          /\ pending_gpfifos[k][i] = e
          /\ LET rest == RemoveAt(pending_gpfifos[k], i)
             IN  /\ pending_gpfifos' = [pending_gpfifos EXCEPT ![k] = rest]
                 /\ IF MarkCompletedUpdates(k, i)
                    THEN UpdateChunk(k, rest)
                    ELSE UNCHANGED <<idle_chunks, available_chunks, next_push_start>>
          /\ UNCHANGED current_push

-----------------------------------------------------------------------------
(* The beginning of a push. *)

Goto(t, state) == pc' = [pc EXCEPT ![t] = state]

\* uvm_push_begin() is called.
BeginCall(t) ==
    /\ pc[t] = "idle" /\ pushes < MaxPushes
    /\ pushes' = pushes + 1
    /\ Goto(t, "reserve")
    /\ UNCHANGED <<chunkVars, concurrent_pushes_sema, channelVars, launch_sem, errorVars, push>>

HasFreeEntry(c) == Len(fifo[c]) < Entries - 1

\* channel_reserve_and_lock_in_pool(): the push semaphore says that a channel is
\* unlocked; one with a free entry is locked, else progress is updated and tried again.
Reserve(t) ==
    /\ pc[t] = "reserve"
    /\ \E c \in Channels :
         /\ push_lock[c] = None /\ HasFreeEntry(c)
         /\ push_lock' = [push_lock EXCEPT ![c] = t]
         /\ push' = [push EXCEPT ![t] = [NoPush EXCEPT !.channel = c]]
    /\ Goto(t, "reserve_launch")
    /\ UNCHANGED <<chunkVars, concurrent_pushes_sema, fifo, executed, launch_sem, errorVars, pushes>>

ReserveSpin(t) ==
    /\ pc[t] = "reserve"
    /\ \E c \in Channels : push_lock[c] = None
    /\ \A c \in Channels : push_lock[c] = None => ~HasFreeEntry(c)
    /\ push' = [push EXCEPT ![t].todo = Channels]
    /\ Goto(t, "reserve_update")
    /\ UNCHANGED <<chunkVars, concurrent_pushes_sema, channelVars, launch_sem, errorVars, pushes>>

\* uvm_channel_check_errors() of every channel: an error is made a fatal one.
ReserveCheck(t) ==
    /\ pc[t] = "reserve_update" /\ push[t].todo = {}
    /\ fatal_error' = (fatal_error \/ failed # {})
    /\ Goto(t, IF failed # {} THEN "idle" ELSE "reserve")
    /\ UNCHANGED <<chunkVars, concurrent_pushes_sema, channelVars, launch_sem, failed, pushes, push>>

\* channel_rotate_and_reserve_launch_channel(): the thread blocks in uvm_down() of the
\* push_sem of the WLC pool.
ReserveLaunch(t) ==
    /\ pc[t] = "reserve_launch" /\ launch_sem > 0
    /\ launch_sem' = launch_sem - 1
    /\ Goto(t, "down")
    /\ UNCHANGED <<chunkVars, concurrent_pushes_sema, channelVars, errorVars, pushes, push>>

\* uvm_pushbuffer_begin_push() and the first try of claim_chunk(), before progress is
\* updated; nothing that others do between the two makes a difference.
DownAndTry(t) ==
    /\ pc[t] = "down" /\ concurrent_pushes_sema > 0
    /\ concurrent_pushes_sema' = concurrent_pushes_sema - 1
    /\ IF PickableChunks # {}
       THEN /\ ClaimChunk(t, PickChunk)
            /\ push' = [push EXCEPT ![t].chunk = PickChunk]
            /\ Goto(t, "begin")
       ELSE /\ push' = [push EXCEPT ![t].todo = Channels]
            /\ Goto(t, "spin")
            /\ UNCHANGED chunkVars
    /\ UNCHANGED <<channelVars, launch_sem, errorVars, pushes>>

\* The condition of the loop of claim_chunk() tries first and looks at the status of
\* the last round then, so that a chunk can be claimed by a call that returns an error.
\* The body is uvm_channel_manager_check_errors() and an update of progress.
SpinTry(t) ==
    /\ pc[t] = "spin" /\ push[t].todo = {}
    /\ IF PickableChunks # {} THEN ClaimChunk(t, PickChunk) ELSE UNCHANGED chunkVars
    /\ \/ /\ ~push[t].ok
          /\ concurrent_pushes_sema' = concurrent_pushes_sema + 1
          /\ Goto(t, "release")
          /\ UNCHANGED <<push, fatal_error>>
       \/ /\ push[t].ok /\ PickableChunks # {}
          /\ push' = [push EXCEPT ![t].chunk = PickChunk]
          /\ Goto(t, "begin")
          /\ UNCHANGED <<concurrent_pushes_sema, fatal_error>>
       \/ /\ push[t].ok /\ PickableChunks = {}
          /\ fatal_error' = (fatal_error \/ failed # {})
          /\ push' = [push EXCEPT ![t].ok = ~fatal_error', ![t].todo = Channels]
          /\ UNCHANGED <<concurrent_pushes_sema, pc>>
    /\ UNCHANGED <<channelVars, launch_sem, failed, pushes>>

\* next_push_start is read after the lock has been dropped.
SetBegin(t) ==
    /\ pc[t] = "begin"
    /\ push' = [push EXCEPT ![t].begin = ChunkOffset(push[t].chunk)
                                         + next_push_start[push[t].chunk]]
    /\ Goto(t, "write")
    /\ UNCHANGED <<chunkVars, concurrent_pushes_sema, channelVars, launch_sem, errorVars, pushes>>

\* uvm_channel_begin_push() returns the error of the pushbuffer, and uvm_push_begin()
\* releases the channel, but not the launch channel that was reserved for it.
ReleaseAfterError(t) ==
    /\ pc[t] = "release"
    /\ push_lock' = [push_lock EXCEPT ![push[t].channel] = None]
    /\ push' = [push EXCEPT ![t] = NoPush]
    /\ Goto(t, "idle")
    /\ UNCHANGED <<chunkVars, concurrent_pushes_sema, fifo, executed, launch_sem, errorVars, pushes>>

-----------------------------------------------------------------------------
(* The end of a push, its completion, and the GPU. *)

\* Mutant: the chunk keeps its push.
EndPushInChunkKeeps(k, e) ==
    LET list == Append(pending_gpfifos[k], e)
    IN  /\ pending_gpfifos' = [pending_gpfifos EXCEPT ![k] = list]
        /\ UpdateChunk(k, list)
        /\ UNCHANGED current_push

\* uvm_pushbuffer_end_push()
EndPushInChunk(k, e) ==
    LET list == Append(pending_gpfifos[k], e)
    IN  /\ pending_gpfifos' = [pending_gpfifos EXCEPT ![k] = list]
        /\ UpdateChunk(k, list)
        /\ current_push' = [current_push EXCEPT ![k] = None]

\* Mutant: the semaphore of concurrent pushes is not upped.
EndPushNoUp(t) ==
    /\ pc[t] = "write"
    /\ \E size \in PushSizes :
         LET c == push[t].channel
             e == [chan |-> c, off |-> push[t].begin, size |-> size]
         IN  /\ fifo' = [fifo EXCEPT ![c] = Append(@, e)]
             /\ EndPushInChunk(OffsetToChunk(e.off), e)
             /\ push_lock' = [push_lock EXCEPT ![c] = None]
    /\ launch_sem' = launch_sem + 1
    /\ push' = [push EXCEPT ![t] = NoPush]
    /\ Goto(t, "idle")
    /\ UNCHANGED <<concurrent_pushes_sema, executed, errorVars, pushes>>

\* uvm_channel_end_push(): the WLC push that launches the work unlocks the launch
\* channel, the entry is queued, and channel, chunk and semaphore are given back.
EndPush(t) ==
    /\ pc[t] = "write"
    /\ \E size \in PushSizes :
         LET c == push[t].channel
             e == [chan |-> c, off |-> push[t].begin, size |-> size]
         IN  /\ fifo' = [fifo EXCEPT ![c] = Append(@, e)]
             /\ EndPushInChunk(OffsetToChunk(e.off), e)
             /\ push_lock' = [push_lock EXCEPT ![c] = None]
    /\ launch_sem' = launch_sem + 1
    /\ concurrent_pushes_sema' = concurrent_pushes_sema + 1
    /\ push' = [push EXCEPT ![t] = NoPush]
    /\ Goto(t, "idle")
    /\ UNCHANGED <<executed, errorVars, pushes>>

\* uvm_channel_update_progress() of the next channel retires the entries that the GPU
\* has completed, one by one, and goes on to the channel after it.
UpdateProgress(t) ==
    /\ pc[t] \in {"reserve_update", "spin"} /\ push[t].todo # {}
    /\ LET c == Min(push[t].todo)
       IN  IF executed[c] > 0
           THEN /\ MarkCompleted(Head(fifo[c]))
                /\ fifo' = [fifo EXCEPT ![c] = Tail(@)]
                /\ executed' = [executed EXCEPT ![c] = @ - 1]
                /\ UNCHANGED push
           ELSE /\ push' = [push EXCEPT ![t].todo = @ \ {c}]
                /\ UNCHANGED <<chunkVars, fifo, executed>>
    /\ UNCHANGED <<concurrent_pushes_sema, push_lock, launch_sem, errorVars, pushes, pc>>

\* The GPU completes the next push of a channel that has not failed.
GpuExecute(c) ==
    /\ c \notin failed /\ executed[c] < Len(fifo[c])
    /\ executed' = [executed EXCEPT ![c] = @ + 1]
    /\ UNCHANGED <<chunkVars, concurrent_pushes_sema, fifo, push_lock, launch_sem, errorVars,
                   pushes, pc, push>>

\* A push of the channel faults: its error notifier is set and it stops.
GpuFail(c) ==
    /\ Cardinality(failed) < MaxFailures /\ c \notin failed /\ executed[c] < Len(fifo[c])
    /\ failed' = failed \cup {c}
    /\ UNCHANGED <<chunkVars, concurrent_pushes_sema, channelVars, launch_sem, fatal_error,
                   pushes, pc, push>>

-----------------------------------------------------------------------------
Continue(t) ==
    \/ Reserve(t) \/ ReserveSpin(t) \/ ReserveCheck(t) \/ ReserveLaunch(t)
    \/ DownAndTry(t) \/ SpinTry(t) \/ SetBegin(t) \/ ReleaseAfterError(t) \/ EndPush(t)
    \/ UpdateProgress(t)

Next ==
    \/ \E t \in Threads : BeginCall(t) \/ Continue(t)
    \/ \E c \in Channels : GpuExecute(c) \/ GpuFail(c)

Spec == Init /\ [][Next]_vars

\* Semaphores and mutexes of the kernel serve their waiters in order and a spinning
\* thread is scheduled again and again; calls are bounded, so that nobody can be
\* overtaken for ever.  A channel that has not failed makes progress.
Fairness ==
    /\ \A t \in Threads : WF_vars(Continue(t))
    /\ \A c \in Channels : WF_vars(GpuExecute(c))

FairSpec == Spec /\ Fairness

-----------------------------------------------------------------------------
(* Properties. *)

\* Type invariant.
TypeOK ==
    /\ idle_chunks \subseteq Chunks /\ available_chunks \subseteq Chunks
    /\ next_push_start \in [Chunks -> 0 .. ChunkSize]
    /\ pending_gpfifos \in [Chunks -> Seq(GpfifoEntries)]
    /\ current_push \in [Chunks -> Threads \cup {None}]
    /\ concurrent_pushes_sema \in 0 .. ChunkCount
    /\ fifo \in [Channels -> Seq(GpfifoEntries)]
    /\ executed \in [Channels -> Nat]
    /\ push_lock \in [Channels -> Threads \cup {None}]
    /\ launch_sem \in 0 .. Launchers
    /\ failed \subseteq Channels /\ fatal_error \in BOOLEAN
    /\ pushes \in 0 .. MaxPushes
    /\ pc \in [Threads -> PcStates] /\ push \in [Threads -> Pushes]

\* The bytes of the pending pushes of a chunk.
PendingRegions(k) ==
    {<<e.off, e.off + e.size>> : e \in Range(pending_gpfifos[k])}
Disjoint(r, s) == r[2] <= s[1] \/ s[2] <= r[1]

\* A push writes only to memory of its chunk that no pending push of any channel and
\* no other push being written uses, whatever the order in which pushes complete
\* (update_chunk(), uvm_pushbuffer_mark_completed()).
WritesAreFree ==
    \A k \in Chunks :
      /\ \A t \in Threads :
           pc[t] = "write" /\ push[t].chunk = k =>
             /\ ChunkOffset(k) <= push[t].begin
             /\ push[t].begin + MaxPushSize <= ChunkOffset(k) + ChunkSize
             /\ \A r \in PendingRegions(k) :
                  Disjoint(r, <<push[t].begin, push[t].begin + MaxPushSize>>)
      /\ \A t, u \in Threads :
           pc[t] = "write" /\ pc[u] = "write" /\ push[t].chunk = k /\ push[u].chunk = k => t = u

\* "Chunks that do not have an on-going push nor any pending pushes" (uvm_pushbuffer.h)
\* is what idle_chunks holds, exactly, and an available chunk has no on-going push: no
\* chunk is lost when a completion finds a push in its chunk.
BitmapsExact ==
    /\ idle_chunks = {k \in Chunks : current_push[k] = None /\ pending_gpfifos[k] = <<>>}
    /\ \A k \in available_chunks : current_push[k] = None

\* As long as no error has been seen, a chunk with an on-going push belongs to a thread
\* between claim and end of push, and the threads that have passed the semaphore are
\* no more than there are chunks: one that spins for a chunk waits for the GPU to
\* complete pushes and never for other threads (claim_chunk()).
ClaimsOwned ==
    ~fatal_error =>
      /\ \A k \in Chunks :
           current_push[k] # None =>
             pc[current_push[k]] \in {"begin", "write"} /\ push[current_push[k]].chunk = k
      /\ (\E t \in Threads : pc[t] = "spin") =>
           \E k \in Chunks : current_push[k] = None

\* Every launch channel that is not free belongs to a push on its way, unless an error
\* has been seen.
LaunchersOwned ==
    ~fatal_error =>
      launch_sem + Cardinality({t \in Threads :
          pc[t] \in {"down", "spin", "begin", "write", "release"}}) = Launchers

\* Chunks, units of the semaphores and launch channels are held by a push on its way,
\* as uvm_channel_begin_push() and uvm_channel_end_push() take and give them back.
ResourcesOwned == TypeOK /\ ClaimsOwned /\ LaunchersOwned

\* Without a channel error, every uvm_push_begin() ends: neither the semaphores nor the
\* wait for space in the pushbuffer deadlock ("the CPU spin waits on the GPU to
\* complete some of the pending pushes making space for a new one", uvm_pushbuffer.h).
PushesEnd ==
    \A t \in Threads : pc[t] # "idle" ~> pc[t] = "idle" \/ failed # {}

\* "If all channels of the given type are busy, spin waits for one to become available"
\* (uvm_push.h): a call of uvm_push_begin() returns, with an error after a channel
\* error; no thread waits for ever.
BeginsReturn ==
    \A t \in Threads : pc[t] # "idle" ~> pc[t] = "idle"
=============================================================================

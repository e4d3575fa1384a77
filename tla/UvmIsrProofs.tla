---------------------------- MODULE UvmIsrProofs ----------------------------
(***************************************************************************)
(* Proofs about the interrupt service of UvmIsr, for every set of modes,   *)
(* of pages and every bound: the service lock and the interrupt mask       *)
(* belong to one party, the parent GPU has exactly the references that its *)
(* users account for, and a suspended or stopped GPU is quiet.             *)
(***************************************************************************)
EXTENDS UvmIsr, FiniteSetTheorems, SequenceTheorems, TLAPS

-----------------------------------------------------------------------------
(* The inductive invariant.                                                *)

Serving == {"fetch", "service", "flush", "replay_wait", "finish", "unlock"}
Locking == {"flush_wait", "flush", "isr_unlock"}
Masking == Locking \cup {"isr_down"}
QWait == {"q_wait1", "q_wait2"}

\* A thread that flushes bottom_half_q: its item has run once in the last four.
QStates == {"q_flush1", "q_wait1", "q_flush2", "q_wait2", "q_flushed"}
Stopped == {"join", "deinit", "release", "removed"}
Suspending == QStates \cup {"asleep"}
Removing == QStates \cup Stopped
Drained == (QStates \ {"q_flush1", "q_wait1"}) \cup Stopped \cup {"asleep"}

FlushStates == {"idle", "isr_down", "flush_wait", "flush", "isr_unlock", "retrigger"}

\* What is in the queue, and the replayable bottom half, queued or running.
InQueue(item) == item \in Range(queue)
BottomHalf == InQueue("replayable") \/ kt \in Serving

\* Who has the service lock, and who has asked for the interrupt to be disabled.
Lockers == One(BottomHalf) + One(pc["user"] \in Locking) + One(pc["pm"] \in Locking)
Maskers == One(BottomHalf) + One(pc["user"] \in Masking) + One(pc["pm"] \in Masking)

\* No bottom half is left behind without its GPU.
GpuFound == mode # "smc" \/ in_table

\* An item is queued once, and no bottom half behind the item of a thread.
Ordered(q) ==
    \A i, j \in DOMAIN q : i < j => q[i] # q[j] /\ (q[i] \in Threads => q[j] \in Threads)

QueueInv ==
    /\ Ordered(queue)
    /\ \A t \in Threads : InQueue(t) <=> pc[t] \in QWait

LockInv ==
    /\ InQueue("replayable") => kt \notin Serving
    /\ Lockers <= 1 - service_lock
    /\ GpuFound => Lockers = 1 - service_lock

MaskInv ==
    /\ handling => /\ intr_enabled <=> disable_intr_ref_count = 0
                   /\ Maskers <= disable_intr_ref_count
                   /\ GpuFound => Maskers = disable_intr_ref_count
    /\ ~handling => ~intr_enabled /\ disable_intr_ref_count > 0

References ==
    One(pc["user"] \notin {"release", "removed"})
    + One(~in_table /\ pc["user"] # "removed")
    + One(top # "idle")
    + (One(InQueue("replayable")) + One(InQueue("non_replayable")))
    + One(kt \notin {"wait", "exit"})

\* How far suspend and removal have come.
PhaseInv ==
    /\ pc["pm"] \in FlushStates \cup {"suspend"} \cup Suspending
    /\ pc["user"] \in FlushStates \cup {"disable_isr"} \cup Removing
    /\ is_suspended <=> pc["pm"] \in Suspending
    /\ ~handling <=> pc["user"] \in Removing
    /\ ~in_table <=> pc["user"] \in Removing \cup {"disable_isr"}
    /\ ~in_table => pc["pm"] = "idle"
    /\ should_exit <=> pc["user"] \in Stopped
    /\ kt = "exit" => should_exit

\* Once the item of a thread has run there is no bottom half.
DrainInv ==
    \A t \in Threads : pc[t] \in Drained =>
        /\ ~InQueue("replayable") /\ ~InQueue("non_replayable")
        /\ kt \in {"wait", "exit"}

\* While the user channels are preempted the fault buffer gets no new entry, and the
\* flush of a suspend empties it.
BufferInv ==
    pc["pm"] # "idle" =>
        /\ \A p \in Pages : access[p] \in {"run", "preempted"}
        /\ pc["pm"] = "flush" => cached = Len(buffer)
        /\ pc["pm"] \notin {"isr_down", "flush_wait", "flush"} => buffer = <<>>

\* The types of what interrupt service is controlled by, and of the rest.
ControlOK ==
    /\ intr_enabled \in BOOLEAN /\ in_table \in BOOLEAN /\ handling \in BOOLEAN
    /\ is_suspended \in BOOLEAN /\ should_exit \in BOOLEAN
    /\ kref \in Nat /\ disable_intr_ref_count \in Nat /\ service_lock \in {0, 1}
    /\ queue \in Seq(Items)
    /\ top \in {"idle", "schedule", "put"}
    /\ kt \in Serving \cup {"wait", "exit", "retrigger", "non_replayable", "put"}
    /\ pc \in [Threads -> FlushStates \cup Suspending \cup Removing
                          \cup {"suspend", "disable_isr"}]

DataOK ==
    /\ mode \in Modes
    /\ access \in [Pages -> {"run", "fault", "stalled", "preempted"}]
    /\ resident \subseteq Pages /\ batch \subseteq Pages
    /\ replays \in 0 .. MaxReplays
    /\ buffer \in Seq(Entries) /\ cached \in 0 .. Len(buffer)
    /\ intr_pending \in BOOLEAN /\ nr_due \in BOOLEAN /\ was_handling \in BOOLEAN
    /\ replayed \in BOOLEAN
    /\ nr_queue \in Nat /\ num_batches \in Nat /\ events \in 0 .. MaxEvents

ControlInv == ControlOK /\ QueueInv /\ LockInv /\ MaskInv /\ kref = References /\ PhaseInv
              /\ DrainInv

Inv == DataOK /\ ControlInv /\ BufferInv

-----------------------------------------------------------------------------
(* Facts about the queue.                                                  *)

LEMMA QueueTail ==
    ASSUME NEW q \in Seq(Items), q # <<>>, Ordered(q)
    PROVE  /\ Tail(q) \in Seq(Items) /\ Head(q) \in Items
           /\ Range(Tail(q)) = Range(q) \ {Head(q)} /\ Head(q) \in Range(q)
           /\ Ordered(Tail(q))
           /\ Head(q) \in Threads => Range(Tail(q)) \cap BottomHalves = {}
<1>1. /\ Len(q) \in Nat /\ Len(q) # 0 /\ Tail(q) \in Seq(Items) /\ Len(Tail(q)) = Len(q) - 1
      /\ \A i \in 1 .. Len(q) - 1 : Tail(q)[i] = q[i + 1]
      /\ Head(q) = q[1] /\ Head(q) \in Items /\ DOMAIN q = 1 .. Len(q)
      /\ DOMAIN Tail(q) = 1 .. Len(q) - 1
  OBVIOUS
<1>2. Range(Tail(q)) = Range(q) \ {Head(q)} /\ Head(q) \in Range(q)
  <2>1. ASSUME NEW x \in Range(Tail(q)) PROVE x \in Range(q) \ {Head(q)}
    <3>1. PICK i \in 1 .. Len(q) - 1 : x = q[i + 1] BY <1>1, <2>1 DEF Range
    <3>2. i + 1 \in DOMAIN q /\ 1 \in DOMAIN q /\ 1 < i + 1 BY <1>1
    <3> QED BY <1>1, <3>1, <3>2 DEF Range, Ordered
  <2>2. ASSUME NEW x \in Range(q), x # Head(q) PROVE x \in Range(Tail(q))
    <3>1. PICK i \in 1 .. Len(q) : x = q[i] BY <1>1, <2>2 DEF Range
    <3>2. i - 1 \in 1 .. Len(q) - 1 /\ (i - 1) + 1 = i BY <1>1, <2>2, <3>1
    <3>3. Tail(q)[i - 1] = x BY <1>1, <3>1, <3>2
    <3> QED BY <1>1, <3>2, <3>3 DEF Range
  <2>3. Head(q) \in Range(q) BY <1>1 DEF Range
  <2> QED BY <2>1, <2>2, <2>3
<1>3. Ordered(Tail(q))
  <2> SUFFICES ASSUME NEW i \in 1 .. Len(q) - 1, NEW j \in 1 .. Len(q) - 1, i < j
               PROVE  /\ Tail(q)[i] # Tail(q)[j]
                      /\ Tail(q)[i] \in Threads => Tail(q)[j] \in Threads
    BY <1>1 DEF Ordered
  <2>1. i + 1 \in DOMAIN q /\ j + 1 \in DOMAIN q /\ i + 1 < j + 1 BY <1>1
  <2> QED BY <1>1, <2>1 DEF Ordered
<1>4. ASSUME Head(q) \in Threads PROVE Range(Tail(q)) \cap BottomHalves = {}
  <2> SUFFICES ASSUME NEW i \in 1 .. Len(q) - 1 PROVE q[i + 1] \notin BottomHalves
    BY <1>1 DEF Range
  <2>1. 1 \in DOMAIN q /\ i + 1 \in DOMAIN q /\ 1 < i + 1 BY <1>1
  <2>2. q[i + 1] \in Threads BY <1>1, <1>4, <2>1 DEF Ordered
  <2> QED BY <2>2 DEF Threads, BottomHalves
<1> QED BY <1>1, <1>2, <1>3, <1>4

LEMMA QueueAppend ==
    ASSUME NEW q \in Seq(Items), Ordered(q), NEW x \in Items, x \notin Range(q),
           x \in Threads \/ Range(q) \cap Threads = {}
    PROVE  /\ Append(q, x) \in Seq(Items) /\ Range(Append(q, x)) = Range(q) \cup {x}
           /\ Ordered(Append(q, x))
<1>1. /\ Len(q) \in Nat /\ Append(q, x) \in Seq(Items) /\ DOMAIN q = 1 .. Len(q)
      /\ DOMAIN Append(q, x) = 1 .. Len(q) + 1
      /\ \A i \in 1 .. Len(q) : Append(q, x)[i] = q[i]
      /\ Append(q, x)[Len(q) + 1] = x
  OBVIOUS
<1>2. Range(Append(q, x)) = Range(q) \cup {x}
  <2>1. ASSUME NEW y \in Range(Append(q, x)) PROVE y \in Range(q) \cup {x}
    <3>1. PICK i \in 1 .. Len(q) + 1 : y = Append(q, x)[i] BY <1>1, <2>1 DEF Range
    <3> QED BY <1>1, <3>1 DEF Range
  <2>2. ASSUME NEW y \in Range(q) \cup {x} PROVE y \in Range(Append(q, x))
    <3>1. CASE y = x BY <1>1, <3>1 DEF Range
    <3>2. CASE y \in Range(q)
      <4>1. PICK i \in 1 .. Len(q) : y = q[i] BY <1>1, <3>2 DEF Range
      <4>2. i \in 1 .. Len(q) + 1 BY <1>1
      <4> QED BY <1>1, <4>1, <4>2 DEF Range
    <3> QED BY <3>1, <3>2
  <2> QED BY <2>1, <2>2
<1>3. Ordered(Append(q, x))
  <2> SUFFICES ASSUME NEW i \in 1 .. Len(q) + 1, NEW j \in 1 .. Len(q) + 1, i < j
               PROVE  /\ Append(q, x)[i] # Append(q, x)[j]
                      /\ Append(q, x)[i] \in Threads => Append(q, x)[j] \in Threads
    BY <1>1 DEF Ordered
  <2>1. i \in 1 .. Len(q) /\ Append(q, x)[i] = q[i] /\ q[i] \in Range(q)
    BY <1>1 DEF Range
  <2>2. CASE j = Len(q) + 1 BY <1>1, <2>1, <2>2
  <2>3. CASE j # Len(q) + 1 BY <1>1, <2>1, <2>3 DEF Ordered
  <2> QED BY <2>2, <2>3
<1> QED BY <1>1, <1>2, <1>3

\* The cardinality of a part of a set of two elements.
LEMMA CardTwo ==
    ASSUME NEW a, NEW b, a # b, NEW S \in SUBSET {a, b}
    PROVE  Cardinality(S) = One(a \in S) + One(b \in S)
<1>1. Cardinality({}) = 0 BY FS_EmptySet
<1>2. \A x : Cardinality({x}) = 1 BY FS_Singleton
<1>3. Cardinality({a, b}) = 2
  <2>1. IsFiniteSet({a}) /\ b \notin {a} BY FS_Singleton
  <2>2. {a, b} = {a} \cup {b} OBVIOUS
  <2>3. Cardinality({a} \cup {b}) = Cardinality({a}) + 1 BY <2>1, FS_AddElement
  <2> QED BY <1>2, <2>2, <2>3
<1>4. S = {} \/ S = {a} \/ S = {b} \/ S = {a, b} OBVIOUS
<1> QED BY <1>1, <1>2, <1>3, <1>4 DEF One

-----------------------------------------------------------------------------
(* The control of interrupt service.                                       *)

controlVars == <<mode, intr_enabled, in_table, kref, handling, disable_intr_ref_count,
                 is_suspended, service_lock, queue, should_exit, top, kt, pc>>

\* What the steps below rely on, and leave.
LEMMA ControlParts ==
    ASSUME ControlInv
    PROVE  /\ ControlOK /\ QueueInv /\ LockInv /\ MaskInv /\ kref = References /\ PhaseInv
           /\ DrainInv
           /\ kref \in Nat /\ disable_intr_ref_count \in Nat /\ service_lock \in {0, 1}
BY DEF ControlInv, ControlOK

LEMMA QueueStable ==
    ASSUME QueueInv, queue' = queue,
           \A t \in Threads : pc'[t] \in QWait <=> pc[t] \in QWait
    PROVE  /\ QueueInv' /\ (InQueue("replayable")' <=> InQueue("replayable"))
           /\ InQueue("non_replayable")' <=> InQueue("non_replayable")
BY DEF QueueInv, InQueue

LEMMA ControlStutter == ControlInv /\ UNCHANGED controlVars => ControlInv'
<1> SUFFICES ASSUME ControlInv, UNCHANGED controlVars PROVE ControlInv' OBVIOUS
<1> USE DEF controlVars
<1>1. ControlOK' BY DEF ControlInv, ControlOK
<1>2. QueueInv' BY DEF ControlInv, QueueInv, InQueue
<1>3. LockInv' /\ MaskInv'
  BY DEF ControlInv, LockInv, MaskInv, Lockers, Maskers, BottomHalf, InQueue, GpuFound
<1>4. (kref = References)' BY DEF ControlInv, References, InQueue
<1>5. PhaseInv' BY DEF ControlInv, PhaseInv
<1>6. DrainInv' BY DEF ControlInv, DrainInv, InQueue
<1> QED BY <1>1, <1>2, <1>3, <1>4, <1>5, <1>6 DEF ControlInv

\* The kernel thread goes on with a bottom half.
LEMMA KtGoesOn ==
    ASSUME ControlInv, NEW state, kt' = state,
           kt \notin {"wait", "exit"},
           state \in Serving \cup {"retrigger", "non_replayable", "put"},
           kt \in Serving <=> state \in Serving,
           UNCHANGED <<mode, intr_enabled, in_table, kref, handling, disable_intr_ref_count,
                       is_suspended, service_lock, queue, should_exit, top, pc>>
    PROVE  ControlInv'
<1>1. /\ ControlOK /\ QueueInv /\ LockInv /\ MaskInv /\ kref = References /\ PhaseInv /\ DrainInv
  BY ControlParts
<1>2. /\ QueueInv' /\ (InQueue("replayable")' <=> InQueue("replayable"))
      /\ InQueue("non_replayable")' <=> InQueue("non_replayable")
  BY <1>1, QueueStable
<1>3. state \notin {"wait", "exit"} BY DEF Serving
<1>4. ControlOK' BY <1>1 DEF ControlOK
<1>5. LockInv' /\ MaskInv'
  BY <1>1, <1>2 DEF LockInv, MaskInv, Lockers, Maskers, BottomHalf, GpuFound
<1>6. (kref = References)' BY <1>1, <1>2, <1>3 DEF References, One
<1>7. PhaseInv' BY <1>1, <1>3 DEF PhaseInv
<1>8. DrainInv' BY <1>1 DEF DrainInv
<1> QED BY <1>2, <1>4, <1>5, <1>6, <1>7, <1>8 DEF ControlInv

\* References are taken and dropped.
LEMMA TopEnterControl == ASSUME ControlInv, TopEnter PROVE ControlInv'
<1> USE DEF Serving, Locking, Masking, QWait, QStates, Stopped, Suspending, Removing, Drained,
            FlushStates
<1>1. /\ ControlOK /\ QueueInv /\ LockInv /\ MaskInv /\ kref = References /\ PhaseInv /\ DrainInv
      /\ kref \in Nat /\ disable_intr_ref_count \in Nat /\ service_lock \in {0, 1}
  BY ControlParts
<1>2. /\ top = "idle" /\ in_table
      /\ kref' = kref + 1 /\ top' = "schedule"
      /\ UNCHANGED <<mode, intr_enabled, in_table, handling, disable_intr_ref_count,
                     is_suspended, service_lock, queue, should_exit, kt, pc>>
  BY DEF TopEnter, intrVars, isrVars, qVars, ktVars
<1>3. /\ QueueInv' /\ (InQueue("replayable")' <=> InQueue("replayable"))
      /\ InQueue("non_replayable")' <=> InQueue("non_replayable")
  BY <1>1, <1>2, QueueStable
<1>4. kref' \in Nat /\ disable_intr_ref_count' \in Nat
  BY <1>1, <1>2 DEF References, MaskInv, Maskers, BottomHalf, PhaseInv, One
<1>5. ControlOK' BY <1>1, <1>2, <1>4 DEF ControlOK
<1>6. LockInv'
  BY <1>1, <1>2, <1>3 DEF LockInv, Lockers, BottomHalf, GpuFound, One, PhaseInv
<1>7. MaskInv'
  BY <1>1, <1>2, <1>3 DEF MaskInv, Maskers, BottomHalf, GpuFound, One, PhaseInv
<1>8. (kref = References)'
  BY <1>1, <1>2, <1>3 DEF References, One, PhaseInv
<1>9. PhaseInv' BY <1>1, <1>2, <1>4 DEF PhaseInv
<1>10. DrainInv' BY <1>1, <1>2, <1>3 DEF DrainInv, PhaseInv, Threads
<1> QED BY <1>3, <1>4, <1>5, <1>6, <1>7, <1>8, <1>9, <1>10 DEF ControlInv

LEMMA TopExitControl == ASSUME ControlInv, TopExit PROVE ControlInv'
<1> USE DEF Serving, Locking, Masking, QWait, QStates, Stopped, Suspending, Removing, Drained,
            FlushStates
<1>1. /\ ControlOK /\ QueueInv /\ LockInv /\ MaskInv /\ kref = References /\ PhaseInv /\ DrainInv
      /\ kref \in Nat /\ disable_intr_ref_count \in Nat /\ service_lock \in {0, 1}
  BY ControlParts
<1>2. /\ top = "put" /\ top' = "idle" /\ kref' = kref - 1
      /\ UNCHANGED <<mode, intr_enabled, in_table, handling, disable_intr_ref_count,
                     is_suspended, service_lock, queue, should_exit, kt, pc>>
  BY DEF TopExit, intrVars, isrVars, qVars, ktVars
<1>3. /\ QueueInv' /\ (InQueue("replayable")' <=> InQueue("replayable"))
      /\ InQueue("non_replayable")' <=> InQueue("non_replayable")
  BY <1>1, <1>2, QueueStable
<1>4. kref' \in Nat /\ disable_intr_ref_count' \in Nat
  BY <1>1, <1>2 DEF References, MaskInv, Maskers, BottomHalf, PhaseInv, One
<1>5. ControlOK' BY <1>1, <1>2, <1>4 DEF ControlOK
<1>6. LockInv'
  BY <1>1, <1>2, <1>3 DEF LockInv, Lockers, BottomHalf, GpuFound, One, PhaseInv
<1>7. MaskInv'
  BY <1>1, <1>2, <1>3 DEF MaskInv, Maskers, BottomHalf, GpuFound, One, PhaseInv
<1>8. (kref = References)'
  BY <1>1, <1>2, <1>3 DEF References, One, PhaseInv
<1>9. PhaseInv' BY <1>1, <1>2, <1>4 DEF PhaseInv
<1>10. DrainInv' BY <1>1, <1>2, <1>3 DEF DrainInv, PhaseInv, Threads
<1> QED BY <1>3, <1>4, <1>5, <1>6, <1>7, <1>8, <1>9, <1>10 DEF ControlInv

LEMMA KtPutControl == ASSUME ControlInv, KtPut PROVE ControlInv'
<1> USE DEF Serving, Locking, Masking, QWait, QStates, Stopped, Suspending, Removing, Drained,
            FlushStates
<1>1. /\ ControlOK /\ QueueInv /\ LockInv /\ MaskInv /\ kref = References /\ PhaseInv /\ DrainInv
      /\ kref \in Nat /\ disable_intr_ref_count \in Nat /\ service_lock \in {0, 1}
  BY ControlParts
<1>2. /\ kt = "put" /\ kt' = "wait" /\ kref' = kref - 1
      /\ UNCHANGED <<mode, intr_enabled, in_table, handling, disable_intr_ref_count,
                     is_suspended, service_lock, queue, should_exit, top, pc>>
  BY DEF KtPut, intrVars, isrVars, qVars
<1>3. /\ QueueInv' /\ (InQueue("replayable")' <=> InQueue("replayable"))
      /\ InQueue("non_replayable")' <=> InQueue("non_replayable")
  BY <1>1, <1>2, QueueStable
<1>4. kref' \in Nat /\ disable_intr_ref_count' \in Nat
  BY <1>1, <1>2 DEF References, MaskInv, Maskers, BottomHalf, PhaseInv, One
<1>5. ControlOK' BY <1>1, <1>2, <1>4 DEF ControlOK
<1>6. LockInv'
  BY <1>1, <1>2, <1>3 DEF LockInv, Lockers, BottomHalf, GpuFound, One, PhaseInv
<1>7. MaskInv'
  BY <1>1, <1>2, <1>3 DEF MaskInv, Maskers, BottomHalf, GpuFound, One, PhaseInv
<1>8. (kref = References)'
  BY <1>1, <1>2, <1>3 DEF References, One, PhaseInv
<1>9. PhaseInv' BY <1>1, <1>2, <1>4 DEF PhaseInv
<1>10. DrainInv' BY <1>1, <1>2, <1>3 DEF DrainInv, PhaseInv, Threads
<1> QED BY <1>3, <1>4, <1>5, <1>6, <1>7, <1>8, <1>9, <1>10 DEF ControlInv

LEMMA DeinitControl == ASSUME ControlInv, Deinit PROVE ControlInv'
<1> USE DEF Serving, Locking, Masking, QWait, QStates, Stopped, Suspending, Removing, Drained,
            FlushStates
<1>1. /\ ControlOK /\ QueueInv /\ LockInv /\ MaskInv /\ kref = References /\ PhaseInv /\ DrainInv
      /\ kref \in Nat /\ disable_intr_ref_count \in Nat /\ service_lock \in {0, 1}
  BY ControlParts
<1>2. /\ pc["user"] \in {"deinit", "release"} /\ kref' = kref - 1
      /\ pc' = [pc EXCEPT !["user"] = IF pc["user"] = "deinit" THEN "release" ELSE "removed"]
      /\ UNCHANGED <<mode, intr_enabled, in_table, handling, disable_intr_ref_count,
                     is_suspended, service_lock, queue, should_exit, top, kt>>
  BY DEF Deinit, Goto, intrVars, isrVars, qVars, ktVars
<1>3. /\ pc'["user"] = (IF pc["user"] = "deinit" THEN "release" ELSE "removed")
      /\ pc'["pm"] = pc["pm"]
      /\ \A u \in Threads :
           pc'[u] = IF "user" = u THEN (IF pc["user"] = "deinit" THEN "release" ELSE "removed")
                    ELSE pc[u]
  BY <1>1, <1>2 DEF ControlOK, Threads
<1>4. /\ QueueInv' /\ (InQueue("replayable")' <=> InQueue("replayable"))
      /\ InQueue("non_replayable")' <=> InQueue("non_replayable")
  BY <1>1, <1>2, <1>3, QueueStable DEF QWait
<1>5. kref' \in Nat /\ disable_intr_ref_count' \in Nat
  BY <1>1, <1>2, <1>3 DEF References, MaskInv, Maskers, BottomHalf, PhaseInv, One
<1>6. ControlOK' BY <1>1, <1>2, <1>3, <1>5 DEF ControlOK
<1>7. LockInv'
  BY <1>1, <1>2, <1>3, <1>4 DEF LockInv, Lockers, BottomHalf, GpuFound, One, PhaseInv
<1>8. MaskInv'
  BY <1>1, <1>2, <1>3, <1>4 DEF MaskInv, Maskers, BottomHalf, GpuFound, One, PhaseInv
<1>9. (kref = References)'
  BY <1>1, <1>2, <1>3, <1>4 DEF References, One, PhaseInv
<1>10. PhaseInv' BY <1>1, <1>2, <1>3, <1>5 DEF PhaseInv
<1>11. DrainInv' BY <1>1, <1>2, <1>3, <1>4 DEF DrainInv, PhaseInv, Threads
<1> QED BY <1>4, <1>5, <1>6, <1>7, <1>8, <1>9, <1>10, <1>11 DEF ControlInv

\* The kernel thread ends, and it is joined.
LEMMA KtExitControl == ASSUME ControlInv, KtExit PROVE ControlInv'
<1> USE DEF Serving, Locking, Masking, QWait, QStates, Stopped, Suspending, Removing, Drained,
            FlushStates
<1>1. /\ ControlOK /\ QueueInv /\ LockInv /\ MaskInv /\ kref = References /\ PhaseInv /\ DrainInv
      /\ kref \in Nat /\ disable_intr_ref_count \in Nat /\ service_lock \in {0, 1}
  BY ControlParts
<1>2. /\ kt = "wait" /\ should_exit /\ kt' = "exit"
      /\ UNCHANGED <<mode, intr_enabled, in_table, kref, handling, disable_intr_ref_count,
                     is_suspended, service_lock, queue, should_exit, top, pc>>
  BY DEF KtExit, intrVars, isrVars, qVars
<1>3. /\ QueueInv' /\ (InQueue("replayable")' <=> InQueue("replayable"))
      /\ InQueue("non_replayable")' <=> InQueue("non_replayable")
  BY <1>1, <1>2, QueueStable
<1>4. ControlOK' BY <1>1, <1>2 DEF ControlOK
<1>5. LockInv'
  BY <1>1, <1>2, <1>3 DEF LockInv, Lockers, BottomHalf, GpuFound, One, PhaseInv
<1>6. MaskInv'
  BY <1>1, <1>2, <1>3 DEF MaskInv, Maskers, BottomHalf, GpuFound, One, PhaseInv
<1>7. (kref = References)'
  BY <1>1, <1>2, <1>3 DEF References, One, PhaseInv
<1>8. PhaseInv' BY <1>1, <1>2 DEF PhaseInv
<1>9. DrainInv' BY <1>1, <1>2, <1>3 DEF DrainInv, PhaseInv, Threads
<1> QED BY <1>3, <1>4, <1>5, <1>6, <1>7, <1>8, <1>9 DEF ControlInv

LEMMA JoinControl == ASSUME ControlInv, Join PROVE ControlInv'
<1> USE DEF Serving, Locking, Masking, QWait, QStates, Stopped, Suspending, Removing, Drained,
            FlushStates
<1>1. /\ ControlOK /\ QueueInv /\ LockInv /\ MaskInv /\ kref = References /\ PhaseInv /\ DrainInv
      /\ kref \in Nat /\ disable_intr_ref_count \in Nat /\ service_lock \in {0, 1}
  BY ControlParts
<1>2. /\ pc["user"] = "join" /\ pc' = [pc EXCEPT !["user"] = "deinit"]
      /\ UNCHANGED <<mode, intr_enabled, in_table, kref, handling, disable_intr_ref_count,
                     is_suspended, service_lock, queue, should_exit, top, kt>>
  BY DEF Join, Goto, intrVars, isrVars, qVars, ktVars
<1>3. /\ pc'["user"] = "deinit"
      /\ pc'["pm"] = pc["pm"]
      /\ \A u \in Threads : pc'[u] = IF "user" = u THEN "deinit" ELSE pc[u]
  BY <1>1, <1>2 DEF ControlOK, Threads
<1>4. /\ QueueInv' /\ (InQueue("replayable")' <=> InQueue("replayable"))
      /\ InQueue("non_replayable")' <=> InQueue("non_replayable")
  BY <1>1, <1>2, <1>3, QueueStable DEF QWait
<1>5. ControlOK' BY <1>1, <1>2, <1>3 DEF ControlOK
<1>6. LockInv'
  BY <1>1, <1>2, <1>3, <1>4 DEF LockInv, Lockers, BottomHalf, GpuFound, One, PhaseInv
<1>7. MaskInv'
  BY <1>1, <1>2, <1>3, <1>4 DEF MaskInv, Maskers, BottomHalf, GpuFound, One, PhaseInv
<1>8. (kref = References)'
  BY <1>1, <1>2, <1>3, <1>4 DEF References, One, PhaseInv
<1>9. PhaseInv' BY <1>1, <1>2, <1>3 DEF PhaseInv
<1>10. DrainInv' BY <1>1, <1>2, <1>3, <1>4 DEF DrainInv, PhaseInv, Threads
<1> QED BY <1>4, <1>5, <1>6, <1>7, <1>8, <1>9, <1>10 DEF ControlInv

LEMMA QStopControl == ASSUME ControlInv, QStop PROVE ControlInv'
<1> USE DEF Serving, Locking, Masking, QWait, QStates, Stopped, Suspending, Removing, Drained,
            FlushStates
<1>1. /\ ControlOK /\ QueueInv /\ LockInv /\ MaskInv /\ kref = References /\ PhaseInv /\ DrainInv
      /\ kref \in Nat /\ disable_intr_ref_count \in Nat /\ service_lock \in {0, 1}
  BY ControlParts
<1>2. /\ pc["user"] = "q_flushed" /\ should_exit' = TRUE
      /\ pc' = [pc EXCEPT !["user"] = "join"]
      /\ UNCHANGED <<mode, intr_enabled, in_table, kref, handling, disable_intr_ref_count,
                     is_suspended, service_lock, queue, top, kt>>
  BY DEF QStop, Goto, intrVars, isrVars, qVars, ktVars
<1>3. /\ pc'["user"] = "join"
      /\ pc'["pm"] = pc["pm"]
      /\ \A u \in Threads : pc'[u] = IF "user" = u THEN "join" ELSE pc[u]
  BY <1>1, <1>2 DEF ControlOK, Threads
<1>4. /\ QueueInv' /\ (InQueue("replayable")' <=> InQueue("replayable"))
      /\ InQueue("non_replayable")' <=> InQueue("non_replayable")
  BY <1>1, <1>2, <1>3, QueueStable DEF QWait
<1>5. ControlOK' BY <1>1, <1>2, <1>3 DEF ControlOK
<1>6. LockInv'
  BY <1>1, <1>2, <1>3, <1>4 DEF LockInv, Lockers, BottomHalf, GpuFound, One, PhaseInv
<1>7. MaskInv'
  BY <1>1, <1>2, <1>3, <1>4 DEF MaskInv, Maskers, BottomHalf, GpuFound, One, PhaseInv
<1>8. (kref = References)'
  BY <1>1, <1>2, <1>3, <1>4 DEF References, One, PhaseInv
<1>9. PhaseInv' BY <1>1, <1>2, <1>3 DEF PhaseInv
<1>10. DrainInv' BY <1>1, <1>2, <1>3, <1>4 DEF DrainInv, PhaseInv, Threads
<1> QED BY <1>4, <1>5, <1>6, <1>7, <1>8, <1>9, <1>10 DEF ControlInv

\* Suspend and resume.
LEMMA SetSuspendedControl == ASSUME ControlInv, SetSuspended PROVE ControlInv'
<1> USE DEF Serving, Locking, Masking, QWait, QStates, Stopped, Suspending, Removing, Drained,
            FlushStates
<1>1. /\ ControlOK /\ QueueInv /\ LockInv /\ MaskInv /\ kref = References /\ PhaseInv /\ DrainInv
      /\ kref \in Nat /\ disable_intr_ref_count \in Nat /\ service_lock \in {0, 1}
  BY ControlParts
<1>2. /\ pc["pm"] = "suspend" /\ is_suspended' = TRUE
      /\ pc' = [pc EXCEPT !["pm"] = "q_flush1"]
      /\ UNCHANGED <<mode, intr_enabled, in_table, kref, handling, disable_intr_ref_count,
                     service_lock, queue, should_exit, top, kt>>
  BY DEF SetSuspended, Goto, intrVars, qVars, ktVars
<1>3. /\ pc'["user"] = pc["user"]
      /\ pc'["pm"] = "q_flush1"
      /\ \A u \in Threads : pc'[u] = IF "pm" = u THEN "q_flush1" ELSE pc[u]
  BY <1>1, <1>2 DEF ControlOK, Threads
<1>4. /\ QueueInv' /\ (InQueue("replayable")' <=> InQueue("replayable"))
      /\ InQueue("non_replayable")' <=> InQueue("non_replayable")
  BY <1>1, <1>2, <1>3, QueueStable DEF QWait
<1>5. ControlOK' BY <1>1, <1>2, <1>3 DEF ControlOK
<1>6. LockInv'
  BY <1>1, <1>2, <1>3, <1>4 DEF LockInv, Lockers, BottomHalf, GpuFound, One, PhaseInv
<1>7. MaskInv'
  BY <1>1, <1>2, <1>3, <1>4 DEF MaskInv, Maskers, BottomHalf, GpuFound, One, PhaseInv
<1>8. (kref = References)'
  BY <1>1, <1>2, <1>3, <1>4 DEF References, One, PhaseInv
<1>9. PhaseInv' BY <1>1, <1>2, <1>3 DEF PhaseInv
<1>10. DrainInv' BY <1>1, <1>2, <1>3, <1>4 DEF DrainInv, PhaseInv, Threads
<1> QED BY <1>4, <1>5, <1>6, <1>7, <1>8, <1>9, <1>10 DEF ControlInv

LEMMA SleepControl == ASSUME ControlInv, Sleep PROVE ControlInv'
<1> USE DEF Serving, Locking, Masking, QWait, QStates, Stopped, Suspending, Removing, Drained,
            FlushStates
<1>1. /\ ControlOK /\ QueueInv /\ LockInv /\ MaskInv /\ kref = References /\ PhaseInv /\ DrainInv
      /\ kref \in Nat /\ disable_intr_ref_count \in Nat /\ service_lock \in {0, 1}
  BY ControlParts
<1>2. /\ pc["pm"] = "q_flushed" /\ pc' = [pc EXCEPT !["pm"] = "asleep"]
      /\ UNCHANGED <<mode, intr_enabled, in_table, kref, handling, disable_intr_ref_count,
                     is_suspended, service_lock, queue, should_exit, top, kt>>
  BY DEF Sleep, Goto, intrVars, isrVars, qVars, ktVars
<1>3. /\ pc'["user"] = pc["user"]
      /\ pc'["pm"] = "asleep"
      /\ \A u \in Threads : pc'[u] = IF "pm" = u THEN "asleep" ELSE pc[u]
  BY <1>1, <1>2 DEF ControlOK, Threads
<1>4. /\ QueueInv' /\ (InQueue("replayable")' <=> InQueue("replayable"))
      /\ InQueue("non_replayable")' <=> InQueue("non_replayable")
  BY <1>1, <1>2, <1>3, QueueStable DEF QWait
<1>5. ControlOK' BY <1>1, <1>2, <1>3 DEF ControlOK
<1>6. LockInv'
  BY <1>1, <1>2, <1>3, <1>4 DEF LockInv, Lockers, BottomHalf, GpuFound, One, PhaseInv
<1>7. MaskInv'
  BY <1>1, <1>2, <1>3, <1>4 DEF MaskInv, Maskers, BottomHalf, GpuFound, One, PhaseInv
<1>8. (kref = References)'
  BY <1>1, <1>2, <1>3, <1>4 DEF References, One, PhaseInv
<1>9. PhaseInv' BY <1>1, <1>2, <1>3 DEF PhaseInv
<1>10. DrainInv' BY <1>1, <1>2, <1>3, <1>4 DEF DrainInv, PhaseInv, Threads
<1> QED BY <1>4, <1>5, <1>6, <1>7, <1>8, <1>9, <1>10 DEF ControlInv

LEMMA ResumeControl == ASSUME ControlInv, Resume PROVE ControlInv'
<1> USE DEF Serving, Locking, Masking, QWait, QStates, Stopped, Suspending, Removing, Drained,
            FlushStates
<1>1. /\ ControlOK /\ QueueInv /\ LockInv /\ MaskInv /\ kref = References /\ PhaseInv /\ DrainInv
      /\ kref \in Nat /\ disable_intr_ref_count \in Nat /\ service_lock \in {0, 1}
  BY ControlParts
<1>2. /\ pc["pm"] = "asleep" /\ is_suspended' = FALSE
      /\ pc' = [pc EXCEPT !["pm"] = "idle"]
      /\ UNCHANGED <<mode, intr_enabled, in_table, kref, handling, disable_intr_ref_count,
                     service_lock, queue, should_exit, top, kt>>
  BY DEF Resume, Goto, intrVars, qVars, ktVars
<1>3. /\ pc'["user"] = pc["user"]
      /\ pc'["pm"] = "idle"
      /\ \A u \in Threads : pc'[u] = IF "pm" = u THEN "idle" ELSE pc[u]
  BY <1>1, <1>2 DEF ControlOK, Threads
<1>4. /\ QueueInv' /\ (InQueue("replayable")' <=> InQueue("replayable"))
      /\ InQueue("non_replayable")' <=> InQueue("non_replayable")
  BY <1>1, <1>2, <1>3, QueueStable DEF QWait
<1>5. ControlOK' BY <1>1, <1>2, <1>3 DEF ControlOK
<1>6. LockInv'
  BY <1>1, <1>2, <1>3, <1>4 DEF LockInv, Lockers, BottomHalf, GpuFound, One, PhaseInv
<1>7. MaskInv'
  BY <1>1, <1>2, <1>3, <1>4 DEF MaskInv, Maskers, BottomHalf, GpuFound, One, PhaseInv
<1>8. (kref = References)'
  BY <1>1, <1>2, <1>3, <1>4 DEF References, One, PhaseInv
<1>9. PhaseInv' BY <1>1, <1>2, <1>3 DEF PhaseInv
<1>10. DrainInv' BY <1>1, <1>2, <1>3, <1>4 DEF DrainInv, PhaseInv, Threads
<1> QED BY <1>4, <1>5, <1>6, <1>7, <1>8, <1>9, <1>10 DEF ControlInv

\* A thread takes the service lock, flushes and gives it back.
LEMMA FlushWaitControl == ASSUME ControlInv, NEW t \in Threads, FlushWait(t) PROVE ControlInv'
<1> USE DEF Serving, Locking, Masking, QWait, QStates, Stopped, Suspending, Removing, Drained,
            FlushStates
<1>1. /\ ControlOK /\ QueueInv /\ LockInv /\ MaskInv /\ kref = References /\ PhaseInv /\ DrainInv
      /\ kref \in Nat /\ disable_intr_ref_count \in Nat /\ service_lock \in {0, 1}
  BY ControlParts
<1>2. /\ pc[t] = "flush_wait" /\ pc' = [pc EXCEPT ![t] = "flush"]
      /\ UNCHANGED <<mode, intr_enabled, in_table, kref, handling, disable_intr_ref_count,
                     is_suspended, service_lock, queue, should_exit, top, kt>>
  BY DEF FlushWait, Goto, intrVars, isrVars, qVars, ktVars
<1>3. /\ pc'["user"] = IF t = "user" THEN "flush" ELSE pc["user"]
      /\ pc'["pm"] = IF t = "pm" THEN "flush" ELSE pc["pm"]
      /\ \A u \in Threads : pc'[u] = IF t = u THEN "flush" ELSE pc[u]
  BY <1>1, <1>2 DEF ControlOK, Threads
<1>4. /\ QueueInv' /\ (InQueue("replayable")' <=> InQueue("replayable"))
      /\ InQueue("non_replayable")' <=> InQueue("non_replayable")
  BY <1>1, <1>2, <1>3, QueueStable DEF QWait
<1>5. ControlOK' BY <1>1, <1>2, <1>3 DEF ControlOK, Threads
<1>6. LockInv'
  BY <1>1, <1>2, <1>3, <1>4 DEF LockInv, Lockers, BottomHalf, GpuFound, One, PhaseInv, Threads
<1>7. MaskInv'
  BY <1>1, <1>2, <1>3, <1>4 DEF MaskInv, Maskers, BottomHalf, GpuFound, One, PhaseInv, Threads
<1>8. (kref = References)'
  BY <1>1, <1>2, <1>3, <1>4 DEF References, One, PhaseInv, Threads
<1>9. PhaseInv' BY <1>1, <1>2, <1>3 DEF PhaseInv, Threads
<1>10. DrainInv' BY <1>1, <1>2, <1>3, <1>4 DEF DrainInv, PhaseInv, Threads
<1> QED BY <1>4, <1>5, <1>6, <1>7, <1>8, <1>9, <1>10 DEF ControlInv

LEMMA FlushControl == ASSUME ControlInv, NEW t \in Threads, Flush(t) PROVE ControlInv'
<1> USE DEF Serving, Locking, Masking, QWait, QStates, Stopped, Suspending, Removing, Drained,
            FlushStates
<1>1. /\ ControlOK /\ QueueInv /\ LockInv /\ MaskInv /\ kref = References /\ PhaseInv /\ DrainInv
      /\ kref \in Nat /\ disable_intr_ref_count \in Nat /\ service_lock \in {0, 1}
  BY ControlParts
<1>2. /\ pc[t] = "flush" /\ pc' = [pc EXCEPT ![t] = "isr_unlock"]
      /\ UNCHANGED <<mode, intr_enabled, in_table, kref, handling, disable_intr_ref_count,
                     is_suspended, service_lock, queue, should_exit, top, kt>>
  BY DEF Flush, Goto, isrVars, qVars, ktVars
<1>3. /\ pc'["user"] = IF t = "user" THEN "isr_unlock" ELSE pc["user"]
      /\ pc'["pm"] = IF t = "pm" THEN "isr_unlock" ELSE pc["pm"]
      /\ \A u \in Threads : pc'[u] = IF t = u THEN "isr_unlock" ELSE pc[u]
  BY <1>1, <1>2 DEF ControlOK, Threads
<1>4. /\ QueueInv' /\ (InQueue("replayable")' <=> InQueue("replayable"))
      /\ InQueue("non_replayable")' <=> InQueue("non_replayable")
  BY <1>1, <1>2, <1>3, QueueStable DEF QWait
<1>5. ControlOK' BY <1>1, <1>2, <1>3 DEF ControlOK, Threads
<1>6. LockInv'
  BY <1>1, <1>2, <1>3, <1>4 DEF LockInv, Lockers, BottomHalf, GpuFound, One, PhaseInv, Threads
<1>7. MaskInv'
  BY <1>1, <1>2, <1>3, <1>4 DEF MaskInv, Maskers, BottomHalf, GpuFound, One, PhaseInv, Threads
<1>8. (kref = References)'
  BY <1>1, <1>2, <1>3, <1>4 DEF References, One, PhaseInv, Threads
<1>9. PhaseInv' BY <1>1, <1>2, <1>3 DEF PhaseInv, Threads
<1>10. DrainInv' BY <1>1, <1>2, <1>3, <1>4 DEF DrainInv, PhaseInv, Threads
<1> QED BY <1>4, <1>5, <1>6, <1>7, <1>8, <1>9, <1>10 DEF ControlInv

LEMMA IsrDownControl == ASSUME ControlInv, NEW t \in Threads, IsrDown(t) PROVE ControlInv'
<1> USE DEF Serving, Locking, Masking, QWait, QStates, Stopped, Suspending, Removing, Drained,
            FlushStates
<1>1. /\ ControlOK /\ QueueInv /\ LockInv /\ MaskInv /\ kref = References /\ PhaseInv /\ DrainInv
      /\ kref \in Nat /\ disable_intr_ref_count \in Nat /\ service_lock \in {0, 1}
  BY ControlParts
<1>2. /\ pc[t] = "isr_down" /\ service_lock = 1 /\ service_lock' = 0
      /\ pc' = [pc EXCEPT ![t] = "flush_wait"]
      /\ UNCHANGED <<mode, intr_enabled, in_table, kref, handling, disable_intr_ref_count,
                     is_suspended, queue, should_exit, top, kt>>
  BY DEF IsrDown, Goto, intrVars, isrVars, qVars, ktVars
<1>3. /\ pc'["user"] = IF t = "user" THEN "flush_wait" ELSE pc["user"]
      /\ pc'["pm"] = IF t = "pm" THEN "flush_wait" ELSE pc["pm"]
      /\ \A u \in Threads : pc'[u] = IF t = u THEN "flush_wait" ELSE pc[u]
  BY <1>1, <1>2 DEF ControlOK, Threads
<1>4. /\ QueueInv' /\ (InQueue("replayable")' <=> InQueue("replayable"))
      /\ InQueue("non_replayable")' <=> InQueue("non_replayable")
  BY <1>1, <1>2, <1>3, QueueStable DEF QWait
<1>5. ControlOK' BY <1>1, <1>2, <1>3 DEF ControlOK, Threads
<1>6. LockInv'
  BY <1>1, <1>2, <1>3, <1>4 DEF LockInv, Lockers, BottomHalf, GpuFound, One, PhaseInv, Threads
<1>7. MaskInv'
  BY <1>1, <1>2, <1>3, <1>4 DEF MaskInv, Maskers, BottomHalf, GpuFound, One, PhaseInv, Threads
<1>8. (kref = References)'
  BY <1>1, <1>2, <1>3, <1>4 DEF References, One, PhaseInv, Threads
<1>9. PhaseInv' BY <1>1, <1>2, <1>3 DEF PhaseInv, Threads
<1>10. DrainInv' BY <1>1, <1>2, <1>3, <1>4 DEF DrainInv, PhaseInv, Threads
<1> QED BY <1>4, <1>5, <1>6, <1>7, <1>8, <1>9, <1>10 DEF ControlInv

LEMMA FlushUnlockControl == ASSUME ControlInv, NEW t \in Threads, FlushUnlock(t) PROVE ControlInv'
<1> USE DEF Serving, Locking, Masking, QWait, QStates, Stopped, Suspending, Removing, Drained,
            FlushStates
<1>1. /\ ControlOK /\ QueueInv /\ LockInv /\ MaskInv /\ kref = References /\ PhaseInv /\ DrainInv
      /\ kref \in Nat /\ disable_intr_ref_count \in Nat /\ service_lock \in {0, 1}
  BY ControlParts
<1>2. /\ pc[t] = "isr_unlock" /\ service_lock' = 1
      /\ pc' = [pc EXCEPT ![t] = "retrigger"]
      /\ disable_intr_ref_count' = IF handling THEN disable_intr_ref_count - 1
                                              ELSE disable_intr_ref_count
      /\ intr_enabled' = IF handling /\ disable_intr_ref_count = 1 THEN TRUE ELSE intr_enabled
      /\ UNCHANGED <<mode, in_table, kref, handling, is_suspended, queue, should_exit, top, kt>>
  BY <1>1 DEF ControlOK, FlushUnlock, IsrUnlock, IntrEnable, Goto, intrVars, qVars, ktVars
<1>3. /\ pc'["user"] = IF t = "user" THEN "retrigger" ELSE pc["user"]
      /\ pc'["pm"] = IF t = "pm" THEN "retrigger" ELSE pc["pm"]
      /\ \A u \in Threads : pc'[u] = IF t = u THEN "retrigger" ELSE pc[u]
  BY <1>1, <1>2 DEF ControlOK, Threads
<1>4. /\ QueueInv' /\ (InQueue("replayable")' <=> InQueue("replayable"))
      /\ InQueue("non_replayable")' <=> InQueue("non_replayable")
  BY <1>1, <1>2, <1>3, QueueStable DEF QWait
<1>5. kref' \in Nat /\ disable_intr_ref_count' \in Nat
  BY <1>1, <1>2, <1>3 DEF References, MaskInv, Maskers, BottomHalf, PhaseInv, One, Threads
<1>6. ControlOK' BY <1>1, <1>2, <1>3, <1>5 DEF ControlOK, Threads
<1>7. LockInv'
  BY <1>1, <1>2, <1>3, <1>4 DEF LockInv, Lockers, BottomHalf, GpuFound, One, PhaseInv, Threads
<1>8. MaskInv'
  BY <1>1, <1>2, <1>3, <1>4 DEF MaskInv, Maskers, BottomHalf, GpuFound, One, PhaseInv, Threads
<1>9. (kref = References)'
  BY <1>1, <1>2, <1>3, <1>4 DEF References, One, PhaseInv, Threads
<1>10. PhaseInv' BY <1>1, <1>2, <1>3, <1>5 DEF PhaseInv, Threads
<1>11. DrainInv' BY <1>1, <1>2, <1>3, <1>4 DEF DrainInv, PhaseInv, Threads
<1> QED BY <1>4, <1>5, <1>6, <1>7, <1>8, <1>9, <1>10, <1>11 DEF ControlInv

LEMMA KtUnlockControl == ASSUME ControlInv, KtUnlock PROVE ControlInv'
<1> USE DEF Serving, Locking, Masking, QWait, QStates, Stopped, Suspending, Removing, Drained,
            FlushStates
<1>1. /\ ControlOK /\ QueueInv /\ LockInv /\ MaskInv /\ kref = References /\ PhaseInv /\ DrainInv
      /\ kref \in Nat /\ disable_intr_ref_count \in Nat /\ service_lock \in {0, 1}
  BY ControlParts
<1>2. /\ kt = "unlock" /\ kt' = "retrigger" /\ service_lock' = 1
      /\ disable_intr_ref_count' = IF handling THEN disable_intr_ref_count - 1
                                              ELSE disable_intr_ref_count
      /\ intr_enabled' = IF handling /\ disable_intr_ref_count = 1 THEN TRUE ELSE intr_enabled
      /\ UNCHANGED <<mode, in_table, kref, handling, is_suspended, queue, should_exit, top, pc>>
  BY <1>1 DEF ControlOK, KtUnlock, IsrUnlock, IntrEnable, intrVars, qVars
<1>3. /\ QueueInv' /\ (InQueue("replayable")' <=> InQueue("replayable"))
      /\ InQueue("non_replayable")' <=> InQueue("non_replayable")
  BY <1>1, <1>2, QueueStable
<1>4. kref' \in Nat /\ disable_intr_ref_count' \in Nat
  BY <1>1, <1>2 DEF References, MaskInv, Maskers, BottomHalf, PhaseInv, One
<1>5. ControlOK' BY <1>1, <1>2, <1>4 DEF ControlOK
<1>6. LockInv'
  BY <1>1, <1>2, <1>3 DEF LockInv, Lockers, BottomHalf, GpuFound, One, PhaseInv
<1>7. MaskInv'
  BY <1>1, <1>2, <1>3 DEF MaskInv, Maskers, LockInv, BottomHalf, GpuFound, One, PhaseInv
<1>8. (kref = References)'
  BY <1>1, <1>2, <1>3 DEF References, One, PhaseInv
<1>9. PhaseInv' BY <1>1, <1>2, <1>4 DEF PhaseInv
<1>10. DrainInv' BY <1>1, <1>2, <1>3 DEF DrainInv, PhaseInv, Threads
<1> QED BY <1>3, <1>4, <1>5, <1>6, <1>7, <1>8, <1>9, <1>10 DEF ControlInv

\* The interrupt is disabled.
LEMMA FlushCallControl == ASSUME ControlInv, FlushCall PROVE ControlInv'
<1> USE DEF Serving, Locking, Masking, QWait, QStates, Stopped, Suspending, Removing, Drained,
            FlushStates
<1>1. /\ ControlOK /\ QueueInv /\ LockInv /\ MaskInv /\ kref = References /\ PhaseInv /\ DrainInv
      /\ kref \in Nat /\ disable_intr_ref_count \in Nat /\ service_lock \in {0, 1}
  BY ControlParts
<1>2. /\ pc["user"] = "idle" /\ in_table /\ pc' = [pc EXCEPT !["user"] = "isr_down"]
      /\ disable_intr_ref_count' = disable_intr_ref_count + 1
      /\ intr_enabled' = IF handling /\ disable_intr_ref_count = 0 THEN FALSE ELSE intr_enabled
      /\ UNCHANGED <<mode, in_table, kref, handling, is_suspended, service_lock, queue,
                     should_exit, top, kt>>
  BY DEF FlushCall, IntrDisable, Goto, intrVars, qVars, ktVars
<1>3. /\ pc'["user"] = "isr_down"
      /\ pc'["pm"] = pc["pm"]
      /\ \A u \in Threads : pc'[u] = IF "user" = u THEN "isr_down" ELSE pc[u]
  BY <1>1, <1>2 DEF ControlOK, Threads
<1>4. /\ QueueInv' /\ (InQueue("replayable")' <=> InQueue("replayable"))
      /\ InQueue("non_replayable")' <=> InQueue("non_replayable")
  BY <1>1, <1>2, <1>3, QueueStable DEF QWait
<1>5. kref' \in Nat /\ disable_intr_ref_count' \in Nat
  BY <1>1, <1>2, <1>3 DEF References, MaskInv, Maskers, BottomHalf, PhaseInv, One
<1>6. ControlOK' BY <1>1, <1>2, <1>3, <1>5 DEF ControlOK
<1>7. LockInv'
  BY <1>1, <1>2, <1>3, <1>4 DEF LockInv, Lockers, BottomHalf, GpuFound, One, PhaseInv
<1>8. MaskInv'
  BY <1>1, <1>2, <1>3, <1>4 DEF MaskInv, Maskers, BottomHalf, GpuFound, One, PhaseInv
<1>9. (kref = References)'
  BY <1>1, <1>2, <1>3, <1>4 DEF References, One, PhaseInv
<1>10. PhaseInv' BY <1>1, <1>2, <1>3, <1>5 DEF PhaseInv
<1>11. DrainInv' BY <1>1, <1>2, <1>3, <1>4 DEF DrainInv, PhaseInv, Threads
<1> QED BY <1>4, <1>5, <1>6, <1>7, <1>8, <1>9, <1>10, <1>11 DEF ControlInv

LEMMA SuspendControl == ASSUME ControlInv, Suspend PROVE ControlInv'
<1> USE DEF Serving, Locking, Masking, QWait, QStates, Stopped, Suspending, Removing, Drained,
            FlushStates
<1>1. /\ ControlOK /\ QueueInv /\ LockInv /\ MaskInv /\ kref = References /\ PhaseInv /\ DrainInv
      /\ kref \in Nat /\ disable_intr_ref_count \in Nat /\ service_lock \in {0, 1}
  BY ControlParts
<1>2. /\ pc["pm"] = "idle" /\ in_table /\ pc' = [pc EXCEPT !["pm"] = "isr_down"]
      /\ disable_intr_ref_count' = disable_intr_ref_count + 1
      /\ intr_enabled' = IF handling /\ disable_intr_ref_count = 0 THEN FALSE ELSE intr_enabled
      /\ UNCHANGED <<mode, in_table, kref, handling, is_suspended, service_lock, queue,
                     should_exit, top, kt>>
  BY DEF Suspend, IntrDisable, Goto, intrVars, qVars, ktVars
<1>3. /\ pc'["user"] = pc["user"]
      /\ pc'["pm"] = "isr_down"
      /\ \A u \in Threads : pc'[u] = IF "pm" = u THEN "isr_down" ELSE pc[u]
  BY <1>1, <1>2 DEF ControlOK, Threads
<1>4. /\ QueueInv' /\ (InQueue("replayable")' <=> InQueue("replayable"))
      /\ InQueue("non_replayable")' <=> InQueue("non_replayable")
  BY <1>1, <1>2, <1>3, QueueStable DEF QWait
<1>5. kref' \in Nat /\ disable_intr_ref_count' \in Nat
  BY <1>1, <1>2, <1>3 DEF References, MaskInv, Maskers, BottomHalf, PhaseInv, One
<1>6. ControlOK' BY <1>1, <1>2, <1>3, <1>5 DEF ControlOK
<1>7. LockInv'
  BY <1>1, <1>2, <1>3, <1>4 DEF LockInv, Lockers, BottomHalf, GpuFound, One, PhaseInv
<1>8. MaskInv'
  BY <1>1, <1>2, <1>3, <1>4 DEF MaskInv, Maskers, BottomHalf, GpuFound, One, PhaseInv
<1>9. (kref = References)'
  BY <1>1, <1>2, <1>3, <1>4 DEF References, One, PhaseInv
<1>10. PhaseInv' BY <1>1, <1>2, <1>3, <1>5 DEF PhaseInv
<1>11. DrainInv' BY <1>1, <1>2, <1>3, <1>4 DEF DrainInv, PhaseInv, Threads
<1> QED BY <1>4, <1>5, <1>6, <1>7, <1>8, <1>9, <1>10, <1>11 DEF ControlInv

LEMMA DisableIsrControl == ASSUME ControlInv, DisableIsr PROVE ControlInv'
<1> USE DEF Serving, Locking, Masking, QWait, QStates, Stopped, Suspending, Removing, Drained,
            FlushStates
<1>1. /\ ControlOK /\ QueueInv /\ LockInv /\ MaskInv /\ kref = References /\ PhaseInv /\ DrainInv
      /\ kref \in Nat /\ disable_intr_ref_count \in Nat /\ service_lock \in {0, 1}
  BY ControlParts
<1>2. /\ pc["user"] = "disable_isr" /\ pc' = [pc EXCEPT !["user"] = "q_flush1"]
      /\ handling' = FALSE
      /\ disable_intr_ref_count' = disable_intr_ref_count + 1
      /\ intr_enabled' = IF handling /\ disable_intr_ref_count = 0 THEN FALSE ELSE intr_enabled
      /\ UNCHANGED <<mode, in_table, kref, is_suspended, service_lock, queue, should_exit,
                     top, kt>>
  BY DEF DisableIsr, IntrDisable, Goto, intrVars, qVars, ktVars
<1>3. /\ pc'["user"] = "q_flush1"
      /\ pc'["pm"] = pc["pm"]
      /\ \A u \in Threads : pc'[u] = IF "user" = u THEN "q_flush1" ELSE pc[u]
  BY <1>1, <1>2 DEF ControlOK, Threads
<1>4. /\ QueueInv' /\ (InQueue("replayable")' <=> InQueue("replayable"))
      /\ InQueue("non_replayable")' <=> InQueue("non_replayable")
  BY <1>1, <1>2, <1>3, QueueStable DEF QWait
<1>5. kref' \in Nat /\ disable_intr_ref_count' \in Nat
  BY <1>1, <1>2, <1>3 DEF References, MaskInv, Maskers, BottomHalf, PhaseInv, One
<1>6. ControlOK' BY <1>1, <1>2, <1>3, <1>5 DEF ControlOK
<1>7. LockInv'
  BY <1>1, <1>2, <1>3, <1>4 DEF LockInv, Lockers, BottomHalf, GpuFound, One, PhaseInv
<1>8. MaskInv'
  BY <1>1, <1>2, <1>3, <1>4 DEF MaskInv, Maskers, BottomHalf, GpuFound, One, PhaseInv
<1>9. (kref = References)'
  BY <1>1, <1>2, <1>3, <1>4 DEF References, One, PhaseInv
<1>10. PhaseInv' BY <1>1, <1>2, <1>3, <1>5 DEF PhaseInv
<1>11. DrainInv' BY <1>1, <1>2, <1>3, <1>4 DEF DrainInv, PhaseInv, Threads
<1> QED BY <1>4, <1>5, <1>6, <1>7, <1>8, <1>9, <1>10, <1>11 DEF ControlInv

LEMMA RemoveGpuControl == ASSUME ControlInv, RemoveGpu PROVE ControlInv'
<1> USE DEF Serving, Locking, Masking, QWait, QStates, Stopped, Suspending, Removing, Drained,
            FlushStates
<1>1. /\ ControlOK /\ QueueInv /\ LockInv /\ MaskInv /\ kref = References /\ PhaseInv /\ DrainInv
      /\ kref \in Nat /\ disable_intr_ref_count \in Nat /\ service_lock \in {0, 1}
  BY ControlParts
<1>2. /\ pc["user"] = "idle" /\ pc["pm"] = "idle"
      /\ in_table /\ in_table' = FALSE /\ kref' = kref + 1
      /\ pc' = [pc EXCEPT !["user"] = "disable_isr"]
      /\ UNCHANGED <<mode, intr_enabled, handling, disable_intr_ref_count, is_suspended,
                     service_lock, queue, should_exit, top, kt>>
  BY DEF RemoveGpu, Goto, Threads, intrVars, isrVars, qVars, ktVars
<1>3. /\ pc'["user"] = "disable_isr"
      /\ pc'["pm"] = pc["pm"]
      /\ \A u \in Threads : pc'[u] = IF "user" = u THEN "disable_isr" ELSE pc[u]
  BY <1>1, <1>2 DEF ControlOK, Threads
<1>4. /\ QueueInv' /\ (InQueue("replayable")' <=> InQueue("replayable"))
      /\ InQueue("non_replayable")' <=> InQueue("non_replayable")
  BY <1>1, <1>2, <1>3, QueueStable DEF QWait
<1>5. kref' \in Nat /\ disable_intr_ref_count' \in Nat
  BY <1>1, <1>2, <1>3 DEF References, MaskInv, Maskers, BottomHalf, PhaseInv, One
<1>6. ControlOK' BY <1>1, <1>2, <1>3, <1>5 DEF ControlOK
<1>7. LockInv'
  BY <1>1, <1>2, <1>3, <1>4 DEF LockInv, Lockers, BottomHalf, GpuFound, One, PhaseInv
<1>8. MaskInv'
  BY <1>1, <1>2, <1>3, <1>4 DEF MaskInv, Maskers, BottomHalf, GpuFound, One, PhaseInv
<1>9. (kref = References)'
  BY <1>1, <1>2, <1>3, <1>4 DEF References, One, PhaseInv
<1>10. PhaseInv' BY <1>1, <1>2, <1>3, <1>5 DEF PhaseInv
<1>11. DrainInv' BY <1>1, <1>2, <1>3, <1>4 DEF DrainInv, PhaseInv, Threads
<1> QED BY <1>4, <1>5, <1>6, <1>7, <1>8, <1>9, <1>10, <1>11 DEF ControlInv

\* A bottom half is scheduled while the GPU is neither suspended nor removed, the
\* replayable one with the service lock and the mask.
ScheduleEffect(rp, nr) ==
    /\ rp => ~is_suspended /\ handling /\ service_lock = 1
    /\ nr => ~is_suspended /\ handling /\ ~InQueue("non_replayable")
    /\ queue' \in Seq(Items) /\ Ordered(queue')
    /\ Range(queue') = Range(queue) \cup (IF rp THEN {"replayable"} ELSE {})
                                    \cup (IF nr THEN {"non_replayable"} ELSE {})
    /\ kref' = kref + (IF rp THEN 1 ELSE 0) + (IF nr THEN 1 ELSE 0)
    /\ service_lock' = IF rp THEN 0 ELSE service_lock
    /\ disable_intr_ref_count' = disable_intr_ref_count + (IF rp THEN 1 ELSE 0)
    /\ intr_enabled' = IF rp THEN FALSE ELSE intr_enabled

LEMMA ScheduleHandlersEffect ==
    ASSUME ControlInv, NEW nr \in BOOLEAN, nr => SchedulesNonReplayable, ScheduleHandlers(nr)
    PROVE  \E rp \in BOOLEAN : ScheduleEffect(rp, nr)
<1> DEFINE rp == HandlerReady /\ FaultsPending
           newly == (IF rp /\ ~should_exit THEN <<"replayable">> ELSE <<>>)
                    \o (IF nr THEN <<"non_replayable">> ELSE <<>>)
<1>1. /\ ControlOK /\ QueueInv /\ LockInv /\ MaskInv /\ kref = References /\ PhaseInv /\ DrainInv
      /\ kref \in Nat /\ disable_intr_ref_count \in Nat /\ service_lock \in {0, 1}
  BY ControlParts
<1>2. /\ queue' = queue \o newly
      /\ kref' = kref + (IF rp THEN 1 ELSE 0) + (IF nr THEN 1 ELSE 0)
      /\ service_lock' = IF rp THEN 0 ELSE service_lock
      /\ IF rp THEN IntrDisable ELSE UNCHANGED <<disable_intr_ref_count, intrVars>>
  BY DEF ScheduleHandlers
<1>3. rp => ~is_suspended /\ handling /\ service_lock = 1 BY DEF HandlerReady
<1>4. nr => ~is_suspended /\ handling /\ ~InQueue("non_replayable")
  BY DEF SchedulesNonReplayable, InQueue
<1>5. rp => ~should_exit /\ ~InQueue("replayable")
  <2>1. rp => ~should_exit BY <1>1, <1>3 DEF PhaseInv, Removing, Stopped
  <2>2. rp => ~InQueue("replayable")
    BY <1>1, <1>3 DEF LockInv, Lockers, BottomHalf, One
  <2> QED BY <2>1, <2>2
<1>6. rp \/ nr => Range(queue) \cap Threads = {}
  BY <1>1, <1>3, <1>4
     DEF QueueInv, InQueue, PhaseInv, Threads, QWait, Suspending, Removing, QStates
<1>7. queue \in Seq(Items) /\ Ordered(queue) BY <1>1 DEF ControlOK, QueueInv
<1>8. /\ "replayable" \in Items /\ "non_replayable" \in Items
      /\ "replayable" \notin Threads /\ "non_replayable" \notin Threads
  BY DEF Items, Threads
<1> HIDE DEF rp
<1>9. /\ queue' \in Seq(Items) /\ Ordered(queue')
      /\ Range(queue') = Range(queue) \cup (IF rp THEN {"replayable"} ELSE {})
                                      \cup (IF nr THEN {"non_replayable"} ELSE {})
  <2>1. CASE ~rp /\ ~nr
    <3>1. queue' = queue \o <<>> BY <1>2, <2>1
    <3>2. queue' = queue BY <1>7, <3>1
    <3> QED BY <1>7, <2>1, <3>2
  <2>2. CASE rp /\ ~nr
    <3>1. queue' = queue \o <<"replayable">> BY <1>2, <1>5, <2>2
    <3>2. queue' = Append(queue, "replayable") BY <1>7, <1>8, <3>1
    <3> QED BY <1>5, <1>6, <1>7, <1>8, <2>2, <3>2, QueueAppend DEF InQueue
  <2>3. CASE ~rp /\ nr
    <3>1. queue' = queue \o <<"non_replayable">> BY <1>2, <2>3
    <3>2. queue' = Append(queue, "non_replayable") BY <1>7, <1>8, <3>1
    <3> QED BY <1>4, <1>6, <1>7, <1>8, <2>3, <3>2, QueueAppend DEF InQueue
  <2>4. CASE rp /\ nr
    <3> DEFINE q == Append(queue, "replayable")
    <3>1. queue' = queue \o (<<"replayable">> \o <<"non_replayable">>) BY <1>2, <1>5, <2>4
    <3>2. /\ <<"replayable">> \in Seq(Items) /\ <<"non_replayable">> \in Seq(Items)
          /\ q \in Seq(Items)
      BY <1>7, <1>8
    <3>3. queue' = Append(q, "non_replayable")
      <4>1. queue' = (queue \o <<"replayable">>) \o <<"non_replayable">>
        BY <1>7, <3>1, <3>2, ConcatAssociative
      <4>2. queue \o <<"replayable">> = q BY <1>7, <1>8
      <4>3. queue' = q \o <<"non_replayable">> BY <4>1, <4>2
      <4> HIDE DEF q
      <4> QED BY <1>8, <3>2, <4>3
    <3>4. /\ q \in Seq(Items) /\ Ordered(q) /\ Range(q) = Range(queue) \cup {"replayable"}
      BY <1>5, <1>6, <1>7, <1>8, <2>4, QueueAppend DEF InQueue
    <3>5. "non_replayable" \notin Range(q) /\ Range(q) \cap Threads = {}
      BY <1>4, <1>6, <1>8, <2>4, <3>4 DEF InQueue
    <3> HIDE DEF q
    <3> QED BY <1>8, <2>4, <3>3, <3>4, <3>5, QueueAppend
  <2> QED BY <2>1, <2>2, <2>3, <2>4
<1>10. disable_intr_ref_count' = disable_intr_ref_count + (IF rp THEN 1 ELSE 0)
  BY <1>1, <1>2 DEF IntrDisable
<1>11. intr_enabled' = IF rp THEN FALSE ELSE intr_enabled
  <2>1. CASE rp
    <3>1. handling /\ intr_enabled \in BOOLEAN BY <1>1, <1>3, <2>1 DEF ControlOK
    <3>2. disable_intr_ref_count # 0 => intr_enabled = FALSE BY <1>1, <3>1 DEF MaskInv
    <3>3. intr_enabled' = FALSE BY <1>2, <2>1, <3>1, <3>2 DEF IntrDisable, intrVars
    <3> QED BY <2>1, <3>3
  <2>2. CASE ~rp BY <1>2, <2>2 DEF intrVars
  <2> QED BY <2>1, <2>2
<1>12. rp \in BOOLEAN BY DEF rp
<1>13. ScheduleEffect(rp, nr) BY <1>2, <1>3, <1>4, <1>9, <1>10, <1>11 DEF ScheduleEffect
<1> QED BY <1>12, <1>13

LEMMA RetriggerEffect ==
    ASSUME ControlInv, Retrigger PROVE \E rp \in BOOLEAN : ScheduleEffect(rp, FALSE)
<1>1. CASE mode = "cc" BY <1>1, ScheduleHandlersEffect DEF Retrigger
<1>2. CASE mode # "cc"
  <2>1. ControlOK /\ Ordered(queue) BY DEF ControlInv, QueueInv
  <2>2. ScheduleEffect(FALSE, FALSE)
    BY <1>2, <2>1 DEF Retrigger, ScheduleEffect, ControlOK, intrVars
  <2> QED BY <2>2
<1> QED BY <1>1, <1>2

\* The step that schedules bottom halves, which the caller of ScheduleHandlers ends.
LEMMA ScheduleControl ==
    ASSUME ControlInv, ControlOK', NEW rp \in BOOLEAN, NEW nr \in BOOLEAN,
           ScheduleEffect(rp, nr),
           UNCHANGED <<mode, in_table, handling, is_suspended, should_exit>>,
           top' # "idle" <=> top # "idle",
           kt' = kt \/ (kt = "retrigger" /\ kt' = "put"),
           \A t \in Threads : \/ pc'[t] = pc[t]
                              \/ /\ pc[t] = "retrigger"
                                 /\ pc'[t] = IF t = "pm" THEN "suspend" ELSE "idle"
    PROVE  ControlInv'
<1>1. /\ ControlOK /\ QueueInv /\ LockInv /\ MaskInv /\ kref = References /\ PhaseInv /\ DrainInv
      /\ kref \in Nat /\ disable_intr_ref_count \in Nat /\ service_lock \in {0, 1}
  BY ControlParts
<1>2. /\ rp => ~is_suspended /\ handling /\ service_lock = 1
      /\ nr => ~is_suspended /\ handling /\ ~InQueue("non_replayable")
      /\ kref' = kref + (IF rp THEN 1 ELSE 0) + (IF nr THEN 1 ELSE 0)
      /\ service_lock' = IF rp THEN 0 ELSE service_lock
      /\ disable_intr_ref_count' = disable_intr_ref_count + (IF rp THEN 1 ELSE 0)
      /\ intr_enabled' = IF rp THEN FALSE ELSE intr_enabled
  BY DEF ScheduleEffect
<1>3. /\ InQueue("replayable")' <=> InQueue("replayable") \/ rp
      /\ InQueue("non_replayable")' <=> InQueue("non_replayable") \/ nr
      /\ \A t \in Threads : InQueue(t)' <=> InQueue(t)
  BY DEF ScheduleEffect, InQueue, Threads
<1>4. /\ \/ pc'["user"] = pc["user"]
         \/ pc["user"] = "retrigger" /\ pc'["user"] = "idle"
      /\ \/ pc'["pm"] = pc["pm"]
         \/ pc["pm"] = "retrigger" /\ pc'["pm"] = "suspend"
  BY DEF Threads
<1>5. QueueInv'
  BY <1>1, <1>3 DEF QueueInv, ScheduleEffect, QWait, Threads
<1>6. rp => ~InQueue("replayable") /\ kt \notin Serving
  BY <1>1, <1>2 DEF LockInv, Lockers, BottomHalf, One
<1>7. kt' \in Serving <=> kt \in Serving BY DEF Serving
<1>8. LockInv'
  BY <1>1, <1>2, <1>3, <1>4, <1>6, <1>7
     DEF LockInv, Lockers, BottomHalf, GpuFound, One, Locking
<1>9. MaskInv'
  BY <1>1, <1>2, <1>3, <1>4, <1>6, <1>7
     DEF MaskInv, Maskers, BottomHalf, GpuFound, One, Locking, Masking
<1>10. (kref = References)'
  BY <1>1, <1>2, <1>3, <1>4, <1>6 DEF References, One
<1>11. PhaseInv'
  BY <1>1, <1>4 DEF PhaseInv, FlushStates, Suspending, Removing, QStates, Stopped
<1>12. DrainInv'
  <2> SUFFICES ASSUME NEW t \in Threads, pc'[t] \in Drained
               PROVE  /\ ~InQueue("replayable")' /\ ~InQueue("non_replayable")'
                      /\ kt' \in {"wait", "exit"}
    BY DEF DrainInv
  <2>1. pc[t] \in Drained BY DEF Drained, QStates, Stopped
  <2>2. /\ ~InQueue("replayable") /\ ~InQueue("non_replayable") /\ kt \in {"wait", "exit"}
    BY <1>1, <2>1 DEF DrainInv
  <2>3. is_suspended \/ ~handling
    BY <1>1, <2>1 DEF PhaseInv, Threads, Drained, Suspending, Removing, QStates, Stopped,
                      FlushStates
  <2> QED BY <1>2, <1>3, <2>2, <2>3
<1> QED BY <1>5, <1>8, <1>9, <1>10, <1>11, <1>12 DEF ControlInv

LEMMA ScheduleOK ==
    ASSUME ControlInv, NEW rp \in BOOLEAN, NEW nr \in BOOLEAN, ScheduleEffect(rp, nr)
    PROVE  /\ kref' \in Nat /\ disable_intr_ref_count' \in Nat /\ service_lock' \in {0, 1}
           /\ queue' \in Seq(Items) /\ intr_enabled' \in BOOLEAN
<1>1. /\ kref \in Nat /\ disable_intr_ref_count \in Nat /\ service_lock \in {0, 1}
      /\ intr_enabled \in BOOLEAN
  BY ControlParts DEF ControlOK
<1>2. intr_enabled' = FALSE \/ intr_enabled' = intr_enabled BY DEF ScheduleEffect
<1>3. intr_enabled' \in BOOLEAN BY <1>1, <1>2
<1>4. /\ kref' \in Nat /\ disable_intr_ref_count' \in Nat /\ service_lock' \in {0, 1}
      /\ queue' \in Seq(Items)
  BY <1>1 DEF ScheduleEffect
<1> QED BY <1>3, <1>4

LEMMA TopScheduleControl == ASSUME ControlInv, TopSchedule PROVE ControlInv'
<1>1. /\ top = "schedule" /\ top' = "put" /\ ScheduleHandlers(SchedulesNonReplayable)
      /\ UNCHANGED <<mode, in_table, handling, is_suspended, should_exit, kt, pc>>
  BY DEF TopSchedule, ktVars
<1>2. PICK nr \in BOOLEAN : nr = SchedulesNonReplayable BY DEF SchedulesNonReplayable
<1>3. PICK rp \in BOOLEAN : ScheduleEffect(rp, nr) BY <1>1, <1>2, ScheduleHandlersEffect
<1>4. ControlOK' BY <1>1, <1>3, ScheduleOK, ControlParts DEF ControlOK
<1> QED BY <1>1, <1>3, <1>4, ScheduleControl

LEMMA KtRetriggerControl == ASSUME ControlInv, KtRetrigger PROVE ControlInv'
<1>1. /\ kt = "retrigger" /\ kt' = "put" /\ Retrigger
      /\ UNCHANGED <<mode, in_table, handling, is_suspended, should_exit, top, pc>>
  BY DEF KtRetrigger
<1>2. PICK rp \in BOOLEAN : ScheduleEffect(rp, FALSE) BY <1>1, RetriggerEffect
<1>3. ControlOK' BY <1>1, <1>2, ScheduleOK, ControlParts DEF ControlOK
<1> QED BY <1>1, <1>2, <1>3, ScheduleControl

LEMMA FlushRetriggerControl ==
    ASSUME ControlInv, NEW t \in Threads, FlushRetrigger(t) PROVE ControlInv'
<1>1. /\ pc[t] = "retrigger" /\ Retrigger
      /\ pc' = [pc EXCEPT ![t] = IF t = "pm" THEN "suspend" ELSE "idle"]
      /\ UNCHANGED <<mode, in_table, handling, is_suspended, should_exit, top, kt>>
  BY DEF FlushRetrigger, Goto, ktVars
<1>2. PICK rp \in BOOLEAN : ScheduleEffect(rp, FALSE) BY <1>1, RetriggerEffect
<1>3. ControlOK'
  <2>1. pc' \in [Threads -> FlushStates \cup Suspending \cup Removing
                            \cup {"suspend", "disable_isr"}]
    BY <1>1, ControlParts DEF ControlOK, FlushStates
  <2> QED BY <1>1, <1>2, <2>1, ScheduleOK, ControlParts DEF ControlOK
<1>4. \A u \in Threads : \/ pc'[u] = pc[u]
                         \/ /\ pc[u] = "retrigger"
                            /\ pc'[u] = IF u = "pm" THEN "suspend" ELSE "idle"
  BY <1>1, ControlParts DEF ControlOK
<1> QED BY <1>1, <1>2, <1>3, <1>4, ScheduleControl

\* The kernel thread takes an item: a thread is let go on, or a bottom half runs and has
\* the reference of its item.
LEMMA KtTakeControl == ASSUME ControlInv, KtTake PROVE ControlInv'
<1> DEFINE noGpu == mode = "smc" /\ ~in_table
<1>1. /\ ControlOK /\ QueueInv /\ LockInv /\ MaskInv /\ kref = References /\ PhaseInv /\ DrainInv
      /\ kref \in Nat /\ disable_intr_ref_count \in Nat /\ service_lock \in {0, 1}
  BY ControlParts
<1>2. /\ kt = "wait" /\ queue # <<>> /\ ~should_exit /\ queue' = Tail(queue)
      /\ UNCHANGED <<mode, intr_enabled, in_table, kref, handling, disable_intr_ref_count,
                     is_suspended, service_lock, should_exit, top>>
  BY DEF KtTake, intrVars, isrVars
<1>3. PICK item : item = Head(queue) OBVIOUS
<1>4. /\ queue' \in Seq(Items) /\ item \in Items /\ Range(queue') = Range(queue) \ {item}
      /\ item \in Range(queue) /\ Ordered(queue')
      /\ item \in Threads => Range(queue') \cap BottomHalves = {}
  BY <1>1, <1>2, <1>3, QueueTail DEF ControlOK, QueueInv
<1>5. \A x : InQueue(x)' <=> InQueue(x) /\ x # item BY <1>4 DEF InQueue
<1>6. CASE item \in Threads
  <2>1. kt' = "wait" /\ pc' = [pc EXCEPT ![item] = AfterFlushItem(pc[item])]
    BY <1>3, <1>6 DEF KtTake, Threads, BottomHalves
  <2>2. pc[item] \in QWait BY <1>1, <1>4, <1>6 DEF QueueInv, InQueue
  <2>3. PICK state \in {"q_flush2", "q_flushed"} : state = AfterFlushItem(pc[item])
    BY DEF AfterFlushItem
  <2>4. /\ \A u \in Threads : pc'[u] = IF item = u THEN state ELSE pc[u]
        /\ pc'["user"] = IF item = "user" THEN state ELSE pc["user"]
        /\ pc'["pm"] = IF item = "pm" THEN state ELSE pc["pm"]
    BY <1>1, <1>6, <2>1, <2>3 DEF ControlOK, Threads
  <2>5. ~InQueue("replayable")' /\ ~InQueue("non_replayable")'
    BY <1>4, <1>6 DEF InQueue, BottomHalves
  <2>6. ~InQueue("replayable") /\ ~InQueue("non_replayable")
    BY <1>5, <1>6, <2>5 DEF Threads
  <2>7. ControlOK'
    <3>1. pc' \in [Threads -> FlushStates \cup Suspending \cup Removing
                              \cup {"suspend", "disable_isr"}]
      BY <1>1, <2>1, <2>3 DEF ControlOK, Suspending, QStates
    <3> QED BY <1>1, <1>2, <1>4, <2>1, <3>1 DEF ControlOK
  <2>8. QueueInv' BY <1>1, <1>4, <1>5, <2>4 DEF QueueInv, QWait
  <2>9. LockInv'
    BY <1>1, <1>2, <2>1, <2>2, <2>4, <2>5, <2>6
       DEF LockInv, Lockers, BottomHalf, GpuFound, One, QWait, Locking
  <2>10. MaskInv'
    BY <1>1, <1>2, <2>1, <2>2, <2>4, <2>5, <2>6
       DEF MaskInv, Maskers, BottomHalf, GpuFound, One, QWait, Locking, Masking
  <2>11. (kref = References)'
    BY <1>1, <1>2, <2>1, <2>2, <2>4, <2>5, <2>6 DEF References, One, QWait
  <2>12. PhaseInv'
    BY <1>1, <1>2, <2>1, <2>2, <2>4
       DEF PhaseInv, QWait, FlushStates, Suspending, Removing, QStates, Stopped
  <2>13. DrainInv' BY <2>1, <2>5 DEF DrainInv
  <2> QED BY <2>7, <2>8, <2>9, <2>10, <2>11, <2>12, <2>13 DEF ControlInv
<1>7. CASE item \in BottomHalves
  <2>1. /\ pc' = pc
        /\ noGpu => kt' = "put"
        /\ ~noGpu => kt' = IF item = "replayable" THEN "fetch" ELSE "non_replayable"
    BY <1>3, <1>7 DEF KtTake, BottomHalves, Threads
  <2>2. InQueue(item) /\ item \notin Threads BY <1>4, <1>7 DEF InQueue, BottomHalves, Threads
  <2>3. \A t \in Threads : pc[t] \notin Drained
    BY <1>1, <1>7, <2>2 DEF DrainInv, BottomHalves
  <2>4. /\ kt' \in {"put", "fetch", "non_replayable"}
        /\ kt' \in Serving <=> item = "replayable" /\ ~noGpu
    BY <1>7, <2>1 DEF Serving, BottomHalves
  <2>5. ControlOK' BY <1>1, <1>2, <1>4, <2>1, <2>4 DEF ControlOK, Serving
  <2>6. QueueInv' BY <1>1, <1>4, <1>5, <2>1, <2>2 DEF QueueInv
  <2>7. kt \notin Serving BY <1>2 DEF Serving
  <2>8. LockInv'
    BY <1>1, <1>2, <1>5, <1>7, <2>1, <2>2, <2>4, <2>7
       DEF LockInv, Lockers, BottomHalf, GpuFound, One, BottomHalves
  <2>9. MaskInv'
    BY <1>1, <1>2, <1>5, <1>7, <2>1, <2>2, <2>4, <2>7
       DEF MaskInv, Maskers, BottomHalf, GpuFound, One, BottomHalves
  <2>10. (kref = References)'
    BY <1>1, <1>2, <1>5, <1>7, <2>1, <2>2, <2>4 DEF References, One, BottomHalves
  <2>11. PhaseInv' BY <1>1, <1>2, <2>1, <2>4 DEF PhaseInv
  <2>12. DrainInv' BY <2>1, <2>3 DEF DrainInv
  <2> QED BY <2>5, <2>6, <2>8, <2>9, <2>10, <2>11, <2>12 DEF ControlInv
<1> QED BY <1>4, <1>6, <1>7 DEF Items, BottomHalves

\* A thread puts its item behind everything in the queue.
LEMMA QFlushControl == ASSUME ControlInv, NEW t \in Threads, QFlush(t) PROVE ControlInv'
<1>1. /\ ControlOK /\ QueueInv /\ LockInv /\ MaskInv /\ kref = References /\ PhaseInv /\ DrainInv
      /\ kref \in Nat /\ disable_intr_ref_count \in Nat /\ service_lock \in {0, 1}
  BY ControlParts
<1>2. /\ pc[t] \in {"q_flush1", "q_flush2"} /\ queue' = Append(queue, t)
      /\ UNCHANGED <<mode, intr_enabled, in_table, kref, handling, disable_intr_ref_count,
                     is_suspended, service_lock, should_exit, top, kt>>
  BY DEF QFlush, intrVars, isrVars, ktVars
<1>3. PICK state \in QWait : /\ pc' = [pc EXCEPT ![t] = state]
                             /\ state = "q_wait2" <=> pc[t] = "q_flush2"
  BY <1>2 DEF QFlush, Goto, QWait
<1>4. /\ \A u \in Threads : pc'[u] = IF t = u THEN state ELSE pc[u]
      /\ pc'["user"] = IF t = "user" THEN state ELSE pc["user"]
      /\ pc'["pm"] = IF t = "pm" THEN state ELSE pc["pm"]
  BY <1>1, <1>3 DEF ControlOK, Threads
<1>5. /\ queue' \in Seq(Items) /\ Range(queue') = Range(queue) \cup {t} /\ Ordered(queue')
  <2>1. t \in Items /\ t \notin Range(queue)
    BY <1>1, <1>2 DEF Items, QueueInv, InQueue, QWait
  <2> QED BY <1>1, <1>2, <2>1, QueueAppend DEF ControlOK, QueueInv
<1>6. \A x : InQueue(x)' <=> InQueue(x) \/ x = t BY <1>5 DEF InQueue
<1>7. t # "replayable" /\ t # "non_replayable" BY DEF Threads
<1>8. ControlOK'
  <2>1. pc' \in [Threads -> FlushStates \cup Suspending \cup Removing
                            \cup {"suspend", "disable_isr"}]
    BY <1>1, <1>3 DEF ControlOK, Suspending, QStates, QWait
  <2> QED BY <1>1, <1>2, <1>5, <2>1 DEF ControlOK
<1>9. QueueInv' BY <1>1, <1>4, <1>5, <1>6 DEF QueueInv
<1>10. LockInv'
  BY <1>1, <1>2, <1>4, <1>6, <1>7
     DEF LockInv, Lockers, BottomHalf, GpuFound, One, QWait, Locking
<1>11. MaskInv'
  BY <1>1, <1>2, <1>4, <1>6, <1>7
     DEF MaskInv, Maskers, BottomHalf, GpuFound, One, QWait, Locking, Masking
<1>12. (kref = References)' BY <1>1, <1>2, <1>4, <1>6, <1>7 DEF References, One, QWait
<1>13. PhaseInv'
  BY <1>1, <1>2, <1>4 DEF PhaseInv, QWait, FlushStates, Suspending, Removing, QStates, Stopped
<1>14. DrainInv'
  BY <1>1, <1>2, <1>3, <1>4, <1>6, <1>7 DEF DrainInv, Drained, QStates, Stopped, QWait
<1> QED BY <1>8, <1>9, <1>10, <1>11, <1>12, <1>13, <1>14 DEF ControlInv

-----------------------------------------------------------------------------
(* The fault buffer.                                                       *)

\* A step that leaves accesses and entries alone.  A thread that suspends goes on only
\* to the lock, or once it has flushed.
LEMMA QuietData ==
    ASSUME Inv, UNCHANGED <<mode, access, resident, batch, buffer, cached>>,
           replays' \in 0 .. MaxReplays, intr_pending' \in BOOLEAN, nr_due' \in BOOLEAN,
           was_handling' \in BOOLEAN, replayed' \in BOOLEAN,
           nr_queue' \in Nat, num_batches' \in Nat, events' \in 0 .. MaxEvents,
           \/ pc'["pm"] = pc["pm"]
           \/ pc["pm"] \notin {"idle", "isr_down", "flush_wait", "flush"} /\ pc'["pm"] # "flush"
           \/ pc["pm"] = "isr_down" /\ pc'["pm"] = "flush_wait"
    PROVE  DataOK' /\ BufferInv'
<1>1. DataOK /\ BufferInv BY DEF Inv
<1>2. DataOK' BY <1>1 DEF DataOK
<1>3. BufferInv' BY <1>1 DEF BufferInv
<1> QED BY <1>2, <1>3

\* Where pc and the other data stay.
LEMMA DataTypes ==
    ASSUME Inv
    PROVE  /\ DataOK /\ ControlInv /\ BufferInv /\ ControlOK /\ PhaseInv
           /\ replays \in 0 .. MaxReplays /\ intr_pending \in BOOLEAN /\ nr_due \in BOOLEAN
           /\ was_handling \in BOOLEAN /\ replayed \in BOOLEAN /\ handling \in BOOLEAN
           /\ nr_queue \in Nat /\ num_batches \in Nat /\ events \in 0 .. MaxEvents
           /\ buffer \in Seq(Entries) /\ Len(buffer) \in Nat /\ cached \in 0 .. Len(buffer)
           /\ access \in [Pages -> {"run", "fault", "stalled", "preempted"}]
           /\ MaxReplays \in Nat /\ MaxEvents \in Nat
BY BoundAssumption DEF Inv, ControlInv, ControlOK, DataOK

\* Only the party with the service lock changes the buffer while a thread flushes it.
LEMMA FlushAlone ==
    ASSUME Inv, pc["pm"] = "flush"
    PROVE  service_lock = 0 /\ kt \notin Serving /\ pc["user"] \notin Locking
<1>1. LockInv /\ service_lock \in {0, 1} BY ControlParts DEF Inv
<1>2. pc["pm"] \in Locking BY DEF Locking
<1> QED BY <1>1, <1>2 DEF LockInv, Lockers, BottomHalf, One

LEMMA WriteGetFacts ==
    ASSUME Inv, NEW n \in 0 .. Len(buffer), WriteGet(n)
    PROVE  /\ buffer' \in Seq(Entries) /\ Len(buffer') = Len(buffer) - n
           /\ intr_pending' \in BOOLEAN
           /\ n = Len(buffer) => buffer' = <<>>
<1>1. buffer \in Seq(Entries) /\ Len(buffer) \in Nat /\ intr_pending \in BOOLEAN BY DataTypes
<1>2. buffer' = SubSeq(buffer, n + 1, Len(buffer)) BY DEF WriteGet
<1>3. buffer' \in Seq(Entries) /\ Len(buffer') = Len(buffer) - n BY <1>1, <1>2
<1>4. n = Len(buffer) => buffer' = <<>>
  <2>1. ASSUME n = Len(buffer) PROVE buffer' = <<>>
    <3>1. Len(buffer') = 0 BY <1>1, <1>3, <2>1
    <3> QED BY <1>3, <3>1
  <2> QED BY <2>1
<1>5. intr_pending' \in BOOLEAN BY DEF WriteGet
<1> QED BY <1>3, <1>4, <1>5

\* What RM discards of the hardware buffer is nothing while the channels are preempted.
LEMMA UpdatePutFacts ==
    ASSUME Inv, UpdatePut
    PROVE  /\ cached' = Len(buffer)
           /\ access' \in [Pages -> {"run", "fault", "stalled", "preempted"}]
           /\ pc["pm"] # "idle" => \A p \in Pages : access'[p] = access[p]
<1>1. BufferInv /\ access \in [Pages -> {"run", "fault", "stalled", "preempted"}]
  BY DataTypes
<1>2. PICK discarded \in SUBSET {p \in Pages : mode = "cc" /\ access[p] = "fault"} :
         access' = [p \in Pages |-> IF p \in discarded THEN "stalled" ELSE access[p]]
  BY DEF UpdatePut
<1>3. access' \in [Pages -> {"run", "fault", "stalled", "preempted"}] BY <1>1, <1>2
<1>4. pc["pm"] # "idle" => \A p \in Pages : access'[p] = access[p]
  BY <1>1, <1>2 DEF BufferInv
<1> QED BY <1>3, <1>4 DEF UpdatePut

LEMMA GpuData ==
    ASSUME Inv,
           \/ \E p \in Pages : GpuAccess(p)
           \/ Hardware
    PROVE  DataOK' /\ BufferInv'
<1>1. DataOK /\ BufferInv BY DEF Inv
<1>2. ASSUME NEW p \in Pages, GpuAccess(p) PROVE DataOK' /\ BufferInv'
  <2> USE <1>2 DEF GpuAccess, bufferVars, intrVars, nrVars, isrVars, ktVars
  <2>1. DataOK' BY <1>1 DEF DataOK
  <2>2. BufferInv' BY DEF BufferInv, ChannelsRun
  <2> QED BY <2>1, <2>2
<1>3. ASSUME NEW p \in Pages, GpuFault(p) PROVE DataOK' /\ BufferInv'
  <2>1. access[p] = "fault" /\ access' = [access EXCEPT ![p] = "stalled"] BY <1>3 DEF GpuFault
  <2>2. pc["pm"] = "idle" /\ pc' = pc BY <1>1, <1>3, <2>1 DEF BufferInv, GpuFault
  <2>3. BufferInv' BY <2>2 DEF BufferInv
  <2>4. /\ buffer' \in Seq(Entries) /\ cached \in 0 .. Len(buffer') /\ intr_pending' \in BOOLEAN
    <3>1. CASE Len(buffer) < BufferSize
      <4>1. buffer' = Append(buffer, [page |-> p, valid |-> FALSE]) /\ intr_pending' = TRUE
        BY <1>3, <3>1 DEF GpuFault
      <4>2. [page |-> p, valid |-> FALSE] \in Entries BY DEF Entries
      <4>3. buffer' \in Seq(Entries) /\ Len(buffer') = Len(buffer) + 1
        BY <4>1, <4>2, DataTypes
      <4> QED BY <4>1, <4>3, DataTypes
    <3>2. CASE ~(Len(buffer) < BufferSize) BY <1>3, <3>2, DataTypes DEF GpuFault
    <3> QED BY <3>1, <3>2
  <2>5. DataOK'
    <3>1. access' \in [Pages -> {"run", "fault", "stalled", "preempted"}]
      BY <2>1, DataTypes
    <3> QED BY <1>1, <1>3, <2>4, <3>1 DEF DataOK, GpuFault, nrVars, isrVars, ktVars
  <2> QED BY <2>3, <2>5
<1>4. ASSUME NEW i \in 1 .. BufferSize, GpuWriteEntry(i) PROVE DataOK' /\ BufferInv'
  <2>1. /\ i \in DOMAIN buffer /\ buffer' = [buffer EXCEPT ![i].valid = TRUE]
    BY <1>4 DEF GpuWriteEntry
  <2>2. buffer' \in Seq(Entries) /\ Len(buffer') = Len(buffer) /\ buffer # <<>>
    <3>0. buffer[i] \in Entries BY <2>1, DataTypes
    <3>1. [buffer[i] EXCEPT !.valid = TRUE] \in Entries BY <3>0 DEF Entries
    <3> QED BY <2>1, <3>1, DataTypes
  <2>3. DataOK'
    BY <1>1, <1>4, <2>2 DEF DataOK, GpuWriteEntry, gpuVars, intrVars, nrVars, isrVars, ktVars
  <2>4. BufferInv' BY <1>1, <1>4, <2>2 DEF BufferInv, GpuWriteEntry, gpuVars
  <2> QED BY <2>3, <2>4
<1>5. CASE GpuReplay
  <2>1. /\ replays > 0 /\ replays' = replays - 1
        /\ access' = [p \in Pages |->
                        CASE access[p] = "stalled" /\ p \in resident -> "run"
                          [] access[p] = "stalled" /\ p \notin resident -> "fault"
                          [] OTHER -> access[p]]
        /\ UNCHANGED <<buffer, cached, pc>>
    BY <1>5 DEF GpuReplay, bufferVars
  <2>2. \A p \in Pages : access'[p] \in {"run", "fault", access[p]} BY <2>1
  <2>3. \A p \in Pages : access[p] # "stalled" => access'[p] = access[p] BY <2>1
  <2>4. access' \in [Pages -> {"run", "fault", "stalled", "preempted"}]
    <3>1. \A p \in Pages : access'[p] \in {"run", "fault", "stalled", "preempted"}
      BY <2>2, DataTypes
    <3> QED BY <2>1, <3>1
  <2>5. replays' \in 0 .. MaxReplays BY <2>1, DataTypes
  <2>6. DataOK'
    BY <1>1, <1>5, <2>4, <2>5 DEF DataOK, GpuReplay, bufferVars, intrVars, nrVars, isrVars, ktVars
  <2>7. BufferInv' BY <1>1, <2>1, <2>3 DEF BufferInv
  <2> QED BY <2>6, <2>7
<1> QED BY <1>2, <1>3, <1>4, <1>5 DEF Hardware

\* What a thread does with its own program counter.
LEMMA GotoFacts ==
    ASSUME Inv, NEW t \in Threads, NEW state, pc' = [pc EXCEPT ![t] = state]
    PROVE  /\ t = "pm" => pc'["pm"] = state
           /\ t # "pm" => pc'["pm"] = pc["pm"]
<1>1. ControlOK BY DataTypes
<1> QED BY <1>1 DEF ControlOK, Threads

LEMMA KtQuietData ==
    ASSUME Inv, \/ KtExit \/ KtReplayWait \/ KtFinish \/ KtUnlock \/ KtNonReplayable \/ KtPut
                \/ TopEnter \/ TopExit \/ NonReplayableFault
    PROVE  DataOK' /\ BufferInv'
<1>1. UNCHANGED <<mode, access, resident, batch, buffer, cached, pc, was_handling>>
  BY DEF KtExit, KtReplayWait, KtFinish, KtUnlock, KtNonReplayable, KtPut, TopEnter, TopExit,
         NonReplayableFault, gpuVars, bufferVars, ktVars, isrVars
<1>2. replays' \in 0 .. MaxReplays
  <2>1. CASE KtFinish BY <2>1, DataTypes DEF KtFinish
  <2>2. CASE ~KtFinish
    BY <2>2, DataTypes DEF KtExit, KtReplayWait, KtUnlock, KtNonReplayable, KtPut, TopEnter,
         TopExit, NonReplayableFault, gpuVars
  <2> QED BY <2>1, <2>2
<1>3. intr_pending' \in BOOLEAN
  <2>1. intr_pending \in BOOLEAN BY DataTypes
  <2>2. CASE KtUnlock BY <2>1, <2>2 DEF KtUnlock, IsrUnlock, intrVars
  <2>3. CASE ~KtUnlock
    BY <2>1, <2>3 DEF KtExit, KtReplayWait, KtFinish, KtNonReplayable, KtPut, TopEnter,
         TopExit, NonReplayableFault, intrVars
  <2> QED BY <2>2, <2>3
<1>4. nr_due' \in BOOLEAN
  <2>1. nr_due \in BOOLEAN BY DataTypes
  <2>2. CASE TopEnter BY <2>2 DEF TopEnter
  <2>3. CASE NonReplayableFault BY <2>3 DEF NonReplayableFault
  <2>4. CASE ~TopEnter /\ ~NonReplayableFault
    BY <2>1, <2>4 DEF KtExit, KtReplayWait, KtFinish, KtUnlock, KtNonReplayable, KtPut, TopExit,
         nrVars
  <2> QED BY <2>2, <2>3, <2>4
<1>5. replayed' \in BOOLEAN
  <2>1. replayed \in BOOLEAN BY DataTypes
  <2> QED
    BY <2>1 DEF KtExit, KtReplayWait, KtFinish, KtUnlock, KtNonReplayable, KtPut, TopEnter,
         TopExit, NonReplayableFault, ktVars
<1>6. nr_queue' \in Nat /\ num_batches' \in Nat /\ events' \in 0 .. MaxEvents
  <2>1. nr_queue \in Nat /\ num_batches \in Nat /\ events \in 0 .. MaxEvents /\ MaxEvents \in Nat
    BY DataTypes
  <2>2. CASE KtReplayWait BY <2>1, <2>2 DEF KtReplayWait, nrVars
  <2>3. CASE NonReplayableFault BY <2>1, <2>3 DEF NonReplayableFault, ktVars
  <2>4. CASE ~KtReplayWait /\ ~NonReplayableFault
    BY <2>1, <2>4 DEF KtExit, KtFinish, KtUnlock, KtNonReplayable, KtPut, TopEnter, TopExit,
         nrVars, ktVars
  <2> QED BY <2>2, <2>3, <2>4
<1>7. was_handling' \in BOOLEAN BY <1>1, DataTypes
<1> QED BY <1>1, <1>2, <1>3, <1>4, <1>5, <1>6, <1>7, QuietData

LEMMA KtTakeData == ASSUME Inv, KtTake PROVE DataOK' /\ BufferInv'
<1>1. /\ UNCHANGED <<mode, access, resident, batch, buffer, cached, was_handling, replays,
                     intr_pending, nr_due, nr_queue, events>>
      /\ num_batches' = 0 /\ replayed' = FALSE
  BY DEF KtTake, gpuVars, bufferVars, isrVars, intrVars, nrVars
<1>2. ControlOK /\ QueueInv /\ PhaseInv BY ControlParts DEF Inv
<1>3. \/ pc'["pm"] = pc["pm"]
      \/ pc["pm"] \in QWait /\ pc'["pm"] \in {"q_flush2", "q_flushed"}
  <2>1. queue \in Seq(Items) /\ queue # <<>> /\ Ordered(queue)
    BY <1>2 DEF ControlOK, QueueInv, KtTake
  <2>2. Head(queue) \in Range(queue) BY <2>1, QueueTail
  <2>3. pc' = IF Head(queue) \in Threads
              THEN [pc EXCEPT ![Head(queue)] = AfterFlushItem(pc[Head(queue)])] ELSE pc
    BY DEF KtTake
  <2>4. CASE Head(queue) = "pm"
    <3>1. pc["pm"] \in QWait BY <1>2, <2>2, <2>4 DEF QueueInv, InQueue, Threads
    <3>2. pc'["pm"] = AfterFlushItem(pc["pm"]) BY <1>2, <2>3, <2>4 DEF ControlOK, Threads
    <3> QED BY <3>1, <3>2 DEF AfterFlushItem
  <2>5. CASE Head(queue) # "pm" BY <1>2, <2>3, <2>5 DEF ControlOK, Threads
  <2> QED BY <2>4, <2>5
<1>4. /\ replays' \in 0 .. MaxReplays /\ nr_queue' \in Nat /\ num_batches' \in Nat
      /\ events' \in 0 .. MaxEvents
  BY <1>1, DataTypes
<1>5. /\ intr_pending' \in BOOLEAN /\ nr_due' \in BOOLEAN /\ was_handling' \in BOOLEAN
      /\ replayed' \in BOOLEAN
  BY <1>1, DataTypes
<1> QED BY <1>1, <1>3, <1>4, <1>5, QuietData DEF QWait

LEMMA ThreadQuietData ==
    ASSUME Inv, NEW t \in Threads,
           \/ t = "user" /\ (FlushCall \/ DisableIsr \/ QStop \/ Join \/ Deinit)
           \/ t = "pm" /\ (SetSuspended \/ Sleep)
           \/ IsrDown(t) \/ FlushUnlock(t) \/ QFlush(t)
    PROVE  DataOK' /\ BufferInv'
<1>1. UNCHANGED <<mode, access, resident, batch, buffer, cached, replays, nr_due, nr_queue,
                  num_batches, replayed>>
  BY DEF FlushCall, DisableIsr, QStop, Join, Deinit, SetSuspended, Sleep, IsrDown, FlushUnlock,
         QFlush, gpuVars, bufferVars, ktVars, nrVars
<1>2. \E state : /\ pc' = [pc EXCEPT ![t] = state]
                 /\ t = "pm" => \/ pc["pm"] \notin {"idle", "isr_down", "flush_wait", "flush"}
                                   /\ state # "flush"
                                \/ pc["pm"] = "isr_down" /\ state = "flush_wait"
  BY DEF FlushCall, DisableIsr, QStop, Join, Deinit, SetSuspended, Sleep, IsrDown, FlushUnlock,
         QFlush, Goto
<1>3. \/ pc'["pm"] = pc["pm"]
      \/ pc["pm"] \notin {"idle", "isr_down", "flush_wait", "flush"} /\ pc'["pm"] # "flush"
      \/ pc["pm"] = "isr_down" /\ pc'["pm"] = "flush_wait"
  BY <1>2, GotoFacts
<1>4. intr_pending' \in BOOLEAN
  <2>1. intr_pending \in BOOLEAN BY DataTypes
  <2> QED
    BY <2>1 DEF FlushCall, DisableIsr, QStop, Join, Deinit, SetSuspended, Sleep, IsrDown,
         FlushUnlock, QFlush, IntrDisable, IsrUnlock, intrVars
<1>5. was_handling' \in BOOLEAN
  <2>1. was_handling \in BOOLEAN /\ handling \in BOOLEAN BY DataTypes
  <2> QED
    BY <2>1 DEF FlushCall, DisableIsr, QStop, Join, Deinit, SetSuspended, Sleep, IsrDown,
         FlushUnlock, QFlush, isrVars
<1>6. events' \in 0 .. MaxEvents
  <2>1. events \in 0 .. MaxEvents /\ MaxEvents \in Nat BY DataTypes
  <2>2. CASE FlushCall BY <2>1, <2>2 DEF FlushCall
  <2>3. CASE ~FlushCall
    BY <2>1, <2>3 DEF DisableIsr, QStop, Join, Deinit, SetSuspended, Sleep, IsrDown,
         FlushUnlock, QFlush
  <2> QED BY <2>2, <2>3
<1>7. /\ replays' \in 0 .. MaxReplays /\ nr_queue' \in Nat /\ num_batches' \in Nat
  BY <1>1, DataTypes
<1>8. nr_due' \in BOOLEAN /\ replayed' \in BOOLEAN BY <1>1, DataTypes
<1> QED BY <1>1, <1>3, <1>4, <1>5, <1>6, <1>7, <1>8, QuietData

\* Bottom halves are scheduled: the known entries grow to all of them, and only while
\* nobody has the service lock.
LEMMA ScheduleData ==
    ASSUME Inv,
           \/ \E nr : ScheduleHandlers(nr)
           \/ Retrigger,
           UNCHANGED <<mode, access, resident, batch, buffer, replays, nr_due, nr_queue,
                       was_handling, num_batches, replayed, events>>,
           \/ pc' = pc
           \/ \E t \in Threads : /\ pc[t] = "retrigger"
                                 /\ pc' = [pc EXCEPT ![t] = IF t = "pm" THEN "suspend" ELSE "idle"]
    PROVE  DataOK' /\ BufferInv'
<1>1. cached' = cached \/ (service_lock = 1 /\ cached' = Len(buffer))
  BY DEF ScheduleHandlers, Retrigger, HandlerReady, PendingCached
<1>2. intr_pending' \in {intr_pending, FALSE}
  <2>1. CASE mode = "cc" \/ \E nr : ScheduleHandlers(nr)
    BY <2>1 DEF Retrigger, ScheduleHandlers, IntrDisable, intrVars
  <2>2. CASE mode # "cc" /\ Retrigger BY <2>2 DEF Retrigger, intrVars
  <2> QED BY <2>1, <2>2
<1>3. intr_pending' \in BOOLEAN
  <2>1. intr_pending \in BOOLEAN BY DataTypes
  <2> QED BY <1>2, <2>1
<1>4. cached' \in 0 .. Len(buffer) BY <1>1, DataTypes
<1>5. DataOK' BY <1>3, <1>4, DataTypes DEF DataOK
<1>6. pc'["pm"] = pc["pm"] \/ (pc["pm"] = "retrigger" /\ pc'["pm"] = "suspend")
  BY GotoFacts
<1>7. BufferInv'
  <2>1. BufferInv BY DataTypes
  <2>2. pc["pm"] = "flush" => cached' = cached BY <1>1, FlushAlone
  <2> QED BY <1>6, <2>1, <2>2 DEF BufferInv
<1> QED BY <1>5, <1>7

LEMMA SchedulersData ==
    ASSUME Inv, NEW t \in Threads, TopSchedule \/ KtRetrigger \/ FlushRetrigger(t)
    PROVE  DataOK' /\ BufferInv'
<1>1. (\E nr : ScheduleHandlers(nr)) \/ Retrigger
  BY DEF TopSchedule, KtRetrigger, FlushRetrigger
<1>2. UNCHANGED <<mode, access, resident, batch, buffer, replays, nr_due, nr_queue,
                  was_handling, num_batches, replayed, events>>
  BY DEF TopSchedule, KtRetrigger, FlushRetrigger, gpuVars, nrVars, ktVars
<1>3. \/ pc' = pc
      \/ \E u \in Threads : /\ pc[u] = "retrigger"
                            /\ pc' = [pc EXCEPT ![u] = IF u = "pm" THEN "suspend" ELSE "idle"]
  BY DEF TopSchedule, KtRetrigger, FlushRetrigger, Goto
<1> QED BY <1>1, <1>2, <1>3, ScheduleData

LEMMA KtFetchData == ASSUME Inv, KtFetch PROVE DataOK' /\ BufferInv'
<1> DEFINE known == IF cached = 0 THEN Len(buffer) ELSE cached
<1>1. /\ UNCHANGED <<mode, access, resident, replays, nr_due, nr_queue, was_handling, num_batches,
                     replayed, pc, events>>
      /\ kt = "fetch"
  BY DEF KtFetch, gpuVars, nrVars, isrVars
<1>2. CASE UNCHANGED <<buffer, cached, intr_pending, batch>>
  BY <1>1, <1>2, DataTypes, QuietData
<1>3. CASE \E n \in 1 .. known : /\ batch' = {buffer[i].page : i \in 1 .. n}
                                 /\ WriteGet(n) /\ cached' = known - n
  <2>1. PICK n \in 1 .. known : /\ batch' = {buffer[i].page : i \in 1 .. n}
                                /\ WriteGet(n) /\ cached' = known - n
    BY <1>3
  <2>2. known \in 0 .. Len(buffer) /\ n \in 0 .. Len(buffer) /\ n >= 1 BY DataTypes
  <2>3. /\ buffer' \in Seq(Entries) /\ Len(buffer') = Len(buffer) - n
        /\ intr_pending' \in BOOLEAN
    BY <2>1, <2>2, WriteGetFacts
  <2>4. batch' \subseteq Pages
    <3>1. \A i \in 1 .. n : buffer[i] \in Entries BY <2>2, DataTypes
    <3> QED BY <2>1, <3>1 DEF Entries
  <2>5. cached' \in 0 .. Len(buffer') BY <2>1, <2>2, <2>3, DataTypes
  <2>6. DataOK' BY <1>1, <2>3, <2>4, <2>5, DataTypes DEF DataOK
  <2>7. pc["pm"] # "flush" BY <1>1, FlushAlone DEF Serving
  <2>8. buffer # <<>> BY <2>2, DataTypes
  <2>9. BufferInv' BY <1>1, <2>7, <2>8, DataTypes DEF BufferInv
  <2> QED BY <2>6, <2>9
<1> QED BY <1>2, <1>3 DEF KtFetch, bufferVars

LEMMA KtServiceData == ASSUME Inv, KtService PROVE DataOK' /\ BufferInv'
<1>1. /\ UNCHANGED <<mode, replays, buffer, intr_pending, nr_due, nr_queue, was_handling,
                     num_batches, replayed, pc, events>>
      /\ resident' = resident \cup batch /\ batch' = {}
      /\ kt = "service" /\ (UpdatePut \/ UNCHANGED <<cached, access>>)
  BY DEF KtService, intrVars, nrVars, isrVars
<1>2. /\ cached' \in 0 .. Len(buffer)
      /\ access' \in [Pages -> {"run", "fault", "stalled", "preempted"}]
      /\ pc["pm"] # "idle" => \A p \in Pages : access'[p] = access[p]
  BY <1>1, DataTypes, UpdatePutFacts
<1>3. resident' \subseteq Pages /\ batch' \subseteq Pages BY <1>1, DataTypes DEF DataOK
<1>4. DataOK' BY <1>1, <1>2, <1>3, DataTypes DEF DataOK
<1>5. pc["pm"] # "flush" BY <1>1, FlushAlone DEF Serving
<1>6. BufferInv' BY <1>1, <1>2, <1>5, DataTypes DEF BufferInv
<1> QED BY <1>4, <1>6

LEMMA KtServiceFailsData == ASSUME Inv, KtServiceFails PROVE DataOK' /\ BufferInv'
<1>1. /\ UNCHANGED <<mode, resident, replays, buffer, cached, intr_pending, nr_due, nr_queue,
                     was_handling, num_batches, replayed, pc>>
      /\ batch' = {} /\ events < MaxEvents /\ events' = events + 1
      /\ access' = [p \in Pages |-> IF p \in batch /\ access[p] = "stalled" THEN "run"
                                    ELSE access[p]]
  BY DEF KtServiceFails, bufferVars, intrVars, nrVars, isrVars
<1>2. /\ access' \in [Pages -> {"run", "fault", "stalled", "preempted"}]
      /\ \A p \in Pages : access[p] # "stalled" => access'[p] = access[p]
  BY <1>1, DataTypes
<1>3. events' \in 0 .. MaxEvents BY <1>1, DataTypes
<1>4. DataOK' BY <1>1, <1>2, <1>3, DataTypes DEF DataOK
<1>5. BufferInv' BY <1>1, <1>2, DataTypes DEF BufferInv
<1> QED BY <1>4, <1>5

\* A flush, of the bottom half or of a thread: all of the known entries go.
LEMMA DropFacts ==
    ASSUME Inv, DropCachedAndReplay
    PROVE  /\ buffer' \in Seq(Entries) /\ cached' = 0 /\ 0 \in 0 .. Len(buffer')
           /\ intr_pending' \in BOOLEAN /\ replays' \in 0 .. MaxReplays
           /\ cached = Len(buffer) => buffer' = <<>>
<1>1. WriteGet(cached) /\ cached' = 0 /\ replays < MaxReplays /\ replays' = replays + 1
  BY DEF DropCachedAndReplay
<1>2. replays' \in 0 .. MaxReplays BY <1>1, DataTypes
<1>3. cached \in 0 .. Len(buffer) BY DataTypes
<1>4. /\ buffer' \in Seq(Entries) /\ Len(buffer') = Len(buffer) - cached
      /\ intr_pending' \in BOOLEAN
      /\ cached = Len(buffer) => buffer' = <<>>
  BY <1>1, <1>3, WriteGetFacts
<1>5. 0 \in 0 .. Len(buffer') BY <1>3, <1>4, DataTypes
<1> QED BY <1>1, <1>2, <1>4, <1>5

LEMMA FlushData ==
    ASSUME Inv, NEW t \in Threads, KtFlush \/ Flush(t)
    PROVE  DataOK' /\ BufferInv'
<1>1. /\ DropCachedAndReplay
      /\ UNCHANGED <<mode, access, resident, batch, nr_due, nr_queue, was_handling,
                     num_batches, events>>
  BY DEF KtFlush, Flush, nrVars, isrVars, ktVars
<1>2. replayed' \in BOOLEAN
  <2>1. replayed \in BOOLEAN BY DataTypes
  <2> QED BY <2>1 DEF KtFlush, Flush, ktVars
<1>3. /\ buffer' \in Seq(Entries) /\ cached' = 0 /\ 0 \in 0 .. Len(buffer')
      /\ intr_pending' \in BOOLEAN /\ replays' \in 0 .. MaxReplays
      /\ cached = Len(buffer) => buffer' = <<>>
  BY <1>1, DropFacts
<1>4. DataOK' BY <1>1, <1>2, <1>3, DataTypes DEF DataOK
<1>5. buffer = <<>> => buffer' = <<>>
  <2>1. ASSUME buffer = <<>> PROVE cached = Len(buffer) BY <2>1, DataTypes
  <2> QED BY <1>3, <2>1
<1>6. BufferInv'
  <2>1. CASE Flush(t) /\ t = "pm"
    <3>1. pc["pm"] = "flush" /\ pc' = [pc EXCEPT ![t] = "isr_unlock"] BY <2>1 DEF Flush, Goto
    <3>2. pc'["pm"] = "isr_unlock" BY <2>1, <3>1, GotoFacts
    <3> QED BY <1>1, <1>3, <3>1, <3>2, DataTypes DEF BufferInv
  <2>2. CASE KtFlush
    <3>1. pc["pm"] # "flush" BY <2>2, FlushAlone DEF KtFlush, Serving
    <3>2. pc' = pc BY <2>2 DEF KtFlush
    <3> QED BY <1>1, <1>5, <3>1, <3>2, DataTypes DEF BufferInv
  <2>3. CASE Flush(t) /\ t # "pm"
    <3>1. pc["user"] = "flush" /\ pc' = [pc EXCEPT ![t] = "isr_unlock"]
      BY <2>3 DEF Flush, Goto, Threads
    <3>2. pc'["pm"] = pc["pm"] BY <2>3, <3>1, GotoFacts
    <3>3. pc["pm"] # "flush" BY <3>1, FlushAlone DEF Locking
    <3> QED BY <1>1, <1>5, <3>2, <3>3, DataTypes DEF BufferInv
  <2> QED BY <2>1, <2>2, <2>3
<1> QED BY <1>4, <1>6

LEMMA FlushWaitData ==
    ASSUME Inv, NEW t \in Threads, FlushWait(t)
    PROVE  DataOK' /\ BufferInv'
<1>1. /\ pc[t] = "flush_wait" /\ UpdatePut /\ pc' = [pc EXCEPT ![t] = "flush"]
      /\ UNCHANGED <<mode, resident, replays, buffer, intr_pending, nr_due, nr_queue, was_handling,
                     batch, num_batches, replayed, events>>
  BY DEF FlushWait, Goto, intrVars, nrVars, isrVars, ktVars
<1>2. /\ cached' = Len(buffer)
      /\ access' \in [Pages -> {"run", "fault", "stalled", "preempted"}]
      /\ pc["pm"] # "idle" => \A p \in Pages : access'[p] = access[p]
  BY <1>1, UpdatePutFacts
<1>3. cached' \in 0 .. Len(buffer) BY <1>2, DataTypes
<1>4. DataOK' BY <1>1, <1>2, <1>3, DataTypes DEF DataOK
<1>5. pc'["pm"] = pc["pm"] \/ (pc["pm"] = "flush_wait" /\ pc'["pm"] = "flush")
  BY <1>1, GotoFacts
<1>6. BufferInv' BY <1>1, <1>2, <1>5, DataTypes DEF BufferInv
<1> QED BY <1>4, <1>6

\* Suspend, resume and removal change the accesses.
LEMMA SuspendData == ASSUME Inv, Suspend PROVE DataOK' /\ BufferInv'
<1>1. /\ pc["pm"] = "idle" /\ events < MaxEvents /\ events' = events + 1
      /\ access' = [p \in Pages |-> IF access[p] = "run" THEN "run" ELSE "preempted"]
      /\ pc' = [pc EXCEPT !["pm"] = "isr_down"]
      /\ UNCHANGED <<mode, resident, replays, buffer, cached, nr_due, nr_queue, was_handling, batch,
                     num_batches, replayed>>
  BY DEF Suspend, Goto, bufferVars, nrVars, ktVars
<1>2. access' \in [Pages -> {"run", "fault", "stalled", "preempted"}] BY <1>1
<1>3. \A p \in Pages : access'[p] \in {"run", "preempted"} BY <1>1
<1>4. intr_pending' \in BOOLEAN
  <2>1. intr_pending \in BOOLEAN BY DataTypes
  <2> QED BY <2>1 DEF Suspend, IntrDisable, intrVars
<1>5. events' \in 0 .. MaxEvents BY <1>1, DataTypes
<1>6. DataOK' BY <1>1, <1>2, <1>4, <1>5, DataTypes DEF DataOK
<1>7. pc'["pm"] = "isr_down" BY <1>1, GotoFacts DEF Threads
<1>8. BufferInv' BY <1>3, <1>7 DEF BufferInv
<1> QED BY <1>6, <1>8

LEMMA ResumeData == ASSUME Inv, Resume PROVE DataOK' /\ BufferInv'
<1>1. /\ access' = [p \in Pages |-> IF access[p] = "preempted" THEN "fault" ELSE access[p]]
      /\ pc' = [pc EXCEPT !["pm"] = "idle"] /\ cached' = Len(buffer)
      /\ UNCHANGED <<mode, resident, replays, buffer, intr_pending, nr_due, nr_queue, was_handling,
                     batch, num_batches, replayed, events>>
  BY DEF Resume, Goto, intrVars, nrVars, ktVars
<1>2. access' \in [Pages -> {"run", "fault", "stalled", "preempted"}] BY <1>1, DataTypes
<1>3. cached' \in 0 .. Len(buffer) BY <1>1, DataTypes
<1>4. DataOK' BY <1>1, <1>2, <1>3, DataTypes DEF DataOK
<1>5. pc'["pm"] = "idle" BY <1>1, GotoFacts DEF Threads
<1>6. BufferInv' BY <1>5 DEF BufferInv
<1> QED BY <1>4, <1>6

LEMMA RemoveGpuData == ASSUME Inv, RemoveGpu PROVE DataOK' /\ BufferInv'
<1>1. /\ access' = [p \in Pages |-> "run"] /\ pc["pm"] = "idle"
      /\ pc' = [pc EXCEPT !["user"] = "disable_isr"]
      /\ UNCHANGED <<mode, resident, replays, buffer, cached, intr_pending, nr_due, nr_queue,
                     was_handling, batch, num_batches, replayed, events>>
  BY DEF RemoveGpu, Goto, bufferVars, intrVars, nrVars, isrVars, ktVars, Threads
<1>2. access' \in [Pages -> {"run", "fault", "stalled", "preempted"}] BY <1>1
<1>3. DataOK' BY <1>1, <1>2, DataTypes DEF DataOK
<1>4. pc'["pm"] = "idle" BY <1>1, GotoFacts DEF Threads
<1>5. BufferInv' BY <1>4 DEF BufferInv
<1> QED BY <1>3, <1>5

-----------------------------------------------------------------------------
(* The invariant holds in every behaviour.                                 *)

LEMMA GoesOnControl ==
    ASSUME ControlInv, \/ KtFetch \/ KtService \/ KtServiceFails \/ KtFlush \/ KtReplayWait
                       \/ KtFinish \/ KtNonReplayable
    PROVE  ControlInv'
<1>1. UNCHANGED <<mode, intr_enabled, in_table, kref, handling, disable_intr_ref_count,
                  is_suspended, service_lock, queue, should_exit, top, pc>>
  BY DEF KtFetch, KtService, KtServiceFails, KtFlush, KtReplayWait, KtFinish, KtNonReplayable,
         intrVars, isrVars, qVars
<1>2. \/ kt \in Serving /\ kt' \in Serving
      \/ kt = "non_replayable" /\ kt' \in {"non_replayable", "put"}
  BY DEF KtFetch, KtService, KtServiceFails, KtFlush, KtReplayWait, KtFinish, KtNonReplayable,
         Serving
<1>3. kt \notin {"wait", "exit"} BY <1>2 DEF Serving
<1>4. /\ kt' \in Serving \cup {"retrigger", "non_replayable", "put"}
      /\ kt \in Serving <=> kt' \in Serving
  BY <1>2 DEF Serving
<1> QED BY <1>1, <1>3, <1>4, KtGoesOn

LEMMA GpuControl ==
    ASSUME ControlInv, \/ \E p \in Pages : GpuAccess(p)
                       \/ NonReplayableFault \/ Hardware
    PROVE  ControlInv'
<1>1. UNCHANGED controlVars
  BY DEF GpuAccess, NonReplayableFault, Hardware, GpuFault, GpuWriteEntry, GpuReplay, controlVars,
         intrVars, isrVars, qVars, ktVars
<1> QED BY <1>1, ControlStutter

LEMMA NextInv == Inv /\ [Next]_vars => Inv'
<1> SUFFICES ASSUME Inv, [Next]_vars PROVE Inv' OBVIOUS
<1> USE DEF Inv
<1>1. CASE UNCHANGED vars
  <2>1. ControlInv'
    BY <1>1, ControlStutter DEF vars, controlVars, intrVars, isrVars, qVars, ktVars
  <2>2. DataOK' /\ BufferInv'
    <3>1. UNCHANGED <<mode, access, resident, batch, buffer, cached, pc, replays, intr_pending,
                      nr_due, was_handling, replayed, nr_queue, num_batches, events>>
      BY <1>1 DEF vars, gpuVars, bufferVars, intrVars, nrVars, isrVars, ktVars
    <3> QED BY <3>1, DataTypes, QuietData
  <2> QED BY <2>1, <2>2
<1>2. CASE \/ \E p \in Pages : GpuAccess(p)
           \/ NonReplayableFault \/ Hardware
  BY <1>2, GpuControl, GpuData, KtQuietData
<1>3. CASE TopEnter BY <1>3, TopEnterControl, KtQuietData
<1>4. CASE TopHalf
  <2>1. CASE TopSchedule
    <3>1. "pm" \in Threads BY DEF Threads
    <3> QED BY <2>1, <3>1, TopScheduleControl, SchedulersData
  <2>2. CASE TopExit BY <2>2, TopExitControl, KtQuietData
  <2> QED BY <1>4, <2>1, <2>2 DEF TopHalf
<1>5. CASE Kthread
  <2>0. "pm" \in Threads BY DEF Threads
  <2>1. CASE KtTake BY <2>1, KtTakeControl, KtTakeData
  <2>2. CASE KtExit BY <2>2, KtExitControl, KtQuietData
  <2>3. CASE KtFetch BY <2>3, GoesOnControl, KtFetchData
  <2>4. CASE KtService BY <2>4, GoesOnControl, KtServiceData
  <2>5. CASE KtServiceFails BY <2>5, GoesOnControl, KtServiceFailsData
  <2>6. CASE KtFlush BY <2>0, <2>6, GoesOnControl, FlushData
  <2>7. CASE KtReplayWait \/ KtFinish \/ KtNonReplayable BY <2>7, GoesOnControl, KtQuietData
  <2>8. CASE KtUnlock BY <2>8, KtUnlockControl, KtQuietData
  <2>9. CASE KtRetrigger BY <2>0, <2>9, KtRetriggerControl, SchedulersData
  <2>10. CASE KtPut BY <2>10, KtPutControl, KtQuietData
  <2> QED BY <1>5, <2>1, <2>2, <2>3, <2>4, <2>5, <2>6, <2>7, <2>8, <2>9, <2>10 DEF Kthread
<1>6. CASE FlushCall
  <2>0. "user" \in Threads BY DEF Threads
  <2> QED BY <1>6, <2>0, FlushCallControl, ThreadQuietData
<1>7. CASE Suspend BY <1>7, SuspendControl, SuspendData
<1>8. CASE RemoveGpu BY <1>8, RemoveGpuControl, RemoveGpuData
<1>9. ASSUME NEW t \in Threads, IsrDown(t) \/ Continue(t) PROVE Inv'
  <2>1. CASE IsrDown(t) BY <2>1, IsrDownControl, ThreadQuietData
  <2>2. CASE FlushWait(t) BY <2>2, FlushWaitControl, FlushWaitData
  <2>3. CASE Flush(t) BY <2>3, FlushControl, FlushData
  <2>4. CASE FlushUnlock(t) BY <2>4, FlushUnlockControl, ThreadQuietData
  <2>5. CASE FlushRetrigger(t) BY <2>5, FlushRetriggerControl, SchedulersData
  <2>6. CASE QFlush(t) BY <2>6, QFlushControl, ThreadQuietData
  <2>7. CASE t = "pm" /\ SetSuspended BY <2>7, SetSuspendedControl, ThreadQuietData
  <2>8. CASE t = "pm" /\ Sleep BY <2>8, SleepControl, ThreadQuietData
  <2>9. CASE t = "pm" /\ Resume BY <2>9, ResumeControl, ResumeData
  <2>10. CASE t = "user" /\ DisableIsr BY <2>10, DisableIsrControl, ThreadQuietData
  <2>11. CASE t = "user" /\ QStop BY <2>11, QStopControl, ThreadQuietData
  <2>12. CASE t = "user" /\ Join BY <2>12, JoinControl, ThreadQuietData
  <2>13. CASE t = "user" /\ Deinit BY <2>13, DeinitControl, ThreadQuietData
  <2> QED
    BY <1>9, <2>1, <2>2, <2>3, <2>4, <2>5, <2>6, <2>7, <2>8, <2>9, <2>10, <2>11, <2>12, <2>13
       DEF Continue
<1> QED BY <1>1, <1>2, <1>3, <1>4, <1>5, <1>6, <1>7, <1>8, <1>9 DEF Next

LEMMA InitInv == Init => Inv
<1> SUFFICES ASSUME Init PROVE Inv OBVIOUS
<1> USE DEF Init
<1>1. \A x : ~InQueue(x) BY DEF InQueue, Range
<1>2. queue \in Seq(Items) /\ Ordered(queue) BY DEF Ordered
<1>3. pc["user"] = "idle" /\ pc["pm"] = "idle" BY DEF Threads
<1>4. kt \notin Serving BY DEF Serving
<1>5. DataOK
  <2>1. buffer \in Seq(Entries) /\ Len(buffer) = 0 OBVIOUS
  <2>2. /\ replays \in 0 .. MaxReplays /\ events \in 0 .. MaxEvents /\ cached \in 0 .. Len(buffer)
    BY <2>1, BoundAssumption
  <2>3. /\ access \in [Pages -> {"run", "fault", "stalled", "preempted"}]
        /\ resident \subseteq Pages /\ batch \subseteq Pages
    OBVIOUS
  <2> QED BY <2>1, <2>2, <2>3 DEF DataOK
<1>6. ControlOK BY <1>2 DEF ControlOK, FlushStates
<1>7. QueueInv BY <1>1, <1>2, <1>3 DEF QueueInv, Threads, QWait
<1>8. LockInv /\ MaskInv
  BY <1>1, <1>3, <1>4
     DEF LockInv, MaskInv, Lockers, Maskers, BottomHalf, One, Locking, Masking
<1>9. kref = References BY <1>1, <1>3 DEF References, One
<1>10. PhaseInv
  BY <1>3 DEF PhaseInv, FlushStates, Suspending, Removing, QStates, Stopped
<1>11. DrainInv BY <1>3 DEF DrainInv, Drained, QStates, Stopped, Threads
<1>12. BufferInv BY <1>3 DEF BufferInv
<1> QED BY <1>5, <1>6, <1>7, <1>8, <1>9, <1>10, <1>11, <1>12 DEF Inv, ControlInv

LEMMA InvAlways == Spec => []Inv
BY InitInv, NextInv, PTL DEF Spec

-----------------------------------------------------------------------------
(* What it says.                                                           *)

LEMMA InvTypes == Inv => TypeOK
<1> SUFFICES ASSUME Inv PROVE TypeOK OBVIOUS
<1>1. DataOK /\ ControlOK BY DataTypes
<1>2. {intr_pending, intr_enabled, nr_due, in_table, handling, was_handling, is_suspended,
        should_exit, replayed} \subseteq BOOLEAN
  BY <1>1, Zenon DEF DataOK, ControlOK
<1>3. {nr_queue, kref, disable_intr_ref_count, num_batches} \subseteq Nat
  BY <1>1 DEF DataOK, ControlOK
<1>4. kt \in {"wait", "exit", "fetch", "service", "flush", "replay_wait", "finish", "unlock",
              "retrigger", "non_replayable", "put"}
  BY <1>1 DEF ControlOK, Serving
<1>5. pc \in [Threads -> {"idle", "isr_down", "flush_wait", "flush", "isr_unlock", "retrigger",
                          "q_flush1", "q_wait1", "q_flush2", "q_wait2", "q_flushed", "suspend",
                          "asleep", "disable_isr", "join", "deinit", "release", "removed"}]
  BY <1>1 DEF ControlOK, FlushStates, Suspending, Removing, QStates, Stopped
<1> QED BY <1>1, <1>2, <1>3, <1>4, <1>5 DEF TypeOK, DataOK, ControlOK

\* The sets of lock holders, counted.
LEMMA LocksCounted ==
    ASSUME Inv
    PROVE  /\ Cardinality(BottomHalfLocks) = One(BottomHalf)
           /\ Cardinality(ThreadLocks) = One(pc["user"] \in Locking) + One(pc["pm"] \in Locking)
           /\ Cardinality(ThreadLocks \cup {t \in Threads : pc[t] = "isr_down"})
                = One(pc["user"] \in Masking) + One(pc["pm"] \in Masking)
<1>1. Cardinality(BottomHalfLocks) = One(BottomHalf)
  <2>1. BottomHalfLocks = IF BottomHalf THEN {"replayable"} ELSE {}
    BY DEF BottomHalfLocks, BottomHalf, InQueue, Serving
  <2>2. Cardinality({"replayable"}) = 1 /\ Cardinality({}) = 0 BY FS_Singleton, FS_EmptySet
  <2> QED BY <2>1, <2>2 DEF One
<1>2. Cardinality(ThreadLocks) = One(pc["user"] \in Locking) + One(pc["pm"] \in Locking)
  <2>1. ThreadLocks \in SUBSET {"user", "pm"} BY DEF ThreadLocks, Threads
  <2>2. /\ "user" \in ThreadLocks <=> pc["user"] \in Locking
        /\ "pm" \in ThreadLocks <=> pc["pm"] \in Locking
    BY DEF ThreadLocks, Threads, Locking
  <2>3. Cardinality(ThreadLocks) = One("user" \in ThreadLocks) + One("pm" \in ThreadLocks)
    BY <2>1, CardTwo
  <2> QED BY <2>2, <2>3 DEF One
<1>3. Cardinality(ThreadLocks \cup {t \in Threads : pc[t] = "isr_down"})
        = One(pc["user"] \in Masking) + One(pc["pm"] \in Masking)
  <2> DEFINE M == ThreadLocks \cup {t \in Threads : pc[t] = "isr_down"}
  <2>1. M \in SUBSET {"user", "pm"} BY DEF ThreadLocks, Threads
  <2>2. /\ "user" \in M <=> pc["user"] \in Masking
        /\ "pm" \in M <=> pc["pm"] \in Masking
    BY DEF ThreadLocks, Threads, Locking, Masking
  <2> HIDE DEF M
  <2>3. Cardinality(M) = One("user" \in M) + One("pm" \in M) BY <2>1, CardTwo
  <2>4. Cardinality(M) = One(pc["user"] \in Masking) + One(pc["pm"] \in Masking)
    BY <2>2, <2>3 DEF One
  <2> QED BY <2>4 DEF M
<1> QED BY <1>1, <1>2, <1>3

\* An item is in the queue once.
LEMMA QueuedOnce ==
    ASSUME Inv
    PROVE  Cardinality({i \in DOMAIN queue : queue[i] = "replayable"}) <= 1
<1> DEFINE S == {i \in DOMAIN queue : queue[i] = "replayable"}
<1>1. Ordered(queue) /\ queue \in Seq(Items) BY DEF Inv, ControlInv, QueueInv, ControlOK
<1>2. \A i, j \in S : i = j
  <2>1. DOMAIN queue = 1 .. Len(queue) /\ Len(queue) \in Nat BY <1>1
  <2> QED BY <1>1, <2>1 DEF Ordered
<1>3. CASE S = {}
  <2>1. Cardinality({}) = 0 BY FS_EmptySet
  <2> QED BY <1>3, <2>1
<1>4. CASE S # {}
  <2>1. PICK i \in S : TRUE BY <1>4
  <2>2. S = {i} BY <1>2, <2>1
  <2>3. Cardinality({i}) = 1 BY FS_Singleton
  <2> QED BY <2>2, <2>3
<1> QED BY <1>3, <1>4

\* Whoever services replayable faults or flushes their buffer, a bottom half that is
\* queued or running or a thread, has both the service lock and a disable of the
\* interrupt, and there is one such party; the lock is free, and the interrupt enabled,
\* when there is none: nothing is leaked between the half that takes them and the one
\* that releases them (schedule_replayable_faults_handler(),
\* uvm_parent_gpu_replayable_faults_isr_lock(), ..._isr_unlock()).
THEOREM ChargeCorrect == Spec => []InCharge
<1>1. Inv => InCharge
  <2> SUFFICES ASSUME Inv PROVE InCharge OBVIOUS
  <2>1. LockInv /\ MaskInv /\ service_lock \in {0, 1} BY ControlParts DEF Inv
  <2>2. LockHandedOver
    <3>1. "replayable" \in Range(queue) =>
            kt \notin {"fetch", "service", "flush", "replay_wait", "finish", "unlock"}
      BY <2>1 DEF LockInv, InQueue, Serving
    <3>2. (mode # "smc" \/ in_table) =>
            Cardinality(BottomHalfLocks) + Cardinality(ThreadLocks) = 1 - service_lock
      BY <2>1, LocksCounted DEF LockInv, Lockers, GpuFound, One
    <3> QED BY <3>1, <3>2, QueuedOnce DEF LockHandedOver
  <2>3. IntrMasked BY <2>1, LocksCounted DEF MaskInv, Maskers, GpuFound, IntrMasked, One
  <2> QED BY <2>2, <2>3, InvTypes DEF InCharge
<1> QED BY <1>1, InvAlways, PTL

\* The reference count of the parent GPU is the number of those who use it: it is freed
\* when the creator, the one who removes it, the top half and every bottom half have
\* ended, and not before (uvm_parent_gpu_kref_get(), _put(), uvm_isr_top_half()).
THEOREM KrefCorrect == Spec => []KrefExact
<1>1. Inv => KrefExact
  <2> SUFFICES ASSUME Inv PROVE KrefExact OBVIOUS
  <2> DEFINE Q == BottomHalves \cap Range(queue)
  <2>1. kref = References BY ControlParts DEF Inv
  <2>2. /\ Q \in SUBSET {"replayable", "non_replayable"}
        /\ "replayable" \in Q <=> InQueue("replayable")
        /\ "non_replayable" \in Q <=> InQueue("non_replayable")
    BY DEF BottomHalves, InQueue
  <2> HIDE DEF Q
  <2>3. Cardinality(Q) = One("replayable" \in Q) + One("non_replayable" \in Q)
    <3>1. "replayable" # "non_replayable" OBVIOUS
    <3>2. Q \in SUBSET {"replayable", "non_replayable"} BY <2>2
    <3> QED BY <3>1, <3>2, CardTwo
  <2>4. Cardinality(Q) = One(InQueue("replayable")) + One(InQueue("non_replayable"))
    BY <2>2, <2>3 DEF One
  <2> QED BY <2>1, <2>4 DEF KrefExact, References, Q
<1> QED BY <1>1, InvAlways, PTL

\* Once uvm_suspend() has returned, and once the thread of the bottom half queue has been
\* told to exit, no bottom half is queued or running, whatever the bottom halves queued
\* again while the queue was flushed; a suspended GPU has no fault in its buffer
\* (uvm_suspend(), nv_kthread_q_flush(), nv_kthread_q_stop()).
THEOREM QuiescedCorrect == Spec => []Quiesced
<1>1. Inv => Quiesced
  <2> SUFFICES ASSUME Inv, pc["pm"] = "asleep" \/ should_exit
               PROVE  /\ BottomHalves \cap Range(queue) = {}
                      /\ kt \in {"wait", "exit"}
                      /\ pc["pm"] = "asleep" => buffer = <<>>
    BY DEF Quiesced
  <2>1. DrainInv /\ PhaseInv /\ BufferInv BY ControlParts DEF Inv
  <2>2. PICK t \in Threads : pc[t] \in Drained
    BY <2>1 DEF PhaseInv, Drained, Stopped, Threads
  <2>3. ~InQueue("replayable") /\ ~InQueue("non_replayable") /\ kt \in {"wait", "exit"}
    BY <2>1, <2>2 DEF DrainInv
  <2>4. pc["pm"] = "asleep" => buffer = <<>> BY <2>1 DEF BufferInv
  <2> QED BY <2>3, <2>4 DEF InQueue, BottomHalves
<1> QED BY <1>1, InvAlways, PTL
=============================================================================

-------------------------- MODULE UvmLaunchProofs --------------------------
(***************************************************************************)
(* Proofs about the indirect launch of UvmLaunch, for every number of      *)
(* threads and of WLC and LCIC pairs: the doorbell only rings for a primed *)
(* pair, what the GPU and the CPU decrypt is intact although static memory *)
(* is reused and the key rotates, and a launch that is waited for has been *)
(* started exactly once.                                                   *)
(***************************************************************************)
EXTENDS UvmLaunch, FiniteSetTheorems, TLAPS

-----------------------------------------------------------------------------
(* The inductive invariant.                                                *)

Holding == {"claim", "launch", "end_push", "wait_lcic", "submit"}
Owning == {"launch", "end_push", "wait_lcic", "submit"}
Ending == {"wait_lcic", "submit"}
AllReserved == {"rotate_wait", "rotate_key"}
Rotating == AllReserved \cup {"rotate_reserve"}

\* The threads with a unit of the push semaphore.
Holders == {t \in Threads : pc[t] \in Holding}

\* Units of the push semaphore: a rotation that has reserved all channels excludes
\* every launch.
UnitsInv ==
    /\ IsFiniteSet(Holders)
    /\ IF \E t \in Threads : pc[t] \in AllReserved
         THEN push_sem = 0 /\ Holders = {}
         ELSE push_sem + Cardinality(Holders) = Cardinality(Pairs)

LocksInv ==
    \A t \in Threads : /\ rotation_mutex = t <=> pc[t] \in Rotating
                       /\ pool_lock = t <=> pc[t] \in Ending

\* What a job leaves in static memory.
Tag(j, v) == [job |-> j, key |-> key_version, value |-> v]

\* A launch owns its pair, whose static memory holds what it has put there.
ThreadInv(t) ==
    LET p == call[t].pair IN
    /\ pc[t] = "idle" => call[t] = NoCall
    /\ call[t].force => pc[t] \in Rotating \cup {"rotate_lock"} /\ call[t].job = 0
    /\ pc[t] # "idle" /\ ~call[t].force => call[t].job \in 1 .. jobs
    /\ pc[t] \in Owning \cup {"wait"} => p \in Pairs
    /\ pc[t] \in Owning => owner[p] = t
    /\ pc[t] = "end_push" => launch_tag[p] = Tag(call[t].job, wlc[p].queued + 1)
    /\ pc[t] \in Ending => /\ launch_tag[p] = Tag(call[t].job, call[t].value)
                           /\ call[t].value = wlc[p].queued
                           /\ wlc[p].published < wlc[p].queued
    /\ pc[t] = "submit" => lcic[p].published = lcic[p].queued
    /\ pc[t] = "rotate_key" =>
          \A q \in Pairs : /\ lcic[q].published = lcic[q].queued
                           /\ lcic[q].completed = lcic[q].published

ThreadsInv == \A t \in Threads : ThreadInv(t)

OwnerInv ==
    \A p \in Pairs : owner[p] # None => pc[owner[p]] \in Owning /\ call[owner[p]].pair = p

\* The pair has a run push it has yet to finish.
Busy(p) == doorbell[p] \/ gpu[p].phase \in {"run", "release"}

\* The schedule of a pair, its two semaphores and the launch it works on.
PairInv(p) ==
    /\ doorbell[p] => gpu[p].phase = "idle"
    /\ gpu[p].primed = CASE gpu[p].phase \in {"idle", "publish"} -> 2
                         [] gpu[p].phase = "run" -> 1
                         [] gpu[p].phase \in {"release", "prime"} -> 0
    /\ lcic[p].queued = lcic[p].published
                        + (IF doorbell[p] \/ gpu[p].phase # "idle" THEN 1 ELSE 0)
    /\ lcic[p].published # lcic[p].completed => lcic[p].key = key_version
    /\ wlc[p].completed <= wlc[p].published /\ wlc[p].published <= wlc[p].queued
    /\ Busy(p) => pending[p] /\ owner[p] = None /\ wlc[p].published < wlc[p].queued
    /\ doorbell[p] => /\ static_pb[p] = launch_tag[p]
                      /\ static_pb[p].key = key_version
                      /\ static_pb[p].value = wlc[p].queued
    /\ gpu[p].phase = "run" => /\ gpu[p].run_pb = launch_tag[p]
                               /\ launch_tag[p].key = key_version
    /\ gpu[p].phase \in {"run", "release"} => gpu[p].run_pb.value = wlc[p].queued

PairsInv == \A p \in Pairs : PairInv(p)

\* The job that pair p has yet to start.
Active(p) == doorbell[p] \/ gpu[p].phase = "run"
ActiveJob(p) == IF doorbell[p] THEN static_pb[p].job ELSE gpu[p].run_pb.job

\* A job is started at most once: it belongs to one thread and to one pair.
JobsInv ==
    /\ \A j \in Jobs : j > jobs => launched[j] = 0
    /\ \A p \in Pairs : Active(p) => /\ ActiveJob(p) \in 1 .. jobs
                                     /\ launched[ActiveJob(p)] = 0
    /\ \A p, q \in Pairs : Active(p) /\ Active(q) /\ p # q => ActiveJob(p) # ActiveJob(q)
    /\ \A t, u \in Threads : t # u /\ call[t].job # 0 => call[t].job # call[u].job
    /\ \A t \in Threads : call[t].job # 0 /\ pc[t] # "wait" =>
          /\ launched[call[t].job] = 0
          /\ \A p \in Pairs : Active(p) => ActiveJob(p) # call[t].job

\* How far the launch has come that a thread waits for.
WaitInv(t) ==
    LET p == call[t].pair
        job == call[t].job
    IN  pc[t] = "wait" =>
          \/ fatal_error
          \/ doorbell[p] /\ static_pb[p].job = job /\ static_pb[p].value = call[t].value
          \/ /\ gpu[p].phase = "run"
             /\ gpu[p].run_pb.job = job /\ gpu[p].run_pb.value = call[t].value
          \/ /\ gpu[p].phase = "release"
             /\ gpu[p].run_pb.value = call[t].value /\ launched[job] = 1
          \/ wlc[p].published >= call[t].value /\ launched[job] = 1

WaitsInv == \A t \in Threads : WaitInv(t)

Inv == /\ TypeOK /\ UnitsInv /\ LocksInv /\ ThreadsInv /\ OwnerInv /\ PairsInv
       /\ JobsInv /\ WaitsInv

-----------------------------------------------------------------------------
(* Facts that the steps share.                                             *)

LEMMA NewTypes == NoCall \in Calls /\ NewSemaphore \in Semaphores /\ NoPush \in Encrypted
BY BoundAssumption DEF NoCall, Calls, NewSemaphore, Semaphores, NoPush, Encrypted

LEMMA NumPairs == Cardinality(Pairs) \in Nat
BY PairAssumption, FS_CardinalityType

\* What the variables hold for a thread and for a pair.
LEMMA ThreadParts ==
    ASSUME TypeOK, NEW t \in Threads
    PROVE  /\ pc[t] \in PcStates /\ call[t] \in Calls
           /\ call[t].pair \in Pairs \cup {None} /\ call[t].job \in 0 .. MaxJobs
           /\ call[t].force \in BOOLEAN /\ call[t].value \in Nat
BY DEF TypeOK, Calls

LEMMA PairParts ==
    ASSUME TypeOK, NEW p \in Pairs
    PROVE  /\ owner[p] \in Threads \cup {None} /\ pending[p] \in BOOLEAN
           /\ wlc[p] \in Semaphores /\ lcic[p] \in Semaphores
           /\ wlc[p].queued \in Nat /\ wlc[p].completed \in Nat
           /\ wlc[p].published \in Nat /\ wlc[p].key \in Nat
           /\ lcic[p].queued \in Nat /\ lcic[p].completed \in Nat
           /\ lcic[p].published \in Nat /\ lcic[p].key \in Nat
           /\ launch_tag[p] \in Encrypted /\ static_pb[p] \in Encrypted
           /\ doorbell[p] \in BOOLEAN
           /\ gpu[p] \in [phase : Phases, primed : 0 .. 2, run_pb : Encrypted]
           /\ gpu[p].phase \in Phases /\ gpu[p].primed \in 0 .. 2
           /\ gpu[p].run_pb \in Encrypted /\ gpu[p].run_pb.value \in Nat
           /\ gpu[p].run_pb.job \in 0 .. MaxJobs /\ static_pb[p].job \in 0 .. MaxJobs
BY DEF TypeOK, Semaphores, Encrypted

LEMMA InitInv == Init => Inv
<1> SUFFICES ASSUME Init PROVE Inv OBVIOUS
<1> USE DEF Init
<1>1. TypeOK
  <2>1. launched \in [Jobs -> Nat] /\ jobs \in 0 .. MaxJobs BY BoundAssumption
  <2>2. gpu \in [Pairs -> [phase : Phases, primed : 0 .. 2, run_pb : Encrypted]]
    BY NewTypes DEF Phases
  <2>3. push_sem \in 0 .. Cardinality(Pairs) BY NumPairs
  <2>4. wlc \in [Pairs -> Semaphores] /\ lcic \in [Pairs -> Semaphores] BY NewTypes
  <2>5. launch_tag \in [Pairs -> Encrypted] /\ static_pb \in [Pairs -> Encrypted]
    BY NewTypes
  <2>6. pc \in [Threads -> PcStates] /\ call \in [Threads -> Calls] BY NewTypes DEF PcStates
  <2> QED BY <2>1, <2>2, <2>3, <2>4, <2>5, <2>6 DEF TypeOK
<1>2. UnitsInv
  <2>1. Holders = {} BY DEF Holders, Holding
  <2> QED BY <2>1, NumPairs, FS_EmptySet DEF UnitsInv, AllReserved
<1>3. LocksInv BY ThreadAssumption DEF LocksInv, Rotating, AllReserved, Ending
<1>4. ThreadsInv
  BY DEF ThreadsInv, ThreadInv, NoCall, Owning, Ending, Rotating, AllReserved
<1>5. OwnerInv BY DEF OwnerInv
<1>6. PairsInv BY DEF PairsInv, PairInv, Busy, NewSemaphore
<1>7. JobsInv BY DEF JobsInv, Active, NoCall
<1>8. WaitsInv BY DEF WaitsInv, WaitInv
<1> QED BY <1>1, <1>2, <1>3, <1>4, <1>5, <1>6, <1>7, <1>8 DEF Inv

\* A step of a thread that keeps what it has of the push semaphore.
LEMMA UnitsStable ==
    ASSUME TypeOK, UnitsInv, NEW t \in Threads, NEW state,
           pc' = [pc EXCEPT ![t] = state], push_sem' = push_sem,
           pc[t] \in Holding <=> state \in Holding,
           pc[t] \in AllReserved <=> state \in AllReserved
    PROVE  UnitsInv'
<1>1. \A u \in Threads : pc'[u] = IF u = t THEN state ELSE pc[u] BY DEF TypeOK
<1>2. Holders' = Holders BY <1>1 DEF Holders
<1>3. (\E u \in Threads : pc'[u] \in AllReserved) <=> (\E u \in Threads : pc[u] \in AllReserved)
  BY <1>1
<1> QED BY <1>2, <1>3 DEF UnitsInv

\* One that takes a unit, and one that gives it back.
LEMMA UnitTaken ==
    ASSUME TypeOK, UnitsInv, NEW t \in Threads, push_sem > 0,
           pc[t] \notin Holding, pc[t] \notin AllReserved,
           pc' = [pc EXCEPT ![t] = "claim"], push_sem' = push_sem - 1
    PROVE  UnitsInv' /\ push_sem' \in 0 .. Cardinality(Pairs)
<1>1. \A u \in Threads : pc'[u] = IF u = t THEN "claim" ELSE pc[u] BY DEF TypeOK
<1>2. Holders' = Holders \cup {t} /\ t \notin Holders BY <1>1 DEF Holders, Holding
<1>3. push_sem \in Nat BY NumPairs DEF TypeOK
<1>4. ~\E u \in Threads : pc[u] \in AllReserved BY <1>3 DEF UnitsInv
<1>5. ~\E u \in Threads : pc'[u] \in AllReserved BY <1>1, <1>4 DEF AllReserved
<1>6. IsFiniteSet(Holders) BY DEF UnitsInv
<1>7. IsFiniteSet(Holders') /\ Cardinality(Holders') = Cardinality(Holders) + 1
  BY <1>2, <1>6, FS_AddElement
<1>8. Cardinality(Holders) \in Nat BY <1>6, FS_CardinalityType
<1> QED BY <1>3, <1>4, <1>5, <1>7, <1>8, NumPairs DEF UnitsInv

LEMMA UnitGiven ==
    ASSUME TypeOK, UnitsInv, NEW t \in Threads, pc[t] \in Holding, NEW state,
           state \notin Holding \cup AllReserved,
           pc' = [pc EXCEPT ![t] = state], push_sem' = push_sem + 1
    PROVE  UnitsInv' /\ push_sem' \in 0 .. Cardinality(Pairs)
<1>1. \A u \in Threads : pc'[u] = IF u = t THEN state ELSE pc[u] BY DEF TypeOK
<1>2. Holders' = Holders \ {t} /\ t \in Holders BY <1>1 DEF Holders
<1>3. push_sem \in Nat BY NumPairs DEF TypeOK
<1>4. ~\E u \in Threads : pc[u] \in AllReserved BY <1>2 DEF UnitsInv
<1>5. ~\E u \in Threads : pc'[u] \in AllReserved BY <1>1, <1>4
<1>6. IsFiniteSet(Holders) BY DEF UnitsInv
<1>7. IsFiniteSet(Holders') /\ Cardinality(Holders') = Cardinality(Holders) - 1
  BY <1>2, <1>6, FS_RemoveElement
<1>8. Cardinality(Holders) \in Nat /\ Cardinality(Holders') \in Nat
  BY <1>6, <1>7, FS_CardinalityType
<1> QED BY <1>3, <1>4, <1>5, <1>7, <1>8, NumPairs DEF UnitsInv

\* A thread keeps its part through a step that leaves its locals and, while it needs
\* them, its pair, the key and the LCIC semaphores.
LEMMA ThreadStable ==
    ASSUME TypeOK, NEW t \in Threads, ThreadInv(t), pc'[t] = pc[t], call'[t] = call[t],
           jobs' \in Nat, jobs <= jobs',
           pc[t] \in Owning =>
              /\ owner'[call[t].pair] = owner[call[t].pair]
              /\ launch_tag'[call[t].pair] = launch_tag[call[t].pair]
              /\ wlc'[call[t].pair].queued = wlc[call[t].pair].queued
              /\ wlc'[call[t].pair].published = wlc[call[t].pair].published
              /\ key_version' = key_version,
           pc[t] = "submit" =>
              /\ lcic'[call[t].pair].published = lcic[call[t].pair].published
              /\ lcic'[call[t].pair].queued = lcic[call[t].pair].queued,
           pc[t] = "rotate_key" => \A q \in Pairs : lcic'[q] = lcic[q]
    PROVE  ThreadInv(t)'
<1>1. jobs \in Nat BY DEF TypeOK
<1>2. ASSUME NEW j \in 1 .. jobs PROVE j \in 1 .. jobs' BY <1>1, <1>2
<1> QED BY <1>1, <1>2 DEF ThreadInv, Tag, Owning, Ending

\* A pair that no step touches keeps its part; pending and owner may change while it
\* is not busy, and so may the tag while there is nothing to decrypt.
LEMMA PairStable ==
    ASSUME NEW p \in Pairs, PairInv(p), wlc'[p] = wlc[p], lcic'[p] = lcic[p],
           doorbell'[p] = doorbell[p], gpu'[p] = gpu[p],
           static_pb'[p] = static_pb[p], key_version' = key_version,
           Busy(p) => /\ pending'[p] = pending[p] /\ owner'[p] = owner[p]
                      /\ launch_tag'[p] = launch_tag[p]
    PROVE  PairInv(p)'
BY DEF PairInv, Busy

LEMMA WaitStable ==
    ASSUME NEW t \in Threads, WaitInv(t), pc'[t] = pc[t], call'[t] = call[t],
           fatal_error => fatal_error',
           pc[t] = "wait" =>
              LET p == call[t].pair IN
              /\ doorbell'[p] = doorbell[p] /\ static_pb'[p] = static_pb[p]
              /\ gpu'[p] = gpu[p] /\ wlc'[p].published = wlc[p].published
              /\ launched' = launched
    PROVE  WaitInv(t)'
BY DEF WaitInv

\* Threads and pairs keep their jobs.
LEMMA JobsStable ==
    ASSUME JobsInv, UNCHANGED <<doorbell, gpu, launched, static_pb, jobs>>,
           \A t \in Threads : /\ call'[t].job \in {0, call[t].job}
                              /\ call'[t].job # 0 /\ pc'[t] # "wait" => pc[t] # "wait"
    PROVE  JobsInv'
<1>1. \A p \in Pairs : Active(p)' = Active(p) /\ ActiveJob(p)' = ActiveJob(p)
  BY DEF Active, ActiveJob
<1> QED BY <1>1 DEF JobsInv

\* The owner of a pair is one thread.
LEMMA OwnPair ==
    ASSUME ThreadsInv, OwnerInv, NEW t \in Threads, pc[t] \in Owning
    PROVE  /\ call[t].pair \in Pairs /\ owner[call[t].pair] = t
           /\ \A u \in Threads \ {t} : pc[u] \in Owning => call[u].pair # call[t].pair
BY DEF ThreadsInv, ThreadInv, OwnerInv

\* It has nothing left to decrypt, to run or to release.
LEMMA OwnedIsNotBusy ==
    ASSUME PairsInv, NEW p \in Pairs, owner[p] # None
    PROVE  ~Busy(p)
BY DEF PairsInv, PairInv

-----------------------------------------------------------------------------
(* Steps that touch no pair.                                               *)

LEMMA QuietStep ==
    ASSUME Inv, TypeOK', NEW t \in Threads, NEW state, pc' = [pc EXCEPT ![t] = state],
           UNCHANGED <<owner, pending, key_version, wlc, lcic, staticVars, gpuVars, jobs>>,
           \A u \in Threads \ {t} : call'[u] = call[u],
           call'[t].job \in {0, call[t].job}, pc[t] = "wait" => call'[t].job = 0,
           pc[t] \notin Owning, state \notin Owning \cup {"wait"},
           fatal_error => fatal_error',
           UnitsInv', LocksInv', ThreadInv(t)'
    PROVE  Inv'
<1> USE DEF staticVars, gpuVars
<1>1. TypeOK /\ ThreadsInv /\ OwnerInv /\ PairsInv /\ JobsInv /\ WaitsInv BY DEF Inv
<1>2. pc'[t] = state /\ \A u \in Threads \ {t} : pc'[u] = pc[u] BY <1>1 DEF TypeOK
<1>3. ThreadsInv'
  <2> SUFFICES ASSUME NEW u \in Threads \ {t} PROVE ThreadInv(u)' BY DEF ThreadsInv
  <2>1. jobs' \in Nat /\ jobs <= jobs' BY <1>1 DEF TypeOK
  <2> QED BY <1>1, <1>2, <2>1, ThreadStable DEF ThreadsInv
<1>4. OwnerInv'
  <2> SUFFICES ASSUME NEW p \in Pairs, owner[p] # None
               PROVE  pc'[owner[p]] \in Owning /\ call'[owner[p]].pair = p
    BY DEF OwnerInv
  <2>1. owner[p] \in Threads \ {t} BY <1>1, PairParts DEF OwnerInv
  <2> QED BY <1>1, <1>2, <2>1 DEF OwnerInv
<1>5. PairsInv' BY <1>1, PairStable DEF PairsInv
<1>6. JobsInv' BY <1>1, <1>2, JobsStable
<1>7. WaitsInv'
  <2> SUFFICES ASSUME NEW u \in Threads PROVE WaitInv(u)' BY DEF WaitsInv
  <2>1. CASE u = t BY <1>2, <2>1 DEF WaitInv
  <2>2. CASE u # t BY <1>1, <1>2, <2>2, WaitStable DEF WaitsInv
  <2> QED BY <2>1, <2>2
<1> QED BY <1>3, <1>4, <1>5, <1>6, <1>7 DEF Inv

LEMMA StartRotateInv == ASSUME Inv, NEW t \in Threads, StartRotate(t) PROVE Inv'
<1>1. TypeOK /\ UnitsInv /\ LocksInv /\ ThreadsInv BY DEF Inv
<1>2. /\ pc[t] = "idle" /\ pc' = [pc EXCEPT ![t] = "rotate_lock"]
      /\ call' = [call EXCEPT ![t].force = TRUE]
      /\ UNCHANGED <<poolVars, rotationVars, wlc, lcic, staticVars, gpuVars, fatal_error,
                     jobs>>
  BY DEF StartRotate, Goto
<1>3. call[t] = NoCall BY <1>1, <1>2 DEF ThreadsInv, ThreadInv
<1>4. /\ call'[t].job = 0 /\ call'[t].force /\ pc'[t] = "rotate_lock"
      /\ \A u \in Threads \ {t} : call'[u] = call[u] /\ pc'[u] = pc[u]
  BY <1>1, <1>2, <1>3 DEF TypeOK, NoCall
<1>5. TypeOK'
  <2>1. [call[t] EXCEPT !.force = TRUE] \in Calls BY <1>1, ThreadParts DEF Calls
  <2> QED BY <1>1, <1>2, <2>1
          DEF TypeOK, PcStates, poolVars, rotationVars, staticVars, gpuVars
<1>6. UnitsInv' BY <1>1, <1>2, UnitsStable DEF Holding, AllReserved, poolVars
<1>7. LocksInv'
  BY <1>1, <1>2, <1>4 DEF LocksInv, Rotating, AllReserved, Ending, poolVars, rotationVars
<1>8. ThreadInv(t)' BY <1>4 DEF ThreadInv, Owning, Ending
<1> QED BY <1>2, <1>3, <1>4, <1>5, <1>6, <1>7, <1>8, QuietStep
        DEF Owning, NoCall, poolVars, rotationVars

\* AfterRotation() and Return().
LEMMA ReturnFacts ==
    ASSUME TypeOK, NEW t \in Threads, Return(t)
    PROVE  /\ pc' = [pc EXCEPT ![t] = "idle"] /\ call'[t] = NoCall /\ call'[t].job = 0
           /\ pc' \in [Threads -> PcStates] /\ call' \in [Threads -> Calls]
           /\ \A u \in Threads \ {t} : call'[u] = call[u]
BY NewTypes DEF TypeOK, Return, Goto, PcStates, NoCall

LEMMA AfterRotationFacts ==
    ASSUME TypeOK, ThreadsInv, NEW t \in Threads, AfterRotation(t),
           pc[t] \in Rotating \cup {"rotate_lock"}
    PROVE  \E state \in {"idle", "reserve"} :
              /\ pc' = [pc EXCEPT ![t] = state]
              /\ pc' \in [Threads -> PcStates] /\ call' \in [Threads -> Calls]
              /\ call'[t].job \in {0, call[t].job}
              /\ state = "idle" => call'[t] = NoCall
              /\ state = "reserve" =>
                    call'[t] = call[t] /\ ~call[t].force /\ call[t].job \in 1 .. jobs
              /\ \A u \in Threads \ {t} : call'[u] = call[u]
<1>1. CASE call[t].force BY <1>1, ReturnFacts DEF AfterRotation
<1>2. CASE ~call[t].force
  <2>1. pc' = [pc EXCEPT ![t] = "reserve"] /\ call' = call BY <1>2 DEF AfterRotation, Goto
  <2>2. call[t].job \in 1 .. jobs
    BY <1>2 DEF ThreadsInv, ThreadInv, Rotating, AllReserved
  <2> QED BY <1>2, <2>1, <2>2 DEF TypeOK, PcStates
<1> QED BY <1>1, <1>2

\* A thread that is idle or about to reserve has nothing to keep.
LEMMA IdleOrReserve ==
    ASSUME NEW t \in Threads, jobs' = jobs, NEW state \in {"idle", "reserve"}, pc'[t] = state,
           state = "idle" => call'[t] = NoCall,
           state = "reserve" => ~call'[t].force /\ call'[t].job \in 1 .. jobs
    PROVE  ThreadInv(t)'
BY DEF ThreadInv, NoCall, Owning, Ending, Rotating, AllReserved

LEMMA RotateLockInv == ASSUME Inv, NEW t \in Threads, RotateLock(t) PROVE Inv'
<1>1. TypeOK /\ UnitsInv /\ LocksInv /\ ThreadsInv BY DEF Inv
<1>2. /\ pc[t] = "rotate_lock" /\ rotation_mutex = None
      /\ UNCHANGED <<poolVars, key_version, rotation_pending, wlc, lcic, staticVars, gpuVars,
                     fatal_error, jobs>>
  BY DEF RotateLock
<1>3. CASE call[t].force \/ rotation_pending
  <2>1. /\ rotation_mutex' = t /\ pc' = [pc EXCEPT ![t] = "rotate_reserve"] /\ call' = call
    BY <1>3 DEF RotateLock, Goto
  <2>2. pc'[t] = "rotate_reserve" /\ \A u \in Threads \ {t} : pc'[u] = pc[u]
    BY <1>1, <2>1 DEF TypeOK
  <2>3. TypeOK'
    BY <1>1, <1>2, <2>1 DEF TypeOK, PcStates, poolVars, staticVars, gpuVars
  <2>4. UnitsInv' BY <1>1, <1>2, <2>1, UnitsStable DEF Holding, AllReserved, poolVars
  <2>5. LocksInv'
    BY <1>1, <1>2, <2>1, <2>2, ThreadAssumption
       DEF LocksInv, Rotating, AllReserved, Ending, poolVars
  <2>6. ThreadInv(t)'
    BY <1>1, <1>2, <2>1, <2>2 DEF ThreadsInv, ThreadInv, Owning, Ending, Rotating
  <2> QED BY <1>2, <2>1, <2>3, <2>4, <2>5, <2>6, QuietStep DEF Owning, poolVars
<1>4. CASE ~(call[t].force \/ rotation_pending)
  <2>1. AfterRotation(t) /\ rotation_mutex' = rotation_mutex BY <1>4 DEF RotateLock
  <2>2. PICK state \in {"idle", "reserve"} :
              /\ pc' = [pc EXCEPT ![t] = state]
              /\ pc' \in [Threads -> PcStates] /\ call' \in [Threads -> Calls]
              /\ call'[t].job \in {0, call[t].job}
              /\ state = "idle" => call'[t] = NoCall
              /\ state = "reserve" =>
                    call'[t] = call[t] /\ ~call[t].force /\ call[t].job \in 1 .. jobs
              /\ \A u \in Threads \ {t} : call'[u] = call[u]
    BY <1>1, <1>2, <2>1, AfterRotationFacts
  <2>3. pc'[t] = state /\ \A u \in Threads \ {t} : pc'[u] = pc[u] BY <1>1, <2>2 DEF TypeOK
  <2>4. TypeOK' BY <1>1, <1>2, <2>1, <2>2 DEF TypeOK, poolVars, staticVars, gpuVars
  <2>5. UnitsInv' BY <1>1, <1>2, <2>2, UnitsStable DEF Holding, AllReserved, poolVars
  <2>6. LocksInv'
    BY <1>1, <1>2, <2>1, <2>3, ThreadAssumption
       DEF LocksInv, Rotating, AllReserved, Ending, poolVars
  <2>7. ThreadInv(t)' BY <1>2, <2>2, <2>3, IdleOrReserve
  <2> QED BY <1>2, <2>2, <2>4, <2>5, <2>6, <2>7, QuietStep DEF Owning, poolVars
<1> QED BY <1>3, <1>4

LEMMA RotateReserveInv == ASSUME Inv, NEW t \in Threads, RotateReserve(t) PROVE Inv'
<1>1. TypeOK /\ UnitsInv /\ LocksInv /\ ThreadsInv BY DEF Inv
<1>2. /\ pc[t] = "rotate_reserve" /\ push_sem = Cardinality(Pairs) /\ push_sem' = 0
      /\ pc' = [pc EXCEPT ![t] = "rotate_wait"]
      /\ UNCHANGED <<owner, pending, pool_lock, rotationVars, wlc, lcic, staticVars, gpuVars,
                     fatal_error, jobs, call>>
  BY DEF RotateReserve, Goto
<1>3. pc'[t] = "rotate_wait" /\ \A u \in Threads \ {t} : pc'[u] = pc[u]
  BY <1>1, <1>2 DEF TypeOK
<1>4. TypeOK'
  BY <1>1, <1>2, NumPairs DEF TypeOK, PcStates, rotationVars, staticVars, gpuVars
<1>5. UnitsInv'
  <2>1. push_sem > 0 /\ push_sem \in Nat
    <3>1. Cardinality(Pairs) # 0 BY PairAssumption, FS_EmptySet
    <3> QED BY <1>2, <3>1, NumPairs
  <2>2. IsFiniteSet(Holders) /\ push_sem + Cardinality(Holders) = Cardinality(Pairs)
    BY <1>1, <2>1 DEF UnitsInv
  <2>3. Cardinality(Holders) = 0
    <3>1. Cardinality(Holders) \in Nat BY <2>2, FS_CardinalityType
    <3> QED BY <1>2, <2>1, <2>2, <3>1
  <2>4. Holders = {} BY <2>2, <2>3, FS_EmptySet
  <2>5. Holders' = {} BY <1>3, <2>4 DEF Holders, Holding
  <2>6. \E u \in Threads : pc'[u] \in AllReserved BY <1>3 DEF AllReserved
  <2> QED BY <1>2, <2>5, <2>6, FS_EmptySet DEF UnitsInv
<1>6. LocksInv'
  BY <1>1, <1>2, <1>3 DEF LocksInv, Rotating, AllReserved, Ending, rotationVars
<1>7. ThreadInv(t)'
  BY <1>1, <1>2, <1>3 DEF ThreadsInv, ThreadInv, Owning, Ending, Rotating, AllReserved
<1> QED BY <1>2, <1>4, <1>5, <1>6, <1>7, QuietStep DEF Owning, rotationVars

\* The end of a rotation: only this thread had the channels reserved.
LEMMA ReleaseAllUnits ==
    ASSUME TypeOK, UnitsInv, LocksInv, NEW t \in Threads, pc[t] \in AllReserved,
           NEW state \in {"idle", "reserve"}, pc' = [pc EXCEPT ![t] = state],
           pool_lock' = pool_lock, ReleaseAll
    PROVE  UnitsInv' /\ LocksInv' /\ push_sem' \in 0 .. Cardinality(Pairs)
<1>1. pc'[t] = state /\ \A u \in Threads \ {t} : pc'[u] = pc[u] BY DEF TypeOK
<1>2. rotation_mutex = t /\ \A u \in Threads \ {t} : pc[u] \notin Rotating
  BY DEF LocksInv, Rotating
<1>3. \A u \in Threads : pc'[u] \notin AllReserved
  BY <1>1, <1>2 DEF Rotating, AllReserved
<1>4. Holders = {} BY DEF UnitsInv
<1>5. Holders' = {} BY <1>1, <1>4 DEF Holders, Holding
<1>6. UnitsInv' BY <1>3, <1>5, NumPairs, FS_EmptySet DEF UnitsInv, ReleaseAll
<1>7. LocksInv'
  BY <1>1, <1>2, ThreadAssumption DEF LocksInv, ReleaseAll, Rotating, AllReserved, Ending
<1> QED BY <1>6, <1>7, NumPairs DEF ReleaseAll

LEMMA RotateWaitFailsInv == ASSUME Inv, NEW t \in Threads, RotateWaitFails(t) PROVE Inv'
<1>1. TypeOK /\ UnitsInv /\ LocksInv /\ ThreadsInv BY DEF Inv
<1>2. /\ pc[t] = "rotate_wait" /\ fatal_error' = TRUE /\ ReleaseAll /\ Return(t)
      /\ UNCHANGED <<owner, pending, pool_lock, key_version, rotation_pending, wlc, lcic,
                     staticVars, gpuVars, jobs>>
  BY DEF RotateWaitFails
<1>3. /\ pc' = [pc EXCEPT ![t] = "idle"] /\ call'[t] = NoCall /\ call'[t].job = 0
      /\ pc' \in [Threads -> PcStates] /\ call' \in [Threads -> Calls]
      /\ \A u \in Threads \ {t} : call'[u] = call[u]
  BY <1>1, <1>2, ReturnFacts
<1>4. UnitsInv' /\ LocksInv' /\ push_sem' \in 0 .. Cardinality(Pairs)
  BY <1>1, <1>2, <1>3, ReleaseAllUnits DEF AllReserved
<1>5. TypeOK'
  BY <1>1, <1>2, <1>3, <1>4 DEF TypeOK, ReleaseAll, staticVars, gpuVars
<1>6. ThreadInv(t)'
  <2>1. pc'[t] = "idle" BY <1>1, <1>3 DEF TypeOK
  <2> QED BY <1>2, <1>3, <2>1, IdleOrReserve
<1> QED BY <1>2, <1>3, <1>4, <1>5, <1>6, QuietStep DEF Owning

LEMMA DownInv == ASSUME Inv, NEW t \in Threads, Down(t) PROVE Inv'
<1>1. TypeOK /\ UnitsInv /\ LocksInv /\ ThreadsInv BY DEF Inv
<1>2. /\ pc[t] = "reserve" /\ push_sem > 0 /\ push_sem' = push_sem - 1
      /\ pc' = [pc EXCEPT ![t] = "claim"]
      /\ UNCHANGED <<owner, pending, pool_lock, rotationVars, wlc, lcic, staticVars, gpuVars,
                     fatal_error, jobs, call>>
  BY DEF Down, Goto
<1>3. pc'[t] = "claim" /\ \A u \in Threads \ {t} : pc'[u] = pc[u]
  BY <1>1, <1>2 DEF TypeOK
<1>4. UnitsInv' /\ push_sem' \in 0 .. Cardinality(Pairs)
  BY <1>1, <1>2, UnitTaken DEF Holding, AllReserved
<1>5. TypeOK'
  BY <1>1, <1>2, <1>4 DEF TypeOK, PcStates, rotationVars, staticVars, gpuVars
<1>6. LocksInv'
  BY <1>1, <1>2, <1>3 DEF LocksInv, Rotating, AllReserved, Ending, rotationVars
<1>7. ThreadInv(t)'
  BY <1>1, <1>2, <1>3 DEF ThreadsInv, ThreadInv, Owning, Ending, Rotating, AllReserved
<1> QED BY <1>2, <1>4, <1>5, <1>6, <1>7, QuietStep DEF Owning, rotationVars

LEMMA WaitFailsInv == ASSUME Inv, NEW t \in Threads, WaitFails(t) PROVE Inv'
<1>1. TypeOK /\ UnitsInv /\ LocksInv /\ ThreadsInv BY DEF Inv
<1>2. /\ pc[t] = "wait" /\ fatal_error' = TRUE /\ Return(t)
      /\ UNCHANGED <<poolVars, rotationVars, wlc, lcic, staticVars, gpuVars, jobs>>
  BY DEF WaitFails
<1>3. /\ pc' = [pc EXCEPT ![t] = "idle"] /\ call'[t] = NoCall /\ call'[t].job = 0
      /\ pc' \in [Threads -> PcStates] /\ call' \in [Threads -> Calls]
      /\ \A u \in Threads \ {t} : call'[u] = call[u]
  BY <1>1, <1>2, ReturnFacts
<1>4. pc'[t] = "idle" /\ \A u \in Threads \ {t} : pc'[u] = pc[u] BY <1>1, <1>3 DEF TypeOK
<1>5. TypeOK'
  BY <1>1, <1>2, <1>3 DEF TypeOK, poolVars, rotationVars, staticVars, gpuVars
<1>6. UnitsInv' BY <1>1, <1>2, <1>3, UnitsStable DEF Holding, AllReserved, poolVars
<1>7. LocksInv'
  BY <1>1, <1>2, <1>4 DEF LocksInv, Rotating, AllReserved, Ending, poolVars, rotationVars
<1>8. ThreadInv(t)' BY <1>2, <1>3, <1>4, IdleOrReserve
<1> QED BY <1>2, <1>3, <1>5, <1>6, <1>7, <1>8, QuietStep DEF Owning, poolVars, rotationVars

\* Nothing but the notifier of rotations changes.
LEMMA RequestRotationInv ==
    ASSUME Inv, rotation_pending' \in BOOLEAN,
           UNCHANGED <<poolVars, rotation_mutex, key_version, wlc, lcic, staticVars, gpuVars,
                       fatal_error, jobs, pc, call>>
    PROVE  Inv'
<1> USE DEF poolVars, staticVars, gpuVars
<1>1. TypeOK' BY DEF Inv, TypeOK
<1>2. UnitsInv' BY DEF Inv, UnitsInv, Holders
<1>3. LocksInv' BY DEF Inv, LocksInv
<1>4. ThreadsInv' BY DEF Inv, ThreadsInv, ThreadInv, Tag
<1>5. OwnerInv' BY DEF Inv, OwnerInv
<1>6. PairsInv' BY PairStable DEF Inv, PairsInv
<1>7. JobsInv' BY JobsStable DEF Inv
<1>8. WaitsInv' BY WaitStable DEF Inv, WaitsInv
<1> QED BY <1>1, <1>2, <1>3, <1>4, <1>5, <1>6, <1>7, <1>8 DEF Inv

LEMMA StartLaunchInv == ASSUME Inv, NEW t \in Threads, StartLaunch(t) PROVE Inv'
<1>1. /\ TypeOK /\ UnitsInv /\ LocksInv /\ ThreadsInv /\ OwnerInv /\ PairsInv /\ JobsInv
      /\ WaitsInv
  BY DEF Inv
<1>2. /\ pc[t] = "idle" /\ jobs < MaxJobs /\ jobs' = jobs + 1
      /\ call' = [call EXCEPT ![t].job = jobs + 1]
      /\ pc' = [pc EXCEPT ![t] = "rotate_lock"]
      /\ UNCHANGED <<poolVars, rotationVars, wlc, lcic, staticVars, gpuVars, fatal_error>>
  BY DEF StartLaunch, Goto
<1>3. jobs \in Nat /\ jobs' \in 0 .. MaxJobs /\ jobs' \in Nat /\ jobs <= jobs' /\ MaxJobs \in Nat
  BY <1>1, <1>2, BoundAssumption DEF TypeOK
<1>4. call[t] = NoCall BY <1>1, <1>2 DEF ThreadsInv, ThreadInv
<1>5. /\ call'[t].job = jobs + 1 /\ ~call'[t].force /\ pc'[t] = "rotate_lock"
      /\ \A u \in Threads \ {t} : call'[u] = call[u] /\ pc'[u] = pc[u]
  BY <1>1, <1>2, <1>4 DEF TypeOK, NoCall
<1>6. TypeOK'
  <2>1. [call[t] EXCEPT !.job = jobs + 1] \in Calls
    BY <1>1, <1>2, <1>3, ThreadParts DEF Calls
  <2> QED BY <1>1, <1>2, <1>3, <2>1
          DEF TypeOK, PcStates, poolVars, rotationVars, staticVars, gpuVars
<1>7. UnitsInv' BY <1>1, <1>2, UnitsStable DEF Holding, AllReserved, poolVars
<1>8. LocksInv'
  BY <1>1, <1>2, <1>5 DEF LocksInv, Rotating, AllReserved, Ending, poolVars, rotationVars
<1>9. ThreadsInv'
  <2>1. ThreadInv(t)' BY <1>2, <1>3, <1>5 DEF ThreadInv, Owning, Ending
  <2>2. \A u \in Threads \ {t} : ThreadInv(u)'
    BY <1>1, <1>2, <1>3, <1>5, ThreadStable DEF ThreadsInv, poolVars, rotationVars, staticVars
  <2> QED BY <2>1, <2>2 DEF ThreadsInv
<1>10. OwnerInv'
  <2> SUFFICES ASSUME NEW p \in Pairs, owner[p] # None
               PROVE  pc'[owner[p]] \in Owning /\ call'[owner[p]].pair = p
    BY <1>2 DEF OwnerInv, poolVars
  <2>1. owner[p] \in Threads \ {t} BY <1>1, <1>2, PairParts DEF OwnerInv, Owning
  <2> QED BY <1>1, <1>5, <2>1 DEF OwnerInv
<1>11. PairsInv'
  BY <1>1, <1>2, PairStable DEF PairsInv, poolVars, rotationVars, staticVars, gpuVars
<1>12. JobsInv'
  <2>1. \A p \in Pairs : Active(p)' = Active(p) /\ ActiveJob(p)' = ActiveJob(p)
    BY <1>2 DEF Active, ActiveJob, staticVars, gpuVars
  <2>2. launched' = launched BY <1>2 DEF gpuVars
  <2>3. \A j \in Jobs : j > jobs' => launched'[j] = 0
    BY <1>1, <1>2, <1>3, <2>2 DEF JobsInv, Jobs
  <2>4. \A p \in Pairs : Active(p)' => /\ ActiveJob(p)' \in 1 .. jobs'
                                       /\ launched'[ActiveJob(p)'] = 0
                                       /\ ActiveJob(p)' # jobs + 1
    BY <1>1, <1>3, <2>1, <2>2 DEF JobsInv
  <2>5. \A p, q \in Pairs : Active(p)' /\ Active(q)' /\ p # q => ActiveJob(p)' # ActiveJob(q)'
    BY <1>1, <2>1 DEF JobsInv
  <2>6. \A u \in Threads \ {t} : call'[u].job = call[u].job /\ call[u].job # jobs + 1
    <3> SUFFICES ASSUME NEW u \in Threads \ {t} PROVE call[u].job # jobs + 1 BY <1>5
    <3>1. call[u].job = 0 \/ call[u].job \in 1 .. jobs
      BY <1>1 DEF ThreadsInv, ThreadInv, NoCall
    <3> QED BY <1>3, <3>1
  <2>7. \A v, u \in Threads : v # u /\ call'[v].job # 0 => call'[v].job # call'[u].job
    BY <1>1, <1>5, <2>6 DEF JobsInv
  <2>8. launched[jobs + 1] = 0 BY <1>1, <1>2, <1>3 DEF JobsInv, Jobs
  <2>9. \A u \in Threads : call'[u].job # 0 /\ pc'[u] # "wait" =>
          /\ launched'[call'[u].job] = 0
          /\ \A p \in Pairs : Active(p)' => ActiveJob(p)' # call'[u].job
    BY <1>1, <1>5, <2>1, <2>2, <2>4, <2>8 DEF JobsInv
  <2> QED BY <2>3, <2>4, <2>5, <2>7, <2>9 DEF JobsInv
<1>13. WaitsInv'
  <2> SUFFICES ASSUME NEW u \in Threads PROVE WaitInv(u)' BY DEF WaitsInv
  <2>1. CASE u = t BY <1>5, <2>1 DEF WaitInv
  <2>2. CASE u # t
    BY <1>1, <1>2, <1>5, <2>2, WaitStable DEF WaitsInv, staticVars, gpuVars
  <2> QED BY <2>1, <2>2
<1> QED BY <1>6, <1>7, <1>8, <1>9, <1>10, <1>11, <1>12, <1>13 DEF Inv

\* A rotation that has reserved all channels is alone.
LEMMA RotationAlone ==
    ASSUME UnitsInv, LocksInv, NEW t \in Threads, pc[t] \in AllReserved
    PROVE  /\ \A u \in Threads : pc[u] \notin Holding
           /\ \A u \in Threads \ {t} : pc[u] \notin Rotating
BY DEF UnitsInv, Holders, LocksInv, Rotating

LEMMA RotateWaitInv == ASSUME Inv, NEW t \in Threads, RotateWait(t) PROVE Inv'
<1>1. /\ TypeOK /\ UnitsInv /\ LocksInv /\ ThreadsInv /\ OwnerInv /\ PairsInv /\ JobsInv
      /\ WaitsInv
  BY DEF Inv
<1>2. /\ pc[t] = "rotate_wait"
      /\ \A p \in Pairs : Decrypts(lcic[p]) /\ lcic[p].published = lcic[p].queued
      /\ lcic' = [p \in Pairs |-> Observed(lcic[p])]
      /\ pc' = [pc EXCEPT ![t] = "rotate_key"]
      /\ UNCHANGED <<poolVars, rotationVars, wlc, staticVars, gpuVars, fatal_error, jobs, call>>
  BY DEF RotateWait, Goto
<1>3. \A p \in Pairs : /\ lcic'[p] \in Semaphores
                       /\ lcic'[p].queued = lcic[p].queued
                       /\ lcic'[p].published = lcic[p].published
                       /\ lcic'[p].completed = lcic[p].published
  BY <1>1, <1>2, PairParts DEF Observed, Semaphores
<1>4. pc'[t] = "rotate_key" /\ \A u \in Threads \ {t} : pc'[u] = pc[u]
  BY <1>1, <1>2 DEF TypeOK
<1>5. TypeOK'
  <2>1. lcic' \in [Pairs -> Semaphores] BY <1>2, <1>3
  <2> QED BY <1>1, <1>2, <2>1
          DEF TypeOK, PcStates, poolVars, rotationVars, staticVars, gpuVars
<1>6. UnitsInv' BY <1>1, <1>2, UnitsStable DEF Holding, AllReserved, poolVars
<1>7. LocksInv'
  BY <1>1, <1>2, <1>4 DEF LocksInv, Rotating, AllReserved, Ending, poolVars, rotationVars
<1>8. /\ \A u \in Threads : pc[u] \notin Holding
      /\ \A u \in Threads \ {t} : pc[u] \notin Rotating
  BY <1>1, <1>2, RotationAlone DEF AllReserved
<1>9. ThreadsInv'
  <2>1. ThreadInv(t)'
    <3>1. call' = call /\ jobs' = jobs BY <1>2
    <3>2. \A q \in Pairs : /\ lcic'[q].published = lcic'[q].queued
                           /\ lcic'[q].completed = lcic'[q].published
      BY <1>2, <1>3
    <3> QED BY <1>1, <1>2, <1>4, <3>1, <3>2
            DEF ThreadsInv, ThreadInv, Owning, Ending, Rotating, AllReserved
  <2>2. \A u \in Threads \ {t} : ThreadInv(u)'
    <3> SUFFICES ASSUME NEW u \in Threads \ {t} PROVE ThreadInv(u)' OBVIOUS
    <3>1. pc[u] \notin Owning /\ pc[u] # "submit" /\ pc[u] # "rotate_key"
      BY <1>8 DEF Holding, Owning, Rotating, AllReserved
    <3>2. jobs' \in Nat /\ jobs <= jobs' BY <1>1, <1>2 DEF TypeOK
    <3> QED BY <1>1, <1>2, <1>4, <3>1, <3>2, ThreadStable DEF ThreadsInv
  <2> QED BY <2>1, <2>2 DEF ThreadsInv
<1>10. OwnerInv'
  <2> SUFFICES ASSUME NEW p \in Pairs, owner[p] # None
               PROVE  pc'[owner[p]] \in Owning /\ call'[owner[p]].pair = p
    BY <1>2 DEF OwnerInv, poolVars
  <2>1. owner[p] \in Threads \ {t} BY <1>1, <1>2, PairParts DEF OwnerInv, Owning
  <2> QED BY <1>1, <1>2, <1>4, <2>1 DEF OwnerInv
<1>11. PairsInv'
  <2> SUFFICES ASSUME NEW p \in Pairs PROVE PairInv(p)' BY DEF PairsInv
  <2>1. PairInv(p) BY <1>1 DEF PairsInv
  <2> QED BY <1>2, <1>3, <2>1
          DEF PairInv, Busy, poolVars, rotationVars, staticVars, gpuVars
<1>12. JobsInv' BY <1>1, <1>2, <1>4, JobsStable DEF staticVars, gpuVars
<1>13. WaitsInv'
  <2> SUFFICES ASSUME NEW u \in Threads PROVE WaitInv(u)' BY DEF WaitsInv
  <2>1. CASE u = t BY <1>4, <2>1 DEF WaitInv
  <2>2. CASE u # t
    BY <1>1, <1>2, <1>4, <2>2, WaitStable DEF WaitsInv, staticVars, gpuVars
  <2> QED BY <2>1, <2>2
<1> QED BY <1>5, <1>6, <1>7, <1>9, <1>10, <1>11, <1>12, <1>13 DEF Inv

\* The key changes only when every pair is idle and every LCIC value was observed.
LEMMA RotateKeyInv == ASSUME Inv, NEW t \in Threads, RotateKey(t) PROVE Inv'
<1>1. /\ TypeOK /\ UnitsInv /\ LocksInv /\ ThreadsInv /\ OwnerInv /\ PairsInv /\ JobsInv
      /\ WaitsInv
  BY DEF Inv
<1>2. /\ pc[t] = "rotate_key" /\ ReleaseAll /\ (AfterRotation(t) \/ Return(t))
      /\ key_version' \in {key_version, key_version + 1}
      /\ rotation_pending' \in {FALSE, rotation_pending}
      /\ UNCHANGED <<owner, pending, pool_lock, wlc, lcic, staticVars, gpuVars, fatal_error,
                     jobs>>
  BY DEF RotateKey
<1>3. PICK state \in {"idle", "reserve"} :
              /\ pc' = [pc EXCEPT ![t] = state]
              /\ pc' \in [Threads -> PcStates] /\ call' \in [Threads -> Calls]
              /\ call'[t].job \in {0, call[t].job}
              /\ state = "idle" => call'[t] = NoCall
              /\ state = "reserve" =>
                    call'[t] = call[t] /\ ~call[t].force /\ call[t].job \in 1 .. jobs
              /\ \A u \in Threads \ {t} : call'[u] = call[u]
  BY <1>1, <1>2, AfterRotationFacts, ReturnFacts DEF Rotating, AllReserved
<1>4. pc'[t] = state /\ \A u \in Threads \ {t} : pc'[u] = pc[u] BY <1>1, <1>3 DEF TypeOK
<1>5. UnitsInv' /\ LocksInv' /\ push_sem' \in 0 .. Cardinality(Pairs)
  BY <1>1, <1>2, <1>3, ReleaseAllUnits DEF AllReserved
<1>6. TypeOK'
  <2>1. key_version' \in Nat /\ rotation_pending' \in BOOLEAN
    <3>1. key_version \in Nat /\ rotation_pending \in BOOLEAN BY <1>1 DEF TypeOK
    <3>2. key_version' \in Nat BY <1>2, <3>1
    <3>3. rotation_pending' \in BOOLEAN BY <1>2, <3>1, Zenon
    <3> QED BY <3>2, <3>3
  <2>2. rotation_mutex' = None BY <1>2 DEF ReleaseAll
  <2> QED BY <1>1, <1>2, <1>3, <1>5, <2>1, <2>2 DEF TypeOK, staticVars, gpuVars
<1>7. /\ \A u \in Threads : pc[u] \notin Holding
      /\ \A u \in Threads \ {t} : pc[u] \notin Rotating
  BY <1>1, <1>2, RotationAlone DEF AllReserved
<1>8. ThreadsInv'
  <2>1. ThreadInv(t)' BY <1>2, <1>3, <1>4, IdleOrReserve
  <2>2. \A u \in Threads \ {t} : ThreadInv(u)'
    <3> SUFFICES ASSUME NEW u \in Threads \ {t} PROVE ThreadInv(u)' OBVIOUS
    <3>1. pc[u] \notin Owning /\ pc[u] # "submit" /\ pc[u] # "rotate_key"
      BY <1>7 DEF Holding, Owning, Rotating, AllReserved
    <3>2. jobs' \in Nat /\ jobs <= jobs' BY <1>1, <1>2 DEF TypeOK
    <3> QED BY <1>1, <1>3, <1>4, <3>1, <3>2, ThreadStable DEF ThreadsInv
  <2> QED BY <2>1, <2>2 DEF ThreadsInv
<1>9. OwnerInv'
  <2> SUFFICES ASSUME NEW p \in Pairs, owner[p] # None
               PROVE  pc'[owner[p]] \in Owning /\ call'[owner[p]].pair = p
    BY <1>2 DEF OwnerInv
  <2>1. owner[p] \in Threads \ {t} BY <1>1, <1>2, PairParts DEF OwnerInv, Owning
  <2> QED BY <1>1, <1>3, <1>4, <2>1 DEF OwnerInv
<1>10. PairsInv'
  <2> SUFFICES ASSUME NEW p \in Pairs PROVE PairInv(p)' BY DEF PairsInv
  <2>1. PairInv(p) BY <1>1 DEF PairsInv
  <2>2. lcic[p].published = lcic[p].queued /\ lcic[p].completed = lcic[p].published
    BY <1>1, <1>2 DEF ThreadsInv, ThreadInv
  <2>3. ~doorbell[p] /\ gpu[p].phase = "idle" BY <1>1, <2>1, <2>2, PairParts DEF PairInv
  <2> QED BY <1>2, <2>1, <2>2, <2>3 DEF PairInv, Busy, staticVars, gpuVars
<1>11. JobsInv' BY <1>1, <1>2, <1>3, <1>4, JobsStable DEF staticVars, gpuVars
<1>12. WaitsInv'
  <2> SUFFICES ASSUME NEW u \in Threads PROVE WaitInv(u)' BY DEF WaitsInv
  <2>1. CASE u = t BY <1>4, <2>1 DEF WaitInv
  <2>2. CASE u # t
    BY <1>1, <1>2, <1>3, <1>4, <2>2, WaitStable DEF WaitsInv, staticVars, gpuVars
  <2> QED BY <2>1, <2>2
<1> QED BY <1>5, <1>6, <1>8, <1>9, <1>10, <1>11, <1>12 DEF Inv

-----------------------------------------------------------------------------
(* Steps that choose or observe a pair.                                    *)

LEMMA ClaimInv == ASSUME Inv, NEW t \in Threads, NEW p \in Pairs, Claim(t, p) PROVE Inv'
<1>1. /\ TypeOK /\ UnitsInv /\ LocksInv /\ ThreadsInv /\ OwnerInv /\ PairsInv /\ JobsInv
      /\ WaitsInv
  BY DEF Inv
<1>2. /\ pc[t] = "claim" /\ owner[p] = None /\ ~pending[p]
      /\ owner' = [owner EXCEPT ![p] = t] /\ call' = [call EXCEPT ![t].pair = p]
      /\ pc' = [pc EXCEPT ![t] = "launch"]
      /\ UNCHANGED <<pending, push_sem, pool_lock, rotationVars, wlc, lcic, staticVars, gpuVars,
                     fatal_error, jobs>>
  BY DEF Claim, Goto
<1>3. /\ pc'[t] = "launch" /\ call'[t].pair = p /\ call'[t].job = call[t].job
      /\ call'[t].force = call[t].force
      /\ \A u \in Threads \ {t} : pc'[u] = pc[u] /\ call'[u] = call[u]
      /\ owner'[p] = t /\ \A q \in Pairs \ {p} : owner'[q] = owner[q]
  BY <1>1, <1>2, ThreadParts DEF TypeOK, Calls
<1>4. TypeOK'
  <2>1. [call[t] EXCEPT !.pair = p] \in Calls BY <1>1, ThreadParts DEF Calls
  <2> QED BY <1>1, <1>2, <2>1 DEF TypeOK, PcStates, rotationVars, staticVars, gpuVars
<1>5. UnitsInv' BY <1>1, <1>2, UnitsStable DEF Holding, AllReserved
<1>6. LocksInv'
  BY <1>1, <1>2, <1>3 DEF LocksInv, Rotating, AllReserved, Ending, rotationVars
<1>7. ThreadsInv'
  <2>1. ThreadInv(t)'
    BY <1>1, <1>2, <1>3 DEF ThreadsInv, ThreadInv, Owning, Ending, Rotating, AllReserved
  <2>2. \A u \in Threads \ {t} : ThreadInv(u)'
    <3> SUFFICES ASSUME NEW u \in Threads \ {t} PROVE ThreadInv(u)' OBVIOUS
    <3>1. pc[u] \in Owning => call[u].pair \in Pairs \ {p}
      BY <1>1, <1>2, ThreadAssumption DEF ThreadsInv, ThreadInv
    <3>2. jobs' \in Nat /\ jobs <= jobs' BY <1>1, <1>2 DEF TypeOK
    <3> QED BY <1>1, <1>2, <1>3, <3>1, <3>2, ThreadStable
            DEF ThreadsInv, rotationVars, staticVars
  <2> QED BY <2>1, <2>2 DEF ThreadsInv
<1>8. OwnerInv'
  <2> SUFFICES ASSUME NEW q \in Pairs, owner'[q] # None
               PROVE  pc'[owner'[q]] \in Owning /\ call'[owner'[q]].pair = q
    BY DEF OwnerInv
  <2>1. CASE q = p BY <1>3, <2>1 DEF Owning
  <2>2. CASE q # p
    <3>1. owner'[q] = owner[q] /\ owner[q] \in Threads \ {t}
      BY <1>1, <1>2, <1>3, <2>2, PairParts DEF OwnerInv, Owning
    <3> QED BY <1>1, <1>3, <3>1 DEF OwnerInv
  <2> QED BY <2>1, <2>2
<1>9. PairsInv'
  <2> SUFFICES ASSUME NEW q \in Pairs PROVE PairInv(q)' BY DEF PairsInv
  <2>1. PairInv(q) BY <1>1 DEF PairsInv
  <2>2. Busy(q) => q # p BY <1>2, <2>1 DEF PairInv
  <2> QED BY <1>2, <1>3, <2>1, <2>2, PairStable DEF rotationVars, staticVars, gpuVars
<1>10. JobsInv' BY <1>1, <1>2, <1>3, JobsStable DEF staticVars, gpuVars
<1>11. WaitsInv'
  <2> SUFFICES ASSUME NEW u \in Threads PROVE WaitInv(u)' BY DEF WaitsInv
  <2>1. CASE u = t BY <1>3, <2>1 DEF WaitInv
  <2>2. CASE u # t
    BY <1>1, <1>2, <1>3, <2>2, WaitStable DEF WaitsInv, staticVars, gpuVars
  <2> QED BY <2>1, <2>2
<1> QED BY <1>4, <1>5, <1>6, <1>7, <1>8, <1>9, <1>10, <1>11 DEF Inv

\* The completed value of a WLC channel follows the published one.
LEMMA ObserveWlc ==
    ASSUME TypeOK, NEW p \in Pairs, wlc' = [wlc EXCEPT ![p] = Observed(@)]
    PROVE  /\ wlc' \in [Pairs -> Semaphores]
           /\ \A q \in Pairs : /\ wlc'[q].queued = wlc[q].queued
                               /\ wlc'[q].published = wlc[q].published
                               /\ q # p => wlc'[q] = wlc[q]
           /\ wlc'[p].completed = wlc[p].published
<1>1. Observed(wlc[p]) \in Semaphores BY PairParts DEF Observed, Semaphores
<1>2. /\ Observed(wlc[p]).queued = wlc[p].queued
      /\ Observed(wlc[p]).published = wlc[p].published
      /\ Observed(wlc[p]).completed = wlc[p].published
  BY PairParts DEF Observed, Semaphores
<1> QED BY <1>1, <1>2 DEF TypeOK

LEMMA ObservedPair ==
    ASSUME TypeOK, NEW p \in Pairs, PairInv(p), wlc' = [wlc EXCEPT ![p] = Observed(@)],
           UNCHANGED <<owner, key_version, lcic, staticVars, gpuVars>>,
           Busy(p) => pending'[p]
    PROVE  PairInv(p)'
<1>1. /\ wlc'[p].queued = wlc[p].queued /\ wlc'[p].published = wlc[p].published
      /\ wlc'[p].completed = wlc[p].published
  BY ObserveWlc
<1>2. wlc'[p].completed <= wlc'[p].published BY <1>1, PairParts
<1> QED BY <1>1, <1>2 DEF PairInv, Busy, staticVars, gpuVars

LEMMA SpinUpdateInv == ASSUME Inv, NEW t \in Threads, NEW p \in Pairs, SpinUpdate(t, p) PROVE Inv'
<1>1. /\ TypeOK /\ UnitsInv /\ LocksInv /\ ThreadsInv /\ OwnerInv /\ PairsInv /\ JobsInv
      /\ WaitsInv
  BY DEF Inv
<1>2. UNCHANGED <<owner, push_sem, pool_lock, rotationVars, lcic, staticVars, gpuVars, jobs,
                  pc, call>>
  BY DEF SpinUpdate
<1>3. \/ /\ wlc' = [wlc EXCEPT ![p] = Observed(@)]
         /\ pending' = [pending EXCEPT ![p] = @ /\ wlc[p].published < wlc[p].queued]
         /\ fatal_error' = fatal_error
      \/ fatal_error' = TRUE /\ wlc' = wlc /\ pending' = pending
  BY DEF SpinUpdate
<1>4. /\ wlc' \in [Pairs -> Semaphores]
      /\ \A q \in Pairs : /\ wlc'[q].queued = wlc[q].queued
                          /\ wlc'[q].published = wlc[q].published
                          /\ q # p => wlc'[q] = wlc[q] /\ pending'[q] = pending[q]
  BY <1>1, <1>3, ObserveWlc DEF TypeOK
<1>5. TypeOK'
  <2>1. fatal_error' \in BOOLEAN BY <1>1, <1>3 DEF TypeOK
  <2>2. pending' \in [Pairs -> BOOLEAN] BY <1>1, <1>3 DEF TypeOK
  <2> QED BY <1>1, <1>2, <1>4, <2>1, <2>2 DEF TypeOK, rotationVars, staticVars, gpuVars
<1>6. UnitsInv' BY <1>1, <1>2 DEF UnitsInv, Holders
<1>7. LocksInv' BY <1>1, <1>2 DEF LocksInv, rotationVars
<1>8. ThreadsInv'
  <2> SUFFICES ASSUME NEW u \in Threads PROVE ThreadInv(u)' BY DEF ThreadsInv
  <2>1. pc[u] \in Owning => call[u].pair \in Pairs BY <1>1, OwnPair
  <2>2. jobs' \in Nat /\ jobs <= jobs' BY <1>1, <1>2 DEF TypeOK
  <2> QED BY <1>1, <1>2, <1>4, <2>1, <2>2, ThreadStable
          DEF ThreadsInv, rotationVars, staticVars
<1>9. OwnerInv' BY <1>1, <1>2 DEF OwnerInv
<1>10. PairsInv'
  <2> SUFFICES ASSUME NEW q \in Pairs PROVE PairInv(q)' BY DEF PairsInv
  <2>1. PairInv(q) BY <1>1 DEF PairsInv
  <2>2. CASE wlc' = wlc /\ pending' = pending
    BY <1>2, <2>1, <2>2, PairStable DEF rotationVars, staticVars, gpuVars
  <2>3. CASE q # p
    BY <1>2, <1>4, <2>1, <2>3, PairStable DEF rotationVars, staticVars, gpuVars
  <2>4. CASE /\ q = p /\ wlc' = [wlc EXCEPT ![p] = Observed(@)]
             /\ pending' = [pending EXCEPT ![p] = @ /\ wlc[p].published < wlc[p].queued]
    <3>1. Busy(p) => pending'[p] BY <1>1, <2>1, <2>4 DEF TypeOK, PairInv
    <3> QED BY <1>1, <1>2, <2>1, <2>4, <3>1, ObservedPair DEF rotationVars
  <2> QED BY <1>3, <2>2, <2>3, <2>4
<1>11. JobsInv' BY <1>1, <1>2, JobsStable DEF staticVars, gpuVars
<1>12. WaitsInv'
  <2> SUFFICES ASSUME NEW u \in Threads PROVE WaitInv(u)' BY DEF WaitsInv
  <2>1. pc[u] = "wait" => call[u].pair \in Pairs BY <1>1 DEF ThreadsInv, ThreadInv
  <2> QED BY <1>1, <1>2, <1>3, <1>4, <2>1, WaitStable DEF WaitsInv, staticVars, gpuVars
<1> QED BY <1>5, <1>6, <1>7, <1>8, <1>9, <1>10, <1>11, <1>12 DEF Inv

\* A thread that gets past its wait has had its job started, once.
LEMMA WaitInvStep ==
    ASSUME Inv, NEW t \in Threads, Wait(t)
    PROVE  Inv' /\ (launched[call[t].job] = 1 \/ fatal_error)
<1> DEFINE p == call[t].pair
<1>1. /\ TypeOK /\ UnitsInv /\ LocksInv /\ ThreadsInv /\ OwnerInv /\ PairsInv /\ JobsInv
      /\ WaitsInv
  BY DEF Inv
<1>2. /\ pc[t] = "wait" /\ Return(t)
      /\ wlc' = wlc \/ wlc' = [wlc EXCEPT ![p] = Observed(@)]
      /\ UNCHANGED <<poolVars, rotationVars, lcic, staticVars, gpuVars, fatal_error, jobs>>
      /\ \/ wlc[p].completed >= call[t].value
         \/ wlc[p].published >= call[t].value \/ fatal_error
  BY DEF Wait, AwaitedValue
<1>3. p \in Pairs BY <1>1, <1>2 DEF ThreadsInv, ThreadInv
<1>4. /\ pc' = [pc EXCEPT ![t] = "idle"] /\ call'[t] = NoCall /\ call'[t].job = 0
      /\ pc' \in [Threads -> PcStates] /\ call' \in [Threads -> Calls]
      /\ \A u \in Threads \ {t} : call'[u] = call[u]
  BY <1>1, <1>2, ReturnFacts
<1>5. pc'[t] = "idle" /\ \A u \in Threads \ {t} : pc'[u] = pc[u] BY <1>1, <1>4 DEF TypeOK
<1>6. launched[call[t].job] = 1 \/ fatal_error
  <2> SUFFICES ASSUME ~fatal_error PROVE launched[call[t].job] = 1 OBVIOUS
  <2>1. PairInv(p) BY <1>1, <1>3 DEF PairsInv
  <2>2. /\ wlc[p].completed \in Nat /\ wlc[p].published \in Nat /\ wlc[p].queued \in Nat
        /\ call[t].value \in Nat
    BY <1>1, <1>3, PairParts, ThreadParts
  <2>3. wlc[p].published >= call[t].value BY <1>2, <2>1, <2>2 DEF PairInv
  <2>4. ~(doorbell[p] /\ static_pb[p].value = call[t].value)
    BY <2>1, <2>2, <2>3 DEF PairInv, Busy
  <2>5. ~(gpu[p].phase \in {"run", "release"} /\ gpu[p].run_pb.value = call[t].value)
    BY <2>1, <2>2, <2>3 DEF PairInv, Busy
  <2>6. WaitInv(t) BY <1>1 DEF WaitsInv
  <2> QED BY <1>2, <2>4, <2>5, <2>6 DEF WaitInv
<1> HIDE DEF p
<1>7. /\ wlc' \in [Pairs -> Semaphores]
      /\ \A q \in Pairs : /\ wlc'[q].queued = wlc[q].queued
                          /\ wlc'[q].published = wlc[q].published
                          /\ q # p => wlc'[q] = wlc[q]
  <2>1. CASE wlc' = wlc BY <1>1, <2>1 DEF TypeOK
  <2>2. CASE wlc' = [wlc EXCEPT ![p] = Observed(@)] BY <1>1, <1>3, <2>2, ObserveWlc
  <2> QED BY <1>2, <2>1, <2>2
<1>8. TypeOK'
  BY <1>1, <1>2, <1>4, <1>7 DEF TypeOK, poolVars, rotationVars, staticVars, gpuVars
<1>9. UnitsInv' BY <1>1, <1>2, <1>4, UnitsStable DEF Holding, AllReserved, poolVars
<1>10. LocksInv'
  BY <1>1, <1>2, <1>5 DEF LocksInv, Rotating, AllReserved, Ending, poolVars, rotationVars
<1>11. ThreadsInv'
  <2>1. ThreadInv(t)' BY <1>2, <1>4, <1>5, IdleOrReserve
  <2>2. \A u \in Threads \ {t} : ThreadInv(u)'
    <3> SUFFICES ASSUME NEW u \in Threads \ {t} PROVE ThreadInv(u)' OBVIOUS
    <3>1. pc[u] \in Owning => call[u].pair \in Pairs BY <1>1, OwnPair
    <3>2. jobs' \in Nat /\ jobs <= jobs' BY <1>1, <1>2 DEF TypeOK
    <3> QED BY <1>1, <1>2, <1>4, <1>5, <1>7, <3>1, <3>2, ThreadStable
            DEF ThreadsInv, poolVars, rotationVars, staticVars
  <2> QED BY <2>1, <2>2 DEF ThreadsInv
<1>12. OwnerInv'
  <2> SUFFICES ASSUME NEW q \in Pairs, owner[q] # None
               PROVE  pc'[owner[q]] \in Owning /\ call'[owner[q]].pair = q
    BY <1>2 DEF OwnerInv, poolVars
  <2>1. owner[q] \in Threads \ {t} BY <1>1, <1>2, PairParts DEF OwnerInv, Owning
  <2> QED BY <1>1, <1>4, <1>5, <2>1 DEF OwnerInv
<1>13. PairsInv'
  <2> SUFFICES ASSUME NEW q \in Pairs PROVE PairInv(q)' BY DEF PairsInv
  <2>1. PairInv(q) BY <1>1 DEF PairsInv
  <2>2. CASE wlc'[q] = wlc[q]
    BY <1>2, <2>1, <2>2, PairStable DEF poolVars, rotationVars, staticVars, gpuVars
  <2>3. CASE q = p /\ wlc' = [wlc EXCEPT ![p] = Observed(@)]
    <3>1. Busy(p) => pending'[p] BY <1>2, <2>1, <2>3 DEF PairInv, poolVars
    <3> QED BY <1>1, <1>2, <1>3, <2>1, <2>3, <3>1, ObservedPair DEF poolVars, rotationVars
  <2> QED BY <1>2, <1>7, <2>2, <2>3
<1>14. JobsInv' BY <1>1, <1>2, <1>4, <1>5, JobsStable DEF staticVars, gpuVars
<1>15. WaitsInv'
  <2> SUFFICES ASSUME NEW u \in Threads PROVE WaitInv(u)' BY DEF WaitsInv
  <2>1. CASE u = t BY <1>5, <2>1 DEF WaitInv
  <2>2. CASE u # t
    <3>1. pc[u] = "wait" => call[u].pair \in Pairs BY <1>1 DEF ThreadsInv, ThreadInv
    <3> QED BY <1>1, <1>2, <1>4, <1>5, <1>7, <2>2, <3>1, WaitStable
            DEF WaitsInv, staticVars, gpuVars
  <2> QED BY <2>1, <2>2
<1> QED BY <1>6, <1>8, <1>9, <1>10, <1>11, <1>12, <1>13, <1>14, <1>15 DEF Inv

-----------------------------------------------------------------------------
(* Steps of the thread that owns a pair.                                   *)

\* They leave every other pair alone, and theirs is not busy.
LEMMA OwnerStep ==
    ASSUME Inv, TypeOK', NEW t \in Threads, NEW p \in Pairs,
           pc[t] \in Owning, call[t].pair = p,
           \A u \in Threads \ {t} : pc'[u] = pc[u] /\ call'[u] = call[u],
           \A q \in Pairs \ {p} :
              /\ owner'[q] = owner[q] /\ pending'[q] = pending[q]
              /\ wlc'[q] = wlc[q] /\ lcic'[q] = lcic[q] /\ launch_tag'[q] = launch_tag[q]
              /\ static_pb'[q] = static_pb[q] /\ doorbell'[q] = doorbell[q],
           UNCHANGED <<key_version, jobs, gpu, launched>>,
           wlc'[p].published = wlc[p].published,
           \/ owner'[p] = None
           \/ owner'[p] = t /\ pc'[t] \in Owning /\ call'[t].pair = p,
           fatal_error => fatal_error',
           UnitsInv', LocksInv', ThreadInv(t)', PairInv(p)', JobsInv', WaitInv(t)'
    PROVE  Inv'
<1>1. /\ TypeOK /\ UnitsInv /\ LocksInv /\ ThreadsInv /\ OwnerInv /\ PairsInv /\ JobsInv
      /\ WaitsInv
  BY DEF Inv
<1>2. \A u \in Threads : pc[u] # "rotate_key"
  <2>1. t \in Holders BY DEF Holders, Holding, Owning
  <2> QED BY <1>1, <2>1 DEF UnitsInv, AllReserved
<1>3. ~Busy(p) BY <1>1, OwnPair, OwnedIsNotBusy, ThreadAssumption
<1>4. ThreadsInv'
  <2> SUFFICES ASSUME NEW u \in Threads \ {t} PROVE ThreadInv(u)' BY DEF ThreadsInv
  <2>1. pc[u] \in Owning => call[u].pair \in Pairs \ {p} BY <1>1, OwnPair
  <2>2. jobs' \in Nat /\ jobs <= jobs' BY <1>1 DEF TypeOK
  <2>3. pc[u] = "submit" => pc[u] \in Owning BY DEF Owning
  <2> QED BY <1>1, <1>2, <2>1, <2>2, <2>3, ThreadStable DEF ThreadsInv
<1>5. OwnerInv'
  <2> SUFFICES ASSUME NEW q \in Pairs, owner'[q] # None
               PROVE  pc'[owner'[q]] \in Owning /\ call'[owner'[q]].pair = q
    BY DEF OwnerInv
  <2>1. CASE q = p BY <2>1
  <2>2. CASE q # p
    <3>1. owner'[q] = owner[q] /\ owner[q] \in Threads \ {t}
      BY <1>1, <2>2, PairParts DEF OwnerInv
    <3> QED BY <1>1, <3>1 DEF OwnerInv
  <2> QED BY <2>1, <2>2
<1>6. PairsInv'
  <2> SUFFICES ASSUME NEW q \in Pairs \ {p} PROVE PairInv(q)' BY DEF PairsInv
  <2> QED BY <1>1, PairStable DEF PairsInv
<1>7. WaitsInv'
  <2> SUFFICES ASSUME NEW u \in Threads \ {t} PROVE WaitInv(u)' BY DEF WaitsInv
  <2>1. WaitInv(u) BY <1>1 DEF WaitsInv
  <2>2. pc[u] = "wait" => call[u].pair \in Pairs BY <1>1 DEF ThreadsInv, ThreadInv
  <2>3. CASE call[u].pair = p BY <1>3, <2>1, <2>3 DEF WaitInv, Busy
  <2>4. CASE call[u].pair # p BY <2>1, <2>2, <2>4, WaitStable
  <2> QED BY <2>3, <2>4
<1> QED BY <1>4, <1>5, <1>6, <1>7 DEF Inv

LEMMA ReleaseLaunchChannelInv ==
    ASSUME Inv, NEW t \in Threads, ReleaseLaunchChannel(t) PROVE Inv'
<1>1. /\ TypeOK /\ UnitsInv /\ LocksInv /\ ThreadsInv /\ OwnerInv /\ PairsInv /\ JobsInv
      /\ WaitsInv
  BY DEF Inv
<1>2. pc[t] = "launch" /\ pc[t] \in Owning BY DEF ReleaseLaunchChannel, Owning
<1>3. PICK p \in Pairs : p = call[t].pair /\ owner[p] = t BY <1>1, <1>2, OwnPair
<1>4. /\ pc[t] = "launch" /\ owner' = [owner EXCEPT ![p] = None]
      /\ push_sem' = push_sem + 1 /\ Return(t)
      /\ UNCHANGED <<pending, pool_lock, rotationVars, wlc, lcic, staticVars, gpuVars,
                     fatal_error, jobs>>
  BY <1>3 DEF ReleaseLaunchChannel
<1>5. /\ pc' = [pc EXCEPT ![t] = "idle"] /\ call'[t] = NoCall /\ call'[t].job = 0
      /\ pc' \in [Threads -> PcStates] /\ call' \in [Threads -> Calls]
      /\ \A u \in Threads \ {t} : call'[u] = call[u]
  BY <1>1, <1>4, ReturnFacts
<1>6. /\ pc'[t] = "idle" /\ \A u \in Threads \ {t} : pc'[u] = pc[u]
      /\ owner'[p] = None /\ \A q \in Pairs \ {p} : owner'[q] = owner[q]
  BY <1>1, <1>4, <1>3, <1>5 DEF TypeOK
<1>7. UnitsInv' /\ push_sem' \in 0 .. Cardinality(Pairs)
  BY <1>1, <1>4, <1>5, UnitGiven DEF Holding, AllReserved
<1>8. TypeOK'
  <2>1. owner' \in [Pairs -> Threads \cup {None}] BY <1>1, <1>4 DEF TypeOK
  <2> QED BY <1>1, <1>4, <1>5, <1>7, <2>1 DEF TypeOK, rotationVars, staticVars, gpuVars
<1>9. LocksInv'
  BY <1>1, <1>4, <1>6 DEF LocksInv, Rotating, AllReserved, Ending, rotationVars
<1>10. ThreadInv(t)' BY <1>4, <1>5, <1>6, IdleOrReserve
<1>11. PairInv(p)'
  <2>1. ~Busy(p) BY <1>1, <1>3, OwnedIsNotBusy, ThreadAssumption
  <2> QED BY <1>1, <1>4, <1>3, <2>1, PairStable DEF PairsInv, rotationVars, staticVars, gpuVars
<1>12. JobsInv' BY <1>1, <1>4, <1>5, <1>6, JobsStable DEF staticVars, gpuVars
<1>13. WaitInv(t)' BY <1>6 DEF WaitInv
<1> QED BY <1>2, <1>4, <1>3, <1>5, <1>6, <1>7, <1>8, <1>9, <1>10, <1>11, <1>12, <1>13, OwnerStep
        DEF rotationVars, staticVars, gpuVars

LEMMA LaunchInv == ASSUME Inv, NEW t \in Threads, Launch(t) PROVE Inv'
<1>1. /\ TypeOK /\ UnitsInv /\ LocksInv /\ ThreadsInv /\ OwnerInv /\ PairsInv /\ JobsInv
      /\ WaitsInv
  BY DEF Inv
<1>2. pc[t] = "launch" /\ pc[t] \in Owning BY DEF Launch, Owning
<1>3. PICK p \in Pairs : p = call[t].pair /\ owner[p] = t BY <1>1, <1>2, OwnPair
<1>4. /\ pc[t] = "launch" /\ pc' = [pc EXCEPT ![t] = "end_push"]
      /\ launch_tag' = [launch_tag EXCEPT ![p] = Tag(call[t].job, wlc[p].queued + 1)]
      /\ UNCHANGED <<poolVars, rotationVars, wlc, lcic, static_pb, doorbell, gpuVars,
                     fatal_error, jobs, call>>
  BY <1>3 DEF Launch, Goto, Tag
<1>5. Tag(call[t].job, wlc[p].queued + 1) \in Encrypted
  BY <1>1, <1>3, ThreadParts, PairParts DEF Tag, Encrypted, TypeOK
<1>6. Tag(call[t].job, wlc[p].queued + 1) = Tag(call[t].job, wlc[p].queued + 1)'
  BY <1>4 DEF Tag, rotationVars
<1>7. /\ pc'[t] = "end_push" /\ \A u \in Threads \ {t} : pc'[u] = pc[u]
      /\ launch_tag'[p] = Tag(call[t].job, wlc[p].queued + 1)
      /\ \A q \in Pairs \ {p} : launch_tag'[q] = launch_tag[q]
  BY <1>1, <1>4, <1>3 DEF TypeOK
<1>8. TypeOK'
  <2>1. launch_tag' \in [Pairs -> Encrypted] BY <1>1, <1>4, <1>5 DEF TypeOK
  <2>2. pc' \in [Threads -> PcStates] BY <1>1, <1>4 DEF TypeOK, PcStates
  <2> QED BY <1>1, <1>4, <2>1, <2>2 DEF TypeOK, poolVars, rotationVars, gpuVars
<1>9. UnitsInv' BY <1>1, <1>4, UnitsStable DEF Holding, AllReserved, poolVars
<1>10. LocksInv'
  BY <1>1, <1>4, <1>7 DEF LocksInv, Rotating, AllReserved, Ending, poolVars, rotationVars
<1>11. ThreadInv(t)'
  BY <1>1, <1>4, <1>3, <1>6, <1>7
     DEF ThreadsInv, ThreadInv, Owning, Ending, Rotating, AllReserved, poolVars, rotationVars
<1>12. PairInv(p)'
  <2>1. ~Busy(p) BY <1>1, <1>3, OwnedIsNotBusy, ThreadAssumption
  <2> QED BY <1>1, <1>4, <1>3, <2>1, PairStable DEF PairsInv, poolVars, rotationVars, gpuVars
<1>13. JobsInv'
  <2>1. \A u \in Threads : call'[u].job \in {0, call[u].job} /\ (pc'[u] # "wait" => pc[u] # "wait")
    BY <1>4, <1>7
  <2> QED BY <1>1, <1>4, <2>1, JobsStable DEF gpuVars
<1>14. WaitInv(t)' BY <1>7 DEF WaitInv
<1> QED BY <1>2, <1>4, <1>3, <1>7, <1>8, <1>9, <1>10, <1>11, <1>12, <1>13, <1>14, OwnerStep
        DEF Owning, poolVars, rotationVars, gpuVars

LEMMA EndPushInv == ASSUME Inv, NEW t \in Threads, EndPush(t) PROVE Inv'
<1>1. /\ TypeOK /\ UnitsInv /\ LocksInv /\ ThreadsInv /\ OwnerInv /\ PairsInv /\ JobsInv
      /\ WaitsInv
  BY DEF Inv
<1>2. pc[t] = "end_push" /\ pc[t] \in Owning BY DEF EndPush, Owning
<1>3. PICK p \in Pairs : p = call[t].pair /\ owner[p] = t BY <1>1, <1>2, OwnPair
<1>4. /\ pc[t] = "end_push" /\ pc' = [pc EXCEPT ![t] = "wait_lcic"]
      /\ pool_lock = None /\ pool_lock' = t
      /\ wlc' = [wlc EXCEPT ![p].queued = @ + 1]
      /\ call' = [call EXCEPT ![t].value = wlc[p].queued + 1]
      /\ UNCHANGED <<owner, pending, push_sem, rotationVars, lcic, staticVars, gpuVars,
                     fatal_error, jobs>>
  BY <1>3 DEF EndPush, Goto
<1>5. wlc[p] \in Semaphores /\ wlc[p].queued \in Nat /\ call[t] \in Calls
  BY <1>1, <1>3, PairParts, ThreadParts
<1>6. ~Busy(p) BY <1>1, <1>3, OwnedIsNotBusy, ThreadAssumption
<1>7. /\ wlc'[p].queued = wlc[p].queued + 1 /\ wlc'[p].published = wlc[p].published
      /\ wlc'[p].completed = wlc[p].completed
      /\ \A q \in Pairs \ {p} : wlc'[q] = wlc[q]
  BY <1>1, <1>4, <1>3, <1>5 DEF TypeOK, Semaphores
<1>8. /\ pc'[t] = "wait_lcic" /\ call'[t].value = wlc[p].queued + 1
      /\ call'[t].pair = p /\ call'[t].job = call[t].job /\ call'[t].force = call[t].force
      /\ \A u \in Threads \ {t} : pc'[u] = pc[u] /\ call'[u] = call[u]
  BY <1>1, <1>3, <1>4, <1>5 DEF TypeOK, Calls
<1>9. TypeOK'
  <2>1. wlc' \in [Pairs -> Semaphores]
    <3>1. [wlc[p] EXCEPT !.queued = @ + 1] \in Semaphores BY <1>5 DEF Semaphores
    <3> QED BY <1>1, <1>4, <3>1 DEF TypeOK
  <2>2. call' \in [Threads -> Calls]
    <3>1. [call[t] EXCEPT !.value = wlc[p].queued + 1] \in Calls BY <1>5 DEF Calls
    <3> QED BY <1>1, <1>4, <3>1 DEF TypeOK
  <2>3. pc' \in [Threads -> PcStates] BY <1>1, <1>4 DEF TypeOK, PcStates
  <2> QED BY <1>1, <1>4, <2>1, <2>2, <2>3 DEF TypeOK, rotationVars, staticVars, gpuVars
<1>10. UnitsInv' BY <1>1, <1>4, UnitsStable DEF Holding, AllReserved
<1>11. LocksInv'
  BY <1>1, <1>4, <1>8, ThreadAssumption
     DEF LocksInv, Rotating, AllReserved, Ending, rotationVars
<1>12. ThreadInv(t)'
  <2>1. ThreadInv(t) /\ PairInv(p) BY <1>1, <1>3 DEF ThreadsInv, PairsInv
  <2>2. launch_tag'[p] = Tag(call[t].job, call[t].value)'
    BY <1>3, <1>4, <1>8, <2>1 DEF ThreadInv, Tag, rotationVars, staticVars
  <2>3. wlc'[p].published < wlc'[p].queued
    <3>1. wlc[p].published \in Nat BY <1>1, <1>3, PairParts
    <3> QED BY <1>5, <1>7, <2>1, <3>1 DEF PairInv
  <2> QED BY <1>4, <1>3, <1>7, <1>8, <2>1, <2>2, <2>3
          DEF ThreadInv, Owning, Ending, Rotating, AllReserved
<1>13. PairInv(p)'
  <2>1. PairInv(p) /\ wlc[p].published \in Nat BY <1>1, <1>3, PairParts DEF PairsInv
  <2>2. wlc[p].published <= wlc[p].queued + 1 BY <1>5, <2>1 DEF PairInv
  <2> QED BY <1>4, <1>6, <1>7, <2>1, <2>2 DEF PairInv, Busy, rotationVars, staticVars, gpuVars
<1>14. JobsInv'
  <2>1. \A u \in Threads : call'[u].job \in {0, call[u].job} /\ (pc'[u] # "wait" => pc[u] # "wait")
    BY <1>4, <1>8
  <2> QED BY <1>1, <1>4, <2>1, JobsStable DEF staticVars, gpuVars
<1>15. WaitInv(t)' BY <1>8 DEF WaitInv
<1> QED BY <1>2, <1>4, <1>3, <1>7, <1>8, <1>9, <1>10, <1>11, <1>12, <1>13, <1>14, <1>15, OwnerStep
        DEF Owning, rotationVars, staticVars, gpuVars

LEMMA WaitLcicInv == ASSUME Inv, NEW t \in Threads, WaitLcic(t) PROVE Inv'
<1>1. /\ TypeOK /\ UnitsInv /\ LocksInv /\ ThreadsInv /\ OwnerInv /\ PairsInv /\ JobsInv
      /\ WaitsInv
  BY DEF Inv
<1>2. pc[t] = "wait_lcic" /\ pc[t] \in Owning BY DEF WaitLcic, Owning
<1>3. PICK p \in Pairs : p = call[t].pair /\ owner[p] = t BY <1>1, <1>2, OwnPair
<1>4. /\ lcic[p].published = lcic[p].queued
      /\ lcic' = [lcic EXCEPT ![p] = Observed(@)] /\ pc' = [pc EXCEPT ![t] = "submit"]
      /\ UNCHANGED <<poolVars, rotationVars, wlc, staticVars, gpuVars, fatal_error, jobs, call>>
  BY <1>3 DEF WaitLcic, Goto
<1>5. /\ lcic'[p].queued = lcic[p].queued /\ lcic'[p].published = lcic[p].published
      /\ lcic'[p].completed = lcic[p].published
      /\ \A q \in Pairs \ {p} : lcic'[q] = lcic[q]
  BY <1>1, <1>4, PairParts DEF TypeOK, Semaphores, Observed
<1>6. pc'[t] = "submit" /\ \A u \in Threads \ {t} : pc'[u] = pc[u] BY <1>1, <1>4 DEF TypeOK
<1>7. TypeOK'
  <2>1. Observed(lcic[p]) \in Semaphores BY <1>1, PairParts DEF Semaphores, Observed
  <2>2. lcic' \in [Pairs -> Semaphores] BY <1>1, <1>4, <2>1 DEF TypeOK
  <2>3. pc' \in [Threads -> PcStates] BY <1>1, <1>4 DEF TypeOK, PcStates
  <2> QED BY <1>1, <1>4, <2>2, <2>3 DEF TypeOK, poolVars, rotationVars, staticVars, gpuVars
<1>8. UnitsInv' BY <1>1, <1>2, <1>4, UnitsStable DEF Holding, AllReserved, poolVars
<1>9. LocksInv'
  BY <1>1, <1>2, <1>4, <1>6 DEF LocksInv, Rotating, AllReserved, Ending, poolVars, rotationVars
<1>10. ThreadInv(t)'
  BY <1>1, <1>2, <1>3, <1>4, <1>5, <1>6
     DEF ThreadsInv, ThreadInv, Tag, Owning, Ending, Rotating, AllReserved, poolVars,
         rotationVars, staticVars
<1>11. PairInv(p)'
  BY <1>1, <1>4, <1>5 DEF PairsInv, PairInv, Busy, poolVars, rotationVars, staticVars, gpuVars
<1>12. JobsInv'
  <2>1. \A u \in Threads : call'[u].job \in {0, call[u].job} /\ (pc'[u] # "wait" => pc[u] # "wait")
    BY <1>2, <1>4, <1>6
  <2> QED BY <1>1, <1>4, <2>1, JobsStable DEF staticVars, gpuVars
<1>13. WaitInv(t)' BY <1>6 DEF WaitInv
<1> QED BY <1>2, <1>3, <1>4, <1>5, <1>6, <1>7, <1>8, <1>9, <1>10, <1>11, <1>12, <1>13, OwnerStep
        DEF Owning, poolVars, rotationVars, staticVars, gpuVars

\* The end of a push gives the pair, the unit and the pool lock back.
LEMMA UnlockFacts ==
    ASSUME Inv, NEW t \in Threads, NEW p \in Pairs, pc[t] \in Ending, Unlock(t, p),
           UNCHANGED rotationVars
    PROVE  /\ owner'[p] = None /\ pending'[p] = TRUE
           /\ \A q \in Pairs \ {p} : owner'[q] = owner[q] /\ pending'[q] = pending[q]
           /\ pc'[t] = "wait" /\ \A u \in Threads \ {t} : pc'[u] = pc[u]
           /\ owner' \in [Pairs -> Threads \cup {None}] /\ pending' \in [Pairs -> BOOLEAN]
           /\ push_sem' \in 0 .. Cardinality(Pairs) /\ pool_lock' = None
           /\ pc' \in [Threads -> PcStates] /\ UnitsInv' /\ LocksInv'
<1>1. TypeOK /\ UnitsInv /\ LocksInv BY DEF Inv
<1>2. /\ pending' = [pending EXCEPT ![p] = TRUE] /\ owner' = [owner EXCEPT ![p] = None]
      /\ push_sem' = push_sem + 1 /\ pool_lock' = None /\ pc' = [pc EXCEPT ![t] = "wait"]
  BY DEF Unlock, Goto
<1>3. pc'[t] = "wait" /\ \A u \in Threads \ {t} : pc'[u] = pc[u] BY <1>1, <1>2 DEF TypeOK
<1>4. UnitsInv' /\ push_sem' \in 0 .. Cardinality(Pairs)
  BY <1>1, <1>2, UnitGiven DEF Ending, Holding, AllReserved
<1>5. LocksInv'
  BY <1>1, <1>2, <1>3, ThreadAssumption
     DEF LocksInv, Rotating, AllReserved, Ending, rotationVars
<1>6. /\ owner' \in [Pairs -> Threads \cup {None}] /\ pending' \in [Pairs -> BOOLEAN]
      /\ pc' \in [Threads -> PcStates]
  BY <1>1, <1>2 DEF TypeOK, PcStates
<1>7. /\ owner'[p] = None /\ pending'[p] = TRUE
      /\ \A q \in Pairs \ {p} : owner'[q] = owner[q] /\ pending'[q] = pending[q]
  BY <1>1, <1>2 DEF TypeOK
<1> QED BY <1>2, <1>3, <1>4, <1>5, <1>6, <1>7

LEMMA WaitLcicFailsInv == ASSUME Inv, NEW t \in Threads, WaitLcicFails(t) PROVE Inv'
<1>1. /\ TypeOK /\ UnitsInv /\ LocksInv /\ ThreadsInv /\ OwnerInv /\ PairsInv /\ JobsInv
      /\ WaitsInv
  BY DEF Inv
<1>2. pc[t] = "wait_lcic" /\ pc[t] \in Owning /\ pc[t] \in Ending
  BY DEF WaitLcicFails, Owning, Ending
<1>3. PICK p \in Pairs : p = call[t].pair /\ owner[p] = t BY <1>1, <1>2, OwnPair
<1>4. /\ fatal_error' = TRUE /\ Unlock(t, p)
      /\ UNCHANGED <<rotationVars, wlc, lcic, staticVars, gpuVars, jobs, call>>
  BY <1>3 DEF WaitLcicFails
<1>5. /\ owner'[p] = None /\ pending'[p] = TRUE
      /\ \A q \in Pairs \ {p} : owner'[q] = owner[q] /\ pending'[q] = pending[q]
      /\ pc'[t] = "wait" /\ \A u \in Threads \ {t} : pc'[u] = pc[u]
      /\ owner' \in [Pairs -> Threads \cup {None}] /\ pending' \in [Pairs -> BOOLEAN]
      /\ push_sem' \in 0 .. Cardinality(Pairs) /\ pool_lock' = None
      /\ pc' \in [Threads -> PcStates] /\ UnitsInv' /\ LocksInv'
  BY <1>2, <1>4, UnlockFacts
<1>6. TypeOK' BY <1>1, <1>4, <1>5 DEF TypeOK, rotationVars, staticVars, gpuVars
<1>7. ThreadInv(t)'
  BY <1>1, <1>2, <1>3, <1>4, <1>5
     DEF ThreadsInv, ThreadInv, Owning, Ending, Rotating, AllReserved
<1>8. PairInv(p)'
  <2>1. ~Busy(p) BY <1>1, <1>3, OwnedIsNotBusy, ThreadAssumption
  <2> QED BY <1>1, <1>4, <2>1, PairStable DEF PairsInv, rotationVars, staticVars, gpuVars
<1>9. JobsInv'
  <2>1. \A u \in Threads : call'[u].job \in {0, call[u].job} /\ (pc'[u] # "wait" => pc[u] # "wait")
    BY <1>2, <1>4, <1>5
  <2> QED BY <1>1, <1>4, <2>1, JobsStable DEF staticVars, gpuVars
<1>10. WaitInv(t)' BY <1>4 DEF WaitInv
<1> QED BY <1>2, <1>3, <1>4, <1>5, <1>6, <1>7, <1>8, <1>9, <1>10, OwnerStep
        DEF rotationVars, staticVars, gpuVars

\* The doorbell rings for a pair that is idle and primed, with a job that no other
\* pair has.
LEMMA SubmitInv == ASSUME Inv, NEW t \in Threads, Submit(t) PROVE Inv'
<1>1. /\ TypeOK /\ UnitsInv /\ LocksInv /\ ThreadsInv /\ OwnerInv /\ PairsInv /\ JobsInv
      /\ WaitsInv
  BY DEF Inv
<1>2. pc[t] = "submit" /\ pc[t] \in Owning /\ pc[t] \in Ending BY DEF Submit, Owning, Ending
<1>3. PICK p \in Pairs : p = call[t].pair /\ owner[p] = t BY <1>1, <1>2, OwnPair
<1>4. /\ lcic' = [lcic EXCEPT ![p].queued = @ + 1]
      /\ static_pb' = [static_pb EXCEPT ![p] = Tag(call[t].job, call[t].value)]
      /\ doorbell' = [doorbell EXCEPT ![p] = TRUE] /\ Unlock(t, p)
      /\ UNCHANGED <<rotationVars, wlc, launch_tag, gpuVars, fatal_error, jobs, call>>
  BY <1>3 DEF Submit, Tag
<1>5. /\ owner'[p] = None /\ pending'[p] = TRUE
      /\ \A q \in Pairs \ {p} : owner'[q] = owner[q] /\ pending'[q] = pending[q]
      /\ pc'[t] = "wait" /\ \A u \in Threads \ {t} : pc'[u] = pc[u]
      /\ owner' \in [Pairs -> Threads \cup {None}] /\ pending' \in [Pairs -> BOOLEAN]
      /\ push_sem' \in 0 .. Cardinality(Pairs) /\ pool_lock' = None
      /\ pc' \in [Threads -> PcStates] /\ UnitsInv' /\ LocksInv'
  BY <1>2, <1>4, UnlockFacts
<1>6. /\ launch_tag[p] = Tag(call[t].job, call[t].value) /\ call[t].value = wlc[p].queued
      /\ wlc[p].published < wlc[p].queued /\ lcic[p].published = lcic[p].queued
      /\ call[t].job \in 1 .. jobs
  BY <1>1, <1>2, <1>3 DEF ThreadsInv, ThreadInv, Rotating, AllReserved
<1>7. Tag(call[t].job, call[t].value) \in Encrypted
  BY <1>1, ThreadParts DEF Tag, Encrypted, TypeOK
<1>8. /\ lcic'[p].queued = lcic[p].queued + 1 /\ lcic'[p].published = lcic[p].published
      /\ lcic'[p].completed = lcic[p].completed /\ lcic'[p].key = lcic[p].key
      /\ \A q \in Pairs \ {p} : lcic'[q] = lcic[q]
  BY <1>1, <1>4, PairParts DEF TypeOK, Semaphores
<1>9. /\ static_pb'[p] = launch_tag[p] /\ doorbell'[p] = TRUE
      /\ \A q \in Pairs \ {p} : static_pb'[q] = static_pb[q] /\ doorbell'[q] = doorbell[q]
  BY <1>1, <1>4, <1>6 DEF TypeOK
<1>10. /\ launch_tag[p].job = call[t].job /\ launch_tag[p].value = call[t].value
       /\ launch_tag[p].key = key_version
  BY <1>6 DEF Tag
<1>11. TypeOK'
  <2>1. lcic' \in [Pairs -> Semaphores]
    <3>1. [lcic[p] EXCEPT !.queued = @ + 1] \in Semaphores BY <1>1, PairParts DEF Semaphores
    <3> QED BY <1>1, <1>4, <3>1 DEF TypeOK
  <2>2. static_pb' \in [Pairs -> Encrypted] BY <1>1, <1>4, <1>7 DEF TypeOK
  <2>3. doorbell' \in [Pairs -> BOOLEAN] BY <1>1, <1>4 DEF TypeOK
  <2> QED BY <1>1, <1>4, <1>5, <2>1, <2>2, <2>3 DEF TypeOK, rotationVars, gpuVars
<1>12. ThreadInv(t)'
  BY <1>1, <1>2, <1>3, <1>4, <1>5
     DEF ThreadsInv, ThreadInv, Owning, Ending, Rotating, AllReserved
<1>13. PairInv(p)'
  <2>1. PairInv(p) /\ lcic[p].published \in Nat BY <1>1, PairParts DEF PairsInv
  <2>2. ~doorbell[p] /\ gpu[p].phase = "idle" BY <1>6, <2>1 DEF PairInv
  <2> QED BY <1>4, <1>5, <1>6, <1>8, <1>9, <1>10, <2>1, <2>2
          DEF PairInv, Busy, rotationVars, gpuVars
<1>14. JobsInv'
  <2>1. /\ Active(p)' /\ ActiveJob(p)' = call[t].job
        /\ \A q \in Pairs \ {p} : Active(q)' = Active(q) /\ ActiveJob(q)' = ActiveJob(q)
    BY <1>4, <1>9, <1>10 DEF Active, ActiveJob, gpuVars
  <2>2. /\ call[t].job # 0 /\ launched[call[t].job] = 0
        /\ \A q \in Pairs : Active(q) => ActiveJob(q) # call[t].job
        /\ \A u \in Threads \ {t} : call[u].job # call[t].job
    BY <1>1, <1>2, <1>6 DEF JobsInv
  <2>3. launched' = launched /\ jobs' = jobs /\ call' = call BY <1>4 DEF gpuVars
  <2>4. \A q \in Pairs : Active(q)' => /\ ActiveJob(q)' \in 1 .. jobs'
                                       /\ launched'[ActiveJob(q)'] = 0
    BY <1>1, <1>6, <2>1, <2>2, <2>3 DEF JobsInv
  <2>5. \A q, r \in Pairs : Active(q)' /\ Active(r)' /\ q # r => ActiveJob(q)' # ActiveJob(r)'
    BY <1>1, <2>1, <2>2 DEF JobsInv
  <2>6. \A u \in Threads : call'[u].job # 0 /\ pc'[u] # "wait" =>
            /\ launched'[call'[u].job] = 0
            /\ \A q \in Pairs : Active(q)' => ActiveJob(q)' # call'[u].job
    BY <1>1, <1>5, <2>1, <2>2, <2>3 DEF JobsInv
  <2>7. /\ \A j \in Jobs : j > jobs' => launched'[j] = 0
        /\ \A u, v \in Threads : u # v /\ call'[u].job # 0 => call'[u].job # call'[v].job
    BY <1>1, <2>3 DEF JobsInv
  <2> QED BY <2>4, <2>5, <2>6, <2>7 DEF JobsInv
<1>15. WaitInv(t)' BY <1>3, <1>4, <1>9, <1>10 DEF WaitInv
<1>16. /\ UNCHANGED <<key_version, jobs, gpu, launched, fatal_error, wlc, launch_tag>>
       /\ \A u \in Threads \ {t} : pc'[u] = pc[u] /\ call'[u] = call[u]
  BY <1>4, <1>5 DEF rotationVars, gpuVars
<1>17. UnitsInv' /\ LocksInv' /\ owner'[p] = None BY <1>5
<1>18. \A q \in Pairs \ {p} :
          /\ owner'[q] = owner[q] /\ pending'[q] = pending[q]
          /\ wlc'[q] = wlc[q] /\ lcic'[q] = lcic[q] /\ launch_tag'[q] = launch_tag[q]
          /\ static_pb'[q] = static_pb[q] /\ doorbell'[q] = doorbell[q]
  BY <1>5, <1>8, <1>9, <1>16
<1> QED BY <1>2, <1>3, <1>11, <1>12, <1>13, <1>14, <1>15, <1>16, <1>17, <1>18, OwnerStep

-----------------------------------------------------------------------------
(* Steps of the GPU.                                                       *)

\* They disturb no thread: a pair with an owner has nothing to release, and a thread
\* that relies on an LCIC semaphore has seen its channel idle.
LEMMA GpuStep ==
    ASSUME Inv, TypeOK', NEW p \in Pairs,
           UNCHANGED <<poolVars, rotationVars, launch_tag, static_pb, fatal_error, jobs, pc,
                       call>>,
           \A q \in Pairs \ {p} : /\ wlc'[q] = wlc[q] /\ lcic'[q] = lcic[q]
                                  /\ doorbell'[q] = doorbell[q] /\ gpu'[q] = gpu[q],
           wlc'[p].queued = wlc[p].queued,
           wlc'[p].published = wlc[p].published \/ Busy(p),
           lcic'[p] = lcic[p] \/ gpu[p].phase = "publish",
           PairInv(p)', JobsInv', WaitsInv'
    PROVE  Inv'
<1> USE DEF poolVars, rotationVars
<1>1. TypeOK /\ UnitsInv /\ LocksInv /\ ThreadsInv /\ OwnerInv /\ PairsInv BY DEF Inv
<1>2. UnitsInv' BY <1>1 DEF UnitsInv, Holders
<1>3. LocksInv' BY <1>1 DEF LocksInv
<1>4. ThreadsInv'
  <2> SUFFICES ASSUME NEW t \in Threads PROVE ThreadInv(t)' BY DEF ThreadsInv
  <2>1. pc[t] \in Owning => call[t].pair \in Pairs /\ owner[call[t].pair] = t
    BY <1>1, OwnPair
  <2>2. pc[t] \in Owning /\ call[t].pair = p => wlc'[p].published = wlc[p].published
    BY <1>1, <2>1, OwnedIsNotBusy, ThreadAssumption
  <2>3. lcic[p].published = lcic[p].queued => lcic'[p] = lcic[p]
    <3>1. PairInv(p) /\ lcic[p].published \in Nat BY <1>1, PairParts DEF PairsInv
    <3> QED BY <3>1 DEF PairInv
  <2>4. pc[t] = "submit" => pc[t] \in Owning BY DEF Owning
  <2>5. pc[t] = "submit" => lcic'[call[t].pair] = lcic[call[t].pair]
    BY <1>1, <2>1, <2>3, <2>4 DEF ThreadsInv, ThreadInv
  <2>6. pc[t] = "rotate_key" => \A q \in Pairs : lcic'[q] = lcic[q]
    BY <1>1, <2>3 DEF ThreadsInv, ThreadInv
  <2>7. jobs' \in Nat /\ jobs <= jobs' BY <1>1 DEF TypeOK
  <2>8. pc[t] \in Owning => /\ wlc'[call[t].pair].queued = wlc[call[t].pair].queued
                            /\ wlc'[call[t].pair].published = wlc[call[t].pair].published
    BY <2>1, <2>2
  <2> QED BY <1>1, <2>5, <2>6, <2>7, <2>8, ThreadStable DEF ThreadsInv
<1>5. OwnerInv' BY <1>1 DEF OwnerInv
<1>6. PairsInv'
  <2> SUFFICES ASSUME NEW q \in Pairs \ {p} PROVE PairInv(q)' BY DEF PairsInv
  <2> QED BY <1>1, PairStable DEF PairsInv
<1> QED BY <1>2, <1>3, <1>4, <1>5, <1>6 DEF Inv

\* A thread that waits for a pair the step leaves alone.
LEMMA WaitElsewhere ==
    ASSUME Inv, NEW p \in Pairs, NEW t \in Threads, pc[t] = "wait" => call[t].pair # p,
           UNCHANGED <<static_pb, fatal_error, pc, call>>,
           \A q \in Pairs \ {p} : /\ wlc'[q] = wlc[q] /\ doorbell'[q] = doorbell[q]
                                  /\ gpu'[q] = gpu[q],
           pc[t] = "wait" /\ launched[call[t].job] = 1 => launched'[call[t].job] = 1
    PROVE  WaitInv(t)'
<1>1. pc[t] = "wait" => call[t].pair \in Pairs BY DEF Inv, ThreadsInv, ThreadInv
<1>2. WaitInv(t) BY DEF Inv, WaitsInv
<1> QED BY <1>1, <1>2 DEF WaitInv

LEMMA GpuTyped ==
    ASSUME TypeOK, NEW p \in Pairs, NEW phase \in Phases, NEW primed \in 0 .. 2
    PROVE  [gpu EXCEPT ![p].phase = phase, ![p].primed = primed]
              \in [Pairs -> [phase : Phases, primed : 0 .. 2, run_pb : Encrypted]]
<1>1. gpu \in [Pairs -> [phase : Phases, primed : 0 .. 2, run_pb : Encrypted]] BY DEF TypeOK
<1>2. gpu[p].phase \in Phases /\ gpu[p].primed \in 0 .. 2 /\ gpu[p].run_pb \in Encrypted
  BY <1>1
<1> QED BY <1>1, <1>2

LEMMA GpuDecryptInv == ASSUME Inv, NEW p \in Pairs, GpuDecrypt(p) PROVE Inv'
<1>1. TypeOK /\ PairsInv /\ JobsInv /\ WaitsInv BY DEF Inv
<1>2. /\ gpu[p].phase = "idle" /\ doorbell[p]
      /\ doorbell' = [doorbell EXCEPT ![p] = FALSE]
      /\ gpu' = [gpu EXCEPT ![p] = [phase |-> "run", primed |-> @.primed - 1,
                                    run_pb |-> static_pb[p]]]
      /\ UNCHANGED <<poolVars, rotationVars, wlc, lcic, launch_tag, static_pb, launched,
                     fatal_error, jobs, pc, call>>
  BY DEF GpuDecrypt
<1>3. PairInv(p) /\ gpu[p].primed = 2 BY <1>1, <1>2 DEF PairsInv, PairInv
<1>4. /\ gpu'[p] = [phase |-> "run", primed |-> 1, run_pb |-> static_pb[p]]
      /\ doorbell'[p] = FALSE
      /\ \A q \in Pairs \ {p} : doorbell'[q] = doorbell[q] /\ gpu'[q] = gpu[q]
  BY <1>1, <1>2, <1>3 DEF TypeOK
<1>5. TypeOK'
  <2>1. gpu' \in [Pairs -> [phase : Phases, primed : 0 .. 2, run_pb : Encrypted]]
    <3>1. [phase |-> "run", primed |-> 1, run_pb |-> static_pb[p]]
             \in [phase : Phases, primed : 0 .. 2, run_pb : Encrypted]
      BY <1>1, PairParts DEF Phases
    <3> QED BY <1>1, <1>2, <1>3, <3>1 DEF TypeOK
  <2>2. doorbell' \in [Pairs -> BOOLEAN] BY <1>1, <1>2 DEF TypeOK
  <2> QED BY <1>1, <1>2, <2>1, <2>2 DEF TypeOK, poolVars, rotationVars
<1>6. PairInv(p)' BY <1>2, <1>3, <1>4 DEF PairInv, Busy, poolVars, rotationVars
<1>7. JobsInv'
  <2>1. \A q \in Pairs : Active(q)' = Active(q) /\ ActiveJob(q)' = ActiveJob(q)
    BY <1>2, <1>4 DEF Active, ActiveJob
  <2> QED BY <1>1, <1>2, <2>1 DEF JobsInv
<1>8. WaitsInv'
  <2> SUFFICES ASSUME NEW t \in Threads PROVE WaitInv(t)' BY DEF WaitsInv
  <2>1. CASE call[t].pair = p
    <3>1. WaitInv(t) BY <1>1 DEF WaitsInv
    <3> QED BY <1>2, <1>4, <2>1, <3>1 DEF WaitInv
  <2>2. CASE call[t].pair # p BY <1>2, <1>4, <2>2, WaitElsewhere
  <2> QED BY <2>1, <2>2
<1> QED BY <1>2, <1>4, <1>5, <1>6, <1>7, <1>8, GpuStep

\* The run push starts its job, which nobody has started yet.
LEMMA GpuRunInv == ASSUME Inv, NEW p \in Pairs, GpuRun(p) PROVE Inv'
<1>1. TypeOK /\ PairsInv /\ JobsInv /\ WaitsInv /\ ThreadsInv BY DEF Inv
<1>2. /\ gpu[p].phase = "run"
      /\ launched' = [launched EXCEPT ![gpu[p].run_pb.job] = @ + 1]
      /\ gpu' = [gpu EXCEPT ![p].phase = "release", ![p].primed = @ - 1]
      /\ UNCHANGED <<poolVars, rotationVars, wlc, lcic, staticVars, fatal_error, jobs, pc,
                     call>>
  BY DEF GpuRun
<1>3. PairInv(p) /\ gpu[p].primed = 1 /\ ~doorbell[p] BY <1>1, <1>2 DEF PairsInv, PairInv
<1>4. PICK job \in 1 .. jobs : job = gpu[p].run_pb.job /\ launched[job] = 0 /\ job \in Jobs
  <2>1. Active(p) /\ ActiveJob(p) = gpu[p].run_pb.job BY <1>2, <1>3 DEF Active, ActiveJob
  <2>2. ActiveJob(p) \in 1 .. jobs /\ launched[ActiveJob(p)] = 0 BY <1>1, <2>1 DEF JobsInv
  <2> QED BY <1>1, <2>1, <2>2, BoundAssumption DEF Jobs, TypeOK
<1>5. launched'[job] = 1 /\ \A j \in Jobs \ {job} : launched'[j] = launched[j]
  BY <1>1, <1>2, <1>4 DEF TypeOK
<1>6. /\ gpu'[p].phase = "release" /\ gpu'[p].primed = 0 /\ gpu'[p].run_pb = gpu[p].run_pb
      /\ \A q \in Pairs \ {p} : gpu'[q] = gpu[q]
  BY <1>1, <1>2, <1>3, PairParts DEF TypeOK
<1>7. TypeOK'
  <2>1. gpu' \in [Pairs -> [phase : Phases, primed : 0 .. 2, run_pb : Encrypted]]
    <3>1. "release" \in Phases /\ gpu[p].primed - 1 \in 0 .. 2 BY <1>3 DEF Phases
    <3> QED BY <1>1, <1>2, <3>1, GpuTyped
  <2>2. launched' \in [Jobs -> Nat] BY <1>1, <1>2, <1>4 DEF TypeOK
  <2> QED BY <1>1, <1>2, <2>1, <2>2 DEF TypeOK, poolVars, rotationVars, staticVars
<1>8. PairInv(p)' BY <1>2, <1>3, <1>6 DEF PairInv, Busy, poolVars, rotationVars, staticVars
<1>9. JobsInv'
  <2>1. /\ ~Active(p)'
        /\ \A q \in Pairs \ {p} : (Active(q)' <=> Active(q)) /\ ActiveJob(q)' = ActiveJob(q)
    <3>1. UNCHANGED <<doorbell, static_pb>> BY <1>2 DEF staticVars
    <3>2. ~Active(p)' BY <1>3, <1>6, <3>1 DEF Active
    <3>3. \A q \in Pairs \ {p} : (Active(q)' <=> Active(q)) /\ ActiveJob(q)' = ActiveJob(q)
      BY <1>6, <3>1 DEF Active, ActiveJob
    <3> QED BY <3>2, <3>3
  <2>2. Active(p) /\ ActiveJob(p) = job BY <1>2, <1>3, <1>4 DEF Active, ActiveJob
  <2>3. /\ \A q \in Pairs \ {p} : Active(q) => ActiveJob(q) # job
        /\ \A t \in Threads : call[t].job # 0 /\ pc[t] # "wait" => call[t].job # job
    BY <1>1, <2>2 DEF JobsInv
  <2>4. UNCHANGED <<jobs, pc, call>> BY <1>2
  <2>5. jobs \in 0 .. MaxJobs BY <1>1 DEF TypeOK
  <2>6. \A j \in Jobs : j > jobs => launched'[j] = 0
    BY <1>1, <1>4, <1>5, <2>5 DEF JobsInv
  <2>7. \A q \in Pairs : Active(q)' => /\ ActiveJob(q)' \in 1 .. jobs
                                       /\ launched'[ActiveJob(q)'] = 0
    <3> SUFFICES ASSUME NEW q \in Pairs \ {p}, Active(q)
                 PROVE  ActiveJob(q) \in 1 .. jobs /\ launched'[ActiveJob(q)] = 0
      BY <2>1
    <3>1. ActiveJob(q) \in 1 .. jobs /\ launched[ActiveJob(q)] = 0 BY <1>1 DEF JobsInv
    <3>2. ActiveJob(q) \in Jobs \ {job} BY <2>3, <2>5, <3>1, BoundAssumption DEF Jobs
    <3> QED BY <1>5, <3>1, <3>2
  <2>8. \A q, r \in Pairs : Active(q)' /\ Active(r)' /\ q # r => ActiveJob(q)' # ActiveJob(r)'
    BY <1>1, <2>1 DEF JobsInv
  <2>9. \A t \in Threads : call[t].job # 0 /\ pc[t] # "wait" =>
            /\ launched'[call[t].job] = 0
            /\ \A q \in Pairs : Active(q)' => ActiveJob(q)' # call[t].job
    <3> SUFFICES ASSUME NEW t \in Threads, call[t].job # 0, pc[t] # "wait"
                 PROVE  /\ launched'[call[t].job] = 0
                        /\ \A q \in Pairs : Active(q)' => ActiveJob(q)' # call[t].job
      OBVIOUS
    <3>1. call[t].job \in Jobs \ {job} BY <1>1, <2>3, ThreadParts, BoundAssumption DEF Jobs
    <3> QED BY <1>1, <1>5, <2>1, <3>1 DEF JobsInv
  <2>10. \A t, u \in Threads : t # u /\ call[t].job # 0 => call[t].job # call[u].job
    BY <1>1 DEF JobsInv
  <2> QED BY <2>4, <2>6, <2>7, <2>8, <2>9, <2>10 DEF JobsInv
<1>10. WaitsInv'
  <2> SUFFICES ASSUME NEW t \in Threads, pc[t] = "wait" PROVE WaitInv(t)'
    BY <1>2 DEF WaitsInv, WaitInv
  <2>1. call[t].job \in Jobs
    <3>1. call[t].job \in 1 .. jobs
      BY <1>1 DEF ThreadsInv, ThreadInv, Rotating, AllReserved
    <3> QED BY <1>1, <3>1, BoundAssumption DEF Jobs, TypeOK
  <2>2. launched[call[t].job] = 1 => launched'[call[t].job] = 1 BY <1>4, <1>5, <2>1
  <2>3. CASE call[t].pair = p
    <3>1. WaitInv(t) BY <1>1 DEF WaitsInv
    <3> QED BY <1>2, <1>3, <1>4, <1>5, <1>6, <2>2, <2>3, <3>1 DEF WaitInv, staticVars
  <2>4. CASE call[t].pair # p BY <1>2, <1>6, <2>2, <2>4, WaitElsewhere DEF staticVars
  <2> QED BY <2>3, <2>4
<1> QED BY <1>2, <1>6, <1>7, <1>8, <1>9, <1>10, GpuStep DEF staticVars

\* The run push releases the value of the push, which a thread may wait for.
LEMMA GpuReleaseInv == ASSUME Inv, NEW p \in Pairs, GpuRelease(p) PROVE Inv'
<1>1. TypeOK /\ PairsInv /\ JobsInv /\ WaitsInv BY DEF Inv
<1>2. /\ gpu[p].phase = "release"
      /\ wlc' = [wlc EXCEPT ![p].published = gpu[p].run_pb.value, ![p].key = key_version]
      /\ gpu' = [gpu EXCEPT ![p].phase = "prime"]
      /\ UNCHANGED <<poolVars, rotationVars, lcic, staticVars, launched, fatal_error, jobs, pc,
                     call>>
  BY DEF GpuRelease
<1>3. PairInv(p) /\ ~doorbell[p] /\ gpu[p].run_pb.value = wlc[p].queued
  BY <1>1, <1>2 DEF PairsInv, PairInv
<1>4. /\ gpu'[p].phase = "prime" /\ gpu'[p].primed = gpu[p].primed
      /\ gpu'[p].run_pb = gpu[p].run_pb
      /\ \A q \in Pairs \ {p} : gpu'[q] = gpu[q]
  BY <1>1, <1>2, PairParts DEF TypeOK
<1>5. /\ wlc'[p].queued = wlc[p].queued /\ wlc'[p].completed = wlc[p].completed
      /\ wlc'[p].published = wlc[p].queued
      /\ \A q \in Pairs \ {p} : wlc'[q] = wlc[q]
  BY <1>1, <1>2, <1>3, PairParts DEF TypeOK, Semaphores
<1>6. TypeOK'
  <2>1. gpu' \in [Pairs -> [phase : Phases, primed : 0 .. 2, run_pb : Encrypted]]
    <3>1. [gpu[p] EXCEPT !.phase = "prime"]
             \in [phase : Phases, primed : 0 .. 2, run_pb : Encrypted]
      BY <1>1, PairParts DEF Phases
    <3> QED BY <1>1, <1>2, <3>1 DEF TypeOK
  <2>2. wlc' \in [Pairs -> Semaphores]
    <3>1. wlc \in [Pairs -> Semaphores] /\ wlc[p] \in Semaphores BY <1>1, PairParts DEF TypeOK
    <3>2. gpu[p].run_pb.value \in Nat /\ key_version \in Nat BY <1>1, PairParts DEF TypeOK
    <3> QED BY <1>2, <3>1, <3>2 DEF Semaphores
  <2> QED BY <1>1, <1>2, <2>1, <2>2 DEF TypeOK, poolVars, rotationVars, staticVars
<1>7. PairInv(p)'
  <2>1. wlc'[p].completed <= wlc'[p].published /\ wlc'[p].published <= wlc'[p].queued
    BY <1>1, <1>3, <1>5, PairParts DEF PairInv
  <2> QED BY <1>2, <1>3, <1>4, <1>5, <2>1
          DEF PairInv, Busy, poolVars, rotationVars, staticVars
<1>8. JobsInv'
  <2>1. UNCHANGED <<doorbell, static_pb, launched, jobs, pc, call>> BY <1>2 DEF staticVars
  <2>2. \A q \in Pairs : (Active(q)' <=> Active(q)) /\ (Active(q) => ActiveJob(q)' = ActiveJob(q))
    BY <1>2, <1>3, <1>4, <2>1 DEF Active, ActiveJob
  <2> QED BY <1>1, <2>1, <2>2 DEF JobsInv
<1>9. WaitsInv'
  <2> SUFFICES ASSUME NEW t \in Threads, pc[t] = "wait" PROVE WaitInv(t)'
    BY <1>2 DEF WaitsInv, WaitInv
  <2>1. CASE call[t].pair = p
    <3>1. WaitInv(t) BY <1>1 DEF WaitsInv
    <3>2. /\ wlc[p].published <= wlc[p].queued /\ wlc[p].published \in Nat
          /\ wlc[p].queued \in Nat /\ call[t].value \in Nat
      BY <1>1, <1>3, PairParts, ThreadParts DEF PairInv
    <3>3. fatal_error \/ (wlc[p].queued >= call[t].value /\ launched[call[t].job] = 1)
      BY <1>2, <1>3, <2>1, <3>1, <3>2 DEF WaitInv
    <3> QED BY <1>2, <1>5, <2>1, <3>3 DEF WaitInv
  <2>2. CASE call[t].pair # p BY <1>2, <1>4, <1>5, <2>2, WaitElsewhere DEF staticVars
  <2> QED BY <2>1, <2>2
<1>10. Busy(p) BY <1>2 DEF Busy
<1> QED BY <1>2, <1>4, <1>5, <1>6, <1>7, <1>8, <1>9, <1>10, GpuStep DEF staticVars

\* The LCIC channel primes the pair again, and then says so.
LEMMA LcicPrimeInv == ASSUME Inv, NEW p \in Pairs, LcicPrime(p) PROVE Inv'
<1>1. TypeOK /\ PairsInv /\ JobsInv /\ WaitsInv BY DEF Inv
<1>2. /\ gpu[p].phase = "prime"
      /\ gpu' = [gpu EXCEPT ![p].phase = "publish", ![p].primed = @ + 2]
      /\ UNCHANGED <<poolVars, rotationVars, wlc, lcic, staticVars, launched, fatal_error, jobs,
                     pc, call>>
  BY DEF LcicPrime
<1>3. PairInv(p) /\ gpu[p].primed = 0 /\ ~doorbell[p] BY <1>1, <1>2 DEF PairsInv, PairInv
<1>4. /\ gpu'[p].phase = "publish" /\ gpu'[p].primed = 2 /\ gpu'[p].run_pb = gpu[p].run_pb
      /\ \A q \in Pairs \ {p} : gpu'[q] = gpu[q]
  BY <1>1, <1>2, <1>3, PairParts DEF TypeOK
<1>5. TypeOK'
  <2>1. gpu' \in [Pairs -> [phase : Phases, primed : 0 .. 2, run_pb : Encrypted]]
    <3>1. "publish" \in Phases /\ gpu[p].primed + 2 \in 0 .. 2 BY <1>3 DEF Phases
    <3> QED BY <1>1, <1>2, <3>1, GpuTyped
  <2> QED BY <1>1, <1>2, <2>1 DEF TypeOK, poolVars, rotationVars, staticVars
<1>6. PairInv(p)' BY <1>2, <1>3, <1>4 DEF PairInv, Busy, poolVars, rotationVars, staticVars
<1>7. JobsInv'
  <2>1. /\ gpu[p].phase = "prime"
        /\ UNCHANGED <<doorbell, static_pb, launched, jobs, pc, call>>
    BY <1>2 DEF staticVars
  <2>2. \A q \in Pairs : (Active(q)' <=> Active(q)) /\ (Active(q) => ActiveJob(q)' = ActiveJob(q))
    BY <1>3, <1>4, <2>1 DEF Active, ActiveJob
  <2> QED BY <1>1, <2>1, <2>2 DEF JobsInv
<1>8. WaitsInv'
  <2> SUFFICES ASSUME NEW t \in Threads PROVE WaitInv(t)' BY DEF WaitsInv
  <2>1. CASE call[t].pair = p
    <3>1. WaitInv(t) BY <1>1 DEF WaitsInv
    <3> QED BY <1>2, <1>3, <2>1, <3>1 DEF WaitInv
  <2>2. CASE call[t].pair # p BY <1>2, <1>4, <2>2, WaitElsewhere DEF staticVars
  <2> QED BY <2>1, <2>2
<1> QED BY <1>2, <1>4, <1>5, <1>6, <1>7, <1>8, GpuStep DEF staticVars

LEMMA LcicPublishInv == ASSUME Inv, NEW p \in Pairs, LcicPublish(p) PROVE Inv'
<1>1. TypeOK /\ PairsInv /\ JobsInv /\ WaitsInv BY DEF Inv
<1>2. /\ gpu[p].phase = "publish"
      /\ lcic' = [lcic EXCEPT ![p].published = @ + 1, ![p].key = key_version]
      /\ gpu' = [gpu EXCEPT ![p].phase = "idle"]
      /\ UNCHANGED <<poolVars, rotationVars, wlc, staticVars, launched, fatal_error, jobs, pc,
                     call>>
  BY DEF LcicPublish
<1>3. PairInv(p) /\ ~doorbell[p] BY <1>1, <1>2 DEF PairsInv, PairInv
<1>4. /\ gpu'[p].phase = "idle" /\ gpu'[p].primed = gpu[p].primed
      /\ gpu'[p].run_pb = gpu[p].run_pb
      /\ \A q \in Pairs \ {p} : gpu'[q] = gpu[q]
  BY <1>1, <1>2, PairParts DEF TypeOK
<1>5. /\ lcic'[p].queued = lcic[p].queued /\ lcic'[p].completed = lcic[p].completed
      /\ lcic'[p].published = lcic[p].published + 1 /\ lcic'[p].key = key_version
      /\ \A q \in Pairs \ {p} : lcic'[q] = lcic[q]
  BY <1>1, <1>2, PairParts DEF TypeOK, Semaphores
<1>6. TypeOK'
  <2>1. gpu' \in [Pairs -> [phase : Phases, primed : 0 .. 2, run_pb : Encrypted]]
    <3>1. [gpu[p] EXCEPT !.phase = "idle"]
             \in [phase : Phases, primed : 0 .. 2, run_pb : Encrypted]
      BY <1>1, PairParts DEF Phases
    <3> QED BY <1>1, <1>2, <3>1 DEF TypeOK
  <2>2. lcic' \in [Pairs -> Semaphores]
    <3>1. lcic \in [Pairs -> Semaphores] /\ lcic[p] \in Semaphores
      BY <1>1, PairParts DEF TypeOK
    <3>2. lcic[p].published + 1 \in Nat /\ key_version \in Nat BY <1>1, PairParts DEF TypeOK
    <3> QED BY <1>2, <3>1, <3>2 DEF Semaphores
  <2> QED BY <1>1, <1>2, <2>1, <2>2 DEF TypeOK, poolVars, rotationVars, staticVars
<1>7. PairInv(p)'
  <2>1. lcic[p].queued = lcic[p].published + 1 BY <1>2, <1>3 DEF PairInv
  <2>2. lcic'[p].queued = lcic'[p].published + 0 BY <1>1, <1>5, <2>1, PairParts
  <2> QED BY <1>2, <1>3, <1>4, <1>5, <2>2 DEF PairInv, Busy, poolVars, rotationVars, staticVars
<1>8. JobsInv'
  <2>1. UNCHANGED <<doorbell, static_pb, launched, jobs, pc, call>> BY <1>2 DEF staticVars
  <2>2. \A q \in Pairs : (Active(q)' <=> Active(q)) /\ (Active(q) => ActiveJob(q)' = ActiveJob(q))
    BY <1>2, <1>3, <1>4, <2>1 DEF Active, ActiveJob
  <2> QED BY <1>1, <2>1, <2>2 DEF JobsInv
<1>9. WaitsInv'
  <2> SUFFICES ASSUME NEW t \in Threads PROVE WaitInv(t)' BY DEF WaitsInv
  <2>1. CASE call[t].pair = p
    <3>1. WaitInv(t) BY <1>1 DEF WaitsInv
    <3> QED BY <1>2, <1>3, <2>1, <3>1 DEF WaitInv
  <2>2. CASE call[t].pair # p BY <1>2, <1>4, <2>2, WaitElsewhere DEF staticVars
  <2> QED BY <2>1, <2>2
<1> QED BY <1>2, <1>4, <1>5, <1>6, <1>7, <1>8, <1>9, GpuStep DEF staticVars

-----------------------------------------------------------------------------
(* The theorems.                                                           *)

LEMMA StepInv == ASSUME Inv, NEW t \in Threads, Step(t) PROVE Inv'
<1>1. CASE RotateLock(t) BY <1>1, RotateLockInv
<1>2. CASE RotateReserve(t) BY <1>2, RotateReserveInv
<1>3. CASE RotateWait(t) BY <1>3, RotateWaitInv
<1>4. CASE RotateWaitFails(t) BY <1>4, RotateWaitFailsInv
<1>5. CASE RotateKey(t) BY <1>5, RotateKeyInv
<1>6. CASE Down(t) BY <1>6, DownInv
<1>7. CASE \E p \in Pairs : Claim(t, p) \/ SpinUpdate(t, p) BY <1>7, ClaimInv, SpinUpdateInv
<1>8. CASE ReleaseLaunchChannel(t) BY <1>8, ReleaseLaunchChannelInv
<1>9. CASE Launch(t) BY <1>9, LaunchInv
<1>10. CASE EndPush(t) BY <1>10, EndPushInv
<1>11. CASE WaitLcic(t) BY <1>11, WaitLcicInv
<1>12. CASE WaitLcicFails(t) BY <1>12, WaitLcicFailsInv
<1>13. CASE Submit(t) BY <1>13, SubmitInv
<1>14. CASE Wait(t) BY <1>14, WaitInvStep
<1>15. CASE WaitFails(t) BY <1>15, WaitFailsInv
<1> QED BY <1>1, <1>2, <1>3, <1>4, <1>5, <1>6, <1>7, <1>8, <1>9, <1>10, <1>11, <1>12, <1>13,
           <1>14, <1>15 DEF Step

LEMMA NextInv == Inv /\ [Next]_vars => Inv'
<1> SUFFICES ASSUME Inv, [Next]_vars PROVE Inv' OBVIOUS
<1>1. ASSUME NEW t \in Threads, StartLaunch(t) PROVE Inv' BY <1>1, StartLaunchInv
<1>2. ASSUME NEW t \in Threads, StartRotate(t) PROVE Inv' BY <1>2, StartRotateInv
<1>3. ASSUME NEW t \in Threads, Step(t) PROVE Inv' BY <1>3, StepInv
<1>4. ASSUME NEW p \in Pairs, Gpu(p) PROVE Inv'
  BY <1>4, GpuDecryptInv, GpuRunInv, GpuReleaseInv, LcicPrimeInv, LcicPublishInv DEF Gpu
<1>5. CASE RequestRotation
  BY <1>5, RequestRotationInv DEF RequestRotation
<1>6. CASE UNCHANGED vars
  <2>1. rotation_pending' \in BOOLEAN BY <1>6 DEF Inv, TypeOK, vars, rotationVars
  <2> QED BY <1>6, <2>1, RequestRotationInv DEF vars, rotationVars
<1> QED BY <1>1, <1>2, <1>3, <1>4, <1>5, <1>6 DEF Next

LEMMA InvAlways == Spec => []Inv
BY InitInv, NextInv, PTL DEF Spec

\* The doorbell of a WLC channel only rings while the pair is idle and primed with
\* its two entries, for every number of threads and pairs
\* (internal_channel_submit_work_wlc()).
THEOREM DoorbellCorrect == Spec => []PrimedAtDoorbell
<1>1. Inv => PrimedAtDoorbell BY DEF Inv, PairsInv, PairInv, PrimedAtDoorbell
<1> QED BY <1>1, InvAlways, PTL

\* What the GPU decrypts to launch a push, and what the CPU decrypts of an LCIC
\* channel, was encrypted with the current key and is still in place
\* (channel_pool_rotate_key_locked(), internal_channel_submit_work_wlc()).
THEOREM KeysCorrect == Spec => []KeysMatch
<1>1. Inv => KeysMatch
  BY DEF Inv, PairsInv, PairInv, KeysMatch, LaunchIntact, LcicKeyMatches
<1> QED BY <1>1, InvAlways, PTL

\* Who gets past the wait of an indirect launch has had its push started on the GPU,
\* exactly once, or a fatal error was raised
\* (internal_channel_submit_work_indirect_wlc()).
THEOREM LaunchCorrect == Spec => LaunchedWhenAwaited
<1>1. ASSUME Inv, [Next]_vars, NEW t \in Threads, pc[t] = "wait", pc'[t] = "idle"
      PROVE  launched[call[t].job] = 1 \/ fatal_error'
  <2>1. TypeOK BY <1>1 DEF Inv
  <2>2. CASE Wait(t)
    <3>1. fatal_error' = fatal_error BY <2>2 DEF Wait
    <3> QED BY <1>1, <2>2, <3>1, WaitInvStep
  <2>3. CASE WaitFails(t) BY <2>3 DEF WaitFails
  <2>4. ASSUME NEW u \in Threads, u # t, StartLaunch(u) \/ StartRotate(u) \/ Step(u)
        PROVE  pc'[t] = pc[t]
    <3>1. \/ pc' = pc \/ \E state \in PcStates : pc' = [pc EXCEPT ![u] = state]
      BY <2>4 DEF StartLaunch, StartRotate, Step, RotateLock, RotateReserve, RotateWait,
           RotateWaitFails, RotateKey, Down, Claim, SpinUpdate, ReleaseLaunchChannel, Launch,
           EndPush, WaitLcic, WaitLcicFails, Submit, Unlock, Wait, WaitFails, AfterRotation,
           Return, Goto, PcStates
    <3> QED BY <1>1, <2>1, <2>4, <3>1 DEF TypeOK
  <2>5. CASE StartLaunch(t) \/ StartRotate(t) BY <1>1, <2>5 DEF StartLaunch, StartRotate
  <2>6. CASE Step(t)
    BY <1>1, <2>2, <2>3, <2>6 DEF Step, RotateLock, RotateReserve, RotateWait, RotateWaitFails,
       RotateKey, Down, Claim, SpinUpdate, ReleaseLaunchChannel, Launch, EndPush, WaitLcic,
       WaitLcicFails, Submit
  <2>7. ASSUME NEW p \in Pairs, Gpu(p) PROVE pc' = pc
    BY <2>7 DEF Gpu, GpuDecrypt, GpuRun, GpuRelease, LcicPrime, LcicPublish
  <2>8. CASE RequestRotation \/ UNCHANGED vars BY <1>1, <2>8 DEF RequestRotation, vars
  <2> QED BY <1>1, <2>4, <2>5, <2>6, <2>7, <2>8 DEF Next
<1>2. Inv /\ [Next]_vars =>
        \A t \in Threads : pc[t] = "wait" /\ pc'[t] = "idle" =>
           launched[call[t].job] = 1 \/ fatal_error'
  BY <1>1
<1> QED BY <1>2, InvAlways, PTL DEF Spec, LaunchedWhenAwaited
=============================================================================
